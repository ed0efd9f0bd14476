------------------------------- MODULE GitCommit -------------------------------
(***************************************************************************)
(* The tools git_add and git_commit.  A commit is a sequence of separate   *)
(* git commands: what is staged is listed and must lie in the workspace,   *)
(* HEAD and its reflog are read, git commit is run, and both are read      *)
(* again to tell which commit it made.  Between any two of them, and while *)
(* git commit runs, anyone else may stage, commit, reset or expire the     *)
(* reflog; git itself and those others are modelled from how the tools use *)
(* them.                                                                   *)
(***************************************************************************)
EXTENDS Naturals, Sequences

CONSTANTS
  Inside,      \* paths of the repository in the workspace
  Outside,     \* the others
  Prefixes,    \* which workspaces: "" (all of the repository) or "sub"
  MaxCommits,  \* bound: commits ever made
  MaxReflog    \* bound: entries of the reflog

ASSUME PathsAssumption == Inside \cap Outside = {}

ASSUME PrefixesAssumption == Prefixes \subseteq {"", "sub"}

ASSUME BoundsAssumption == MaxCommits \in Nat /\ MaxReflog \in Nat

VARIABLES
  prefix,   \* workspace_prefix: where in the repository the workspace is
  logs,     \* whether the repository keeps a reflog
  commits,  \* the parent of every commit ever made, 0: none; they are numbers
  head,     \* the commit HEAD is at, 0: none yet
  reflog,   \* where HEAD was, the newest first
  staged,   \* paths the index has changed
  pc,       \* the next command of git_commit; "idle" when there is no call
  call,     \* the local variables of git_commit
  answer    \* what the last git_commit answered: [ok, sha]

repoVars == <<commits, head, reflog, staged>>

vars == <<prefix, logs, repoVars, pc, call, answer>>

Paths == Inside \cup Outside

\* starts_with_path_component: an empty prefix lets every path pass.
Allowed == IF prefix = "" THEN Paths ELSE Inside

\* Mutant: hooks always run.
HooksAlwaysRun == TRUE

\* In a workspace that is not the whole repository, its hooks are turned off.
HooksRun == prefix = ""

\* made: the commit this call made, 0: none, and the paths it has.  Three fields only record history:
\* whether others moved HEAD before the commit was made, reset it later or took
\* it out of the reflog (disturbed), staged something after the list was made
\* (restaged), and whether the call lost sight of git commit (unseen).
NoCall ==
  [headBefore |-> 0, logBefore |-> <<>>, headAfter |-> 0, logAfter |-> <<>>,
   made |-> 0, paths |-> {}, end |-> "none", disturbed |-> FALSE, restaged |-> FALSE,
   unseen |-> FALSE]

Init ==
  /\ prefix \in Prefixes /\ logs \in BOOLEAN
  /\ commits = <<>> /\ head = 0 /\ reflog = <<>> /\ staged = {}
  /\ pc = "idle" /\ call = NoCall
  /\ answer = [ok |-> FALSE, sha |-> 0]

-----------------------------------------------------------------------------
(* git *)

MoveHead(to) ==
  /\ head' = to
  /\ Len(reflog) < MaxReflog
  /\ reflog' = IF logs THEN <<to>> \o reflog ELSE reflog

\* A commit on top of HEAD.
NewCommit ==
  /\ Len(commits) < MaxCommits
  /\ commits' = Append(commits, head)
  /\ MoveHead(Len(commits) + 1)

\* The commits from the root to c, the oldest first.
History ==
  LET history[c \in 0..Len(commits)] ==
        IF c = 0 THEN <<>> ELSE Append(history[commits[c]], c)
  IN  history

\* rev-list --reverse --ancestry-path before..after; all of after's history
\* when there was no commit before.
AncestryPath(before, after) ==
  LET path == History[after]
      Later == {i \in DOMAIN path :
                  before = 0 \/ \E j \in 1..(i - 1) : path[j] = before}
  IN  IF Later = {} THEN <<>>
      ELSE SubSeq(path, CHOOSE i \in Later : \A j \in Later : i <= j, Len(path))

-----------------------------------------------------------------------------
(* Which commit was made *)

\* Mutant: the newest entry is taken.
NewestEntry(before, after) ==
  LET new == Len(after) - Len(before) IN
    IF new > 0 /\ SubSeq(after, new + 1, Len(after)) = before
    THEN after[1] ELSE 0

\* The oldest entry that is new, if the entries from before are still there.
FirstNewCommitFromReflog(before, after) ==
  LET new == Len(after) - Len(before) IN
    IF new > 0 /\ SubSeq(after, new + 1, Len(after)) = before
    THEN after[new] ELSE 0

FirstOf(path) == IF path = <<>> THEN 0 ELSE path[1]

ResolveCreatedCommit ==
  LET entry == FirstNewCommitFromReflog(call.logBefore, call.logAfter) IN
    IF entry # 0 THEN entry
    ELSE IF call.headAfter = 0 THEN 0
    ELSE FirstOf(AncestryPath(call.headBefore, call.headAfter))

-----------------------------------------------------------------------------
(* git_add *)

\* All path specifications are resolved before git runs; one that leaves the
\* workspace refuses the call.  git may fail with some of the paths added.
GitAdd ==
  /\ pc = "idle"
  /\ \E paths \in SUBSET Allowed : staged' = staged \cup paths
  /\ UNCHANGED <<prefix, logs, commits, head, reflog, pc, call, answer>>

-----------------------------------------------------------------------------
(* git_commit: before git commit is run *)

Return(ok, sha) ==
  /\ answer' = [ok |-> ok, sha |-> sha]
  /\ pc' = "done"

Inspects == UNCHANGED <<prefix, logs, repoVars>>

GitCommit ==
  /\ pc = "idle"
  /\ pc' = "list" /\ call' = NoCall
  /\ Inspects /\ UNCHANGED answer

\* No message, no git, no repository, or a command that only looks fails.
Fail ==
  /\ pc \in {"list", "head", "log"}
  /\ Return(FALSE, 0)
  /\ Inspects /\ UNCHANGED call

ListStagedPaths ==
  /\ pc = "list"
  /\ IF staged \subseteq Allowed
     THEN pc' = "head" /\ UNCHANGED answer
     ELSE Return(FALSE, 0)
  /\ Inspects /\ UNCHANGED call

ResolveHead ==
  /\ pc = "head"
  /\ call' = [call EXCEPT !.headBefore = head]
  /\ pc' = "log"
  /\ Inspects /\ UNCHANGED answer

ListReflog ==
  /\ pc = "log"
  /\ call' = [call EXCEPT !.logBefore = reflog]
  /\ pc' = "commit"
  /\ Inspects /\ UNCHANGED answer

-----------------------------------------------------------------------------
(* git_commit: git commit runs *)

\* A pre-commit hook may add to what is committed.
HookStages ==
  /\ pc = "commit" /\ HooksRun /\ call.made = 0
  /\ \E paths \in SUBSET Paths : staged' = staged \cup paths
  /\ UNCHANGED <<prefix, logs, commits, head, reflog, pc, call, answer>>

MakeCommit ==
  /\ pc = "commit" /\ call.made = 0 /\ staged # {}
  /\ NewCommit
  /\ staged' = {}
  /\ call' = [call EXCEPT !.made = Len(commits) + 1, !.paths = staged]
  /\ UNCHANGED <<prefix, logs, pc, answer>>

\* A post-commit hook may commit again.
HookCommits ==
  /\ pc = "commit" /\ HooksRun /\ call.made # 0
  /\ NewCommit
  /\ UNCHANGED <<prefix, logs, staged, pc, call, answer>>

\* git commit exits with 0 when it made a commit, with another code when it did
\* not (nothing is staged, a hook refuses); or it is killed, before or after,
\* because it wrote more than the limit.
EndCommit ==
  /\ pc = "commit"
  /\ \E end \in {"exit", "cut"} : call' = [call EXCEPT !.end = end]
  /\ pc' = "head2"
  /\ Inspects /\ UNCHANGED answer

\* The runner cannot read from it or wait for it: it may have run or not.
LoseCommit ==
  /\ pc = "commit"
  /\ call' = [call EXCEPT !.unseen = TRUE]
  /\ Return(FALSE, 0)
  /\ Inspects

-----------------------------------------------------------------------------
(* git_commit: afterwards *)

ResolveHeadAfter ==
  /\ pc = "head2"
  /\ call' = [call EXCEPT !.headAfter = head]
  /\ pc' = "log2"
  /\ Inspects /\ UNCHANGED answer

ListReflogAfter ==
  /\ pc = "log2"
  /\ call' = [call EXCEPT !.logAfter = reflog]
  /\ pc' = "judge"
  /\ Inspects /\ UNCHANGED answer

\* HEAD, the reflog or the path between the two HEADs cannot be read.
FailAfter ==
  /\ pc \in {"head2", "log2", "judge"}
  /\ call' = [call EXCEPT !.unseen = TRUE]
  /\ Return(FALSE, 0)
  /\ Inspects

\* A killed git commit succeeded if there is a new commit; one that exited
\* must have exited with 0 as well.
Judge ==
  /\ pc = "judge"
  /\ LET sha == ResolveCreatedCommit IN
       IF sha # 0 /\ (call.end = "cut" \/ call.made # 0)
       THEN Return(TRUE, sha)
       ELSE Return(FALSE, 0)
  /\ Inspects /\ UNCHANGED call

Finish ==
  /\ pc = "done"
  /\ pc' = "idle" /\ call' = NoCall
  /\ answer' = [ok |-> FALSE, sha |-> 0]
  /\ Inspects

-----------------------------------------------------------------------------
(* The others *)

Looked == pc \in {"log", "commit", "head2", "log2", "judge"}

Disturb(disturbed) == call' = [call EXCEPT !.disturbed = @ \/ disturbed]

\* (What they stage once git commit has ended is the next call's concern.)
OtherStages ==
  /\ pc \in {"idle", "list", "head", "log", "commit"}
  /\ \E path \in Paths \ staged : staged' = staged \cup {path}
  /\ call' = [call EXCEPT !.restaged = @ \/ (pc \notin {"idle", "list"})]
  /\ UNCHANGED <<prefix, logs, commits, head, reflog, pc, answer>>

\* They commit what is staged and whatever else they like.
OtherCommits ==
  /\ NewCommit
  /\ staged' = {}
  /\ Disturb(Looked /\ call.made = 0)
  /\ UNCHANGED <<prefix, logs, pc, answer>>

OtherResets ==
  /\ \E i \in DOMAIN History[head] : MoveHead(History[head][i])
  /\ staged' = {}
  /\ Disturb(Looked)
  /\ UNCHANGED <<prefix, logs, commits, pc, answer>>

\* The oldest entries of the reflog go, the one of this call's commit perhaps.
OtherExpires ==
  /\ \E n \in 0..(Len(reflog) - 1) : reflog' = SubSeq(reflog, 1, n)
  /\ Disturb(Looked /\ call.made # 0 /\ \A i \in DOMAIN reflog' :
                                         reflog'[i] # call.made)
  /\ UNCHANGED <<prefix, logs, commits, head, staged, pc, answer>>

Next ==
  \/ GitAdd \/ GitCommit \/ Fail \/ ListStagedPaths \/ ResolveHead \/ ListReflog
  \/ HookStages \/ MakeCommit \/ HookCommits \/ EndCommit \/ LoseCommit
  \/ ResolveHeadAfter \/ ListReflogAfter \/ FailAfter \/ Judge \/ Finish
  \/ OtherStages \/ OtherCommits \/ OtherResets \/ OtherExpires

Spec == Init /\ [][Next]_vars

-----------------------------------------------------------------------------
(* Properties *)

\* git_commit says what happened: as long as nobody else moves HEAD before its
\* commit is made, or resets it later, the commit it names is the one it made,
\* also when a hook or others commit on top of it, when older entries of the
\* reflog expire, and when there is no reflog; and it fails only if it made none
\* or lost sight of git.  Whatever others do, success names a commit.
AnswerIsTrue ==
  pc = "done" =>
    /\ IF answer.ok THEN answer.sha \in DOMAIN commits ELSE answer.sha = 0
    /\ ~call.disturbed =>
         IF answer.ok THEN answer.sha = call.made
         ELSE call.made = 0 \/ call.unseen

\* What git_commit commits lies in the workspace, unless others staged more
\* after it had looked.
CommitStaysInside ==
  ~call.restaged => call.paths \subseteq Allowed
=============================================================================
