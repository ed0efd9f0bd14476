---------------------------- MODULE ChildProcess ----------------------------
(***************************************************************************)
(* A command run as a child process, with a time limit and an output       *)
(* limit.  Three runners do it, each in its own way: bash_execute_safe     *)
(* ("bash"), run_subprocess_capture ("capture") and the steps of           *)
(* run_build_script_sequence ("build").                                    *)
(*                                                                         *)
(* The child may leave a helper process in the background.  Both hold the  *)
(* write ends of the two pipes until they close them or end.  Output is    *)
(* counted in chunks of what one read returns.                             *)
(***************************************************************************)
EXTENDS Naturals

CONSTANTS
  Kinds,       \* the runners considered
  Limit,       \* chunks of a stream that are accepted (max_out, max_err)
  PipeSize,    \* chunks a pipe holds before its writers block
  MaxSteps,    \* bound: build.sh subcommands in a sequence
  PollFails    \* whether poll may fail

ASSUME RunnersAssumption ==
  /\ Kinds \subseteq {"bash", "capture", "build"} /\ PollFails \in BOOLEAN
  /\ Limit \in Nat /\ PipeSize \in Nat \ {0} /\ MaxSteps \in Nat \ {0}

Streams == {"out", "err"}

VARIABLES
  kind,     \* the runner
  child,    \* the child process and its exit status
  helper,   \* the process it left in the background
  holders,  \* who holds the write end of each pipe
  piped,    \* chunks in each pipe
  expired,  \* whether the deadline has passed
  pc,       \* where the runner is
  parent,   \* what the runner knows
  steps     \* subcommands still to run, the present one included

vars == <<kind, child, helper, holders, piped, expired, pc, parent, steps>>

outside == <<child, helper, holders, piped, expired>>

-----------------------------------------------------------------------------
(* Forking a child *)

\* grouped: setpgid() in the child has taken effect.
NewChild == [state |-> "running", exit |-> "none", grouped |-> FALSE]

\* open: streams without end-of-file so far.  todo: streams poll reported.
\* active: build read something in this round (saw_activity).
\* missed: killpg found no group.  killed: the command has been signalled.
\* stray: a signal was sent to a process that is not the runner's any more.
NewParent ==
  [open |-> Streams, todo |-> {}, got |-> [s \in Streams |-> 0],
   active |-> FALSE, reaped |-> FALSE, missed |-> FALSE, killed |-> FALSE,
   timedOut |-> FALSE, pollFailed |-> FALSE, ok |-> FALSE, stray |-> FALSE]

\* Mutant: every runner reaps the child as soon as it can.
ReapFirst(k) == "reap"

FirstStep(k) == IF k = "build" THEN "reap" ELSE "deadline"

Init ==
  /\ kind \in Kinds
  /\ child = NewChild /\ helper = "none"
  /\ holders = [s \in Streams |-> {"child"}]
  /\ piped = [s \in Streams |-> 0]
  /\ expired = FALSE
  /\ pc = FirstStep(kind)
  /\ parent = NewParent
  /\ steps \in IF kind = "build" THEN 1..MaxSteps ELSE {1}

-----------------------------------------------------------------------------
(* What the child, its helper and the clock do *)

Alive(who) ==
  IF who = "child" THEN child.state = "running"
  ELSE helper \in {"grouped", "detached"}

Inside == UNCHANGED <<kind, pc, parent, steps>>

SetGroup ==
  /\ child.state = "running" /\ ~child.grouped
  /\ child' = [child EXCEPT !.grouped = TRUE]
  /\ UNCHANGED <<helper, holders, piped, expired>> /\ Inside

Write(s) ==
  /\ \E who \in holders[s] : Alive(who)
  /\ child.grouped /\ piped[s] < PipeSize
  /\ piped' = [piped EXCEPT ![s] = @ + 1]
  /\ UNCHANGED <<child, helper, holders, expired>> /\ Inside

CloseStream(who, s) ==
  /\ who \in holders[s] /\ child.grouped
  /\ holders' = [holders EXCEPT ![s] = @ \ {who}]
  /\ UNCHANGED <<child, helper, piped, expired>> /\ Inside

LeaveHelper ==
  /\ child.state = "running" /\ child.grouped /\ helper = "none"
  /\ helper' \in {"grouped", "detached"}
  /\ holders' = [s \in Streams |-> IF "child" \in holders[s]
                                   THEN {"child", "helper"} ELSE holders[s]]
  /\ UNCHANGED <<child, piped, expired>> /\ Inside

Without(who) == [s \in Streams |-> holders[s] \ {who}]

ChildExits ==
  /\ child.state = "running" /\ child.grouped
  /\ \E code \in {"zero", "nonzero"} :
       child' = [child EXCEPT !.state = "zombie", !.exit = code]
  /\ holders' = Without("child")
  /\ UNCHANGED <<helper, piped, expired>> /\ Inside

HelperExits ==
  /\ Alive("helper")
  /\ helper' = "gone"
  /\ holders' = Without("helper")
  /\ UNCHANGED <<child, piped, expired>> /\ Inside

Expire ==
  /\ ~expired
  /\ expired' = TRUE
  /\ UNCHANGED <<child, helper, holders, piped>> /\ Inside

-----------------------------------------------------------------------------
(* Signals *)

ChildDies ==
  child' = IF child.state = "running"
           THEN [child EXCEPT !.state = "zombie", !.exit = "signal"] ELSE child

GroupExists ==
  \/ child.state # "reaped" /\ child.grouped
  \/ helper = "grouped"

\* Mutant: only the child is killed.
KillChildOnly ==
  /\ ChildDies
  /\ holders' = Without("child")
  /\ UNCHANGED helper

\* killpg(pid): everything in the group, at once.
KillGroup ==
  /\ ChildDies
  /\ helper' = IF helper = "grouped" THEN "gone" ELSE helper
  /\ holders' = [s \in Streams |->
                   {w \in holders[s] : w = "helper" /\ helper # "grouped"}]

\* A signal to the number of a child that was reaped finds the group it left,
\* or nobody who is the runner's.
Strayed == child.state = "reaped" /\ ~GroupExists

\* The first of two system calls: killpg ends the command, or finds no group
\* and kill has to follow.  known: what the runner knows from here on.
Kill(known) ==
  IF GroupExists
  THEN /\ KillGroup
       /\ pc' = "finish"
       /\ parent' = [known EXCEPT !.killed = TRUE]
  ELSE /\ UNCHANGED <<child, helper, holders>>
       /\ pc' = "fallback"
       /\ parent' = [known EXCEPT !.missed = TRUE, !.stray = Strayed]

\* Mutant: nothing is done about a child that was not in its group yet.
FallBackOnNothing ==
  /\ pc = "fallback"
  /\ pc' = "finish"
  /\ parent' = [parent EXCEPT !.killed = TRUE]
  /\ UNCHANGED <<kind, child, helper, holders, piped, expired, steps>>

\* The second one: kill(pid).  By now the child may have its group, and
\* somebody in it whom this signal does not reach.
FallBack ==
  /\ pc = "fallback"
  /\ ChildDies
  /\ holders' = IF child.state = "running" THEN Without("child") ELSE holders
  /\ pc' = "finish"
  /\ parent' = [parent EXCEPT !.killed = TRUE,
                  !.stray = @ \/ child.state = "reaped"]
  /\ UNCHANGED <<kind, helper, piped, expired, steps>>

-----------------------------------------------------------------------------
(* The runner *)

\* build: waitpid(WNOHANG) at the top of each round.
TryReap ==
  /\ pc = "reap"
  /\ child' = IF child.state = "zombie" THEN [child EXCEPT !.state = "reaped"]
              ELSE child
  /\ parent' = [parent EXCEPT !.reaped = child.state # "running"]
  /\ pc' = "deadline"
  /\ UNCHANGED <<kind, helper, holders, piped, expired, steps>>

\* The deadline is looked at before every poll.
TimeOut ==
  /\ pc = "deadline" /\ expired
  /\ Kill([parent EXCEPT !.timedOut = TRUE])
  /\ UNCHANGED <<kind, piped, expired, steps>>

InTime ==
  /\ pc = "deadline" /\ ~expired
  /\ pc' = CASE parent.open # {} -> "poll"
             [] parent.open = {} /\ parent.reaped -> "finish"
             [] OTHER -> "reap"
  /\ UNCHANGED <<kind, parent, steps>> /\ UNCHANGED outside

Ready == {s \in parent.open : piped[s] > 0 \/ holders[s] = {}}

\* poll returns with streams to read or when the deadline passes.
Poll ==
  /\ pc = "poll"
  /\ \/ Ready # {} /\ pc' = "read"
        /\ parent' = [parent EXCEPT !.todo = Ready, !.active = FALSE]
     \/ Ready = {} /\ expired /\ pc' = FirstStep(kind) /\ UNCHANGED parent
  /\ UNCHANGED <<kind, steps>> /\ UNCHANGED outside

\* build kills the child then; the others stop reading and wait for it.
PollError ==
  /\ pc = "poll" /\ PollFails
  /\ IF kind = "build"
     THEN Kill([parent EXCEPT !.pollFailed = TRUE])
     ELSE /\ parent' = [parent EXCEPT !.pollFailed = TRUE]
          /\ pc' = "finish"
          /\ UNCHANGED <<child, helper, holders>>
  /\ UNCHANGED <<kind, piped, expired, steps>>

\* The streams are read in this order.
FirstOf(todo) == IF "out" \in todo THEN "out" ELSE "err"

\* Where the round goes when the streams in todo remain to be read.
Continue(todo, open) ==
  CASE todo # {} -> "read"
    [] todo = {} /\ open = {}
         /\ (kind = "build" => parent.reaped /\ ~parent.active) -> "finish"
    [] OTHER -> FirstStep(kind)

\* Mutant: the chunks are compared with the limit before they are counted.
OverLimitLate(s) == parent.got[s] > Limit

OverLimit(s) == parent.got[s] + 1 > Limit

\* One chunk; bash and capture read once per round and enforce the limit,
\* build reads until the pipe is empty and keeps the tail.
ReadChunk ==
  /\ pc = "read"
  /\ \E s \in {FirstOf(parent.todo)} :
       /\ piped[s] > 0
       /\ piped' = [piped EXCEPT ![s] = @ - 1]
       /\ IF kind = "build"
          THEN /\ parent' = [parent EXCEPT !.active = TRUE]
               /\ UNCHANGED <<pc, child, helper, holders>>
          ELSE IF OverLimit(s)
          THEN Kill([parent EXCEPT !.got[s] = @ + 1])
          ELSE /\ parent' = [parent EXCEPT !.got[s] = @ + 1,
                                           !.todo = @ \ {s}]
               /\ pc' = Continue(parent'.todo, parent.open)
               /\ UNCHANGED <<child, helper, holders>>
  /\ UNCHANGED <<kind, expired, steps>>

\* Mutant: the end of one stream is taken for the end of the output.
ReadEndTwice ==
  /\ pc = "read"
  /\ \E s \in {FirstOf(parent.todo)} :
       /\ piped[s] = 0
       /\ parent' = [parent EXCEPT !.todo = @ \ {s},
                       !.open = IF holders[s] = {} THEN {} ELSE @]
       /\ pc' = Continue(parent'.todo, parent'.open)
  /\ UNCHANGED <<kind, steps>> /\ UNCHANGED outside

\* End of file, or for build an empty pipe whose writers are still there.
ReadEnd ==
  /\ pc = "read"
  /\ \E s \in {FirstOf(parent.todo)} :
       /\ piped[s] = 0
       /\ parent' = [parent EXCEPT !.todo = @ \ {s},
                       !.open = IF holders[s] = {} THEN @ \ {s} ELSE @]
       /\ pc' = Continue(parent'.todo, parent'.open)
  /\ UNCHANGED <<kind, steps>> /\ UNCHANGED outside

Succeeded(exit) ==
  exit = "zero" /\ ~parent.killed
  /\ (kind = "build" => ~parent.pollFailed)

\* What helpers of earlier steps still do is not followed any further.
StartNextStep ==
  /\ child' = NewChild /\ helper' = "none"
  /\ holders' = [s \in Streams |-> {"child"}]
  /\ piped' = [s \in Streams |-> 0]
  /\ parent' = NewParent
  /\ pc' = FirstStep(kind)
  /\ steps' = steps - 1
  /\ UNCHANGED <<kind, expired>>

Return ==
  /\ pc' = "returned"
  /\ parent' = [parent EXCEPT !.reaped = TRUE, !.ok = Succeeded(child.exit)]
  /\ child' = [child EXCEPT !.state = "reaped"]
  /\ UNCHANGED <<kind, helper, holders, piped, expired, steps>>

\* Mutant: a child that was killed is not waited for.
FinishWithoutWaiting ==
  /\ pc = "finish"
  /\ IF parent.killed
     THEN /\ pc' = "returned"
          /\ UNCHANGED <<kind, parent, steps>> /\ UNCHANGED outside
     ELSE /\ child.state \in {"zombie", "reaped"}
          /\ Return

\* The pipes are closed and the child is waited for, for as long as it takes,
\* unless it was reaped before.  A sequence goes on while its steps succeed.
Finish ==
  /\ pc = "finish"
  /\ child.state \in {"zombie", "reaped"}
  /\ IF Succeeded(child.exit) /\ steps > 1 THEN StartNextStep ELSE Return

Rest == pc = "returned" /\ UNCHANGED vars

Runner ==
  \/ TryReap \/ TimeOut \/ InTime \/ Poll \/ PollError
  \/ FallBack \/ ReadChunk \/ ReadEnd \/ Finish

Writes == \E s \in Streams : Write(s)

World ==
  \/ SetGroup \/ Writes \/ LeaveHelper \/ ChildExits \/ HelperExits \/ Expire
  \/ \E who \in {"child", "helper"}, s \in Streams : CloseStream(who, s)

Next == (pc # "returned" /\ World) \/ Runner \/ Rest

Spec == Init /\ [][Next]_vars

\* The runner is a process that is scheduled, and time passes; nothing is
\* assumed of the command.
FairSpec == Spec /\ WF_vars(Runner) /\ WF_vars(pc # "returned" /\ Expire)

-----------------------------------------------------------------------------
(* Properties *)

\* Every variable has its type; of a stream at most one chunk is taken in
\* beyond the output limit.
TypeOK ==
  /\ kind \in Kinds
  /\ child \in [state : {"running", "zombie", "reaped"}, grouped : BOOLEAN,
                exit : {"none", "zero", "nonzero", "signal"}]
  /\ helper \in {"none", "grouped", "detached", "gone"}
  /\ holders \in [Streams -> SUBSET {"child", "helper"}]
  /\ piped \in [Streams -> 0..PipeSize]
  /\ expired \in BOOLEAN
  /\ pc \in {"reap", "deadline", "poll", "read", "fallback", "finish",
            "returned"}
  /\ parent \in [open : SUBSET Streams, todo : SUBSET Streams,
                 got : [Streams -> 0..Limit + 1], active : BOOLEAN,
                 reaped : BOOLEAN, missed : BOOLEAN, killed : BOOLEAN,
                 timedOut : BOOLEAN, pollFailed : BOOLEAN, ok : BOOLEAN,
                 stray : BOOLEAN]
  /\ steps \in 1..MaxSteps

\* No runner leaves a zombie behind, and none counts a child as reaped that
\* is not: what it reports is the status of a process that has ended.
NoZombie ==
  /\ pc = "returned" => child.state = "reaped" /\ child.exit # "none"
  /\ parent.reaped => child.state = "reaped"

\* A command that was cut off by a limit is gone, however early the signal came,
\* and so is every background process that stayed in its group; with the one
\* exception that there was no group yet when killpg looked for it: until kill
\* reaches the child alone, it can enter its group and leave a process there.
KilledMeansGone ==
  parent.killed =>
    /\ child.state # "running"
    /\ helper = "grouped" => parent.missed

\* bash and capture never signal a process number that the child has given up
\* (build may: it reaps the child first, and a helper that left the group can
\* keep a pipe open until the deadline).
SignalsStayHome == parent.stray => kind = "build"

\* Success is reported only of a command that exited with status zero on its
\* own, and whose output was read to the end (unless poll failed, when bash
\* and capture report success with what they have).
OkIsHonest ==
  pc = "returned" /\ parent.ok =>
    /\ child.exit = "zero" /\ ~parent.killed
    /\ parent.pollFailed \/ \A s \in Streams : piped[s] = 0 /\ holders[s] = {}

\* A command that holds a pipe until it exits and does not write for ever.
Polite ==
  /\ [](child.state = "running" => \E s \in Streams : "child" \in holders[s])
  /\ <>[][~Writes]_vars

\* Every runner returns from a polite command, whatever helpers it leaves and
\* even if it never exits: the deadline cuts it off.
Returns == Polite /\ [](~parent.pollFailed) => <>(pc = "returned")

\* The limit holds for every command, polite or not: "Global ceiling limit
\* timer for process execution" (bash_tool.hpp).
CeilingHolds == expired ~> pc = "returned"

=============================================================================
