---------------------------- MODULE GitCommitProofs ----------------------------
(***************************************************************************)
(* What git_commit commits lies in the workspace, and what it answers is   *)
(* true: for every set of paths, every history, and everything others do   *)
(* to the repository.                                                      *)
(***************************************************************************)
EXTENDS GitCommit, WellFoundedInduction, TLAPS

\* The fields of a call, whatever they hold.
IsCall(c) ==
  c = [headBefore |-> c.headBefore, logBefore |-> c.logBefore,
       headAfter |-> c.headAfter, logAfter |-> c.logAfter, made |-> c.made,
       paths |-> c.paths, end |-> c.end, disturbed |-> c.disturbed,
       restaged |-> c.restaged, unseen |-> c.unseen]

-----------------------------------------------------------------------------
(* What is committed *)

\* What is staged lies in the workspace from the look at it to the commit.
StagedStaysInside ==
  pc \in {"head", "log", "commit"} /\ ~call.restaged => staged \subseteq Allowed

StageInv ==
  /\ IsCall(call)
  /\ staged \subseteq Paths
  /\ StagedStaysInside
  /\ CommitStaysInside

\* A call that differs from the current one in fields the invariant does not
\* look at.
LooksLike(c) ==
  IsCall(c) /\ c.paths = call.paths /\ c.restaged = call.restaged

LEMMA OtherFields ==
  ASSUME IsCall(call), NEW x
  PROVE  /\ LooksLike([call EXCEPT !.headBefore = x])
         /\ LooksLike([call EXCEPT !.logBefore = x])
         /\ LooksLike([call EXCEPT !.headAfter = x])
         /\ LooksLike([call EXCEPT !.logAfter = x])
         /\ LooksLike([call EXCEPT !.end = x])
         /\ LooksLike([call EXCEPT !.disturbed = x])
         /\ LooksLike([call EXCEPT !.unseen = x])
BY DEF IsCall, LooksLike

\* A step that leaves the index and the two fields alone, and does not lead
\* into the span between the look at the index and the commit.
LEMMA QuietStep ==
  ASSUME StageInv, UNCHANGED <<prefix, staged>>, LooksLike(call'),
         pc' \in {"head", "log", "commit"} => pc \in {"head", "log", "commit"}
  PROVE  StageInv'
BY DEF LooksLike, StageInv, StagedStaysInside, CommitStaysInside, Allowed

LEMMA InitStageInv == Init => StageInv
BY DEF Init, NoCall, StageInv, IsCall, StagedStaysInside, CommitStaysInside

LEMMA NextStageInv == StageInv /\ [Next]_vars => StageInv'
<1> SUFFICES ASSUME StageInv, [Next]_vars PROVE StageInv'
  OBVIOUS
<1> USE DEF Inspects, repoVars, Return
<1>0. /\ IsCall(call) /\ LooksLike(call)
      /\ IsCall(NoCall) /\ NoCall.paths = {}
  BY DEF StageInv, IsCall, LooksLike, NoCall
<1>1. CASE GitAdd
  <2>1. staged' \subseteq Paths
    BY <1>1 DEF GitAdd, StageInv, Allowed, Paths
  <2> QED
    BY <1>1, <2>1
       DEF GitAdd, StageInv, StagedStaysInside, CommitStaysInside, Allowed
<1>2. CASE GitCommit \/ Finish
  BY <1>0, <1>2
     DEF GitCommit, Finish, StageInv, StagedStaysInside,
         CommitStaysInside
<1>3. CASE Fail
  BY <1>0, <1>3, QuietStep DEF Fail
<1>4. CASE ListStagedPaths
  BY <1>4 DEF ListStagedPaths, StageInv, StagedStaysInside, CommitStaysInside,
              Allowed
<1>5. CASE ResolveHead \/ ListReflog
  BY <1>0, <1>5, OtherFields, QuietStep DEF ResolveHead, ListReflog
<1>6. CASE HookStages
  <2>1. Allowed' = Paths /\ staged' \subseteq Paths
    BY <1>6 DEF HookStages, HooksRun, Allowed, StageInv
  <2> QED
    BY <1>6, <2>1
       DEF HookStages, StageInv, StagedStaysInside, CommitStaysInside, Allowed
<1>7. CASE MakeCommit
  <2>1. /\ IsCall(call') /\ call'.paths = staged
        /\ call'.restaged = call.restaged
    BY <1>0, <1>7 DEF MakeCommit, IsCall
  <2> QED
    BY <1>7, <2>1
       DEF MakeCommit, StageInv, StagedStaysInside, CommitStaysInside, Allowed
<1>8. CASE HookCommits
  BY <1>0, <1>8, QuietStep DEF HookCommits
<1>9. CASE EndCommit \/ LoseCommit
  BY <1>0, <1>9, OtherFields, QuietStep DEF EndCommit, LoseCommit
<1>10. CASE ResolveHeadAfter \/ ListReflogAfter \/ FailAfter \/ Judge
  BY <1>0, <1>10, OtherFields, QuietStep
     DEF ResolveHeadAfter, ListReflogAfter, FailAfter, Judge
<1>11. CASE OtherStages
  <2>1. /\ IsCall(call') /\ call'.paths = call.paths
        /\ call'.restaged = (call.restaged \/ (pc \notin {"idle", "list"}))
    BY <1>0, <1>11 DEF OtherStages, IsCall
  <2>2. staged' \subseteq Paths
    BY <1>11 DEF OtherStages, StageInv
  <2> QED
    BY <1>11, <2>1, <2>2
       DEF OtherStages, StageInv, StagedStaysInside, CommitStaysInside, Allowed
<1>12. CASE OtherCommits \/ OtherResets
  <2>1. LooksLike(call')
    BY <1>0, <1>12, OtherFields DEF OtherCommits, OtherResets, Disturb
  <2>2. staged' = {} /\ UNCHANGED <<prefix, pc>>
    BY <1>12 DEF OtherCommits, OtherResets
  <2> QED
    BY <2>1, <2>2
       DEF LooksLike, StageInv, StagedStaysInside, CommitStaysInside, Allowed
<1>13. CASE OtherExpires
  BY <1>0, <1>13, OtherFields, QuietStep DEF OtherExpires, Disturb
<1>14. CASE UNCHANGED vars
  BY <1>0, <1>14, QuietStep DEF vars
<1> QED
  BY <1>1, <1>2, <1>3, <1>4, <1>5, <1>6, <1>7, <1>8, <1>9, <1>10, <1>11, <1>12,
     <1>13, <1>14 DEF Next

\* A commit git_commit makes holds no path outside the workspace, unless others
\* staged one between its look at the index and the commit: the hooks, which
\* could, are turned off wherever there is an outside.
THEOREM CommitsStayInside == Spec => []CommitStaysInside
<1>1. StageInv => CommitStaysInside
  BY DEF StageInv
<1> QED
  BY <1>1, InitStageInv, NextStageInv, PTL DEF Spec

-----------------------------------------------------------------------------
(* Induction over the numbers below a bound, for a set given as one. *)

Less == {p \in Nat \X Nat : p[1] < p[2]}

LEMMA LessIsWellFounded == IsWellFoundedOn(Less, Nat)
<1>1. OpToRel(<, Nat) = Less
  BY DEF OpToRel, Less
<1> QED
  BY <1>1, NatLessThanWellFounded

\* A set that has n when it has everything below n has every number.
LEMMA SetInduction ==
  ASSUME NEW S, \A n \in Nat : (\A m \in 0..n - 1 : m \in S) => n \in S
  PROVE  Nat \subseteq S
<1> DEFINE T == Nat \ S
<1> SUFFICES ASSUME T # {} PROVE FALSE
  OBVIOUS
<1>1. PICK x \in T : \A y \in T : ~(<<y, x>> \in Less)
  <2>1. T \subseteq Nat
    OBVIOUS
  <2> HIDE DEF T
  <2> QED
    BY <2>1, LessIsWellFounded, WFMin
<1>2. x \in Nat /\ x \notin S /\ \A y \in Nat : y < x => y \in S
  BY <1>1 DEF Less
<1>3. \A m \in 0..x - 1 : m \in Nat /\ m < x
  BY <1>2
<1> QED
  BY <1>2, <1>3

-----------------------------------------------------------------------------
(* The history of a commit *)

\* Every commit has an older parent, or none.
Lineage ==
  /\ commits \in Seq(Nat) /\ Len(commits) \in Nat
  /\ \A c \in 1..Len(commits) : commits[c] < c

\* h gives the histories of the commits up to k.
Tells(h, k) ==
  h = [c \in 0..k |-> IF c = 0 THEN <<>> ELSE Append(h[commits[c]], c)]

LEMMA SomethingTells ==
  ASSUME Lineage
  PROVE  \A k \in 0..Len(commits) : \E h : Tells(h, k)
<1> DEFINE S == {k \in Nat : k <= Len(commits) => \E h : Tells(h, k)}
<1>1. ASSUME NEW n \in Nat, \A m \in 0..n - 1 : m \in S
      PROVE  n \in S
  <2> SUFFICES ASSUME n <= Len(commits) PROVE \E h : Tells(h, n)
    OBVIOUS
  <2>1. CASE n = 0
    <3> DEFINE h == [c \in 0..0 |-> <<>>]
    <3>1. Tells(h, 0)
      BY DEF Tells
    <3> QED
      BY <2>1, <3>1
  <2>2. CASE n # 0
    <3>1. n - 1 \in 0..n - 1 /\ n - 1 <= Len(commits)
      BY <2>2 DEF Lineage
    <3>2. PICK h : Tells(h, n - 1)
      BY <1>1, <3>1
    <3> DEFINE g == [c \in 0..n |-> IF c = n THEN Append(h[commits[n]], n)
                                    ELSE h[c]]
    <3>3. \A c \in 1..n : commits[c] \in 0..n - 1
      BY DEF Lineage
    <3>4. \A c \in 0..n - 1 : g[c] = h[c]
      OBVIOUS
    <3>5. \A c \in 0..n - 1 :
            h[c] = IF c = 0 THEN <<>> ELSE Append(h[commits[c]], c)
      BY <3>2 DEF Tells
    <3>6. \A c \in 0..n : g[c] = IF c = 0 THEN <<>> ELSE Append(g[commits[c]], c)
      <4>1. ASSUME NEW c \in 0..n PROVE c = n \/ c \in 0..n - 1
        OBVIOUS
      <4>2. g[n] = Append(h[commits[n]], n) /\ n \in 1..n
        BY <2>2
      <4> HIDE DEF g
      <4>3. ASSUME NEW c \in 0..n - 1, c # 0
            PROVE  g[c] = Append(g[commits[c]], c)
        <5>1. c \in 1..n
          BY <4>3
        <5> QED
          BY <3>3, <3>4, <3>5, <4>3, <5>1
      <4>4. g[n] = Append(g[commits[n]], n)
        BY <3>3, <3>4, <4>2
      <4>5. g[0] = <<>>
        <5>1. 0 \in 0..n - 1
          BY <2>2
        <5> QED
          BY <3>4, <3>5, <5>1
      <4> QED
        BY <2>2, <4>1, <4>3, <4>4, <4>5
    <3>7. Tells(g, n)
      <4>1. g = [c \in 0..n |-> g[c]]
        OBVIOUS
      <4> HIDE DEF g
      <4> QED
        BY <3>6, <4>1 DEF Tells
    <3> QED
      BY <3>7
  <2> QED
    BY <2>1, <2>2
<1>2. Nat \subseteq S
  <2> HIDE DEF S
  <2> QED
    BY <1>1, SetInduction
<1> QED
  BY <1>2

LEMMA HistoryUnfolds ==
  ASSUME Lineage
  PROVE  /\ History[0] = <<>>
         /\ \A c \in 1..Len(commits) :
              History[c] = Append(History[commits[c]], c)
<1>1. Tells(History, Len(commits))
  <2>1. \E h : Tells(h, Len(commits))
    BY SomethingTells DEF Lineage
  <2> QED
    BY <2>1 DEF Tells, History
<1>2. PICK h : h = History
  OBVIOUS
<1>3. PICK n \in Nat : n = Len(commits)
  BY DEF Lineage
<1>4. \A c \in 0..n : h[c] = IF c = 0 THEN <<>> ELSE Append(h[commits[c]], c)
  BY <1>1, <1>2, <1>3 DEF Tells
<1>5. h[0] = <<>>
  BY <1>4
<1>6. ASSUME NEW c \in 1..n PROVE h[c] = Append(h[commits[c]], c)
  <2>1. c \in 0..n /\ c # 0
    OBVIOUS
  <2> QED
    BY <1>4, <2>1
<1> QED
  BY <1>2, <1>3, <1>5, <1>6

\* A history ends with its commit, and all before that are older.
LEMMA HistoryIsOlder ==
  ASSUME Lineage
  PROVE  \A c \in 0..Len(commits) :
           /\ History[c] \in Seq(Nat) /\ Len(History[c]) \in Nat
           /\ \A i \in 1..Len(History[c]) : History[c][i] \in 1..c
           /\ c # 0 => /\ Len(History[c]) > 0
                       /\ History[c][Len(History[c])] = c
           /\ \A i \in 1..Len(History[c]) - 1 : History[c][i] < c
<1> DEFINE Older(c) ==
       /\ History[c] \in Seq(Nat) /\ Len(History[c]) \in Nat
       /\ \A i \in 1..Len(History[c]) : History[c][i] \in 1..c
       /\ c # 0 => /\ Len(History[c]) > 0
                   /\ History[c][Len(History[c])] = c
       /\ \A i \in 1..Len(History[c]) - 1 : History[c][i] < c
<1> DEFINE S == {c \in Nat : c <= Len(commits) => Older(c)}
<1>1. ASSUME NEW n \in Nat, \A m \in 0..n - 1 : m \in S
      PROVE  n \in S
  <2> SUFFICES ASSUME n <= Len(commits) PROVE Older(n)
    OBVIOUS
  <2>1. CASE n = 0
    <3>1. History[n] = <<>>
      BY <2>1, HistoryUnfolds
    <3>2. History[n] \in Seq(Nat) /\ Len(History[n]) = 0
      BY <3>1
    <3> QED
      BY <2>1, <3>2
  <2>2. CASE n # 0
    <3>1. n \in 1..Len(commits) /\ commits[n] \in 0..n - 1
          /\ commits[n] <= Len(commits)
      BY <2>2 DEF Lineage
    <3>2. PICK p : p = commits[n]
      OBVIOUS
    <3>3. Older(p) /\ p \in Nat /\ p < n
      <4>1. p \in S
        BY <1>1, <3>1, <3>2
      <4> QED
        BY <3>1, <3>2, <4>1
    <3>4. PICK h : h = History[p]
      OBVIOUS
    <3>5. /\ h \in Seq(Nat) /\ Len(h) \in Nat
          /\ \A i \in 1..Len(h) : h[i] \in 1..p
      BY <3>3, <3>4
    <3>6. History[n] = Append(h, n)
      BY <3>1, <3>2, <3>4, HistoryUnfolds
    <3>7. /\ History[n] \in Seq(Nat) /\ Len(History[n]) = Len(h) + 1
          /\ History[n][Len(h) + 1] = n
          /\ \A i \in 1..Len(h) : History[n][i] = h[i]
      BY <3>5, <3>6
    <3>8. \A i \in 1..Len(h) + 1 : i \in 1..Len(h) \/ i = Len(h) + 1
      BY <3>5
    <3>9. ASSUME NEW i \in 1..Len(h)
          PROVE  History[n][i] \in 1..n /\ History[n][i] < n
      <4>1. History[n][i] \in 1..p
        BY <3>5, <3>7
      <4>2. p \in Nat /\ p < n
        BY <3>3
      <4> QED
        BY <4>1, <4>2
    <3>10. \A i \in 1..Len(h) + 1 : History[n][i] \in 1..n
      BY <2>2, <3>7, <3>8, <3>9
    <3> QED
      BY <3>5, <3>7, <3>9, <3>10
  <2> QED
    BY <2>1, <2>2
<1>2. Nat \subseteq S
  <2> HIDE DEF S
  <2> QED
    BY <1>1, SetInduction
<1> QED
  BY <1>2 DEF Lineage

-----------------------------------------------------------------------------
(* The commit that was made, from the path between the two HEADs *)

LEMMA SubSeqStarts ==
  ASSUME NEW s \in Seq(Nat), NEW n \in 1..Len(s)
  PROVE  SubSeq(s, n, Len(s)) # <<>> /\ SubSeq(s, n, Len(s))[1] = s[n]
<1>1. n \in Nat /\ Len(s) \in Nat /\ n <= Len(s)
  OBVIOUS
<1>2. /\ Len(SubSeq(s, n, Len(s))) = Len(s) - n + 1
      /\ SubSeq(s, n, Len(s))[1] = s[n + 1 - 1]
  BY <1>1
<1>3. PICK q : q = SubSeq(s, n, Len(s))
  OBVIOUS
<1>4. Len(q) > 0 /\ q[1] = s[n]
  BY <1>1, <1>2, <1>3
<1>5. q # <<>>
  BY <1>4
<1> QED
  BY <1>3, <1>4, <1>5

\* The path from one HEAD to another holds commits that were made.
LEMMA PathIsInside ==
  ASSUME Lineage, NEW before, NEW after \in 0..Len(commits)
  PROVE  FirstOf(AncestryPath(before, after)) \in 0..Len(commits)
<1> DEFINE path == History[after]
           Later == {i \in DOMAIN path :
                       before = 0 \/ \E j \in 1..(i - 1) : path[j] = before}
           first == CHOOSE i \in Later : \A j \in Later : i <= j
<1>1. /\ path \in Seq(Nat) /\ Len(path) \in Nat
      /\ \A i \in 1..Len(path) : path[i] \in 1..after
  BY HistoryIsOlder
<1>2. AncestryPath(before, after) =
        IF Later = {} THEN <<>> ELSE SubSeq(path, first, Len(path))
  BY DEF AncestryPath
<1>3. DOMAIN path = 1..Len(path)
  BY <1>1
<1>4. CASE Later = {}
  BY <1>2, <1>4 DEF FirstOf, Lineage
<1>5. CASE Later # {}
  <2> DEFINE S == Later
  <2>1. \A i \in Later : i \in 1..Len(path)
    BY <1>3
  <2>2. \E i \in Later : \A j \in Later : i <= j
    <3>1. S \subseteq Nat /\ S # {}
      BY <1>1, <1>5, <2>1
    <3> HIDE DEF S
    <3>2. PICK i \in S : \A j \in S : ~(<<j, i>> \in Less)
      BY <3>1, LessIsWellFounded, WFMin
    <3>3. ASSUME NEW j \in S PROVE i <= j
      <4>1. i \in Nat /\ j \in Nat /\ ~(<<j, i>> \in Less)
        BY <3>1, <3>2
      <4> QED
        BY <4>1 DEF Less
    <3> QED
      BY <3>3 DEF S
  <2>3. first \in 1..Len(path)
    <3> HIDE DEF Later
    <3> QED
      BY <2>1, <2>2
  <2> HIDE DEF path, first, Later
  <2>4. SubSeq(path, first, Len(path)) # <<>>
        /\ SubSeq(path, first, Len(path))[1] = path[first]
    BY <1>1, <2>3, SubSeqStarts
  <2> QED
    BY <1>1, <1>2, <1>5, <2>3, <2>4 DEF FirstOf, Lineage
<1> QED
  BY <1>4, <1>5

\* There is no path from a commit to itself.
LEMMA NoPathToItself ==
  ASSUME Lineage, NEW c \in 1..Len(commits)
  PROVE  FirstOf(AncestryPath(c, c)) = 0
<1> DEFINE path == History[c]
           Later == {i \in DOMAIN path :
                       c = 0 \/ \E j \in 1..(i - 1) : path[j] = c}
<1>1. /\ path \in Seq(Nat) /\ Len(path) \in Nat
      /\ \A i \in 1..Len(path) - 1 : path[i] < c
  BY HistoryIsOlder DEF Lineage
<1>2. Later = {}
  <2> SUFFICES ASSUME NEW i \in 1..Len(path), NEW j \in 1..(i - 1), path[j] = c
               PROVE  FALSE
    <3>1. DOMAIN path = 1..Len(path) /\ c # 0
      BY <1>1
    <3> QED
      BY <3>1
  <2>1. j \in 1..Len(path) - 1
    BY <1>1
  <2> HIDE DEF path
  <2> QED
    BY <1>1, <2>1
<1>3. AncestryPath(c, c) = <<>>
  BY <1>2 DEF AncestryPath
<1> QED
  BY <1>3 DEF FirstOf

\* made was put on before, and every later commit on the one before it.
Chain(before, made) ==
  /\ before \in 0..made - 1 /\ made \in 1..Len(commits)
  /\ commits[made] = before
  /\ \A c \in made + 1..Len(commits) : commits[c] = c - 1

\* The history along the chain goes on from that of the commit before.
LEMMA HistoryOfChain ==
  ASSUME Lineage, NEW before, NEW made, Chain(before, made)
  PROVE  \A c \in made..Len(commits) :
           /\ Len(History[before]) < Len(History[c])
           /\ History[c][Len(History[before]) + 1] = made
           /\ \A i \in 1..Len(History[before]) :
                History[c][i] = History[before][i]
<1> DEFINE GoesOn(c) ==
       /\ Len(History[before]) < Len(History[c])
       /\ History[c][Len(History[before]) + 1] = made
       /\ \A i \in 1..Len(History[before]) :
            History[c][i] = History[before][i]
<1> DEFINE S == {c \in Nat : c \in made..Len(commits) => GoesOn(c)}
<1>1. ASSUME NEW n \in Nat, \A m \in 0..n - 1 : m \in S
      PROVE  n \in S
  <2> SUFFICES ASSUME n \in made..Len(commits) PROVE GoesOn(n)
    OBVIOUS
  <2>0. made \in Nat /\ made > 0 /\ made <= n /\ n <= Len(commits)
        /\ Len(commits) \in Nat /\ before \in 0..Len(commits)
    BY DEF Chain, Lineage
  <2>1. PICK h : h = History[before]
    OBVIOUS
  <2>2. h \in Seq(Nat) /\ Len(h) \in Nat
    BY <2>0, <2>1, HistoryIsOlder
  <2>3. CASE n = made
    <3>1. History[n] = Append(h, made)
      BY <2>0, <2>1, <2>3, HistoryUnfolds DEF Chain
    <3> QED
      BY <2>1, <2>2, <3>1
  <2>4. CASE n # made
    <3>1. n \in made + 1..Len(commits) /\ n \in 1..Len(commits)
          /\ n - 1 \in 0..n - 1 /\ n - 1 \in made..Len(commits)
          /\ n - 1 \in 0..Len(commits) /\ n - 1 \in Nat
      BY <2>0, <2>4
    <3>2. commits[n] = n - 1
      BY <3>1 DEF Chain
    <3>3. PICK g : g = History[n - 1]
      OBVIOUS
    <3>4. g \in Seq(Nat) /\ Len(g) \in Nat
      BY <3>1, <3>3, HistoryIsOlder
    <3>5. History[n] = Append(g, n)
      BY <3>1, <3>2, <3>3, HistoryUnfolds
    <3>6. GoesOn(n - 1)
      <4>1. n - 1 \in S
        BY <1>1, <3>1
      <4> QED
        BY <3>1, <4>1
    <3>7. /\ Len(h) < Len(g) /\ g[Len(h) + 1] = made
          /\ \A i \in 1..Len(h) : g[i] = h[i]
      BY <2>1, <3>3, <3>6
    <3>8. /\ Len(History[n]) = Len(g) + 1
          /\ \A i \in 1..Len(g) : History[n][i] = g[i]
      BY <3>4, <3>5
    <3>9. \A i \in 1..Len(h) : i \in 1..Len(g)
      BY <2>2, <3>4, <3>7
    <3>10. \A i \in 1..Len(h) : History[n][i] = h[i]
      BY <3>7, <3>8, <3>9
    <3>11. Len(h) < Len(History[n]) /\ Len(h) + 1 \in 1..Len(g)
      BY <2>2, <3>4, <3>7, <3>8
    <3>12. History[n][Len(h) + 1] = made
      BY <3>7, <3>8, <3>11
    <3> QED
      BY <2>1, <3>10, <3>11, <3>12
  <2> QED
    BY <2>3, <2>4
<1>2. Nat \subseteq S
  <2> HIDE DEF S
  <2> QED
    BY <1>1, SetInduction
<1>3. \A c \in made..Len(commits) : c \in Nat
  BY DEF Chain, Lineage
<1> QED
  BY <1>2, <1>3

\* The first commit on the path along the chain is the one that was made.
LEMMA PathFindsMade ==
  ASSUME Lineage, NEW before, NEW made, Chain(before, made),
         NEW after \in made..Len(commits)
  PROVE  FirstOf(AncestryPath(before, after)) = made
<1> DEFINE path == History[after]
           k == Len(History[before])
           Later == {i \in DOMAIN path :
                       before = 0 \/ \E j \in 1..(i - 1) : path[j] = before}
           first == CHOOSE i \in Later : \A j \in Later : i <= j
<1>1. /\ before \in 0..Len(commits) /\ after \in 0..Len(commits)
      /\ before \in Nat
  BY DEF Chain, Lineage
<1>2. path \in Seq(Nat) /\ Len(path) \in Nat /\ k \in Nat
  BY <1>1, HistoryIsOlder
<1>3. /\ k < Len(path) /\ path[k + 1] = made
      /\ \A i \in 1..k : path[i] = History[before][i]
  BY HistoryOfChain
<1>4. /\ before = 0 => k = 0
      /\ before # 0 => k > 0 /\ path[k] = before
      /\ \A i \in 1..k - 1 : before # 0 => path[i] # before
  <2>1. before = 0 => k = 0
    BY HistoryUnfolds
  <2>2. before # 0 => k > 0 /\ History[before][k] = before
    BY <1>1, HistoryIsOlder
  <2>3. \A i \in 1..k - 1 : History[before][i] < before
    BY <1>1, HistoryIsOlder
  <2> HIDE DEF path, k
  <2>4. \A i \in 1..k - 1 : i \in 1..k
    BY <1>2
  <2> QED
    BY <1>1, <1>2, <1>3, <2>1, <2>2, <2>3, <2>4
<1>5. AncestryPath(before, after) =
        IF Later = {} THEN <<>> ELSE SubSeq(path, first, Len(path))
  BY DEF AncestryPath
<1> HIDE DEF path, k
<1>6. k + 1 \in Later
  <2>1. k + 1 \in DOMAIN path
    BY <1>2, <1>3
  <2>2. before # 0 => k \in 1..(k + 1 - 1) /\ path[k] = before
    BY <1>2, <1>4
  <2> QED
    BY <2>1, <2>2
<1>7. ASSUME NEW i \in Later PROVE k + 1 <= i /\ i \in Nat
  <2>1. i \in 1..Len(path)
    BY <1>2
  <2>2. CASE before = 0
    BY <1>2, <1>4, <2>1, <2>2
  <2>3. CASE before # 0
    <3>1. PICK j \in 1..(i - 1) : path[j] = before
      BY <2>3
    <3>2. j \notin 1..k - 1
      BY <1>4, <2>3, <3>1
    <3> QED
      BY <1>2, <2>1, <3>1, <3>2
  <2> QED
    BY <2>2, <2>3
<1> HIDE DEF Later
<1>8. first = k + 1
  BY <1>2, <1>6, <1>7
<1>9. SubSeq(path, k + 1, Len(path)) # <<>>
      /\ SubSeq(path, k + 1, Len(path))[1] = path[k + 1]
  <2>1. k + 1 \in 1..Len(path)
    BY <1>2, <1>3
  <2> QED
    BY <1>2, <2>1, SubSeqStarts
<1> QED
  BY <1>3, <1>5, <1>6, <1>8, <1>9 DEF FirstOf

-----------------------------------------------------------------------------
(* What a call knows of the repository *)

\* The entries of a reflog are commits that were made.
Entries(log) ==
  /\ log \in Seq(Nat) /\ Len(log) \in Nat
  /\ \A i \in 1..Len(log) : log[i] \in 1..Len(commits)

RepoInv ==
  /\ Lineage
  /\ head \in 0..Len(commits)
  /\ Entries(reflog)
  /\ ~logs => reflog = <<>>

CallInv ==
  /\ IsCall(call)
  /\ call.headBefore \in 0..Len(commits) /\ call.headAfter \in 0..Len(commits)
  /\ Entries(call.logBefore) /\ Entries(call.logAfter)
  /\ call.made \in 0..Len(commits)
  /\ call.disturbed \in BOOLEAN
  /\ pc \in {"idle", "list", "head", "log"} => call.made = 0

\* While nobody interferes, HEAD stays where it was until the commit is made,
\* on it, and then goes to every new commit, each on the one before.
HeadIsWatched ==
  ~call.disturbed =>
    /\ Looked => IF call.made = 0 THEN head = call.headBefore
                 ELSE Chain(call.headBefore, call.made) /\ head = Len(commits)
    /\ pc \in {"log2", "judge"} =>
         IF call.made = 0 THEN call.headAfter = call.headBefore
         ELSE call.headAfter \in call.made..Len(commits)

\* log has y entries of this call's commit (the last of them) and of later ones;
\* the newest of those that call.logBefore had follow.
Follows(log, y) ==
  /\ y \in 0..Len(log) /\ Len(log) - y <= Len(call.logBefore)
  /\ \A i \in y + 1..Len(log) : log[i] = call.logBefore[i - y]
  /\ \A i \in 1..y - 1 : log[i] > call.made
  /\ IF call.made = 0 THEN y = 0 ELSE y > 0 /\ log[y] = call.made

LogIsWatched ==
  ~call.disturbed =>
    /\ \A i \in 1..Len(call.logBefore) :
         call.made # 0 => call.logBefore[i] < call.made
    /\ logs /\ pc \in {"commit", "head2", "log2", "judge"} =>
         \E y \in Nat : Follows(reflog, y)
    /\ logs /\ pc = "judge" => \E y \in Nat : Follows(call.logAfter, y)
    /\ ~logs => call.logBefore = <<>> /\ call.logAfter = <<>>

AnswerInv ==
  RepoInv /\ CallInv /\ HeadIsWatched /\ LogIsWatched /\ AnswerIsTrue

-----------------------------------------------------------------------------
(* Which commit was made *)

\* If nobody interferes, the reflog names the commit that was made, or nothing.
LEMMA ReflogFindsMade ==
  ASSUME RepoInv, CallInv, LogIsWatched, pc = "judge", ~call.disturbed,
         NEW entry,
         entry = FirstNewCommitFromReflog(call.logBefore, call.logAfter)
  PROVE  entry = 0 \/ (entry = call.made /\ call.made # 0)
<1>1. PICK before, after : before = call.logBefore /\ after = call.logAfter
  OBVIOUS
<1>2. /\ before \in Seq(Nat) /\ Len(before) \in Nat
      /\ after \in Seq(Nat) /\ Len(after) \in Nat
      /\ \A i \in 1..Len(before) : call.made # 0 => before[i] < call.made
      /\ call.made \in Nat
  BY <1>1 DEF CallInv, Entries, LogIsWatched, RepoInv, Lineage
<1>3. PICK new : new = Len(after) - Len(before)
  OBVIOUS
<1>0. entry = IF new > 0 /\ SubSeq(after, new + 1, Len(after)) = before
              THEN after[new] ELSE 0
  BY <1>1, <1>3 DEF FirstNewCommitFromReflog
<1>4. SUFFICES ASSUME new > 0, SubSeq(after, new + 1, Len(after)) = before
               PROVE  after[new] = call.made /\ call.made # 0
  <2>1. CASE new > 0 /\ SubSeq(after, new + 1, Len(after)) = before
    BY <1>0, <1>4, <2>1
  <2>2. CASE ~(new > 0 /\ SubSeq(after, new + 1, Len(after)) = before)
    BY <1>0, <2>2
  <2> QED
    BY <2>1, <2>2
<1>5. new \in Nat /\ new + 1 \in Nat /\ new <= Len(after)
  BY <1>2, <1>3, <1>4
<1>6. logs
  <2>1. ~logs => Len(after) = 0 /\ Len(before) = 0
    BY <1>1 DEF LogIsWatched
  <2> QED
    BY <1>3, <1>4, <2>1
<1>7. PICK y \in Nat :
        /\ y <= Len(after) /\ Len(after) - y <= Len(before)
        /\ \A i \in 1..y - 1 : after[i] > call.made
        /\ IF call.made = 0 THEN y = 0 ELSE y > 0 /\ after[y] = call.made
  BY <1>1, <1>2, <1>6 DEF LogIsWatched, Follows
<1>8. call.made # 0 /\ new <= y
  BY <1>2, <1>3, <1>4, <1>7
<1>9. CASE new = y
  BY <1>7, <1>8, <1>9
<1>10. CASE new < y
  <2>1. Len(before) > 0 /\ 1 \in 1..Len(before) /\ new + 1 \in 1..Len(after)
    BY <1>2, <1>3, <1>5, <1>7, <1>10
  <2>2. before[1] = after[new + 1]
    BY <1>2, <1>4, <2>1, SubSeqStarts
  <2>3. after[new + 1] >= call.made
    <3>1. new + 1 = y \/ new + 1 \in 1..y - 1
      BY <1>5, <1>10
    <3>2. after[new + 1] \in Nat
      BY <1>2, <2>1
    <3> QED
      BY <1>2, <1>7, <1>8, <3>1, <3>2
  <2>4. before[1] < call.made /\ before[1] \in Nat
    BY <1>2, <1>8, <2>1
  <2> QED
    BY <1>2, <2>2, <2>3, <2>4
<1> QED
  BY <1>5, <1>7, <1>8, <1>9, <1>10

\* The commit git_commit finds is one that was made; if nobody interferes it is
\* the one this call made, and there is one if the call made one.
LEMMA ResolvesMade ==
  ASSUME AnswerInv, pc = "judge"
  PROVE  /\ ResolveCreatedCommit \in 0..Len(commits)
         /\ ~call.disturbed => ResolveCreatedCommit = call.made
<1>1. PICK entry :
        entry = FirstNewCommitFromReflog(call.logBefore, call.logAfter)
  OBVIOUS
<1>2. PICK path :
        path = FirstOf(AncestryPath(call.headBefore, call.headAfter))
  OBVIOUS
<1>3. ResolveCreatedCommit =
        IF entry # 0 THEN entry ELSE IF call.headAfter = 0 THEN 0 ELSE path
  BY <1>1, <1>2 DEF ResolveCreatedCommit
<1>4. path \in 0..Len(commits)
  BY <1>2, PathIsInside DEF AnswerInv, RepoInv, CallInv
<1>5. entry \in 0..Len(commits)
  <2>1. PICK before, after : before = call.logBefore /\ after = call.logAfter
    OBVIOUS
  <2>2. /\ Len(before) \in Nat /\ Len(after) \in Nat /\ Len(commits) \in Nat
        /\ \A i \in 1..Len(after) : after[i] \in 1..Len(commits)
    BY <2>1 DEF AnswerInv, CallInv, Entries, RepoInv, Lineage
  <2>3. PICK new : new = Len(after) - Len(before)
    OBVIOUS
  <2>4. entry = 0 \/ (entry = after[new] /\ new > 0)
    BY <1>1, <2>1, <2>3 DEF FirstNewCommitFromReflog
  <2>5. new > 0 => new \in 1..Len(after)
    BY <2>2, <2>3
  <2> QED
    BY <2>2, <2>4, <2>5
<1>6. ASSUME ~call.disturbed PROVE ResolveCreatedCommit = call.made
  <2>1. entry = 0 \/ (entry = call.made /\ call.made # 0)
    BY <1>1, <1>6, ReflogFindsMade DEF AnswerInv
  <2>2. CASE call.made = 0
    <3>1. call.headAfter = call.headBefore /\ call.headAfter \in 0..Len(commits)
          /\ Len(commits) \in Nat
      BY <1>6, <2>2 DEF AnswerInv, HeadIsWatched, CallInv, RepoInv, Lineage
    <3>2. call.headAfter # 0 => path = 0
      BY <1>2, <3>1, NoPathToItself DEF AnswerInv, RepoInv
    <3> QED
      BY <1>3, <2>1, <2>2, <3>2
  <2>3. CASE call.made # 0
    <3>1. /\ Chain(call.headBefore, call.made)
          /\ call.headAfter \in call.made..Len(commits)
      BY <1>6, <2>3 DEF AnswerInv, HeadIsWatched, Looked
    <3>2. path = call.made
      BY <1>2, <3>1, PathFindsMade DEF AnswerInv, RepoInv
    <3>3. call.headAfter # 0
      BY <3>1 DEF Chain
    <3> QED
      BY <1>3, <2>1, <3>2, <3>3
  <2> QED
    BY <2>2, <2>3
<1>7. Len(commits) \in Nat
  BY DEF AnswerInv, RepoInv, Lineage
<1> QED
  BY <1>3, <1>4, <1>5, <1>6, <1>7

-----------------------------------------------------------------------------
(* The steps *)

\* A call that knows what the current one knows.
Knows(c) ==
  /\ IsCall(c)
  /\ c.headBefore = call.headBefore /\ c.headAfter = call.headAfter
  /\ c.logBefore = call.logBefore /\ c.logAfter = call.logAfter
  /\ c.made = call.made /\ c.disturbed = call.disturbed

WatchInv == RepoInv /\ CallInv /\ HeadIsWatched /\ LogIsWatched

\* A step that leaves the repository's history alone, and what the call knows,
\* and leads nowhere where more must be known.
LEMMA QuietKeeps ==
  ASSUME AnswerInv, UNCHANGED <<logs, commits, head, reflog>>, Knows(call'),
         Looked' => Looked,
         pc' \in {"log2", "judge"} => pc \in {"log2", "judge"},
         pc' \in {"commit", "head2", "log2", "judge"} =>
           pc \in {"commit", "head2", "log2", "judge"},
         pc' = "judge" => pc = "judge",
         pc' \in {"idle", "list", "head", "log"} => call.made = 0
  PROVE  WatchInv'
<1>1. RepoInv' /\ Lineage'
  BY DEF AnswerInv, RepoInv, Lineage, Entries
<1>2. CallInv'
  BY DEF AnswerInv, CallInv, Knows, Entries
<1>3. HeadIsWatched'
  BY DEF AnswerInv, HeadIsWatched, Knows, Chain
<1>4. LogIsWatched'
  <2>1. \A log, y : Follows(log, y) =>
           /\ y \in 0..Len(log) /\ Len(log) - y <= Len(call'.logBefore)
           /\ \A i \in y + 1..Len(log) : log[i] = call'.logBefore[i - y]
           /\ \A i \in 1..y - 1 : log[i] > call'.made
           /\ IF call'.made = 0 THEN y = 0 ELSE y > 0 /\ log[y] = call'.made
    BY DEF Follows, Knows
  <2> QED
    BY DEF AnswerInv, LogIsWatched, Knows, Follows
<1> QED
  BY <1>1, <1>2, <1>3, <1>4 DEF WatchInv

\* What a new commit changes, and what it leaves.
LEMMA NewCommitFacts ==
  ASSUME RepoInv, NewCommit, UNCHANGED logs
  PROVE  /\ RepoInv'
         /\ Len(commits) \in Nat /\ Len(commits') = Len(commits) + 1
         /\ commits'[Len(commits) + 1] = head
         /\ \A c \in 1..Len(commits) : commits'[c] = commits[c]
         /\ head' = Len(commits) + 1
         /\ logs => /\ Len(reflog) \in Nat /\ Len(reflog') = Len(reflog) + 1
                    /\ reflog'[1] = Len(commits) + 1
                    /\ \A i \in 2..Len(reflog) + 1 : reflog'[i] = reflog[i - 1]
<1>1. /\ commits \in Seq(Nat) /\ Len(commits) \in Nat /\ head \in Nat
      /\ head <= Len(commits)
      /\ reflog \in Seq(Nat) /\ Len(reflog) \in Nat
      /\ \A i \in 1..Len(reflog) : reflog[i] \in 1..Len(commits)
      /\ \A c \in 1..Len(commits) : commits[c] < c
  BY DEF RepoInv, Lineage, Entries
<1>2. /\ commits' = Append(commits, head) /\ head' = Len(commits) + 1
      /\ reflog' = IF logs THEN <<Len(commits) + 1>> \o reflog ELSE reflog
  BY DEF NewCommit, MoveHead
<1>3. /\ commits' \in Seq(Nat) /\ Len(commits') = Len(commits) + 1
      /\ commits'[Len(commits) + 1] = head
      /\ \A c \in 1..Len(commits) : commits'[c] = commits[c]
  BY <1>1, <1>2
<1>4. ASSUME logs
      PROVE  /\ reflog' \in Seq(Nat) /\ Len(reflog') = Len(reflog) + 1
             /\ reflog'[1] = Len(commits) + 1
             /\ \A i \in 2..Len(reflog) + 1 : reflog'[i] = reflog[i - 1]
  BY <1>1, <1>2, <1>4
<1>5. \A i \in 1..Len(reflog') : reflog'[i] \in 1..Len(commits) + 1
  <2>1. CASE logs
    <3>1. ASSUME NEW i \in 1..Len(reflog) + 1
          PROVE  reflog'[i] \in 1..Len(commits) + 1
      <4>1. CASE i = 1
        BY <1>1, <1>4, <2>1, <4>1
      <4>2. CASE i # 1
        <5>1. i \in 2..Len(reflog) + 1 /\ i - 1 \in 1..Len(reflog)
          BY <1>1, <4>2
        <5>2. reflog'[i] = reflog[i - 1] /\ reflog[i - 1] \in 1..Len(commits)
          BY <1>1, <1>4, <2>1, <5>1
        <5> QED
          BY <1>1, <5>2
      <4> QED
        BY <4>1, <4>2
    <3> QED
      BY <1>4, <2>1, <3>1
  <2>2. CASE ~logs
    BY <1>1, <1>2, <2>2
  <2> QED
    BY <2>1, <2>2
<1>6. Lineage'
  <2>1. \A c \in 1..Len(commits) + 1 : c \in 1..Len(commits) \/ c = Len(commits) + 1
    BY <1>1
  <2>2. ASSUME NEW c \in 1..Len(commits) + 1 PROVE commits'[c] < c
    <3>1. CASE c \in 1..Len(commits)
      BY <1>1, <1>3, <3>1
    <3>2. CASE c = Len(commits) + 1
      BY <1>1, <1>3, <3>2
    <3> QED
      BY <2>1, <3>1, <3>2
  <2> QED
    BY <1>1, <1>3, <2>2 DEF Lineage
<1>7. Entries(reflog)'
  <2>1. reflog' \in Seq(Nat) /\ Len(reflog') \in Nat
    BY <1>1, <1>2, <1>4
  <2> QED
    BY <1>3, <1>5, <2>1 DEF Entries
<1>8. ~logs => reflog' = <<>>
  BY <1>2 DEF RepoInv
<1> QED
  BY <1>1, <1>2, <1>3, <1>4, <1>6, <1>7, <1>8 DEF RepoInv

\* What a call knows is still there when there are more commits.
LEMMA CallInvGrows ==
  ASSUME AnswerInv, RepoInv', Len(commits) <= Len(commits'), UNCHANGED pc,
         IsCall(call'), call'.disturbed \in BOOLEAN,
         call'.headBefore = call.headBefore, call'.headAfter = call.headAfter,
         call'.logBefore = call.logBefore, call'.logAfter = call.logAfter,
         call'.made \in 0..Len(commits'),
         pc \in {"idle", "list", "head", "log"} => call'.made = 0
  PROVE  CallInv'
<1>1. PICK n, m : n = Len(commits) /\ m = Len(commits')
  OBVIOUS
<1>2. n \in Nat /\ m \in Nat /\ n <= m
  BY <1>1 DEF AnswerInv, RepoInv, Lineage
<1>3. \A i \in 0..n : i \in 0..m
  BY <1>2
<1>4. \A i \in 1..n : i \in 1..m
  BY <1>2
<1>5. Entries(call.logBefore) /\ Entries(call.logAfter)
  BY DEF AnswerInv, CallInv
<1>6. Entries(call.logBefore)' /\ Entries(call.logAfter)'
  BY <1>1, <1>4, <1>5 DEF Entries
<1>7. call'.headBefore \in 0..m /\ call'.headAfter \in 0..m
  BY <1>1, <1>3 DEF AnswerInv, CallInv
<1> QED
  BY <1>1, <1>6, <1>7 DEF CallInv

\* A commit on top of HEAD: a hook's, or someone's after this call's.
LEMMA CommitOnTop ==
  ASSUME AnswerInv, NewCommit, UNCHANGED <<logs, pc>>,
         IsCall(call'), call'.disturbed \in BOOLEAN,
         call'.headBefore = call.headBefore, call'.headAfter = call.headAfter,
         call'.logBefore = call.logBefore, call'.logAfter = call.logAfter,
         call'.made = call.made,
         ~call'.disturbed => ~call.disturbed /\ (Looked => call.made # 0)
  PROVE  WatchInv'
<1> DEFINE n == Len(commits)
<1>1. /\ RepoInv'
      /\ n \in Nat /\ Len(commits') = n + 1 /\ commits'[n + 1] = head
      /\ \A c \in 1..n : commits'[c] = commits[c]
      /\ head' = n + 1
      /\ logs => /\ Len(reflog) \in Nat /\ Len(reflog') = Len(reflog) + 1
                 /\ reflog'[1] = n + 1
                 /\ \A i \in 2..Len(reflog) + 1 : reflog'[i] = reflog[i - 1]
  BY NewCommitFacts DEF AnswerInv
<1>2. call.made \in 0..n
  BY DEF AnswerInv, CallInv
<1>3. CallInv'
  <2>1. call'.made \in 0..Len(commits')
    BY <1>1, <1>2
  <2>2. pc \in {"idle", "list", "head", "log"} => call'.made = 0
    BY DEF AnswerInv, CallInv
  <2> QED
    BY <1>1, <2>1, <2>2, CallInvGrows
<1>4. HeadIsWatched'
  <2> SUFFICES ASSUME ~call'.disturbed PROVE HeadIsWatched'
    BY DEF HeadIsWatched
  <2>1. ASSUME Looked
        PROVE  Chain(call.headBefore, call.made)' /\ call'.made # 0
    <3>1. call.made # 0 /\ Chain(call.headBefore, call.made) /\ head = n
      BY <2>1 DEF AnswerInv, HeadIsWatched
    <3>2. \A c \in call.made + 1..n + 1 : commits'[c] = c - 1
      <4>1. \A c \in call.made + 1..n : c \in 1..n /\ commits[c] = c - 1
        BY <1>1, <3>1 DEF Chain
      <4>2. \A c \in call.made + 1..n + 1 :
              c \in call.made + 1..n \/ c = n + 1
        BY <1>1, <1>2
      <4> QED
        BY <1>1, <3>1, <4>1, <4>2
    <3>3. call.made \in 1..n /\ commits'[call.made] = call.headBefore
      BY <1>1, <3>1 DEF Chain
    <3> QED
      BY <1>1, <3>1, <3>2, <3>3 DEF Chain
  <2>2. pc \in {"log2", "judge"} =>
          /\ Looked /\ call'.made # 0
          /\ call'.headAfter \in call'.made..n + 1
    <3> SUFFICES ASSUME pc \in {"log2", "judge"}
                 PROVE  /\ Looked /\ call'.made # 0
                        /\ call'.headAfter \in call'.made..n + 1
      OBVIOUS
    <3>1. Looked
      BY DEF Looked
    <3>2. call.headAfter \in call.made..n
      BY <3>1 DEF AnswerInv, HeadIsWatched
    <3> QED
      BY <1>1, <1>2, <3>1, <3>2
  <2>3. Looked' <=> Looked
    BY DEF Looked
  <2> QED
    BY <1>1, <2>1, <2>2, <2>3 DEF HeadIsWatched
<1>5. LogIsWatched'
  <2> SUFFICES ASSUME ~call'.disturbed PROVE LogIsWatched'
    BY DEF LogIsWatched
  <2>1. LogIsWatched /\ ~call.disturbed
    BY DEF AnswerInv
  <2>2. ASSUME logs, pc \in {"commit", "head2", "log2", "judge"}
        PROVE  \E y \in Nat : Follows(reflog, y)'
    <3>1. PICK y \in Nat : Follows(reflog, y)
      BY <2>1, <2>2 DEF LogIsWatched
    <3>2. Looked /\ call.made # 0 /\ call.made < n + 1
      BY <1>1, <1>2, <2>2 DEF Looked
    <3>3. y > 0 /\ y \in 0..Len(reflog) /\ reflog[y] = call.made
          /\ Len(reflog) - y <= Len(call.logBefore)
      BY <3>1, <3>2 DEF Follows
    <3>4. ASSUME NEW i \in y + 2..Len(reflog) + 1
          PROVE  reflog'[i] = call.logBefore[i - (y + 1)]
      <4>1. i - 1 \in y + 1..Len(reflog) /\ i \in 2..Len(reflog) + 1
            /\ i - 1 - y = i - (y + 1)
        BY <1>1, <2>2, <3>3
      <4>2. reflog[i - 1] = call.logBefore[i - 1 - y]
        BY <3>1, <4>1 DEF Follows
      <4> QED
        BY <1>1, <2>2, <4>1, <4>2
    <3>5. ASSUME NEW i \in 1..y PROVE reflog'[i] > call.made
      <4>1. CASE i = 1
        BY <1>1, <2>2, <3>2, <4>1
      <4>2. CASE i # 1
        <5>1. i - 1 \in 1..y - 1 /\ i \in 2..Len(reflog) + 1
          BY <1>1, <2>2, <3>3, <4>2
        <5>2. reflog[i - 1] > call.made
          BY <3>1, <5>1 DEF Follows
        <5> QED
          BY <1>1, <2>2, <5>1, <5>2
      <4> QED
        BY <4>1, <4>2
    <3>6. y + 1 \in 2..Len(reflog) + 1 /\ reflog'[y + 1] = call.made
      BY <1>1, <2>2, <3>3
    <3>7. Follows(reflog, y + 1)'
      <4>1. y + 1 \in 0..Len(reflog')
            /\ Len(reflog') - (y + 1) <= Len(call'.logBefore)
            /\ y + 1 > 0 /\ y + 1 - 1 = y /\ y + 1 + 1 = y + 2
        BY <1>1, <2>2, <3>3
      <4> QED
        BY <1>1, <2>2, <3>2, <3>4, <3>5, <3>6, <4>1 DEF Follows
    <3> QED
      BY <3>7
  <2>3. ASSUME logs, pc = "judge" PROVE \E y \in Nat : Follows(call.logAfter, y)'
    BY <2>1, <2>3 DEF LogIsWatched, Follows
  <2> QED
    BY <2>1, <2>2, <2>3 DEF LogIsWatched
<1> QED
  BY <1>1, <1>3, <1>4, <1>5 DEF WatchInv

\* This call's commit.
LEMMA MakeCommitKeeps ==
  ASSUME AnswerInv, MakeCommit
  PROVE  WatchInv'
<1> DEFINE n == Len(commits)
<1>0. NewCommit /\ UNCHANGED <<logs, pc>> /\ pc = "commit" /\ call.made = 0
  BY DEF MakeCommit
<1>1. /\ RepoInv'
      /\ n \in Nat /\ Len(commits') = n + 1 /\ commits'[n + 1] = head
      /\ \A c \in 1..n : commits'[c] = commits[c]
      /\ head' = n + 1
      /\ logs => /\ Len(reflog) \in Nat /\ Len(reflog') = Len(reflog) + 1
                 /\ reflog'[1] = n + 1
                 /\ \A i \in 2..Len(reflog) + 1 : reflog'[i] = reflog[i - 1]
  BY <1>0, NewCommitFacts DEF AnswerInv
<1>2. /\ IsCall(call') /\ call'.disturbed = call.disturbed
      /\ call'.headBefore = call.headBefore /\ call'.headAfter = call.headAfter
      /\ call'.logBefore = call.logBefore /\ call'.logAfter = call.logAfter
      /\ call'.made = n + 1
  BY DEF MakeCommit, AnswerInv, CallInv, IsCall
<1>3. CallInv'
  <2>1. call'.made \in 0..Len(commits') /\ call'.disturbed \in BOOLEAN
    BY <1>1, <1>2 DEF AnswerInv, CallInv
  <2> QED
    BY <1>0, <1>1, <1>2, <2>1, CallInvGrows
<1>4. HeadIsWatched'
  <2> SUFFICES ASSUME ~call'.disturbed PROVE HeadIsWatched'
    BY DEF HeadIsWatched
  <2>1. head = call.headBefore /\ head \in 0..n
    BY <1>0, <1>2 DEF AnswerInv, HeadIsWatched, Looked, RepoInv
  <2>2. Chain(call.headBefore, call.made)'
    BY <1>1, <1>2, <2>1 DEF Chain
  <2> QED
    BY <1>0, <1>1, <1>2, <2>2 DEF HeadIsWatched
<1>5. LogIsWatched'
  <2> SUFFICES ASSUME ~call'.disturbed PROVE LogIsWatched'
    BY DEF LogIsWatched
  <2>1. LogIsWatched /\ ~call.disturbed
    BY <1>2 DEF AnswerInv
  <2>2. \A i \in 1..Len(call'.logBefore) : call'.logBefore[i] < n + 1
    BY <1>1, <1>2 DEF AnswerInv, CallInv, Entries
  <2>3. ASSUME logs PROVE Follows(reflog, 1)'
    <3>1. PICK y \in Nat : Follows(reflog, y)
      BY <1>0, <2>1, <2>3 DEF LogIsWatched
    <3>2. y = 0
      BY <1>0, <3>1 DEF Follows
    <3>3. Len(reflog) <= Len(call.logBefore)
          /\ \A i \in 1..Len(reflog) : reflog[i] = call.logBefore[i]
      BY <1>1, <2>3, <3>1, <3>2 DEF Follows
    <3>4. \A i \in 2..Len(reflog) + 1 : reflog'[i] = call.logBefore[i - 1]
      BY <1>1, <2>3, <3>3
    <3>5. /\ 1 \in 0..Len(reflog') /\ Len(reflog') - 1 <= Len(call'.logBefore)
          /\ reflog'[1] = call'.made /\ call'.made # 0
      BY <1>1, <1>2, <2>3, <3>3
    <3> QED
      BY <1>1, <1>2, <2>3, <3>4, <3>5 DEF Follows
  <2>4. pc' = "commit"
    BY <1>0
  <2> QED
    BY <1>0, <1>2, <2>1, <2>2, <2>3, <2>4 DEF LogIsWatched
<1> QED
  BY <1>1, <1>3, <1>4, <1>5 DEF WatchInv

\* A reset is to a commit of HEAD's history; who resets while a call looks
\* disturbs it.
LEMMA ResetKeeps ==
  ASSUME AnswerInv, OtherResets
  PROVE  WatchInv'
<1>1. PICK i \in DOMAIN History[head] : MoveHead(History[head][i])
  BY DEF OtherResets
<1>2. UNCHANGED <<logs, commits, pc>> /\ Lineage /\ head \in 0..Len(commits)
      /\ Len(commits) \in Nat
  BY DEF OtherResets, AnswerInv, RepoInv, Lineage
<1>3. PICK to : to = History[head][i]
  OBVIOUS
<1>4. to \in 1..Len(commits)
  <2>1. PICK h : h = History[head]
    OBVIOUS
  <2>2. h \in Seq(Nat) /\ \A j \in 1..Len(h) : h[j] \in 1..head
    BY <1>2, <2>1, HistoryIsOlder
  <2>3. i \in 1..Len(h)
    BY <2>1, <2>2
  <2>4. to \in 1..head
    BY <1>3, <2>1, <2>2, <2>3
  <2> QED
    BY <1>2, <2>4
<1>5. head' = to /\ reflog' = IF logs THEN <<to>> \o reflog ELSE reflog
  BY <1>1, <1>3 DEF MoveHead
<1>6. RepoInv'
  <2>1. /\ reflog \in Seq(Nat) /\ Len(reflog) \in Nat
        /\ \A j \in 1..Len(reflog) : reflog[j] \in 1..Len(commits)
    BY DEF AnswerInv, RepoInv, Entries
  <2>2. CASE logs
    <3>1. /\ reflog' \in Seq(Nat) /\ Len(reflog') = Len(reflog) + 1
          /\ reflog'[1] = to
          /\ \A j \in 2..Len(reflog) + 1 : reflog'[j] = reflog[j - 1]
      BY <1>2, <1>4, <1>5, <2>1, <2>2
    <3>2. ASSUME NEW j \in 1..Len(reflog) + 1
          PROVE  reflog'[j] \in 1..Len(commits)
      <4>1. CASE j = 1
        BY <1>4, <3>1, <4>1
      <4>2. CASE j # 1
        <5>1. j \in 2..Len(reflog) + 1 /\ j - 1 \in 1..Len(reflog)
          BY <2>1, <4>2
        <5> QED
          BY <2>1, <3>1, <5>1
      <4> QED
        BY <4>1, <4>2
    <3>3. Len(reflog') \in Nat
      BY <2>1, <3>1
    <3>4. Entries(reflog)'
      BY <1>2, <3>1, <3>2, <3>3 DEF Entries
    <3> QED
      BY <1>2, <1>4, <1>5, <2>2, <3>4 DEF RepoInv, Lineage
  <2>3. CASE ~logs
    BY <1>2, <1>4, <1>5, <2>3 DEF AnswerInv, RepoInv, Lineage, Entries
  <2> QED
    BY <2>2, <2>3
<1>7. /\ IsCall(call') /\ call'.disturbed = (call.disturbed \/ Looked)
      /\ call'.headBefore = call.headBefore /\ call'.headAfter = call.headAfter
      /\ call'.logBefore = call.logBefore /\ call'.logAfter = call.logAfter
      /\ call'.made = call.made
  BY DEF OtherResets, Disturb, AnswerInv, CallInv, IsCall
<1>8. CallInv'
  <2>1. call'.disturbed \in BOOLEAN
    BY <1>7
  <2> QED
    BY <1>2, <1>7, <2>1 DEF AnswerInv, CallInv, Entries
<1>9. HeadIsWatched'
  BY <1>2, <1>7 DEF HeadIsWatched, Looked
<1>10. LogIsWatched'
  BY <1>2, <1>7 DEF AnswerInv, LogIsWatched, Looked
<1> QED
  BY <1>6, <1>8, <1>9, <1>10 DEF WatchInv

\* What expires are the oldest entries; who takes out the one of this call's
\* commit disturbs it.
LEMMA ExpireKeeps ==
  ASSUME AnswerInv, OtherExpires
  PROVE  WatchInv'
<1>1. UNCHANGED <<logs, commits, head, pc>> /\ Len(commits) \in Nat
  BY DEF OtherExpires, AnswerInv, RepoInv, Lineage
<1>2. /\ reflog \in Seq(Nat) /\ Len(reflog) \in Nat
      /\ \A j \in 1..Len(reflog) : reflog[j] \in 1..Len(commits)
  BY DEF AnswerInv, RepoInv, Entries
<1>3. PICK n \in 0..Len(reflog) - 1 : reflog' = SubSeq(reflog, 1, n)
  BY DEF OtherExpires
<1>4. /\ reflog' \in Seq(Nat) /\ Len(reflog') = n /\ n \in Nat
      /\ n < Len(reflog)
      /\ \A j \in 1..n : reflog'[j] = reflog[j] /\ j \in 1..Len(reflog)
  BY <1>2, <1>3
<1>5. RepoInv'
  <2>1. Entries(reflog)'
    BY <1>1, <1>2, <1>4 DEF Entries
  <2>2. logs
    <3>1. ~logs => Len(reflog) = 0
      BY DEF AnswerInv, RepoInv
    <3> QED
      BY <1>4, <3>1
  <2> QED
    BY <1>1, <2>1, <2>2 DEF AnswerInv, RepoInv, Lineage
<1>6. PICK gone \in BOOLEAN :
        gone <=> Looked /\ call.made # 0
                 /\ \A j \in DOMAIN reflog' : reflog'[j] # call.made
  OBVIOUS
<1>7. /\ IsCall(call')
      /\ call'.disturbed \in BOOLEAN
      /\ ~call'.disturbed => ~call.disturbed /\ ~gone
      /\ call'.headBefore = call.headBefore /\ call'.headAfter = call.headAfter
      /\ call'.logBefore = call.logBefore /\ call'.logAfter = call.logAfter
      /\ call'.made = call.made
  BY <1>6 DEF OtherExpires, Disturb, AnswerInv, CallInv, IsCall
<1>8. CallInv'
  BY <1>1, <1>7 DEF AnswerInv, CallInv, Entries
<1>9. HeadIsWatched'
  BY <1>1, <1>7 DEF AnswerInv, HeadIsWatched, Looked, Chain
<1>10. LogIsWatched'
  <2> SUFFICES ASSUME ~call'.disturbed PROVE LogIsWatched'
    BY DEF LogIsWatched
  <2>1. LogIsWatched /\ ~call.disturbed /\ ~gone
    BY <1>7 DEF AnswerInv
  <2>2. ASSUME logs, pc \in {"commit", "head2", "log2", "judge"}
        PROVE  \E y \in Nat : Follows(reflog, y)'
    <3>1. PICK y \in Nat : Follows(reflog, y)
      BY <2>1, <2>2 DEF LogIsWatched
    <3>2. y <= n
      <4>1. CASE call.made = 0
        BY <1>4, <3>1, <4>1 DEF Follows
      <4>2. CASE call.made # 0
        <5>1. DOMAIN reflog' = 1..n
          BY <1>4
        <5>2. PICK j \in 1..n : reflog'[j] = call.made
          BY <1>6, <2>1, <2>2, <4>2, <5>1 DEF Looked
        <5>3. reflog[j] = call.made /\ j \in 1..Len(reflog)
              /\ call.made \in Nat
          BY <1>1, <1>4, <5>2 DEF AnswerInv, CallInv
        <5>4. j \notin 1..y - 1
          BY <3>1, <5>3 DEF Follows
        <5>5. j \notin y + 1..Len(reflog)
          <6> SUFFICES ASSUME j \in y + 1..Len(reflog) PROVE FALSE
            OBVIOUS
          <6>1. reflog[j] = call.logBefore[j - y]
            BY <3>1 DEF Follows
          <6>2. j - y \in 1..Len(call.logBefore)
            <7>1. /\ Len(reflog) - y <= Len(call.logBefore)
                  /\ Len(call.logBefore) \in Nat
              BY <3>1 DEF Follows, AnswerInv, CallInv, Entries
            <7> QED
              BY <1>2, <7>1
          <6>3. call.logBefore[j - y] < call.made
            BY <2>1, <4>2, <6>2 DEF LogIsWatched
          <6> QED
            BY <5>3, <6>1, <6>3
        <5> QED
          BY <1>4, <5>2, <5>3, <5>4, <5>5
      <4> QED
        BY <4>1, <4>2
    <3>3. /\ y \in 0..n /\ n - y <= Len(call.logBefore)
          /\ Len(call.logBefore) \in Nat
      <4>1. /\ Len(reflog) - y <= Len(call.logBefore)
            /\ Len(call.logBefore) \in Nat
        BY <3>1 DEF Follows, AnswerInv, CallInv, Entries
      <4> QED
        BY <1>2, <1>4, <3>2, <4>1
    <3>4. /\ \A i \in y + 1..n : reflog'[i] = call.logBefore[i - y]
          /\ \A i \in 1..y - 1 : reflog'[i] > call.made
          /\ IF call.made = 0 THEN y = 0 ELSE y > 0 /\ reflog'[y] = call.made
      <4>1. \A i \in y + 1..n : i \in 1..n /\ i \in y + 1..Len(reflog)
        BY <1>2, <1>4, <3>2
      <4>2. \A i \in 1..y : i \in 1..n
        BY <1>4, <3>2
      <4>3. \A i \in 1..y - 1 : i \in 1..y
        OBVIOUS
      <4>4. y > 0 => y \in 1..y
        OBVIOUS
      <4> QED
        BY <1>4, <3>1, <4>1, <4>2, <4>3, <4>4 DEF Follows
    <3>5. Follows(reflog, y)'
      BY <1>4, <1>7, <3>3, <3>4 DEF Follows
    <3> QED
      BY <3>5
  <2>3. ASSUME logs, pc = "judge" PROVE \E y \in Nat : Follows(call.logAfter, y)'
    BY <1>7, <2>1, <2>3 DEF LogIsWatched, Follows
  <2> QED
    BY <1>1, <1>7, <2>1, <2>2, <2>3 DEF LogIsWatched
<1> QED
  BY <1>5, <1>8, <1>9, <1>10 DEF WatchInv

\* The four looks at HEAD and at the reflog.
LEMMA LooksKeep ==
  ASSUME AnswerInv, ResolveHead \/ ListReflog \/ ResolveHeadAfter \/ ListReflogAfter
  PROVE  WatchInv'
<1>1. UNCHANGED <<logs, commits, head, reflog>>
  BY DEF ResolveHead, ListReflog, ResolveHeadAfter, ListReflogAfter, Inspects,
         repoVars
<1>2. RepoInv'
  BY <1>1 DEF AnswerInv, RepoInv, Lineage, Entries
<1>3. /\ IsCall(call) /\ Entries(reflog) /\ head \in 0..Len(commits)
      /\ Entries(call.logBefore) /\ Len(reflog) \in Nat
  BY DEF AnswerInv, CallInv, RepoInv, Entries
<1>4. CASE ResolveHead
  <2>1. /\ IsCall(call') /\ call'.headBefore = head
        /\ call'.headAfter = call.headAfter /\ call'.logBefore = call.logBefore
        /\ call'.logAfter = call.logAfter /\ call'.made = call.made
        /\ call'.disturbed = call.disturbed /\ pc = "head" /\ pc' = "log"
    BY <1>3, <1>4 DEF ResolveHead, IsCall
  <2>2. CallInv'
    BY <1>1, <1>3, <2>1 DEF AnswerInv, CallInv, Entries
  <2>3. HeadIsWatched' /\ LogIsWatched'
    BY <1>1, <2>1, <2>2 DEF AnswerInv, CallInv, HeadIsWatched, LogIsWatched
  <2> QED
    BY <1>2, <2>2, <2>3 DEF WatchInv
<1>5. CASE ListReflog
  <2>1. /\ IsCall(call') /\ call'.headBefore = call.headBefore
        /\ call'.headAfter = call.headAfter /\ call'.logBefore = reflog
        /\ call'.logAfter = call.logAfter /\ call'.made = call.made
        /\ call'.disturbed = call.disturbed /\ pc = "log" /\ pc' = "commit"
        /\ call.made = 0
    BY <1>3, <1>5 DEF ListReflog, IsCall, AnswerInv, CallInv
  <2>2. CallInv'
    BY <1>1, <1>3, <2>1 DEF AnswerInv, CallInv, Entries
  <2>3. HeadIsWatched'
    BY <1>1, <2>1 DEF AnswerInv, HeadIsWatched, Looked
  <2>4. Follows(reflog, 0)'
    BY <1>1, <1>3, <2>1 DEF Follows
  <2>5. LogIsWatched'
    BY <1>1, <2>1, <2>4 DEF AnswerInv, LogIsWatched, RepoInv
  <2> QED
    BY <1>2, <2>2, <2>3, <2>5 DEF WatchInv
<1>6. CASE ResolveHeadAfter
  <2>1. /\ IsCall(call') /\ call'.headBefore = call.headBefore
        /\ call'.headAfter = head /\ call'.logBefore = call.logBefore
        /\ call'.logAfter = call.logAfter /\ call'.made = call.made
        /\ call'.disturbed = call.disturbed /\ pc = "head2" /\ pc' = "log2"
    BY <1>3, <1>6 DEF ResolveHeadAfter, IsCall
  <2>2. CallInv'
    BY <1>1, <1>3, <2>1 DEF AnswerInv, CallInv, Entries
  <2>3. HeadIsWatched'
    <3>1. Looked
      BY <2>1 DEF Looked
    <3>2. call.made # 0 /\ Chain(call.headBefore, call.made)
            => Len(commits) \in call.made..Len(commits)
      BY DEF Chain, AnswerInv, RepoInv, Lineage
    <3> QED
      BY <1>1, <2>1, <3>1, <3>2 DEF AnswerInv, HeadIsWatched, Chain
  <2>4. LogIsWatched'
    BY <1>1, <2>1 DEF AnswerInv, LogIsWatched, Follows
  <2> QED
    BY <1>2, <2>2, <2>3, <2>4 DEF WatchInv
<1>7. CASE ListReflogAfter
  <2>1. /\ IsCall(call') /\ call'.headBefore = call.headBefore
        /\ call'.headAfter = call.headAfter /\ call'.logBefore = call.logBefore
        /\ call'.logAfter = reflog /\ call'.made = call.made
        /\ call'.disturbed = call.disturbed /\ pc = "log2" /\ pc' = "judge"
    BY <1>3, <1>7 DEF ListReflogAfter, IsCall
  <2>2. CallInv'
    BY <1>1, <1>3, <2>1 DEF AnswerInv, CallInv, Entries
  <2>3. HeadIsWatched'
    BY <1>1, <2>1 DEF AnswerInv, HeadIsWatched, Looked, Chain
  <2>4. LogIsWatched'
    BY <1>1, <2>1 DEF AnswerInv, LogIsWatched, Follows, RepoInv
  <2> QED
    BY <1>2, <2>2, <2>3, <2>4 DEF WatchInv
<1> QED
  BY <1>4, <1>5, <1>6, <1>7

LEMMA NoCallKeeps ==
  ASSUME AnswerInv, UNCHANGED <<logs, commits, head, reflog>>, call' = NoCall,
         pc' \in {"idle", "list"}
  PROVE  WatchInv'
<1>1. RepoInv' /\ Len(commits) \in Nat
  BY DEF AnswerInv, RepoInv, Lineage, Entries
<1>2. /\ IsCall(call') /\ call'.headBefore = 0 /\ call'.headAfter = 0
      /\ call'.logBefore = <<>> /\ call'.logAfter = <<>> /\ call'.made = 0
      /\ call'.disturbed = FALSE
  BY DEF NoCall, IsCall
<1>3. Entries(call.logBefore)' /\ Entries(call.logAfter)'
  BY <1>2 DEF Entries
<1>4. CallInv'
  <2>1. 0 \in 0..Len(commits)'
    BY <1>1 DEF RepoInv, Lineage
  <2> QED
    BY <1>2, <1>3, <2>1 DEF CallInv
<1>5. HeadIsWatched' /\ LogIsWatched'
  BY <1>2 DEF HeadIsWatched, LogIsWatched, Looked
<1> QED
  BY <1>1, <1>4, <1>5 DEF WatchInv

\* An answer that was given stays true as long as the call keeps what it made.
LEMMA AnswerStays ==
  ASSUME AnswerInv, RepoInv', UNCHANGED <<pc, answer>>,
         Len(commits) <= Len(commits'),
         pc = "done" => /\ call'.made = call.made
                        /\ call'.unseen = call.unseen
                        /\ ~call'.disturbed => ~call.disturbed
  PROVE  AnswerIsTrue'
<1> SUFFICES ASSUME pc = "done" PROVE AnswerIsTrue'
  BY DEF AnswerIsTrue
<1>1. answer.ok => answer.sha \in DOMAIN commits'
  <2>1. DOMAIN commits = 1..Len(commits) /\ DOMAIN commits' = 1..Len(commits')
        /\ Len(commits) \in Nat /\ Len(commits') \in Nat
    BY DEF AnswerInv, RepoInv, Lineage
  <2>2. answer.ok => answer.sha \in DOMAIN commits
    BY DEF AnswerInv, AnswerIsTrue
  <2> QED
    BY <2>1, <2>2
<1> QED
  BY <1>1 DEF AnswerInv, AnswerIsTrue

LEMMA InitAnswerInv == Init => AnswerInv
<1> SUFFICES ASSUME Init PROVE AnswerInv
  OBVIOUS
<1>1. /\ commits = <<>> /\ head = 0 /\ reflog = <<>> /\ pc = "idle"
      /\ call = NoCall
  BY DEF Init
<1>2. Len(commits) = 0 /\ Lineage
  BY <1>1 DEF Lineage
<1>3. Entries(<<>>)
  BY DEF Entries
<1>4. RepoInv
  BY <1>1, <1>2, <1>3 DEF RepoInv
<1>5. CallInv
  BY <1>1, <1>2, <1>3 DEF CallInv, NoCall, IsCall
<1>6. HeadIsWatched /\ LogIsWatched /\ AnswerIsTrue
  BY <1>1 DEF HeadIsWatched, LogIsWatched, AnswerIsTrue, Looked, NoCall
<1> QED
  BY <1>4, <1>5, <1>6 DEF AnswerInv

LEMMA NextAnswerInv == AnswerInv /\ [Next]_vars => AnswerInv'
<1> SUFFICES ASSUME AnswerInv, [Next]_vars PROVE AnswerInv'
  OBVIOUS
<1> SUFFICES WatchInv' /\ AnswerIsTrue'
  BY DEF AnswerInv, WatchInv
<1> USE DEF Inspects, repoVars
<1>0. IsCall(call) /\ Len(commits) \in Nat
  BY DEF AnswerInv, CallInv, RepoInv, Lineage
<1>1. CASE GitAdd \/ HookStages \/ OtherStages
  <2>1. /\ UNCHANGED <<logs, commits, head, reflog, pc, answer>>
        /\ Knows(call') /\ call'.unseen = call.unseen
    BY <1>0, <1>1 DEF GitAdd, HookStages, OtherStages, Knows, IsCall
  <2>2. WatchInv'
    BY <2>1, QuietKeeps DEF AnswerInv, CallInv, Looked
  <2>3. AnswerIsTrue'
    BY <1>0, <2>1, <2>2, AnswerStays DEF Knows, WatchInv
  <2> QED
    BY <2>2, <2>3
<1>2. CASE GitCommit \/ Finish
  BY <1>2, NoCallKeeps DEF GitCommit, Finish, AnswerIsTrue
<1>3. CASE Fail
  <2>1. WatchInv'
    BY <1>0, <1>3, QuietKeeps DEF Fail, Return, Looked, Knows
  <2>2. AnswerIsTrue'
    BY <1>3 DEF Fail, Return, AnswerIsTrue, AnswerInv, CallInv
  <2> QED
    BY <2>1, <2>2
<1>4. CASE ListStagedPaths
  <2>1. pc = "list" /\ pc' \in {"head", "done"} /\ call.made = 0
        /\ UNCHANGED <<logs, commits, head, reflog, call>>
    BY <1>4 DEF ListStagedPaths, Return, AnswerInv, CallInv
  <2>2. WatchInv'
    BY <1>0, <2>1, QuietKeeps DEF Looked, Knows
  <2>3. AnswerIsTrue'
    BY <1>4, <2>1 DEF ListStagedPaths, Return, AnswerIsTrue
  <2> QED
    BY <2>2, <2>3
<1>5. CASE ResolveHead \/ ListReflog \/ ResolveHeadAfter \/ ListReflogAfter
  BY <1>5, LooksKeep
     DEF ResolveHead, ListReflog, ResolveHeadAfter, ListReflogAfter, AnswerIsTrue
<1>6. CASE MakeCommit
  BY <1>6, MakeCommitKeeps DEF MakeCommit, AnswerIsTrue
<1>7. CASE HookCommits
  <2>1. pc = "commit" /\ pc' = pc /\ call' = call /\ UNCHANGED logs
        /\ NewCommit /\ call.made # 0 /\ call.disturbed \in BOOLEAN
    BY <1>7 DEF HookCommits, AnswerInv, CallInv
  <2>2. WatchInv'
    BY <1>0, <2>1, CommitOnTop
  <2> QED
    BY <2>1, <2>2 DEF AnswerIsTrue
<1>8. CASE EndCommit
  <2>1. /\ UNCHANGED <<logs, commits, head, reflog>> /\ Knows(call')
        /\ pc = "commit" /\ pc' = "head2"
    BY <1>0, <1>8 DEF EndCommit, Knows, IsCall
  <2> QED
    BY <2>1, QuietKeeps DEF Looked, AnswerIsTrue
<1>9. CASE LoseCommit \/ FailAfter
  <2>1. /\ UNCHANGED <<logs, commits, head, reflog>> /\ Knows(call')
        /\ pc' = "done" /\ call'.unseen
        /\ answer' = [ok |-> FALSE, sha |-> 0]
    BY <1>0, <1>9 DEF LoseCommit, FailAfter, Return, Knows, IsCall
  <2>2. WatchInv'
    BY <2>1, QuietKeeps DEF Looked
  <2> QED
    BY <2>1, <2>2 DEF AnswerIsTrue
<1>10. CASE Judge
  <2>1. /\ UNCHANGED <<logs, commits, head, reflog, call>>
        /\ pc = "judge" /\ pc' = "done"
    BY <1>10 DEF Judge, Return
  <2>2. WatchInv'
    BY <1>0, <2>1, QuietKeeps DEF Looked, Knows
  <2>3. PICK sha : sha = ResolveCreatedCommit
    OBVIOUS
  <2>4. sha \in 0..Len(commits) /\ (~call.disturbed => sha = call.made)
    BY <2>1, <2>3, ResolvesMade
  <2>5. answer' = IF sha # 0 /\ (call.end = "cut" \/ call.made # 0)
                  THEN [ok |-> TRUE, sha |-> sha] ELSE [ok |-> FALSE, sha |-> 0]
    BY <1>10, <2>3 DEF Judge, Return
  <2>6. DOMAIN commits' = 1..Len(commits)
    BY <2>1 DEF AnswerInv, RepoInv, Lineage
  <2>7. AnswerIsTrue'
    BY <1>0, <2>1, <2>4, <2>5, <2>6 DEF AnswerIsTrue
  <2> QED
    BY <2>2, <2>7
<1>11. CASE OtherCommits
  <2>1. /\ NewCommit /\ UNCHANGED <<logs, pc, answer>>
        /\ IsCall(call') /\ call'.unseen = call.unseen
        /\ call'.headBefore = call.headBefore /\ call'.headAfter = call.headAfter
        /\ call'.logBefore = call.logBefore /\ call'.logAfter = call.logAfter
        /\ call'.made = call.made
        /\ call'.disturbed = (call.disturbed \/ (Looked /\ call.made = 0))
    BY <1>0, <1>11 DEF OtherCommits, Disturb, IsCall
  <2>2. /\ call'.disturbed \in BOOLEAN
        /\ ~call'.disturbed => ~call.disturbed /\ (Looked => call.made # 0)
    BY <2>1
  <2>3. WatchInv'
    BY <2>1, <2>2, CommitOnTop
  <2>4. Len(commits) <= Len(commits')
    BY <2>1, NewCommitFacts DEF AnswerInv
  <2>5. AnswerIsTrue'
    BY <2>1, <2>2, <2>3, <2>4, AnswerStays DEF WatchInv
  <2> QED
    BY <2>3, <2>5
<1>12. CASE OtherResets \/ OtherExpires
  <2>1. WatchInv'
    BY <1>12, ResetKeeps, ExpireKeeps
  <2>2. /\ UNCHANGED <<pc, answer, commits>> /\ call'.made = call.made
        /\ call'.unseen = call.unseen /\ (~call'.disturbed => ~call.disturbed)
    BY <1>0, <1>12 DEF OtherResets, OtherExpires, Disturb, IsCall
  <2>3. AnswerIsTrue'
    BY <1>0, <2>1, <2>2, AnswerStays DEF WatchInv
  <2> QED
    BY <2>1, <2>3
<1>13. CASE UNCHANGED vars
  <2>1. WatchInv'
    BY <1>0, <1>13, QuietKeeps DEF vars, Looked, Knows, AnswerInv, CallInv
  <2> QED
    BY <1>13, <2>1 DEF vars, AnswerIsTrue, AnswerInv
<1> QED
  BY <1>1, <1>2, <1>3, <1>4, <1>5, <1>6, <1>7, <1>8, <1>9, <1>10, <1>11, <1>12,
     <1>13 DEF Next

\* As long as nobody else moves HEAD before the commit is made, or resets it
\* later, git_commit names the commit it made, and it fails only when it made
\* none or lost sight of git; whatever others do, success names a commit.
THEOREM AnswersAreTrue == Spec => []AnswerIsTrue
<1>1. AnswerInv => AnswerIsTrue
  BY DEF AnswerInv
<1> QED
  BY <1>1, InitAnswerInv, NextAnswerInv, PTL DEF Spec
=============================================================================
