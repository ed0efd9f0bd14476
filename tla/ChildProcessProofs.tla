------------------------- MODULE ChildProcessProofs -------------------------
(***************************************************************************)
(* Theorems about the three runners of child processes, for every output   *)
(* limit, every pipe size and any number of build.sh steps.                *)
(***************************************************************************)
EXTENDS ChildProcess, TLAPS

Deciding == pc \in {"reap", "deadline", "poll", "read"}

(* What the runner believes while it is still reading.                     *)
ReadingInv ==
  /\ Deciding => /\ ~parent.killed /\ ~parent.pollFailed /\ ~parent.stray
                 /\ \A s \in Streams : parent.got[s] <= Limit
  /\ parent.todo \subseteq parent.open
  /\ kind # "build" => /\ pc # "reap"
                       /\ Deciding => parent.open # {}
                       /\ pc # "returned" => child.state # "reaped"

(* A stream that is not open any more has no writers and nothing in it, and *)
(* reading ends for one of three reasons.                                   *)
EndInv ==
  /\ \A s \in Streams \ parent.open : holders[s] = {} /\ piped[s] = 0
  /\ pc \in {"finish", "returned"} =>
       parent.killed \/ parent.pollFailed \/ parent.open = {}

(* The exit status is that of a child that has ended, and kill follows only *)
(* when killpg found no group.                                             *)
ExitInv ==
  /\ pc = "fallback" => parent.missed
  /\ child.exit = "none" <=> child.state = "running"
  /\ parent.ok => pc = "returned" /\ child.exit = "zero" /\ ~parent.killed

IInv ==
  /\ TypeOK /\ ReadingInv /\ EndInv /\ ExitInv
  /\ NoZombie /\ KilledMeansGone /\ SignalsStayHome

\* A runner that has just forked knows nothing and has done nothing.
LEMMA InitInv == Init => IInv
<1> SUFFICES ASSUME Init PROVE IInv
  OBVIOUS
<1>1. steps \in 1..MaxSteps
  BY RunnersAssumption DEF Init
<1>2. /\ child = NewChild /\ helper = "none" /\ parent = NewParent
      /\ holders = [s \in Streams |-> {"child"}] /\ piped = [s \in Streams |-> 0]
      /\ expired = FALSE /\ kind \in Kinds /\ pc = FirstStep(kind)
  BY DEF Init
<1>3. pc \in {"reap", "deadline"} /\ (kind # "build" => pc = "deadline")
  BY <1>2 DEF FirstStep
<1>4. TypeOK
  <2>1. parent.got \in [Streams -> 0..Limit + 1] /\ piped \in [Streams -> 0..PipeSize]
    BY <1>2, RunnersAssumption DEF NewParent
  <2>2. holders \in [Streams -> SUBSET {"child", "helper"}]
    BY <1>2
  <2>3. parent \in [open : SUBSET Streams, todo : SUBSET Streams,
                    got : [Streams -> 0..Limit + 1], active : BOOLEAN,
                    reaped : BOOLEAN, missed : BOOLEAN, killed : BOOLEAN,
                    timedOut : BOOLEAN, pollFailed : BOOLEAN, ok : BOOLEAN,
                    stray : BOOLEAN]
    BY <1>2, <2>1 DEF NewParent
  <2>4. QED
    BY <1>1, <1>2, <1>3, <2>1, <2>2, <2>3 DEF TypeOK, NewChild
<1>5. ReadingInv
  BY <1>2, <1>3, RunnersAssumption
     DEF ReadingInv, Deciding, NewParent, NewChild, Streams
<1>6. QED
  BY <1>2, <1>3, <1>4, <1>5
     DEF IInv, EndInv, ExitInv, NoZombie, KilledMeansGone, SignalsStayHome,
         NewParent, NewChild

\* Whatever the command does, the runner is where it was and knows what it
\* knew, and no stream comes to life again.
LEMMA WorldStep == IInv /\ pc # "returned" /\ World => IInv'
<1> SUFFICES ASSUME IInv, pc # "returned", World PROVE IInv'
  OBVIOUS
<1> USE RunnersAssumption
<1>1. UNCHANGED <<kind, pc, parent, steps>>
  BY DEF World, Writes, SetGroup, Write, LeaveHelper, ChildExits, HelperExits,
         Expire, CloseStream, Inside
<1>2. /\ child' \in [state : {"running", "zombie", "reaped"}, grouped : BOOLEAN,
                     exit : {"none", "zero", "nonzero", "signal"}]
      /\ child'.exit = "none" <=> child'.state = "running"
      /\ child.state # "running" => child'.state = child.state
      /\ child.state = "running" => child'.state \in {"running", "zombie"}
      /\ child.state # "running" /\ helper # "grouped" => helper' # "grouped"
  <2>1. /\ child \in [state : {"running", "zombie", "reaped"}, grouped : BOOLEAN,
                      exit : {"none", "zero", "nonzero", "signal"}]
        /\ child.exit = "none" <=> child.state = "running"
    BY DEF IInv, TypeOK, ExitInv
  <2>2. \/ child' = child
        \/ child' = [child EXCEPT !.grouped = TRUE]
        \/ /\ child.state = "running"
           /\ \E exit \in {"zero", "nonzero"} :
                child' = [child EXCEPT !.state = "zombie", !.exit = exit]
    BY DEF World, Writes, SetGroup, Write, LeaveHelper, ChildExits, HelperExits,
           Expire, CloseStream
  <2>3. child.state # "running" /\ helper # "grouped" => helper' # "grouped"
    BY DEF World, Writes, SetGroup, Write, LeaveHelper, ChildExits, HelperExits,
           Expire, CloseStream
  <2>4. QED
    BY <2>1, <2>2, <2>3
<1>3. /\ helper' \in {"none", "grouped", "detached", "gone"}
      /\ expired' \in BOOLEAN
  BY DEF World, Writes, SetGroup, Write, LeaveHelper, ChildExits, HelperExits,
         Expire, CloseStream, Alive, IInv, TypeOK
<1>4. /\ holders' \in [Streams -> SUBSET {"child", "helper"}]
      /\ piped' \in [Streams -> 0..PipeSize]
      /\ \A s \in Streams : holders[s] = {} => holders'[s] = {}
      /\ \A s \in Streams : holders[s] = {} => piped'[s] = piped[s]
  BY DEF World, Writes, SetGroup, Write, LeaveHelper, ChildExits, HelperExits,
         Expire, CloseStream, Without, IInv, TypeOK
<1>5. TypeOK'
  BY <1>1, <1>2, <1>3, <1>4 DEF IInv, TypeOK
<1>6. ReadingInv'
  BY <1>1, <1>2 DEF IInv, ReadingInv, Deciding
<1>7. EndInv'
  BY <1>1, <1>4 DEF IInv, EndInv
<1>8. ExitInv' /\ NoZombie' /\ KilledMeansGone' /\ SignalsStayHome'
  BY <1>1, <1>2 DEF IInv, ExitInv, NoZombie, KilledMeansGone, SignalsStayHome
<1>9. QED
  BY <1>5, <1>6, <1>7, <1>8 DEF IInv

\* killpg ends the child and everything that stayed in its group; it opens no
\* stream again.
LEMMA KillGroupFacts ==
  ASSUME TypeOK, ExitInv, KillGroup
  PROVE  /\ child' \in [state : {"running", "zombie", "reaped"},
                        grouped : BOOLEAN,
                        exit : {"none", "zero", "nonzero", "signal"}]
         /\ child'.exit = "none" <=> child'.state = "running"
         /\ child'.state # "running" /\ helper' # "grouped"
         /\ child.state = "reaped" <=> child'.state = "reaped"
         /\ helper' \in {"none", "grouped", "detached", "gone"}
         /\ holders' \in [Streams -> SUBSET {"child", "helper"}]
         /\ \A s \in Streams : holders[s] = {} => holders'[s] = {}
<1>1. /\ child' \in [state : {"running", "zombie", "reaped"}, grouped : BOOLEAN,
                     exit : {"none", "zero", "nonzero", "signal"}]
      /\ child'.exit = "none" <=> child'.state = "running"
      /\ child'.state # "running"
      /\ child.state = "reaped" <=> child'.state = "reaped"
  BY DEF KillGroup, ChildDies, TypeOK, ExitInv
<1>2. helper' # "grouped" /\ helper' \in {"none", "grouped", "detached", "gone"}
  BY DEF KillGroup, TypeOK
<1>3. /\ holders' \in [Streams -> SUBSET {"child", "helper"}]
      /\ \A s \in Streams : holders[s] = {} => holders'[s] = {}
  BY DEF KillGroup, TypeOK
<1>4. QED
  BY <1>1, <1>2, <1>3

\* The rules of a parent record, which every step of the runner keeps.
Parents ==
  [open : SUBSET Streams, todo : SUBSET Streams, got : [Streams -> 0..Limit + 1],
   active : BOOLEAN, reaped : BOOLEAN, missed : BOOLEAN, killed : BOOLEAN,
   timedOut : BOOLEAN, pollFailed : BOOLEAN, ok : BOOLEAN, stray : BOOLEAN]

\* build's waitpid(WNOHANG) counts a child as reaped only if it has ended.
LEMMA TryReapStep == IInv /\ TryReap => IInv'
<1> SUFFICES ASSUME IInv, TryReap PROVE IInv'
  OBVIOUS
<1>1. /\ kind = "build" /\ pc' = "deadline" /\ pc = "reap"
      /\ UNCHANGED <<kind, helper, holders, piped, expired, steps>>
  BY DEF TryReap, IInv, ReadingInv
<1>2. /\ child' \in [state : {"running", "zombie", "reaped"}, grouped : BOOLEAN,
                     exit : {"none", "zero", "nonzero", "signal"}]
      /\ child'.exit = child.exit
      /\ child.state = "running" <=> child'.state = "running"
      /\ child.state # "running" => child'.state = "reaped"
  BY DEF TryReap, IInv, TypeOK
<1>3. /\ parent' \in Parents /\ parent'.reaped = (child.state # "running")
      /\ parent'.open = parent.open /\ parent'.todo = parent.todo
      /\ parent'.got = parent.got /\ parent'.killed = parent.killed
      /\ parent'.missed = parent.missed
      /\ parent'.ok = parent.ok
      /\ parent'.pollFailed = parent.pollFailed /\ parent'.stray = parent.stray
  BY DEF TryReap, IInv, TypeOK, Parents
<1>4. TypeOK'
  BY <1>1, <1>2, <1>3 DEF IInv, TypeOK, Parents
<1>5. ReadingInv' /\ EndInv'
  BY <1>1, <1>3 DEF IInv, ReadingInv, EndInv, Deciding
<1>6. ExitInv' /\ NoZombie' /\ KilledMeansGone' /\ SignalsStayHome'
  BY <1>1, <1>2, <1>3
     DEF IInv, ExitInv, NoZombie, KilledMeansGone, SignalsStayHome
<1>7. QED
  BY <1>4, <1>5, <1>6 DEF IInv

\* The three ways in which the runner comes to kill: the deadline, poll failing
\* in build, and the output limit.  Either killpg ends the command, or kill is
\* still to come.
LEMMA KillStep ==
  ASSUME IInv, Deciding, NEW known \in Parents, Kill(known),
         ~known.killed, ~known.ok,
         known.open = parent.open, known.todo \subseteq parent.open,
         known.reaped = parent.reaped, known.stray = parent.stray,
         piped' \in [Streams -> 0..PipeSize],
         \A s \in Streams : piped[s] = 0 => piped'[s] = 0,
         UNCHANGED <<kind, expired, steps>>
  PROVE  IInv'
<1>1. CASE GroupExists
  <2>1. KillGroup /\ pc' = "finish" /\ parent' = [known EXCEPT !.killed = TRUE]
    BY <1>1 DEF Kill
  <2>2. /\ child' \in [state : {"running", "zombie", "reaped"},
                        grouped : BOOLEAN,
                        exit : {"none", "zero", "nonzero", "signal"}]
        /\ child'.exit = "none" <=> child'.state = "running"
        /\ child'.state # "running" /\ helper' # "grouped"
        /\ child.state = "reaped" <=> child'.state = "reaped"
        /\ helper' \in {"none", "grouped", "detached", "gone"}
        /\ holders' \in [Streams -> SUBSET {"child", "helper"}]
        /\ \A s \in Streams : holders[s] = {} => holders'[s] = {}
    BY <2>1, KillGroupFacts DEF IInv
  <2>3. /\ parent' \in Parents /\ parent'.killed /\ ~parent'.ok
        /\ parent'.open = parent.open /\ parent'.todo \subseteq parent.open
        /\ parent'.reaped = parent.reaped /\ parent'.stray = known.stray
    BY <2>1 DEF Parents
  <2>4. TypeOK'
    BY <2>1, <2>2, <2>3 DEF IInv, TypeOK, Parents
  <2>5. ReadingInv' /\ EndInv'
    BY <2>1, <2>2, <2>3 DEF IInv, ReadingInv, EndInv, Deciding
  <2>6. ExitInv' /\ NoZombie' /\ KilledMeansGone'
    BY <2>1, <2>2, <2>3 DEF IInv, ExitInv, NoZombie, KilledMeansGone
  <2>7. SignalsStayHome'
    BY <2>3 DEF IInv, ReadingInv, SignalsStayHome
  <2>8. QED
    BY <2>4, <2>5, <2>6, <2>7 DEF IInv
<1>2. CASE ~GroupExists
  <2>1. /\ pc' = "fallback" /\ UNCHANGED <<child, helper, holders>>
        /\ parent' = [known EXCEPT !.missed = TRUE, !.stray = Strayed]
    BY <1>2 DEF Kill
  <2>2. /\ Strayed \in BOOLEAN
        /\ Strayed => child.state = "reaped"
    BY DEF Strayed, GroupExists
  <2>3. /\ parent' \in Parents /\ parent'.missed
        /\ ~parent'.killed /\ ~parent'.ok
        /\ parent'.open = parent.open /\ parent'.todo \subseteq parent.open
        /\ parent'.reaped = parent.reaped
        /\ parent'.stray => child.state = "reaped"
    BY <2>1, <2>2 DEF Parents
  <2>4. TypeOK'
    BY <2>1, <2>3 DEF IInv, TypeOK, Parents
  <2>5. ReadingInv' /\ EndInv'
    BY <2>1, <2>3 DEF IInv, ReadingInv, EndInv, Deciding
  <2>6. ExitInv' /\ NoZombie' /\ KilledMeansGone'
    BY <2>1, <2>3 DEF IInv, ExitInv, NoZombie, KilledMeansGone
  <2>7. SignalsStayHome'
    BY <2>1, <2>3 DEF IInv, SignalsStayHome, ReadingInv, Deciding
  <2>8. QED
    BY <2>4, <2>5, <2>6, <2>7 DEF IInv
<1>3. QED
  BY <1>1, <1>2

\* The second system call reaches a child that could leave its group meanwhile,
\* or the number of one that build has reaped.
LEMMA FallBackStep == IInv /\ FallBack => IInv'
<1> SUFFICES ASSUME IInv, FallBack PROVE IInv'
  OBVIOUS
<1>1. /\ pc = "fallback" /\ pc' = "finish"
      /\ UNCHANGED <<kind, helper, piped, expired, steps>>
  BY DEF FallBack
<1>2. /\ child' \in [state : {"running", "zombie", "reaped"}, grouped : BOOLEAN,
                     exit : {"none", "zero", "nonzero", "signal"}]
      /\ child'.exit = "none" <=> child'.state = "running"
      /\ child'.state # "running"
      /\ child.state = "reaped" <=> child'.state = "reaped"
  BY DEF FallBack, ChildDies, IInv, TypeOK, ExitInv
<1>3. /\ holders' \in [Streams -> SUBSET {"child", "helper"}]
      /\ \A s \in Streams : holders[s] = {} => holders'[s] = {}
  BY DEF FallBack, Without, IInv, TypeOK
<1>4. /\ parent' \in Parents /\ parent'.killed /\ parent'.missed
      /\ ~parent'.ok /\ parent'.open = parent.open
      /\ parent'.todo = parent.todo /\ parent'.reaped = parent.reaped
      /\ parent'.stray => parent.stray \/ child.state = "reaped"
  BY <1>1 DEF FallBack, IInv, TypeOK, ExitInv, Parents
<1>5. TypeOK'
  BY <1>1, <1>2, <1>3, <1>4 DEF IInv, TypeOK, Parents
<1>6. ReadingInv' /\ EndInv'
  BY <1>1, <1>2, <1>3, <1>4 DEF IInv, ReadingInv, EndInv, Deciding
<1>7. ExitInv' /\ NoZombie' /\ KilledMeansGone'
  BY <1>1, <1>2, <1>4 DEF IInv, ExitInv, NoZombie, KilledMeansGone
<1>8. SignalsStayHome'
  BY <1>1, <1>4 DEF IInv, SignalsStayHome, ReadingInv
<1>9. QED
  BY <1>5, <1>6, <1>7, <1>8 DEF IInv

\* The deadline kills, and a command that is killed has no success.
LEMMA TimeOutStep == IInv /\ TimeOut => IInv'
<1> SUFFICES ASSUME IInv, TimeOut PROVE IInv'
  OBVIOUS
<1> DEFINE known == [parent EXCEPT !.timedOut = TRUE]
<1>1. /\ Deciding /\ Kill(known) /\ UNCHANGED <<kind, piped, expired, steps>>
  BY DEF TimeOut, Deciding
<1>2. /\ known \in Parents /\ known.killed = parent.killed
      /\ known.ok = parent.ok /\ known.open = parent.open
      /\ known.todo = parent.todo /\ known.reaped = parent.reaped
      /\ known.stray = parent.stray
  BY DEF IInv, TypeOK, Parents
<1>3. /\ ~parent.ok /\ parent.todo \subseteq parent.open /\ ~parent.killed
  BY <1>1 DEF IInv, ExitInv, ReadingInv, TimeOut
<1>4. piped' \in [Streams -> 0..PipeSize]
  BY <1>1 DEF IInv, TypeOK
<1> HIDE DEF known
<1>5. QED
  BY <1>1, <1>2, <1>3, <1>4, KillStep

\* When poll fails, build kills and the others go and wait.
LEMMA PollErrorStep == IInv /\ PollError => IInv'
<1> SUFFICES ASSUME IInv, PollError PROVE IInv'
  OBVIOUS
<1>1. /\ Deciding /\ pc = "poll" /\ UNCHANGED <<kind, piped, expired, steps>>
  BY DEF PollError, Deciding
<1>2. ~parent.ok /\ parent.todo \subseteq parent.open /\ ~parent.killed
  BY <1>1 DEF IInv, ExitInv, ReadingInv
<1>3. CASE kind = "build"
  <2> DEFINE known == [parent EXCEPT !.pollFailed = TRUE]
  <2>1. Kill(known)
    BY <1>3 DEF PollError
  <2>2. /\ known \in Parents /\ known.killed = parent.killed
        /\ known.ok = parent.ok /\ known.open = parent.open
        /\ known.todo = parent.todo /\ known.reaped = parent.reaped
        /\ known.stray = parent.stray
    BY DEF IInv, TypeOK, Parents
  <2>3. piped' \in [Streams -> 0..PipeSize]
    BY <1>1 DEF IInv, TypeOK
  <2> HIDE DEF known
  <2>4. QED
    BY <1>1, <1>2, <2>1, <2>2, <2>3, KillStep
<1>4. CASE kind # "build"
  <2>1. /\ parent' \in Parents /\ parent'.pollFailed
        /\ parent'.ok = parent.ok /\ parent'.killed = parent.killed
        /\ parent'.missed = parent.missed
        /\ parent'.open = parent.open /\ parent'.todo = parent.todo
        /\ parent'.reaped = parent.reaped /\ parent'.stray = parent.stray
        /\ pc' = "finish"
        /\ UNCHANGED <<child, helper, holders>>
    <3>1. parent \in Parents
      BY DEF IInv, TypeOK, Parents
    <3>2. QED
      BY <1>4, <3>1 DEF PollError, Parents
  <2>2. TypeOK'
    BY <1>1, <2>1 DEF IInv, TypeOK, Parents
  <2>3. ReadingInv' /\ EndInv'
    BY <1>1, <1>4, <2>1 DEF IInv, ReadingInv, EndInv, Deciding
  <2>4. ExitInv' /\ NoZombie' /\ KilledMeansGone' /\ SignalsStayHome'
    BY <1>1, <1>2, <2>1 DEF IInv, ExitInv, NoZombie, KilledMeansGone,
                            SignalsStayHome
  <2>5. QED
    BY <2>2, <2>3, <2>4 DEF IInv
<1>5. QED
  BY <1>3, <1>4

\* Before the deadline the runner polls while a stream is open.
LEMMA InTimeStep == IInv /\ InTime => IInv'
<1> SUFFICES ASSUME IInv, InTime PROVE IInv'
  OBVIOUS
<1>1. /\ pc = "deadline" /\ UNCHANGED <<kind, parent, steps>>
      /\ UNCHANGED <<child, helper, holders, piped, expired>>
  BY DEF InTime, outside
<1>2. \/ parent.open # {} /\ pc' = "poll"
      \/ parent.open = {} /\ pc' \in {"finish", "reap"}
  BY DEF InTime
<1>3. kind # "build" => pc' = "poll"
  BY <1>1, <1>2 DEF IInv, ReadingInv, Deciding
<1>4. TypeOK'
  BY <1>1, <1>2 DEF IInv, TypeOK
<1>5. ReadingInv' /\ EndInv'
  BY <1>1, <1>2, <1>3 DEF IInv, ReadingInv, EndInv, Deciding
<1>6. ExitInv' /\ NoZombie' /\ KilledMeansGone' /\ SignalsStayHome'
  BY <1>1, <1>2 DEF IInv, ExitInv, NoZombie, KilledMeansGone, SignalsStayHome
<1>7. QED
  BY <1>4, <1>5, <1>6 DEF IInv

\* poll names only streams that are open.
LEMMA PollStep == IInv /\ Poll => IInv'
<1> SUFFICES ASSUME IInv, Poll PROVE IInv'
  OBVIOUS
<1>1. /\ pc = "poll" /\ UNCHANGED <<kind, steps>>
      /\ UNCHANGED <<child, helper, holders, piped, expired>>
  BY DEF Poll, outside
<1>2. /\ parent' \in Parents /\ parent'.todo \subseteq parent.open
      /\ parent'.open = parent.open /\ parent'.got = parent.got
      /\ parent'.ok = parent.ok /\ parent'.killed = parent.killed
      /\ parent'.missed = parent.missed
      /\ parent'.reaped = parent.reaped /\ parent'.stray = parent.stray
      /\ parent'.pollFailed = parent.pollFailed
  <2>1. Ready \subseteq parent.open /\ parent.todo \subseteq parent.open
    BY DEF Ready, IInv, ReadingInv
  <2>2. parent \in Parents
    BY DEF IInv, TypeOK, Parents
  <2>3. Ready \in SUBSET Streams
    BY <2>1, <2>2 DEF Parents
  <2>4. \/ parent' = parent
        \/ parent' = [parent EXCEPT !.todo = Ready, !.active = FALSE]
    BY DEF Poll
  <2>5. QED
    BY <2>1, <2>2, <2>3, <2>4 DEF Parents
<1>3. /\ pc' \in {"read", "reap", "deadline"}
      /\ kind # "build" => pc' # "reap"
  BY DEF Poll, FirstStep
<1>4. TypeOK'
  BY <1>1, <1>2, <1>3 DEF IInv, TypeOK, Parents
<1>5. ReadingInv' /\ EndInv'
  BY <1>1, <1>2, <1>3 DEF IInv, ReadingInv, EndInv, Deciding
<1>6. ExitInv' /\ NoZombie' /\ KilledMeansGone' /\ SignalsStayHome'
  BY <1>1, <1>2, <1>3
     DEF IInv, ExitInv, NoZombie, KilledMeansGone, SignalsStayHome
<1>7. QED
  BY <1>4, <1>5, <1>6 DEF IInv

\* Where a round goes on: to the end only when no stream is open and, for
\* build, the child has been reaped.
LEMMA ContinueFacts ==
  ASSUME NEW todo, NEW open, todo \subseteq open
  PROVE  /\ Continue(todo, open) \in {"read", "finish", "reap", "deadline"}
         /\ Continue(todo, open) = "finish" => open = {}
         /\ kind # "build" => /\ Continue(todo, open) # "reap"
                              /\ Continue(todo, open) # "finish" => open # {}
  BY DEF Continue, FirstStep

\* A stream is given up only when its writers are gone and it is empty.
LEMMA ReadEndStep == IInv /\ ReadEnd => IInv'
<1> SUFFICES ASSUME IInv, ReadEnd PROVE IInv'
  OBVIOUS
<1>1. /\ pc = "read" /\ UNCHANGED <<kind, steps>>
      /\ UNCHANGED <<child, helper, holders, piped, expired>>
  BY DEF ReadEnd, outside
<1>2. PICK s \in {FirstOf(parent.todo)} :
        /\ piped[s] = 0
        /\ parent' = [parent EXCEPT !.todo = @ \ {s},
                        !.open = IF holders[s] = {} THEN @ \ {s} ELSE @]
        /\ pc' = Continue(parent'.todo, parent'.open)
  BY DEF ReadEnd
<1>3. s \in Streams
  BY DEF FirstOf, Streams
<1>4. /\ parent' \in Parents
      /\ parent'.todo = parent.todo \ {s}
      /\ parent'.open = IF holders[s] = {} THEN parent.open \ {s} ELSE parent.open
      /\ parent'.got = parent.got /\ parent'.pollFailed = parent.pollFailed
      /\ parent'.ok = parent.ok /\ parent'.killed = parent.killed
      /\ parent'.missed = parent.missed
      /\ parent'.reaped = parent.reaped /\ parent'.stray = parent.stray
  BY <1>2 DEF IInv, TypeOK, Parents
<1>5. parent'.todo \subseteq parent'.open
  BY <1>4 DEF IInv, ReadingInv
<1>6. /\ pc' \in {"read", "finish", "reap", "deadline"}
      /\ pc' = "finish" => parent'.open = {}
      /\ kind # "build" => pc' # "reap" /\ (pc' # "finish" => parent'.open # {})
  BY <1>2, <1>5, ContinueFacts
<1>7. TypeOK'
  BY <1>1, <1>4, <1>6 DEF IInv, TypeOK, Parents
<1>8. ReadingInv'
  BY <1>1, <1>4, <1>5, <1>6 DEF IInv, ReadingInv, Deciding
<1>9. EndInv'
  BY <1>1, <1>2, <1>3, <1>4, <1>6 DEF IInv, EndInv
<1>10. ExitInv' /\ NoZombie' /\ KilledMeansGone' /\ SignalsStayHome'
  BY <1>1, <1>4, <1>6
     DEF IInv, ExitInv, NoZombie, KilledMeansGone, SignalsStayHome
<1>11. QED
  BY <1>7, <1>8, <1>9, <1>10 DEF IInv

\* A chunk beyond the limit ends the reading; no other step exceeds it.
LEMMA ReadChunkStep == IInv /\ ReadChunk => IInv'
<1> SUFFICES ASSUME IInv, ReadChunk PROVE IInv'
  OBVIOUS
<1>1. pc = "read" /\ Deciding /\ UNCHANGED <<kind, expired, steps>>
  BY DEF ReadChunk, Deciding
<1>2. PICK s \in {FirstOf(parent.todo)} :
        /\ piped[s] > 0
        /\ piped' = [piped EXCEPT ![s] = @ - 1]
        /\ IF kind = "build"
           THEN /\ parent' = [parent EXCEPT !.active = TRUE]
                /\ UNCHANGED <<pc, child, helper, holders>>
           ELSE IF OverLimit(s)
           THEN Kill([parent EXCEPT !.got[s] = @ + 1])
           ELSE /\ parent' = [parent EXCEPT !.got[s] = @ + 1,
                                            !.todo = @ \ {s}]
                /\ pc' = Continue(parent'.todo, parent.open)
                /\ UNCHANGED <<child, helper, holders>>
  BY DEF ReadChunk
<1>3. s \in Streams
  BY DEF FirstOf, Streams
<1>4. /\ piped' \in [Streams -> 0..PipeSize]
      /\ \A t \in Streams : piped[t] = 0 => piped'[t] = 0
  BY <1>2, <1>3, RunnersAssumption DEF IInv, TypeOK
<1>5. /\ ~parent.ok /\ parent.todo \subseteq parent.open /\ ~parent.killed
      /\ parent.got[s] \in 0..Limit
  BY <1>1, <1>3, RunnersAssumption
     DEF IInv, ExitInv, ReadingInv, TypeOK
<1>6. CASE kind = "build"
  <2>1. /\ parent' \in Parents /\ UNCHANGED <<pc, child, helper, holders>>
        /\ parent'.open = parent.open /\ parent'.todo = parent.todo
        /\ parent'.got = parent.got /\ parent'.pollFailed = parent.pollFailed
        /\ parent'.ok = parent.ok /\ parent'.killed = parent.killed
        /\ parent'.missed = parent.missed
        /\ parent'.reaped = parent.reaped /\ parent'.stray = parent.stray
    <3>1. parent \in Parents
      BY DEF IInv, TypeOK, Parents
    <3>2. QED
      BY <1>2, <1>6, <3>1 DEF Parents
  <2>2. TypeOK'
    BY <1>1, <1>4, <2>1 DEF IInv, TypeOK, Parents
  <2>3. ReadingInv' /\ EndInv'
    BY <1>1, <1>4, <2>1 DEF IInv, ReadingInv, EndInv, Deciding
  <2>4. ExitInv' /\ NoZombie' /\ KilledMeansGone' /\ SignalsStayHome'
    BY <1>1, <2>1 DEF IInv, ExitInv, NoZombie, KilledMeansGone, SignalsStayHome
  <2>5. QED
    BY <2>2, <2>3, <2>4 DEF IInv
<1>7. CASE kind # "build" /\ OverLimit(s)
  <2> DEFINE known == [parent EXCEPT !.got = [parent.got EXCEPT ![s] = @ + 1]]
  <2>1. Kill(known)
    BY <1>2, <1>7
  <2>2. [parent.got EXCEPT ![s] = @ + 1] \in [Streams -> 0..Limit + 1]
    BY <1>3, <1>5, RunnersAssumption DEF IInv, TypeOK
  <2>3. /\ known \in Parents /\ known.killed = parent.killed
        /\ known.ok = parent.ok /\ known.open = parent.open
        /\ known.todo = parent.todo /\ known.reaped = parent.reaped
        /\ known.stray = parent.stray
    BY <2>2 DEF IInv, TypeOK, Parents
  <2> HIDE DEF known
  <2>4. QED
    BY <1>1, <1>4, <1>5, <2>1, <2>3, KillStep
<1>8. CASE kind # "build" /\ ~OverLimit(s)
  <2>1. /\ parent' = [parent EXCEPT !.got = [parent.got EXCEPT ![s] = @ + 1],
                                    !.todo = @ \ {s}]
        /\ pc' = Continue(parent'.todo, parent.open)
        /\ UNCHANGED <<child, helper, holders>>
    BY <1>2, <1>8
  <2>2. /\ [parent.got EXCEPT ![s] = @ + 1] \in [Streams -> 0..Limit + 1]
        /\ \A t \in Streams : [parent.got EXCEPT ![s] = @ + 1][t] <= Limit
    BY <1>1, <1>3, <1>5, <1>8, RunnersAssumption
       DEF IInv, TypeOK, OverLimit, ReadingInv
  <2>3. /\ parent' \in Parents
        /\ parent'.open = parent.open /\ parent'.todo = parent.todo \ {s}
        /\ \A t \in Streams : parent'.got[t] <= Limit
        /\ parent'.pollFailed = parent.pollFailed
        /\ parent'.ok = parent.ok /\ parent'.killed = parent.killed
        /\ parent'.missed = parent.missed
        /\ parent'.reaped = parent.reaped /\ parent'.stray = parent.stray
    BY <2>1, <2>2 DEF IInv, TypeOK, Parents
  <2>4. /\ pc' \in {"read", "finish", "reap", "deadline"}
        /\ pc' = "finish" => parent.open = {}
        /\ pc' # "reap" /\ (pc' # "finish" => parent.open # {})
    <3>1. parent'.todo \subseteq parent.open
      BY <1>5, <2>3
    <3>2. QED
      BY <1>8, <2>1, <3>1, ContinueFacts
  <2>5. TypeOK'
    BY <1>1, <1>4, <2>1, <2>3, <2>4 DEF IInv, TypeOK, Parents
  <2>6. ReadingInv'
    BY <1>1, <1>5, <1>8, <2>1, <2>3, <2>4 DEF IInv, ReadingInv, Deciding
  <2>7. EndInv'
    BY <1>1, <1>4, <2>1, <2>3, <2>4 DEF IInv, EndInv
  <2>8. ExitInv' /\ NoZombie' /\ KilledMeansGone' /\ SignalsStayHome'
    BY <1>1, <1>5, <2>1, <2>3, <2>4
       DEF IInv, ExitInv, NoZombie, KilledMeansGone, SignalsStayHome
  <2>9. QED
    BY <2>5, <2>6, <2>7, <2>8 DEF IInv
<1>9. QED
  BY <1>6, <1>7, <1>8

\* The wait ends with a child that has ended; then the next step starts
\* afresh, or the verdict is that of the exit status.
LEMMA FinishStep == IInv /\ Finish => IInv'
<1> SUFFICES ASSUME IInv, Finish PROVE IInv'
  OBVIOUS
<1>1. pc = "finish" /\ child.state \in {"zombie", "reaped"}
  BY DEF Finish
<1>2. CASE Succeeded(child.exit) /\ steps > 1
  <2>1. StartNextStep
    BY <1>2 DEF Finish
  <2>2. /\ child' = NewChild /\ helper' = "none" /\ parent' = NewParent
        /\ holders' = [s \in Streams |-> {"child"}]
        /\ piped' = [s \in Streams |-> 0]
        /\ steps' = steps - 1 /\ UNCHANGED <<kind, expired>>
        /\ pc' \in {"reap", "deadline"} /\ (kind # "build" => pc' = "deadline")
    BY <2>1 DEF StartNextStep, FirstStep
  <2>3. steps' \in 1..MaxSteps
    BY <1>2, <2>2, RunnersAssumption DEF IInv, TypeOK
  <2>4. /\ NewParent \in Parents
        /\ [s \in Streams |-> 0] \in [Streams -> 0..PipeSize]
        /\ [s \in Streams |-> {"child"}] \in [Streams -> SUBSET {"child", "helper"}]
    <3>1. [s \in Streams |-> 0] \in [Streams -> 0..Limit + 1]
      BY RunnersAssumption
    <3>2. NewParent \in Parents
      BY <3>1 DEF NewParent, Parents
    <3>3. QED
      BY <3>2, RunnersAssumption
  <2>5. TypeOK'
    BY <2>2, <2>3, <2>4 DEF IInv, TypeOK, NewChild, Parents
  <2>6. ReadingInv' /\ EndInv'
    BY <2>2, RunnersAssumption
       DEF ReadingInv, EndInv, Deciding, NewParent, NewChild, Streams
  <2>7. ExitInv' /\ NoZombie' /\ KilledMeansGone' /\ SignalsStayHome'
    BY <2>2 DEF ExitInv, NoZombie, KilledMeansGone, SignalsStayHome,
                NewParent, NewChild
  <2>8. QED
    BY <2>5, <2>6, <2>7 DEF IInv
<1>3. CASE ~(Succeeded(child.exit) /\ steps > 1)
  <2>1. Return
    BY <1>3 DEF Finish
  <2>2. /\ pc' = "returned"
        /\ UNCHANGED <<kind, helper, holders, piped, expired, steps>>
    BY <2>1 DEF Return
  <2>3. /\ child'.state = "reaped" /\ child'.exit = child.exit
        /\ child' \in [state : {"running", "zombie", "reaped"},
                       grouped : BOOLEAN,
                       exit : {"none", "zero", "nonzero", "signal"}]
    BY <2>1 DEF Return, IInv, TypeOK
  <2>4. Succeeded(child.exit) \in BOOLEAN
    BY DEF Succeeded
  <2>5. /\ parent' \in Parents /\ parent'.ok = Succeeded(child.exit)
        /\ parent'.open = parent.open /\ parent'.todo = parent.todo
        /\ parent'.got = parent.got /\ parent'.pollFailed = parent.pollFailed
        /\ parent'.killed = parent.killed /\ parent'.stray = parent.stray
        /\ parent'.missed = parent.missed
    BY <2>1, <2>4 DEF Return, IInv, TypeOK, Parents
  <2>6. TypeOK'
    BY <2>2, <2>3, <2>5 DEF IInv, TypeOK, Parents
  <2>7. ReadingInv' /\ EndInv'
    BY <1>1, <2>2, <2>5 DEF IInv, ReadingInv, EndInv, Deciding
  <2>8. ExitInv' /\ NoZombie' /\ KilledMeansGone' /\ SignalsStayHome'
    BY <1>1, <2>2, <2>3, <2>5
       DEF IInv, ExitInv, NoZombie, KilledMeansGone, SignalsStayHome, Succeeded
  <2>9. QED
    BY <2>6, <2>7, <2>8 DEF IInv
<1>4. QED
  BY <1>2, <1>3

\* Nothing changes in a stuttering step.
LEMMA Unchanged == IInv /\ UNCHANGED vars => IInv'
  BY DEF vars, IInv, TypeOK, ReadingInv, EndInv, ExitInv, NoZombie,
       KilledMeansGone, SignalsStayHome, Deciding

\* The invariant that the theorems below follow from.
THEOREM Inductive == Spec => []IInv
<1>1. IInv /\ [Next]_vars => IInv'
  BY WorldStep, TryReapStep, TimeOutStep, InTimeStep, PollStep, PollErrorStep,
     FallBackStep, ReadChunkStep, ReadEndStep, FinishStep, Unchanged DEF Next, Runner, Rest
<1>2. QED
  BY InitInv, <1>1, PTL DEF Spec

\* Every variable of the runners stays within its type; in particular no runner
\* takes in more than one chunk beyond its output limit.
THEOREM TypeCorrect == Spec => []TypeOK
<1>1. IInv => TypeOK
  BY DEF IInv
<1>2. QED
  BY Inductive, <1>1, PTL

\* A runner that has returned has waited for its child.
THEOREM NoZombieHolds == Spec => []NoZombie
<1>1. IInv => NoZombie
  BY DEF IInv
<1>2. QED
  BY Inductive, <1>1, PTL

\* A command cut off by a limit is gone, and somebody is left in its group only
\* if killpg found no group and the signal went to the child alone.
THEOREM KilledIsGone == Spec => []KilledMeansGone
<1>1. IInv => KilledMeansGone
  BY DEF IInv
<1>2. QED
  BY Inductive, <1>1, PTL

\* bash and capture signal no process number the child has given up.
THEOREM SignalsAreHome == Spec => []SignalsStayHome
<1>1. IInv => SignalsStayHome
  BY DEF IInv
<1>2. QED
  BY Inductive, <1>1, PTL

\* Success is reported only of a command that exited with zero on its own and
\* whose output was read to its end.
THEOREM SuccessIsHonest == Spec => []OkIsHonest
<1>1. IInv => OkIsHonest
  <2>1. IInv /\ pc = "returned" /\ parent.ok =>
          parent.pollFailed \/ parent.open = {}
    BY DEF IInv, EndInv, ExitInv
  <2>2. QED
    BY <2>1 DEF OkIsHonest, IInv, EndInv, ExitInv
<1>2. QED
  BY Inductive, <1>1, PTL

=============================================================================
