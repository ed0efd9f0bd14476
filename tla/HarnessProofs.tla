---------------------------- MODULE HarnessProofs ----------------------------
(***************************************************************************)
(* Theorems about the runs of the harness, for scenarios with any number   *)
(* of steps, any number of runs and every fault: how a run is judged, and  *)
(* what is found in its directory whenever it ends.                        *)
(***************************************************************************)
EXTENDS Harness, TLAPS

(* A run stops at the first step that fails, so the first failure is the   *)
(* only one, and no better than the others.                                *)
Results == Seq(StepResult)

StopsAtFailure(results) ==
  \A i \in 1..Len(results) - 1 : results[i] = "success"

AllSucceeded(results) == \A i \in 1..Len(results) : results[i] = "success"

Fields == {"status", "results", "verification", "acceptance"}

JudgeInv ==
  /\ run = [field \in Fields |-> run[field]]
  /\ run.results \in Results
  /\ archived \in BOOLEAN
  /\ StopsAtFailure(run.results)
  /\ pc \in {"step", "command"} => AllSucceeded(run.results)

\* A rank is a number, and success has the lowest of those of a step.
LEMMA RankIsNumber ==
  ASSUME NEW s
  PROVE  Rank(s) \in Int
  BY DEF Rank

\* merge_acceptance returns one of the two decisions, and not the better one.
LEMMA MergeIsWorst ==
  ASSUME NEW base, NEW overlay
  PROVE  /\ Merge(base, overlay) \in {base, overlay}
         /\ Rank(Merge(base, overlay)) >= Rank(base)
         /\ Rank(Merge(base, overlay)) >= Rank(overlay)
  <1>1. Rank(base) \in Int /\ Rank(overlay) \in Int
    BY RankIsNumber
  <1> QED
    BY <1>1 DEF Merge

\* base_acceptance_from_steps finds the worst result of the steps.
LEMMA ExecutionIsWorst ==
  ASSUME NEW results \in Results, StopsAtFailure(results)
  PROVE  /\ Execution(results) \in StepResult
         /\ \A i \in 1..Len(results) :
              Rank(Execution(results)) >= Rank(results[i])
  <1>1. CASE AllSucceeded(results)
    <2>1. Execution(results) = "success"
      BY <1>1 DEF AllSucceeded, Execution
    <2> QED
      BY <1>1, <2>1 DEF AllSucceeded, StepResult, Rank
  <1>2. CASE ~AllSucceeded(results)
    <2> DEFINE First(k) ==
          results[k] # "success" /\ \A j \in 1..k - 1 : results[j] = "success"
    <2>1. PICK k \in 1..Len(results) : results[k] # "success"
      BY <1>2 DEF AllSucceeded
    <2>2. k = Len(results)
      BY <2>1 DEF StopsAtFailure, Results
    <2>3. First(k)
      BY <2>1, <2>2 DEF StopsAtFailure, Results
    <2>4. \A i \in 1..Len(results) : First(i) => i = k
      BY <2>2 DEF StopsAtFailure, Results
    <2>5. (CHOOSE i \in 1..Len(results) : First(i)) = k
      BY <2>1, <2>3, <2>4
    <2>6. Execution(results) = results[k]
      BY <2>1, <2>5 DEF Execution
    <2>7. results[k] \in StepResult
      BY <2>1 DEF Results
    <2>8. \A i \in 1..Len(results) : i # k => results[i] = "success"
      BY <2>2 DEF StopsAtFailure, Results
    <2> QED
      BY <2>1, <2>6, <2>7, <2>8 DEF StepResult, Rank
  <1> QED
    BY <1>1, <1>2

-----------------------------------------------------------------------------
\* A subprocess result is one of the three results of a step.
LEMMA JudgedIsResult ==
  ASSUME NEW capture \in Capture
  PROVE  Judged(capture) \in StepResult
  BY DEF Judged, StepResult, Capture

LEMMA NewRunIsJudged ==
  ASSUME run' = NewRun, archived' = FALSE
  PROVE  JudgeInv'
  <1>1. NewRun = [field \in Fields |-> NewRun[field]] /\ NewRun.results = <<>>
    BY DEF NewRun, Fields
  <1>2. run'.results = <<>> /\ run' = [field \in Fields |-> run'[field]]
    BY <1>1
  <1>3. <<>> \in Results /\ StopsAtFailure(<<>>) /\ AllSucceeded(<<>>)
    BY DEF Results, StopsAtFailure, AllSucceeded
  <1> QED
    BY <1>2, <1>3 DEF JudgeInv

\* What the harness believes of the results of a run holds at every step.
LEMMA JudgeStep ==
  ASSUME JudgeInv, [Next]_vars
  PROVE  JudgeInv'
  <1>1. CASE Start \/ SetupFails \/ Return \/ PerformFails \/ Crash
    BY <1>1, NewRunIsJudged DEF Start, SetupFails, Return, PerformFails, Crash,
       Ended
  <1>2. CASE BeginStep \/ FinishPlan \/ Perform \/ Rest \/ UNCHANGED vars
    BY <1>2 DEF JudgeInv, BeginStep, FinishPlan, Perform, Rest, vars
  <1>3. CASE Archive
    BY <1>3 DEF JudgeInv, Archive
  <1>4. CASE RunCommand
    <2>1. PICK capture \in Capture :
            /\ run' = [run EXCEPT !.results = Append(@, Judged(capture))]
            /\ pc' = IF Judged(capture) = "success" THEN "step" ELSE "archive"
      BY <1>4 DEF RunCommand
    <2>2. /\ run'.results = Append(run.results, Judged(capture))
          /\ run' = [field \in Fields |-> run'[field]]
      BY <2>1 DEF JudgeInv, Fields
    <2>3. run.results \in Results /\ AllSucceeded(run.results)
      BY <1>4 DEF RunCommand, JudgeInv
    <2>4. Judged(capture) \in StepResult
      BY JudgedIsResult
    <2>5. /\ run'.results \in Results
          /\ StopsAtFailure(run'.results)
          /\ Judged(capture) = "success" => AllSucceeded(run'.results)
      BY <2>2, <2>3, <2>4 DEF Results, StopsAtFailure, AllSucceeded
    <2>6. /\ archived' \in BOOLEAN
          /\ pc' \in {"step", "command"} => Judged(capture) = "success"
      BY <1>4, <2>1 DEF RunCommand, JudgeInv
    <2> QED
      BY <2>2, <2>5, <2>6 DEF JudgeInv
  <1>5. CASE Verify
    <2>1. PICK v, a, status : run' = [run EXCEPT !.verification = v,
                                         !.acceptance = a, !.status = status]
      BY <1>5 DEF Verify
    <2>2. /\ run'.results = run.results
          /\ run' = [field \in Fields |-> run'[field]]
      BY <2>1 DEF JudgeInv, Fields
    <2>3. pc' = "return" /\ archived' = archived
      BY <1>5 DEF Verify
    <2> QED
      BY <2>2, <2>3 DEF JudgeInv
  <1> QED
    BY <1>1, <1>2, <1>3, <1>4, <1>5 DEF Next

-----------------------------------------------------------------------------
\* The decision of Verify is no better than any that it is made of.
LEMMA VerifyJudges ==
  ASSUME JudgeInv, Verify
  PROVE  AcceptanceIsWorst'
  <1> DEFINE execution  == Execution(run.results)
             verified   == Verified(execution, answer')
             acceptance == Accepted(execution, verified)
             merged     == Merge(execution, verified.acceptance)
  <1>1. /\ run'.acceptance = acceptance /\ run'.results = run.results
        /\ archived' = archived
    <2>1. PICK v, status : run' = [run EXCEPT !.verification = v,
                                      !.acceptance = acceptance,
                                      !.status = status]
      BY DEF Verify
    <2> QED
      BY <2>1 DEF Verify, JudgeInv, Fields
  <1>2. /\ execution \in StepResult
        /\ \A i \in 1..Len(run.results) :
             Rank(execution) >= Rank(run.results[i])
    BY ExecutionIsWorst DEF JudgeInv
  <1>3. /\ Rank(merged) >= Rank(execution)
        /\ Rank(merged) >= Rank(verified.acceptance)
    BY MergeIsWorst
  <1>4. \A s : Rank(s) \in Int
    BY RankIsNumber
  <1>5. /\ Rank("success") = 0 /\ Rank("terminal_failure") = 2
        /\ \A s \in StepResult : Rank(s) >= 0
        /\ \A s : Rank(s) = 0 => s = "success"
    BY DEF Rank, StepResult
  <1>6. /\ Rank(acceptance) >= Rank(merged)
        /\ verified.status # "passed" => Rank(acceptance) > 0
    <2>1. CASE verified.status # "passed" /\ merged = "success"
      <3>1. acceptance = "terminal_failure"
        BY <2>1 DEF Accepted
      <3> QED
        BY <2>1, <3>1, <1>5
    <2>2. CASE ~(verified.status # "passed" /\ merged = "success")
      <3>1. acceptance = merged
        BY <2>2 DEF Accepted
      <3>2. Rank(merged) >= 0
        BY <1>2, <1>3, <1>4, <1>5
      <3> HIDE DEF merged, acceptance, verified
      <3> QED
        BY <2>2, <3>1, <3>2, <1>4, <1>5
    <2> QED
      BY <2>1, <2>2
  <1>7. ~archived => /\ Rank(verified.acceptance) >= 2
    <2>1. ASSUME ~archived PROVE verified.acceptance = "terminal_failure"
      BY <2>1 DEF Verified
    <2> QED
      BY <2>1, <1>5
  <1>8. archived /\ ~answer'.error =>
          /\ Rank(verified.acceptance) >= Rank(answer'.acceptance)
          /\ answer'.status # "passed" => verified.status # "passed"
    <2>1. CASE archived /\ ~answer'.error /\ execution # "success"
      <3>1. verified = [status |-> "failed",
                        acceptance |-> Merge(execution, answer'.acceptance)]
        BY <2>1 DEF Verified
      <3> QED
        BY <3>1, MergeIsWorst
    <2>2. CASE archived /\ ~answer'.error /\ execution = "success"
      <3>1. verified = [status |-> answer'.status,
                        acceptance |-> answer'.acceptance]
        BY <2>2 DEF Verified
      <3> QED
        BY <3>1, <1>4
    <2> QED
      BY <2>1, <2>2
  <1>9. archived /\ answer'.error => verified.status # "passed"
    BY DEF Verified
  <1>10. ~archived => ~answer'.error
    <2>1. answer' \in IF archived THEN Answer ELSE {NoAnswer}
      BY DEF Verify
    <2>2. ASSUME ~archived PROVE answer' = NoAnswer
      BY <2>1, <2>2
    <2> QED
      BY <2>2 DEF NoAnswer
  <1>11. \A i \in 1..Len(run.results) :
           Rank(acceptance) >= Rank(run.results[i])
    BY <1>2, <1>3, <1>4, <1>6
  <1>12. Rank(acceptance) >= Rank(verified.acceptance)
    BY <1>3, <1>4, <1>6
  <1>13. archived \in BOOLEAN
    BY DEF JudgeInv
  <1> HIDE DEF execution, verified, acceptance, merged
  <1>14. ~archived => Rank(acceptance) >= Rank("terminal_failure")
    BY <1>4, <1>5, <1>7, <1>12
  <1>15. archived /\ ~answer'.error =>
           Rank(acceptance) >= Rank(answer'.acceptance)
    BY <1>4, <1>8, <1>12
  <1>16. answer'.error \/ (archived /\ answer'.status # "passed") =>
           Rank(acceptance) > Rank("success")
    BY <1>5, <1>6, <1>8, <1>9, <1>10
  <1> QED
    BY <1>1, <1>11, <1>14, <1>15, <1>16 DEF AcceptanceIsWorst

-----------------------------------------------------------------------------
JudgedInv == JudgeInv /\ AcceptanceIsWorst

\* The inductive invariant.
LEMMA JudgedInvariant == Spec => []JudgedInv
  <1>1. Init => JudgedInv
    <2> SUFFICES ASSUME Init PROVE JudgedInv
      OBVIOUS
    <2>1. NewRun = [field \in Fields |-> NewRun[field]] /\ NewRun.results = <<>>
      BY DEF NewRun, Fields
    <2>2. <<>> \in Results /\ StopsAtFailure(<<>>) /\ AllSucceeded(<<>>)
      BY DEF Results, StopsAtFailure, AllSucceeded
    <2>3. run = NewRun /\ archived = FALSE /\ pc = "idle"
      BY DEF Init
    <2> QED
      BY <2>1, <2>2, <2>3 DEF JudgedInv, JudgeInv, AcceptanceIsWorst
  <1>2. JudgedInv /\ [Next]_vars => JudgedInv'
    <2> SUFFICES ASSUME JudgedInv, [Next]_vars PROVE JudgedInv'
      OBVIOUS
    <2>1. JudgeInv'
      BY JudgeStep DEF JudgedInv
    <2>2. CASE Verify
      BY <2>1, <2>2, VerifyJudges DEF JudgedInv
    <2>3. CASE Perform \/ Rest \/ UNCHANGED vars
      BY <2>1, <2>3 DEF JudgedInv, AcceptanceIsWorst, Perform, Rest, vars
    <2>4. CASE \/ SetupFails \/ Start \/ BeginStep \/ RunCommand \/ FinishPlan
               \/ Archive \/ Return \/ PerformFails \/ Crash
      <3>1. pc' # "return"
        BY <2>4 DEF SetupFails, Start, BeginStep, RunCommand, FinishPlan,
           Archive, Return, PerformFails, Crash, Ended
      <3> QED
        BY <2>1, <3>1 DEF JudgedInv, AcceptanceIsWorst
    <2> QED
      BY <2>2, <2>3, <2>4 DEF Next
  <1> QED
    BY <1>1, <1>2, PTL DEF Spec

\* Whatever a scenario, its verifier and the disk do, for any number of steps:
\* a run is accepted as no better than the worst that was found.
THEOREM WorstIsAccepted == Spec => []AcceptanceIsWorst
  <1>1. JudgedInv => AcceptanceIsWorst
    BY DEF JudgedInv
  <1> QED
    BY <1>1, JudgedInvariant, PTL

-----------------------------------------------------------------------------
(* What is in the directory at every moment of a run *)

StepStatus == {"pending", "in_progress", "completed", "failed"}

PlanFields == {"steps", "current", "outcome"}

Says == Acceptance \cup {"none", "other"}

Kinds ==
  {"none", "run_started", "plan_created", "step_started", "tool_invoked",
   "tool_finished", "verification_started", "verification_passed",
   "verification_failed", "acceptance_checked", "run_succeeded", "run_failed"}

Events == [kind : Kinds, step : Nat, status : Says]

Names == ArtifactName \cup {"plan", "run", "index"}

Effects ==
  {e \in [do : {"write", "emit"}, what : Names \cup {"none"}, event : Events] :
     e.do = "write" => e.what \in Names /\ e = Write(e.what, e.event.step)}

Mark(result) == IF result = "success" THEN "completed" ELSE "failed"

(* Whether a write is among the next i effects, or among all that are to   *)
(* come, and whether an artifact is there.                                 *)
Owes(what, step, i) == \E j \in 1..i : todo[j] = Write(what, step)
Owed(what, step) == Owes(what, step, Len(todo))
Has(what, step) == <<step, what>> \in disk.artifacts

(* The plan and the run in memory.                                         *)
MemoryInv ==
  LET results == run.results
      steps   == plan.steps
  IN  /\ plan = [field \in PlanFields |-> plan[field]]
      /\ steps \in Seq(StepStatus) /\ Len(results) <= Len(steps)
      /\ \A i \in 1..Len(steps) :
           /\ i <= Len(results) => steps[i] = Mark(results[i])
           /\ i = Len(results) + 1 =>
                steps[i] = IF pc = "command" THEN "in_progress" ELSE "pending"
           /\ i > Len(results) + 1 => steps[i] = "pending"
      /\ pc = "command" => Len(results) < Len(steps)
      /\ pc \in {"archive", "verify", "return"} /\ AllSucceeded(results) =>
           plan.outcome = "completed" /\ Len(results) = Len(steps)
      /\ pc # "return" => run.status = "running"
      /\ pc = "return" => run.status \in {"succeeded", "failed"}
      /\ run.status = "succeeded" =>
           /\ run.verification = "passed" /\ run.acceptance = "success"
           /\ AllSucceeded(results)

(* What must be true of the i-th effect to come if it is an event: by the  *)
(* time it is written, what it tells of is in the directory.               *)
Due(e, i) ==
  /\ e.kind = "step_started" =>
       /\ e.step \in 1..Len(plan.steps) /\ plan.steps[e.step] # "pending"
       /\ \A j \in i..Len(todo) : todo[j] # Write("plan", 0)
  /\ e.kind = "tool_invoked" =>
       Has("command", e.step) \/ Owes("command", e.step, i)
  /\ e.kind = "tool_finished" =>
       /\ e.step \in 1..Len(run.results) /\ run.results[e.step] = e.status
       /\ \A a \in ArtifactName : Has(a, e.step) \/ Owes(a, e.step, i)
  /\ e.kind = "verification_started" => Has("index", 0) \/ Owes("index", 0, i)
  /\ e.kind = "acceptance_checked" => pc = "return" /\ run.acceptance = e.status
  /\ e.kind = "run_succeeded" =>
       pc = "return" /\ run.status = "succeeded" /\ i = Len(todo)
  /\ e.kind = "run_failed" =>
       pc = "return" /\ run.status = "failed" /\ i = Len(todo)

(* The effects to come: nothing is written after run.json.                 *)
QueueInv ==
  /\ todo \in Seq(Effects)
  /\ \A i, j \in 1..Len(todo) :
       i < j /\ todo[i].what = "run" => todo[j].do # "write"
  /\ \A i \in 1..Len(todo) : todo[i].do = "emit" => Due(todo[i].event, i)

(* plan.json and run.json say the same of the steps both know.             *)
Agree(steps, results) ==
  /\ Len(results) <= Len(steps)
  /\ \A i \in 1..Len(steps) :
       /\ i <= Len(results) => steps[i] = Mark(results[i])
       /\ i > Len(results) + 1 => steps[i] = "pending"
  /\ \A i \in 1..Len(results) - 1 : results[i] = "success"

DiskFields == {"plan", "run", "trace", "artifacts", "torn"}

(* Each file is that of the memory, or one change behind it as long as the *)
(* change is still to be written.                                          *)
PlanFile ==
  /\ Owed("plan", 0) \/ disk.plan = <<plan>>
  /\ disk.plan # <<>> => Len(disk.plan[1].steps) = Len(plan.steps)

RunFile ==
  /\ Owed("run", 0) \/ disk.run = <<run>>
  /\ disk.run # <<>> =>
       LET results == disk.run[1].results
       IN  /\ Len(results) \in {Len(run.results), Len(run.results) - 1}
           /\ \A i \in 1..Len(results) : results[i] = run.results[i]
           /\ Agree(plan.steps, results)
           /\ disk.plan # <<>> => Agree(disk.plan[1].steps, results)
           /\ disk.run[1].status = "running" \/ disk.run[1] = run
           /\ disk.run[1].status = "succeeded" =>
                \A j \in 1..Len(todo) : todo[j].do # "write"

ArtifactFiles ==
  /\ \A i \in 1..Len(run.results), a \in ArtifactName : Has(a, i) \/ Owed(a, i)
  /\ pc = "command" => Has("command", NextStep) \/ Owed("command", NextStep)
  /\ pc \in {"verify", "return"} => Has("index", 0) \/ Owed("index", 0)

FilesInv ==
  /\ disk = [field \in DiskFields |-> disk[field]] /\ ~disk.torn
  /\ PlanFile /\ RunFile /\ ArtifactFiles

(* What the trace tells is true, and stays true as the run goes on.        *)
Told(e) ==
  /\ e.kind = "step_started" =>
       /\ e.step \in 1..Len(plan.steps) /\ plan.steps[e.step] # "pending"
       /\ disk.plan # <<>> => disk.plan[1].steps[e.step] # "pending"
  /\ e.kind = "tool_invoked" => Has("command", e.step)
  /\ e.kind = "tool_finished" =>
       /\ e.step \in 1..Len(run.results) /\ run.results[e.step] = e.status
       /\ \A a \in ArtifactName : Has(a, e.step)
  /\ e.kind = "verification_started" => Has("index", 0)
  /\ e.kind = "acceptance_checked" => pc = "return" /\ run.acceptance = e.status
  /\ e.kind = "run_succeeded" =>
       pc = "return" /\ run.status = "succeeded" /\ todo = <<>>
  /\ e.kind = "run_failed" =>
       pc = "return" /\ run.status = "failed" /\ todo = <<>>

TraceInv ==
  /\ disk.trace \in Seq(Events)
  /\ \A k \in 1..Len(disk.trace) : Told(disk.trace[k])

RunInv ==
  /\ pc \in {"step", "command", "archive", "verify", "return"} /\ exit = "none"
  /\ MemoryInv /\ QueueInv /\ FilesInv /\ TraceInv

RecordsInv ==
  /\ JudgeInv
  /\ pc = "idle" => todo = <<>> /\ SuccessIsEarned /\ RecordsAgree
  /\ pc # "idle" => RunInv

-----------------------------------------------------------------------------
\* A file to be written and an event to be emitted are told apart.
LEMMA EffectFacts ==
  /\ \A what, step : /\ Write(what, step).do = "write"
                     /\ Write(what, step).what = what
                     /\ Write(what, step).event.step = step
  /\ \A kind, step, status : /\ Emit(kind, step, status).do = "emit"
                             /\ Emit(kind, step, status).event.kind = kind
                             /\ Emit(kind, step, status).event.step = step
                             /\ Emit(kind, step, status).event.status = status
  /\ \A what \in Names, step \in Nat : Write(what, step) \in Effects
  /\ \A kind \in Kinds, step \in Nat, status \in Says :
       Emit(kind, step, status) \in Effects
  /\ \A e \in Effects : \/ e.do = "emit" /\ e.event \in Events
                        \/ e.do = "write" /\ e = Write(e.what, e.event.step)
                           /\ e.what \in Names
<1>1. \A what, step : /\ Write(what, step).do = "write"
                       /\ Write(what, step).what = what
                       /\ Write(what, step).event.step = step
  BY DEF Write, Event
<1>2. \A kind, step, status : /\ Emit(kind, step, status).do = "emit"
                              /\ Emit(kind, step, status).event.kind = kind
                              /\ Emit(kind, step, status).event.step = step
                              /\ Emit(kind, step, status).event.status = status
  BY DEF Emit, Event
<1>3. ASSUME NEW what \in Names, NEW step \in Nat
      PROVE  Write(what, step) \in Effects
  <2>1. Event("none", step, "none") \in Events
    <3>1. "none" \in Kinds
      BY DEF Kinds
    <3>2. "none" \in Says
      BY DEF Says
    <3>3. QED
      BY <3>1, <3>2 DEF Event, Events
  <2>2. Write(what, step) \in
          [do : {"write", "emit"}, what : Names \cup {"none"}, event : Events]
    BY <2>1 DEF Write
  <2>3. QED
    BY <1>1, <2>2 DEF Effects
<1>4. ASSUME NEW kind \in Kinds, NEW step \in Nat, NEW status \in Says
      PROVE  Emit(kind, step, status) \in Effects
  <2>1. Event(kind, step, status) \in Events
    BY DEF Event, Events
  <2>2. Emit(kind, step, status) \in
          [do : {"write", "emit"}, what : Names \cup {"none"}, event : Events]
    BY <2>1 DEF Emit
  <2>3. QED
    BY <1>2, <2>2 DEF Effects
<1>5. ASSUME NEW e \in Effects
      PROVE  \/ e.do = "emit" /\ e.event \in Events
             \/ e.do = "write" /\ e = Write(e.what, e.event.step)
                /\ e.what \in Names
  BY DEF Effects
<1>6. QED
  BY <1>1, <1>2, <1>3, <1>4, <1>5

\* During a run, what RunInv says makes its records true.
LEMMA RunningRecords ==
  ASSUME JudgeInv, RunInv
  PROVE  SuccessIsEarned /\ RecordsAgree
<1>1. /\ MemoryInv /\ FilesInv /\ TraceInv /\ exit = "none"
      /\ run.results \in Seq(StepResult) /\ Len(run.results) \in Nat
      /\ Len(plan.steps) \in Nat /\ Len(run.results) <= Len(plan.steps)
  <2>1. run.results \in Seq(StepResult)
    BY DEF JudgeInv, Results
  <2>2. plan.steps \in Seq(StepStatus) /\ Len(run.results) <= Len(plan.steps)
    BY DEF RunInv, MemoryInv
  <2>3. QED
    BY <2>1, <2>2 DEF RunInv
<1>2. ASSUME disk.run # <<>>, disk.run[1].status = "succeeded"
      PROVE  /\ disk.run[1].verification = "passed"
             /\ disk.run[1].acceptance = "success"
             /\ disk.plan # <<>> /\ disk.plan[1].outcome = "completed"
             /\ Len(disk.run[1].results) = Len(disk.plan[1].steps)
             /\ \A i \in 1..Len(disk.plan[1].steps) :
                  /\ disk.plan[1].steps[i] = "completed"
                  /\ disk.run[1].results[i] = "success"
                  /\ {i} \X ArtifactName \subseteq disk.artifacts
             /\ <<0, "index">> \in disk.artifacts
  <2>1. disk.run[1] = run /\ run.status = "succeeded" /\ pc = "return"
    BY <1>1, <1>2 DEF FilesInv, PlanFile, RunFile, ArtifactFiles, MemoryInv
  <2>2. \A what, step : ~Owed(what, step)
    BY <1>1, <1>2, EffectFacts DEF FilesInv, PlanFile, RunFile, ArtifactFiles, Owed, Owes
  <2>3. disk.plan = <<plan>>
    BY <1>1, <2>2 DEF FilesInv, PlanFile, RunFile, ArtifactFiles
  <2>4. /\ run.verification = "passed" /\ run.acceptance = "success"
        /\ AllSucceeded(run.results) /\ plan.outcome = "completed"
        /\ Len(run.results) = Len(plan.steps)
        /\ \A i \in 1..Len(plan.steps) : plan.steps[i] = Mark(run.results[i])
    <3>1. /\ run.verification = "passed" /\ run.acceptance = "success"
          /\ AllSucceeded(run.results)
          /\ AllSucceeded(run.results) =>
               plan.outcome = "completed" /\ Len(run.results) = Len(plan.steps)
      BY <1>1, <2>1 DEF MemoryInv
    <3>2. \A i \in 1..Len(plan.steps) :
            i <= Len(run.results) => plan.steps[i] = Mark(run.results[i])
      BY <1>1 DEF MemoryInv
    <3>3. QED
      BY <1>1, <3>1, <3>2
  <2>5. \A i \in 1..Len(plan.steps) :
          run.results[i] = "success" /\ plan.steps[i] = "completed"
    BY <2>4 DEF AllSucceeded, Mark
  <2>6. \A i \in 1..Len(plan.steps) : {i} \X ArtifactName \subseteq disk.artifacts
    BY <1>1, <2>2, <2>4 DEF FilesInv, PlanFile, RunFile, ArtifactFiles, Has
  <2>7. <<0, "index">> \in disk.artifacts
    BY <1>1, <2>1, <2>2 DEF FilesInv, PlanFile, RunFile, ArtifactFiles, Has
  <2>8. disk.plan # <<>> /\ disk.plan[1] = plan
    BY <2>3
  <2>9. QED
    BY <2>1, <2>4, <2>5, <2>6, <2>7, <2>8
<1>3. FilesAgree
  BY <1>1 DEF FilesInv, PlanFile, RunFile, ArtifactFiles, FilesAgree, Agree, Mark
<1>4. ASSUME NEW e, Told(e) PROVE EventIsTrue(e)
  <2>1. CASE e.kind \in {"step_started", "tool_invoked", "verification_started"}
    BY <1>4, <2>1 DEF Told, EventIsTrue, Has
  <2>2. CASE e.kind = "tool_finished"
    <3>1. /\ e.step \in 1..Len(run.results) /\ run.results[e.step] = e.status
          /\ {e.step} \X ArtifactName \subseteq disk.artifacts
      BY <1>4, <2>2 DEF Told, Has
    <3>2. disk.run # <<>> =>
            /\ Len(disk.run[1].results) \in {Len(run.results),
                                            Len(run.results) - 1}
            /\ \A i \in 1..Len(disk.run[1].results) :
                 disk.run[1].results[i] = run.results[i]
      BY <1>1 DEF FilesInv, PlanFile, RunFile, ArtifactFiles
    <3>3. disk.run # <<>> =>
            /\ Len(disk.run[1].results) >= e.step - 1
            /\ e.step <= Len(disk.run[1].results) =>
                 disk.run[1].results[e.step] = e.status
      <4>1. e.step \in Nat /\ e.step <= Len(run.results) /\ 1 <= e.step
        BY <1>1, <3>1
      <4> DEFINE n == Len(disk.run[1].results)
      <4>2. ASSUME disk.run # <<>>
            PROVE  n \in Nat /\ n >= e.step - 1 /\ (e.step <= n => e.step \in 1..n)
        <5>1. n = Len(run.results) \/ n = Len(run.results) - 1
          BY <3>2, <4>2
        <5> HIDE DEF n
        <5>2. QED
          BY <1>1, <4>1, <5>1
      <4>3. ASSUME disk.run # <<>>, e.step \in 1..n
            PROVE  disk.run[1].results[e.step] = e.status
        BY <3>1, <3>2, <4>3
      <4>4. QED
        BY <4>2, <4>3
    <3>4. QED
      BY <2>2, <3>1, <3>3 DEF EventIsTrue
  <2>3. CASE e.kind = "acceptance_checked"
    BY <1>1, <1>4, <2>3 DEF Told, EventIsTrue, FilesInv, RunFile
  <2>4. CASE e.kind \in {"run_succeeded", "run_failed"}
    <3>1. /\ todo = <<>>
          /\ e.kind = "run_succeeded" => run.status = "succeeded"
          /\ e.kind = "run_failed" => run.status = "failed"
      BY <1>4, <2>4 DEF Told
    <3>2. ~Owed("run", 0)
      <4>1. Len(todo) = 0
        BY <3>1
      <4>2. QED
        BY <4>1 DEF Owed, Owes
    <3>3. disk.run # <<>> /\ disk.run[1] = run
      <4>1. disk.run = <<run>>
        BY <1>1, <3>2 DEF FilesInv, PlanFile, RunFile, ArtifactFiles
      <4>2. QED
        BY <4>1
    <3>4. QED
      BY <2>4, <3>1, <3>3 DEF EventIsTrue
  <2>5. QED
    BY <2>1, <2>2, <2>3, <2>4 DEF EventIsTrue
<1>5. QED
  BY <1>1, <1>2, <1>3, <1>4 DEF SuccessIsEarned, RecordsAgree, TraceInv

-----------------------------------------------------------------------------
\* One effect is taken from the queue; what was owed is it, or is still owed.
LEMMA TakeOne ==
  ASSUME todo \in Seq(Effects), todo # <<>>, todo' = Tail(todo)
  PROVE  /\ Len(todo) \in Nat \ {0} /\ Len(todo') = Len(todo) - 1
         /\ todo' \in Seq(Effects)
         /\ \A i \in 1..Len(todo') : todo'[i] = todo[i + 1]
         /\ Head(todo) = todo[1] /\ todo[1] \in Effects
         /\ \A what, step, i :
              i \in 1..Len(todo') /\ Owes(what, step, i + 1) =>
                todo[1] = Write(what, step) \/ Owes(what, step, i)'
         /\ \A what, step :
              Owed(what, step) => todo[1] = Write(what, step) \/ Owed(what, step)'
<1>1. /\ Len(todo) \in Nat \ {0} /\ Len(todo') = Len(todo) - 1
      /\ todo' \in Seq(Effects)
      /\ \A i \in 1..Len(todo') : todo'[i] = todo[i + 1]
      /\ Head(todo) = todo[1] /\ todo[1] \in Effects
  <2>1. QED
    OBVIOUS
<1>2. ASSUME NEW what, NEW step, NEW j \in 1..Len(todo),
             todo[j] = Write(what, step), todo[1] # Write(what, step)
      PROVE  j - 1 \in 1..Len(todo') /\ todo'[j - 1] = Write(what, step)
  <2>1. j # 1
    BY <1>2
  <2>2. j - 1 \in 1..Len(todo') /\ (j - 1) + 1 = j
    BY <1>1, <2>1
  <2>3. QED
    BY <1>1, <1>2, <2>2
<1>3. ASSUME NEW what, NEW step, NEW i \in 0..Len(todo'),
             Owes(what, step, i + 1), todo[1] # Write(what, step)
      PROVE  Owes(what, step, i)'
  <2>1. PICK j \in 1..i + 1 : todo[j] = Write(what, step)
    BY <1>3 DEF Owes
  <2>2. j \in 1..Len(todo)
    BY <1>1, <1>3
  <2>3. j - 1 \in 1..Len(todo') /\ todo'[j - 1] = Write(what, step)
    BY <1>2, <1>3, <2>1, <2>2
  <2>4. j - 1 \in 1..i
    BY <1>1, <2>1, <2>3
  <2>5. QED
    BY <2>3, <2>4 DEF Owes
<1>4. ASSUME NEW what, NEW step, Owed(what, step), todo[1] # Write(what, step)
      PROVE  Owed(what, step)'
  <2>1. Len(todo') \in 0..Len(todo') /\ Len(todo') + 1 = Len(todo)
    BY <1>1
  <2>2. Owes(what, step, Len(todo') + 1)
    BY <1>4, <2>1 DEF Owed
  <2>3. QED
    BY <1>3, <1>4, <2>1, <2>2 DEF Owed
<1>5. \A i \in 1..Len(todo') : i \in 0..Len(todo')
  BY <1>1
<1>6. QED
  BY <1>1, <1>3, <1>4, <1>5

\* What putting a file into the directory changes there.
LEMMA PutFacts ==
  ASSUME NEW effect \in Effects, effect.do = "write",
         disk = [field \in DiskFields |-> disk[field]],
         disk' = Put(disk, effect)
  PROVE  /\ disk' = [field \in DiskFields |-> disk'[field]]
         /\ disk'.torn = disk.torn /\ disk'.trace = disk.trace
         /\ disk'.plan = IF effect.what = "plan" THEN <<plan>> ELSE disk.plan
         /\ disk'.run = IF effect.what = "run" THEN <<run>> ELSE disk.run
         /\ disk.artifacts \subseteq disk'.artifacts
         /\ effect.what \notin {"plan", "run"} =>
              <<effect.event.step, effect.what>> \in disk'.artifacts
<1>1. CASE effect.what = "plan"
  <2>1. disk' = [disk EXCEPT !.plan = <<plan>>]
    BY <1>1 DEF Put
  <2>2. QED
    BY <1>1, <2>1 DEF DiskFields
<1>2. CASE effect.what = "run"
  <2>1. disk' = [disk EXCEPT !.run = <<run>>]
    BY <1>2 DEF Put
  <2>2. QED
    BY <1>2, <2>1 DEF DiskFields
<1>3. CASE effect.what \notin {"plan", "run"}
  <2>1. disk' = [disk EXCEPT !.artifacts =
                   @ \cup {<<effect.event.step, effect.what>>}]
    BY <1>3 DEF Put
  <2>2. QED
    BY <1>3, <2>1 DEF DiskFields
<1>4. QED
  BY <1>1, <1>2, <1>3

\* Writing a file keeps the memory and the directory in step.
LEMMA WriteKeeps ==
  ASSUME JudgeInv, RunInv, Perform, Head(todo).do = "write"
  PROVE  FilesInv' /\ TraceInv' /\ (\A what, step : Has(what, step) => Has(what, step)')
         /\ \A what \in ArtifactName \cup {"index"} : \A step :
              Head(todo) = Write(what, step) => Has(what, step)'
<1>1. /\ QueueInv /\ FilesInv /\ TraceInv /\ MemoryInv
      /\ todo \in Seq(Effects) /\ todo # <<>> /\ todo' = Tail(todo)
      /\ UNCHANGED <<plan, run, pc>>
  BY DEF RunInv, Perform, QueueInv
<1>2. /\ Len(todo) \in Nat \ {0} /\ Len(todo') = Len(todo) - 1
      /\ \A i \in 1..Len(todo') : todo'[i] = todo[i + 1]
      /\ Head(todo) = todo[1] /\ todo[1] \in Effects
      /\ \A what, step :
           Owed(what, step) => todo[1] = Write(what, step) \/ Owed(what, step)'
  BY <1>1, TakeOne
<1>3. /\ disk' = [field \in DiskFields |-> disk'[field]] /\ ~disk'.torn
      /\ disk'.trace = disk.trace
      /\ disk'.plan = IF todo[1].what = "plan" THEN <<plan>> ELSE disk.plan
      /\ disk'.run = IF todo[1].what = "run" THEN <<run>> ELSE disk.run
      /\ disk.artifacts \subseteq disk'.artifacts
      /\ todo[1].what \notin {"plan", "run"} =>
           <<todo[1].event.step, todo[1].what>> \in disk'.artifacts
  <2>1. disk' = Put(disk, todo[1]) /\ todo[1].do = "write"
    BY <1>2 DEF Perform
  <2>2. disk = [field \in DiskFields |-> disk[field]] /\ ~disk.torn
    BY <1>1 DEF FilesInv
  <2>3. QED
    BY <1>2, <2>1, <2>2, PutFacts
<1>4. \A what, step : Has(what, step) => Has(what, step)'
  BY <1>3 DEF Has
<1>5. \A what \in ArtifactName \cup {"index"} : \A step :
        todo[1] = Write(what, step) => Has(what, step)'
  BY <1>3, EffectFacts DEF Has, ArtifactName
<1>6. PlanFile'
  <2>1. Owed("plan", 0)' \/ disk'.plan = <<plan>>
    <3>1. todo[1] = Write("plan", 0) => todo[1].what = "plan"
      BY EffectFacts
    <3>2. QED
      BY <1>1, <1>2, <1>3, <3>1 DEF FilesInv, PlanFile
  <2>2. disk'.plan # <<>> => Len(disk'.plan[1].steps) = Len(plan.steps)
    BY <1>1, <1>3 DEF FilesInv, PlanFile
  <2>3. QED
    BY <1>1, <2>1, <2>2 DEF PlanFile
<1>7. RunFile'
  <2>1. Owed("run", 0)' \/ disk'.run = <<run>>
    <3>1. todo[1] = Write("run", 0) => todo[1].what = "run"
      BY EffectFacts
    <3>2. QED
      BY <1>1, <1>2, <1>3, <3>1 DEF FilesInv, RunFile
  <2>2. CASE todo[1].what = "run"
    <3>1. disk'.run[1] = run /\ disk'.run # <<>> /\ disk'.plan = disk.plan
      BY <1>3, <2>2
    <3>2. \A j \in 1..Len(todo') : todo'[j].do # "write"
      <4>1. ASSUME NEW j \in 1..Len(todo') PROVE todo'[j].do # "write"
        <5>1. 1 \in 1..Len(todo) /\ j + 1 \in 1..Len(todo) /\ 1 < j + 1
          BY <1>2
        <5>2. QED
          BY <1>1, <1>2, <2>2, <5>1 DEF QueueInv
      <4>2. QED
        BY <4>1
    <3>3. Agree(plan.steps, run.results)
      <4>1. Len(run.results) \in Nat /\ StopsAtFailure(run.results)
        BY DEF JudgeInv, Results
      <4>2. QED
        BY <1>1, <4>1 DEF MemoryInv, Agree, StopsAtFailure
    <3>4. disk.plan = <<plan>>
      <4>1. ~Owed("plan", 0)'
        BY <3>2, EffectFacts DEF Owed, Owes
      <4>2. todo[1] # Write("plan", 0)
        BY <2>2, EffectFacts
      <4>3. QED
        BY <1>1, <1>2, <4>1, <4>2 DEF FilesInv, PlanFile
    <3>5. disk'.plan[1].steps = plan.steps
      BY <3>1, <3>4
    <3>6. QED
      BY <1>1, <2>1, <3>1, <3>2, <3>3, <3>5 DEF RunFile
  <2>3. CASE todo[1].what # "run"
    <3>1. disk'.run = disk.run
      BY <1>3, <2>3
    <3>2. ASSUME disk.run # <<>>, disk.run[1].status = "succeeded"
          PROVE  FALSE
      <4>1. 1 \in 1..Len(todo) /\ todo[1].do = "write"
        BY <1>2
      <4>2. QED
        BY <1>1, <3>2, <4>1 DEF FilesInv, RunFile
    <3>3. disk'.plan # <<>> =>
            \/ disk'.plan = disk.plan
            \/ disk'.plan[1].steps = plan.steps
      BY <1>3
    <3>4. QED
      BY <1>1, <2>1, <3>1, <3>2, <3>3 DEF FilesInv, RunFile
  <2>4. QED
    BY <2>2, <2>3
<1>8. ArtifactFiles'
  <2>1. \A what \in ArtifactName \cup {"index"} : \A step :
          Has(what, step) \/ Owed(what, step) =>
            Has(what, step)' \/ Owed(what, step)'
    BY <1>2, <1>4, <1>5
  <2>2. "command" \in ArtifactName /\ NextStep' = NextStep
    BY <1>1 DEF ArtifactName, NextStep
  <2>3. QED
    BY <1>1, <2>1, <2>2 DEF FilesInv, ArtifactFiles
<1>9. TraceInv'
  <2>1. ASSUME NEW e, Told(e) PROVE Told(e)'
    <3>1. ~(e.kind \in {"run_succeeded", "run_failed"})
      BY <1>1, <2>1 DEF Told
    <3>2. e.kind = "step_started" /\ disk'.plan # <<>> =>
            disk'.plan[1].steps[e.step] # "pending"
      BY <1>3, <2>1 DEF Told
    <3>3. QED
      BY <1>1, <1>4, <2>1, <3>1, <3>2 DEF Told
  <2>2. QED
    BY <1>1, <1>3, <2>1 DEF TraceInv
<1>10. QED
  BY <1>2, <1>3, <1>4, <1>5, <1>6, <1>7, <1>8, <1>9 DEF FilesInv

\* Emitting an event, or losing it, does too: what it tells of is there.
LEMMA EmitKeeps ==
  ASSUME JudgeInv, RunInv, Perform, Head(todo).do # "write"
  PROVE  /\ FilesInv' /\ TraceInv'
         /\ \A what, step : Has(what, step) => Has(what, step)'
<1>1. /\ QueueInv /\ FilesInv /\ TraceInv /\ MemoryInv
      /\ todo \in Seq(Effects) /\ todo # <<>> /\ todo' = Tail(todo)
      /\ UNCHANGED <<plan, run, pc>>
  BY DEF RunInv, Perform, QueueInv
<1>2. /\ Len(todo) \in Nat \ {0} /\ Len(todo') = Len(todo) - 1
      /\ \A i \in 1..Len(todo') : todo'[i] = todo[i + 1]
      /\ Head(todo) = todo[1] /\ todo[1] \in Effects
      /\ \A what, step :
           Owed(what, step) => todo[1] = Write(what, step) \/ Owed(what, step)'
  BY <1>1, TakeOne
<1>3. /\ todo[1].do = "emit" /\ todo[1].event \in Events
      /\ \A what, step : todo[1] # Write(what, step)
  BY <1>2, EffectFacts
<1>4. \/ disk' = [disk EXCEPT !.trace = Append(@, todo[1].event)]
      \/ disk' = disk
  BY <1>2 DEF Perform
<1>5. /\ disk' = [field \in DiskFields |-> disk'[field]] /\ ~disk'.torn
      /\ disk'.plan = disk.plan /\ disk'.run = disk.run
      /\ disk'.artifacts = disk.artifacts
      /\ \/ disk'.trace = Append(disk.trace, todo[1].event)
         \/ disk'.trace = disk.trace
  BY <1>1, <1>4 DEF FilesInv, DiskFields
<1>6. \A what, step : Has(what, step) <=> Has(what, step)'
  BY <1>5 DEF Has
<1>7. \A what, step : Owed(what, step) => Owed(what, step)'
  BY <1>2, <1>3
<1>8. PlanFile' /\ RunFile' /\ ArtifactFiles'
  <2>1. PlanFile'
    BY <1>1, <1>5, <1>7 DEF FilesInv, PlanFile
  <2>2. RunFile'
    <3>1. (\A j \in 1..Len(todo) : todo[j].do # "write") =>
            \A j \in 1..Len(todo') : todo'[j].do # "write"
      BY <1>2
    <3>2. QED
      BY <1>1, <1>5, <1>7, <3>1 DEF FilesInv, RunFile
  <2>3. ArtifactFiles'
    <3>1. NextStep' = NextStep
      BY <1>1 DEF NextStep
    <3>2. QED
      BY <1>1, <1>6, <1>7, <3>1 DEF FilesInv, ArtifactFiles
  <2>4. QED
    BY <2>1, <2>2, <2>3
<1>9. ASSUME NEW e, Told(e) PROVE Told(e)'
  <2>1. ~(e.kind \in {"run_succeeded", "run_failed"})
    BY <1>1, <1>9 DEF Told
  <2>2. QED
    BY <1>1, <1>5, <1>6, <1>9, <2>1 DEF Told
<1>10. ASSUME NEW e, e = todo[1].event PROVE Told(e)'
  <2>1. Due(e, 1)
    <3>1. 1 \in 1..Len(todo)
      BY <1>2
    <3>2. QED
      BY <1>1, <1>3, <1>10, <3>1 DEF QueueInv
  <2>2. \A what, step : ~Owes(what, step, 1)
    BY <1>3 DEF Owes
  <2>3. e.kind = "step_started" =>
          /\ e.step \in 1..Len(plan.steps) /\ plan.steps[e.step] # "pending"
          /\ disk.plan # <<>> => disk.plan[1].steps[e.step] # "pending"
    <3>1. ASSUME e.kind = "step_started" PROVE disk.plan = <<plan>>
      <4>1. ~Owed("plan", 0)
        BY <2>1, <3>1 DEF Due, Owed, Owes
      <4>2. QED
        BY <1>1, <4>1 DEF FilesInv, PlanFile
    <3>2. ASSUME e.kind = "step_started" PROVE disk.plan[1] = plan
      BY <3>1, <3>2
    <3>3. QED
      BY <2>1, <3>2 DEF Due
  <2>4. e.kind \in {"run_succeeded", "run_failed"} => todo' = <<>>
    <3>1. ASSUME e.kind \in {"run_succeeded", "run_failed"} PROVE 1 = Len(todo)
      BY <2>1, <3>1 DEF Due
    <3>2. todo' \in Seq(Effects)
      BY <1>1, TakeOne
    <3>3. ASSUME Len(todo') = 0 PROVE todo' = <<>>
      <4>1. QED
        BY <3>2, <3>3
    <3>4. QED
      BY <1>2, <3>1, <3>3
  <2>5. QED
    BY <1>1, <1>5, <1>6, <2>1, <2>2, <2>3, <2>4 DEF Due, Told
<1>11. TraceInv'
  <2> DEFINE e == todo[1].event
  <2>1. disk.trace \in Seq(Events) /\ disk'.trace \in Seq(Events)
    <3>1. disk.trace \in Seq(Events) /\ e \in Events
      BY <1>1, <1>3 DEF TraceInv
    <3> HIDE DEF e
    <3>2. Append(disk.trace, e) \in Seq(Events)
      BY <3>1
    <3>3. QED
      BY <1>5, <3>1, <3>2 DEF e
  <2>2. \A k \in 1..Len(disk'.trace) :
          disk'.trace[k] = todo[1].event
            \/ (k \in 1..Len(disk.trace) /\ disk'.trace[k] = disk.trace[k])
    BY <1>3, <1>5, <2>1
  <2>3. \A k \in 1..Len(disk.trace) : Told(disk.trace[k])
    BY <1>1 DEF TraceInv
  <2>4. \A x : x = e \/ (\E k \in 1..Len(disk.trace) : x = disk.trace[k]) =>
                 Told(x)'
    BY <1>9, <1>10, <2>3
  <2>5. \A k \in 1..Len(disk'.trace) : Told(disk.trace[k])'
    <3>1. ASSUME NEW k \in 1..Len(disk'.trace), NEW x, x = disk'.trace[k]
          PROVE  Told(x)'
      BY <2>2, <2>4, <3>1
    <3>2. QED
      BY <3>1 DEF Told
  <2>6. QED
    BY <2>1, <2>5 DEF TraceInv
<1>12. QED
  BY <1>5, <1>6, <1>8, <1>11 DEF FilesInv

\* The queue stays true as it gets shorter.
LEMMA QueueShrinks ==
  ASSUME RunInv, Perform,
         \A what, step : Has(what, step) => Has(what, step)',
         \A what \in ArtifactName \cup {"index"} : \A step :
           Head(todo) = Write(what, step) => Has(what, step)'
  PROVE  QueueInv'
<1>1. /\ QueueInv /\ todo \in Seq(Effects) /\ todo # <<>> /\ todo' = Tail(todo)
      /\ UNCHANGED <<plan, run, pc>>
  BY DEF RunInv, Perform, QueueInv
<1>2. /\ Len(todo) \in Nat \ {0} /\ Len(todo') = Len(todo) - 1
      /\ todo' \in Seq(Effects)
      /\ \A i \in 1..Len(todo') : todo'[i] = todo[i + 1]
      /\ Head(todo) = todo[1] /\ todo[1] \in Effects
      /\ \A what, step, i :
           i \in 1..Len(todo') /\ Owes(what, step, i + 1) =>
             todo[1] = Write(what, step) \/ Owes(what, step, i)'
  BY <1>1, TakeOne
<1>3. ASSUME NEW i \in 1..Len(todo'), NEW j \in 1..Len(todo'), i < j,
             todo'[i].what = "run"
      PROVE  todo'[j].do # "write"
  <2>1. i + 1 \in 1..Len(todo) /\ j + 1 \in 1..Len(todo) /\ i + 1 < j + 1
    BY <1>2, <1>3
  <2>2. QED
    BY <1>1, <1>2, <1>3, <2>1 DEF QueueInv
<1>4. ASSUME NEW i \in 1..Len(todo'), todo'[i].do = "emit",
             NEW e, e = todo'[i].event
      PROVE  Due(e, i)'
  <2>1. i + 1 \in 1..Len(todo) /\ todo[i + 1] = todo'[i]
    BY <1>2
  <2>2. Due(e, i + 1)
    BY <1>1, <1>4, <2>1 DEF QueueInv
  <2>3. \A what \in ArtifactName \cup {"index"} : \A step :
          Has(what, step) \/ Owes(what, step, i + 1) =>
            Has(what, step)' \/ Owes(what, step, i)'
    BY <1>2
  <2>4. "command" \in ArtifactName
    BY DEF ArtifactName
  <2>5. ASSUME \A j \in i + 1..Len(todo) : todo[j] # Write("plan", 0)
        PROVE  \A j \in i..Len(todo') : todo'[j] # Write("plan", 0)
    <3>1. ASSUME NEW j \in i..Len(todo') PROVE todo'[j] # Write("plan", 0)
      <4>1. j \in 1..Len(todo') /\ j + 1 \in i + 1..Len(todo)
        BY <1>2, <3>1
      <4>2. QED
        BY <1>2, <2>5, <4>1
    <3>2. QED
      BY <3>1
  <2>6. i + 1 = Len(todo) => i = Len(todo')
    BY <1>2
  <2>7. QED
    BY <1>1, <2>2, <2>3, <2>4, <2>5, <2>6 DEF Due
<1>5. \A i \in 1..Len(todo') : todo'[i].do = "emit" => Due(todo[i].event, i)'
  BY <1>4 DEF Due
<1>6. QED
  BY <1>2, <1>3, <1>5 DEF QueueInv

LEMMA PerformKeeps ==
  ASSUME JudgeInv, RunInv, Perform
  PROVE  RunInv'
<1>1. /\ FilesInv' /\ TraceInv'
      /\ \A what, step : Has(what, step) => Has(what, step)'
      /\ \A what \in ArtifactName \cup {"index"} : \A step :
           Head(todo) = Write(what, step) => Has(what, step)'
  <2>1. \A what, step : Write(what, step).do = "write"
    BY EffectFacts
  <2>2. QED
    BY <2>1, WriteKeeps, EmitKeeps
<1>2. QueueInv'
  BY <1>1, QueueShrinks
<1>3. MemoryInv'
  BY DEF RunInv, MemoryInv, Perform
<1>4. QED
  BY <1>1, <1>2, <1>3 DEF RunInv, Perform

-----------------------------------------------------------------------------
\* When nothing is left to be written, the directory is up to date.
LEMMA AtRest ==
  ASSUME RunInv, todo = <<>>
  PROVE  /\ disk.plan # <<>> /\ disk.plan[1] = plan
         /\ disk.run # <<>> /\ disk.run[1] = run
         /\ \A what, step : ~Owed(what, step)
<1>1. \A what, step : ~Owed(what, step)
  <2>1. Len(todo) = 0
    OBVIOUS
  <2>2. QED
    BY <2>1 DEF Owed, Owes
<1>2. disk.plan = <<plan>> /\ disk.run = <<run>>
  BY <1>1 DEF RunInv, FilesInv, PlanFile, RunFile
<1>3. QED
  BY <1>1, <1>2

\* A change of the plan or of the run that is still to be written keeps the
\* directory one change behind, and what the trace tells true.
LEMMA ChangeKeeps ==
  ASSUME JudgeInv, RunInv, todo = <<>>, pc # "return", disk' = disk,
         plan' = plan \/ Owed("plan", 0)', run' = run \/ Owed("run", 0)',
         Len(plan'.steps) = Len(plan.steps),
         \A i \in 1..Len(plan.steps) :
           plan.steps[i] # "pending" => plan'.steps[i] # "pending",
         Len(run'.results) \in {Len(run.results), Len(run.results) + 1},
         \A i \in 1..Len(run.results) : run'.results[i] = run.results[i],
         Agree(plan'.steps, run.results),
         ArtifactFiles'
  PROVE  FilesInv' /\ TraceInv'
<1>1. /\ disk.plan # <<>> /\ disk.plan[1] = plan
      /\ disk.run # <<>> /\ disk.run[1] = run
      /\ \A what, step : ~Owed(what, step)
  BY AtRest
<1>2. FilesInv /\ TraceInv /\ MemoryInv
  BY DEF RunInv
<1>3. /\ run.status = "running" /\ Len(run.results) \in Nat
      /\ Len(plan.steps) \in Nat /\ StopsAtFailure(run.results)
  <2>1. run.results \in Seq(StepResult) /\ StopsAtFailure(run.results)
    BY DEF JudgeInv, Results
  <2>2. run.status = "running" /\ plan.steps \in Seq(StepStatus)
    BY <1>2 DEF MemoryInv
  <2>3. QED
    BY <2>1, <2>2
<1>4. PlanFile'
  BY <1>1, <1>2 DEF FilesInv, PlanFile
<1>5. RunFile'
  <2>1. Agree(plan.steps, run.results)
    BY <1>2, <1>3 DEF MemoryInv, Agree, StopsAtFailure
  <2>2. Owed("run", 0)' \/ disk'.run = <<run'>>
    BY <1>1, <1>2 DEF FilesInv, RunFile
  <2>3. QED
    BY <1>1, <1>3, <2>1, <2>2 DEF RunFile
<1>6. ASSUME NEW e, Told(e) PROVE Told(e)'
  <2>1. \A what, step : Has(what, step) <=> Has(what, step)'
    BY DEF Has
  <2>2. e.kind = "tool_finished" =>
          e.step \in 1..Len(run'.results) /\ run'.results[e.step] = e.status
    BY <1>3, <1>6 DEF Told
  <2>3. e.kind = "step_started" =>
          e.step \in 1..Len(plan'.steps) /\ plan'.steps[e.step] # "pending"
    BY <1>6 DEF Told
  <2>4. QED
    BY <1>6, <2>1, <2>2, <2>3 DEF Told
<1>7. QED
  BY <1>2, <1>4, <1>5, <1>6 DEF FilesInv, TraceInv

\* A run starts in an empty directory.
LEMMA StartKeeps ==
  ASSUME Start
  PROVE  RunInv'
<1>1. PICK n \in 0..MaxSteps : plan' = NewPlan(n)
  BY DEF Start
<1>2. /\ run' = NewRun /\ disk' = EmptyDir /\ pc' = "step" /\ exit' = "none"
      /\ todo' = <<Write("plan", 0), Write("run", 0),
                   Emit("run_started", 0, "none"),
                   Emit("plan_created", 0, "none")>>
  BY DEF Start, Cleaned
<1>3. MemoryInv'
  <2>1. /\ plan'.steps = [i \in 1..n |-> "pending"]
        /\ plan' = [field \in PlanFields |-> plan'[field]]
    BY <1>1 DEF NewPlan, PlanFields
  <2>2. n \in Nat
    BY HarnessAssumption
  <2>3. plan'.steps \in Seq(StepStatus) /\ Len(plan'.steps) = n
        /\ \A i \in 1..n : plan'.steps[i] = "pending"
    BY <2>1, <2>2 DEF StepStatus
  <2>4. run'.results = <<>> /\ Len(run'.results) = 0 /\ run'.status = "running"
    BY <1>2 DEF NewRun
  <2>5. QED
    BY <1>2, <2>1, <2>2, <2>3, <2>4 DEF MemoryInv
<1>4. /\ Len(todo') = 4
      /\ todo'[1] = Write("plan", 0) /\ todo'[2] = Write("run", 0)
      /\ todo'[3] = Emit("run_started", 0, "none")
      /\ todo'[4] = Emit("plan_created", 0, "none")
  BY <1>2
<1>5. QueueInv'
  <2>1. /\ Write("plan", 0) \in Effects /\ Write("run", 0) \in Effects
        /\ Emit("run_started", 0, "none") \in Effects
        /\ Emit("plan_created", 0, "none") \in Effects
    BY EffectFacts DEF Names, Kinds, Says
  <2>2. todo' \in Seq(Effects)
    BY <1>2, <2>1
  <2>3. QED
    BY <1>4, <2>2, EffectFacts DEF QueueInv, Due
<1>6. FilesInv'
  <2>1. Owed("plan", 0)' /\ Owed("run", 0)'
    BY <1>4 DEF Owed, Owes
  <2>2. /\ disk'.plan = <<>> /\ disk'.run = <<>> /\ ~disk'.torn
        /\ disk' = [field \in DiskFields |-> disk'[field]]
    BY <1>2 DEF EmptyDir, DiskFields
  <2>3. Len(run'.results) = 0
    BY <1>2 DEF NewRun
  <2>4. QED
    BY <1>2, <2>1, <2>2, <2>3 DEF FilesInv, PlanFile, RunFile, ArtifactFiles
<1>7. TraceInv'
  <2>1. disk'.trace = <<>> /\ <<>> \in Seq(Events) /\ Len(<<>>) = 0
    BY <1>2 DEF EmptyDir
  <2>2. QED
    BY <2>1 DEF TraceInv
<1>8. QED
  BY <1>2, <1>3, <1>5, <1>6, <1>7 DEF RunInv

\* What the plan in memory says of the steps.
LEMMA MemoryFacts ==
  ASSUME JudgeInv, RunInv
  PROVE  /\ run.results \in Seq(StepResult) /\ Len(run.results) \in Nat
         /\ plan.steps \in Seq(StepStatus) /\ Len(plan.steps) \in Nat
         /\ Len(run.results) <= Len(plan.steps)
         /\ \A i \in 1..Len(plan.steps) :
              /\ i <= Len(run.results) => plan.steps[i] = Mark(run.results[i])
              /\ i > Len(run.results) + 1 => plan.steps[i] = "pending"
         /\ \A i \in 1..Len(run.results) - 1 : run.results[i] = "success"
         /\ pc # "return" => run.status = "running"
<1>1. /\ run.results \in Seq(StepResult) /\ plan.steps \in Seq(StepStatus)
      /\ Len(run.results) <= Len(plan.steps)
      /\ \A i \in 1..Len(run.results) - 1 : run.results[i] = "success"
  BY DEF JudgeInv, Results, StopsAtFailure, RunInv, MemoryInv
<1>2. /\ \A i \in 1..Len(plan.steps) :
           /\ i <= Len(run.results) => plan.steps[i] = Mark(run.results[i])
           /\ i > Len(run.results) + 1 => plan.steps[i] = "pending"
      /\ pc # "return" => run.status = "running"
  BY DEF RunInv, MemoryInv
<1>3. QED
  BY <1>1, <1>2

LEMMA BeginStepKeeps ==
  ASSUME JudgeInv, RunInv, BeginStep
  PROVE  RunInv'
<1>1. PICK n : n = NextStep
  OBVIOUS
<1>2. /\ todo = <<>> /\ pc = "step" /\ n <= Len(plan.steps)
      /\ plan' = [plan EXCEPT !.current = n, !.outcome = "in_progress",
                              !.steps[n] = "in_progress"]
      /\ todo' = <<Write("plan", 0), Emit("step_started", n, "none"),
                   Write("command", n), Emit("tool_invoked", n, "none")>>
      /\ pc' = "command" /\ UNCHANGED <<disk, run, exit>>
  BY <1>1 DEF BeginStep
<1>3. /\ run.results \in Seq(StepResult) /\ Len(run.results) \in Nat
      /\ plan.steps \in Seq(StepStatus) /\ Len(plan.steps) \in Nat
      /\ n = Len(run.results) + 1 /\ n \in 1..Len(plan.steps) /\ n \in Nat
  BY <1>1, <1>2 DEF JudgeInv, Results, RunInv, MemoryInv, NextStep
<1>4. /\ plan'.steps = [plan.steps EXCEPT ![n] = "in_progress"]
      /\ plan' = [field \in PlanFields |-> plan'[field]]
  BY <1>2 DEF RunInv, MemoryInv, PlanFields
<1>5. /\ plan'.steps \in Seq(StepStatus) /\ Len(plan'.steps) = Len(plan.steps)
      /\ plan'.steps[n] = "in_progress"
      /\ \A i \in 1..Len(plan.steps) : i # n => plan'.steps[i] = plan.steps[i]
  BY <1>3, <1>4 DEF StepStatus
<1>6. /\ Len(todo') = 4
      /\ todo'[1] = Write("plan", 0)
      /\ todo'[2] = Emit("step_started", n, "none")
      /\ todo'[3] = Write("command", n)
      /\ todo'[4] = Emit("tool_invoked", n, "none")
  BY <1>2
<1>7. Agree(plan'.steps, run.results)
  BY <1>3, <1>5, MemoryFacts DEF Agree
<1>8. MemoryInv'
  <2>1. \A i \in 1..Len(plan.steps) :
          /\ i <= Len(run.results) => plan'.steps[i] = Mark(run.results[i])
          /\ i = Len(run.results) + 1 => plan'.steps[i] = "in_progress"
          /\ i > Len(run.results) + 1 => plan'.steps[i] = "pending"
    BY <1>3, <1>5, MemoryFacts
  <2>2. run.status = "running"
    BY <1>2, MemoryFacts
  <2>3. QED
    BY <1>2, <1>3, <1>4, <1>5, <2>1, <2>2 DEF MemoryInv
<1>9. QueueInv'
  <2>1. /\ Write("plan", 0) \in Effects /\ Write("command", n) \in Effects
        /\ Emit("step_started", n, "none") \in Effects
        /\ Emit("tool_invoked", n, "none") \in Effects
    BY <1>3, EffectFacts DEF Names, ArtifactName, Kinds, Says
  <2>2. todo' \in Seq(Effects)
    BY <1>2, <2>1
  <2>3. Owes("command", n, 4)'
    BY <1>6 DEF Owes
  <2>4. Emit("step_started", n, "none").event.kind = "step_started"
        /\ Emit("step_started", n, "none").event.step = n
        /\ Emit("step_started", n, "none") # Write("plan", 0)
        /\ Emit("tool_invoked", n, "none") # Write("plan", 0)
        /\ Write("command", n) # Write("plan", 0)
    BY EffectFacts
  <2>5. ASSUME NEW e, e = Emit("step_started", n, "none").event
        PROVE  Due(e, 2)'
    <3>1. \A j \in 2..Len(todo') : todo'[j] # Write("plan", 0)
      BY <1>6, <2>4
    <3>2. QED
      BY <1>3, <1>5, <2>4, <2>5, <3>1 DEF Due
  <2>6. ASSUME NEW e, e = Emit("tool_invoked", n, "none").event
        PROVE  Due(e, 4)'
    BY <2>3, <2>6, EffectFacts DEF Due
  <2>7. \A i \in 1..Len(todo') : todo'[i].do = "emit" => i = 2 \/ i = 4
    BY <1>6, EffectFacts
  <2>8. \A i \in 1..Len(todo') : todo'[i].do = "emit" => Due(todo[i].event, i)'
    <3>1. \A i \in 1..Len(todo') : todo'[i].do = "emit" =>
            \A e : e = todo'[i].event => Due(e, i)'
      BY <1>6, <2>5, <2>6, <2>7
    <3>2. QED
      BY <3>1 DEF Due
  <2>9. \A i \in 1..Len(todo') : todo'[i].what # "run"
    BY <1>6, EffectFacts DEF Emit
  <2>10. QED
    BY <2>2, <2>8, <2>9 DEF QueueInv
<1>10. ArtifactFiles'
  <2>1. Owed("command", n)' /\ NextStep' = n
    BY <1>2, <1>3, <1>6 DEF Owed, Owes, NextStep
  <2>2. \A i \in 1..Len(run.results), a \in ArtifactName : Has(a, i)'
    BY <1>2, AtRest DEF RunInv, FilesInv, ArtifactFiles, Has
  <2>3. QED
    BY <1>2, <2>1, <2>2 DEF ArtifactFiles
<1>11. Owed("plan", 0)'
  BY <1>6 DEF Owed, Owes
<1>12. FilesInv' /\ TraceInv'
  BY <1>2, <1>3, <1>5, <1>7, <1>10, <1>11, ChangeKeeps
<1>13. QED
  BY <1>2, <1>8, <1>9, <1>12 DEF RunInv

LEMMA RunCommandKeeps ==
  ASSUME JudgeInv, RunInv, RunCommand
  PROVE  RunInv'
<1>1. PICK n : n = NextStep
  OBVIOUS
<1>2. /\ todo = <<>> /\ pc = "command" /\ UNCHANGED <<disk, exit>>
  BY DEF RunCommand
<1>3. PICK capture \in Capture :
        /\ run' = [run EXCEPT !.results = Append(@, Judged(capture))]
        /\ plan' = [plan EXCEPT
                      !.steps[n] = IF Judged(capture) = "success"
                                   THEN "completed" ELSE "failed",
                      !.outcome = IF Judged(capture) = "success" THEN @
                                  ELSE "failed"]
        /\ todo' = CommandTodo(Judged(capture))
        /\ pc' = IF Judged(capture) = "success" THEN "step" ELSE "archive"
  BY <1>1 DEF RunCommand
<1>4. PICK result : result = Judged(capture)
  OBVIOUS
<1>5. /\ run.results \in Seq(StepResult) /\ Len(run.results) \in Nat
      /\ plan.steps \in Seq(StepStatus) /\ Len(plan.steps) \in Nat
      /\ n = Len(run.results) + 1 /\ n \in 1..Len(plan.steps) /\ n \in Nat
      /\ AllSucceeded(run.results)
  BY <1>1, <1>2 DEF JudgeInv, Results, RunInv, MemoryInv, NextStep
<1>6. /\ plan'.steps = [plan.steps EXCEPT ![n] = Mark(result)]
      /\ plan' = [field \in PlanFields |-> plan'[field]]
  BY <1>3, <1>4 DEF RunInv, MemoryInv, PlanFields, Mark
<1>7. /\ run'.results = Append(run.results, result)
      /\ run'.status = run.status
  BY <1>3, <1>4 DEF JudgeInv, Fields
<1>8. todo' = <<Write("stdout", n), Write("stderr", n), Write("result", n),
                Emit("tool_finished", n, result), Write("plan", 0),
                Write("run", 0)>>
  BY <1>1, <1>3, <1>4 DEF CommandTodo
<1>9. result \in StepResult /\ Mark(result) \in StepStatus /\ Mark(result) # "pending"
  BY <1>4, JudgedIsResult DEF Mark, StepStatus
<1>10. pc' = IF result = "success" THEN "step" ELSE "archive"
  BY <1>3, <1>4
<1>11. /\ plan'.steps \in Seq(StepStatus) /\ Len(plan'.steps) = Len(plan.steps)
      /\ plan'.steps[n] = Mark(result)
      /\ \A i \in 1..Len(plan.steps) : i # n => plan'.steps[i] = plan.steps[i]
  BY <1>5, <1>6, <1>9
<1>12. /\ Len(run'.results) = n /\ run'.results[n] = result
       /\ \A i \in 1..Len(run.results) : run'.results[i] = run.results[i]
  BY <1>5, <1>7, <1>9
<1>13. /\ Len(todo') = 6
       /\ todo'[1] = Write("stdout", n) /\ todo'[2] = Write("stderr", n)
       /\ todo'[3] = Write("result", n)
       /\ todo'[4] = Emit("tool_finished", n, result)
       /\ todo'[5] = Write("plan", 0) /\ todo'[6] = Write("run", 0)
  BY <1>8
<1>14. Agree(plan'.steps, run.results)
  <2>1. \A i \in 1..Len(plan'.steps) :
          /\ i <= Len(run.results) => plan'.steps[i] = Mark(run.results[i])
          /\ i > Len(run.results) + 1 => plan'.steps[i] = "pending"
    BY <1>5, <1>11, MemoryFacts
  <2>2. \A i \in 1..Len(run.results) - 1 : run.results[i] = "success"
    BY MemoryFacts
  <2>3. QED
    BY <1>5, <1>11, <2>1, <2>2 DEF Agree
<1>15. \A a \in ArtifactName, i \in 1..n :
         Has(a, i)' \/ (i = n /\ a # "command" /\ Owes(a, n, 4)')
  <2>1. \A a \in {"stdout", "stderr", "result"} : Owes(a, n, 4)'
    BY <1>13 DEF Owes
  <2>2. \A i \in 1..Len(run.results), a \in ArtifactName : Has(a, i)'
    BY <1>2, AtRest DEF RunInv, FilesInv, ArtifactFiles, Has
  <2>3. Has("command", n)'
    BY <1>1, <1>2, AtRest DEF RunInv, FilesInv, ArtifactFiles, Has
  <2>4. QED
    BY <1>5, <2>1, <2>2, <2>3 DEF ArtifactName
<1>16. MemoryInv'
  <2>1. AllSucceeded(run'.results) => result = "success"
    BY <1>5, <1>12 DEF AllSucceeded
  <2>2. run.status = "running"
    BY <1>2 DEF RunInv, MemoryInv
  <2>3. ASSUME NEW i \in 1..Len(plan.steps)
        PROVE  /\ i <= n => plan'.steps[i] = Mark(run'.results[i])
               /\ i > n => plan'.steps[i] = "pending"
    <3>1. /\ i <= Len(run.results) => plan.steps[i] = Mark(run.results[i])
          /\ i > Len(run.results) + 1 => plan.steps[i] = "pending"
      BY MemoryFacts
    <3>2. CASE i = n
      BY <1>5, <1>11, <1>12, <3>2
    <3>3. CASE i < n
      <4>1. i \in 1..Len(run.results)
        BY <1>5, <3>3
      <4>2. QED
        BY <1>11, <1>12, <3>1, <3>3, <4>1
    <3>4. CASE i > n
      BY <1>5, <1>11, <3>1, <3>4
    <3>5. QED
      BY <1>5, <3>2, <3>3, <3>4
  <2>4. QED
    BY <1>5, <1>6, <1>7, <1>10, <1>11, <1>12, <2>1, <2>2, <2>3 DEF MemoryInv
<1>17. QueueInv'
  <2>1. /\ Write("plan", 0) \in Effects /\ Write("run", 0) \in Effects
        /\ \A a \in ArtifactName : Write(a, n) \in Effects
        /\ Emit("tool_finished", n, result) \in Effects
    BY <1>5, <1>9, EffectFacts DEF Names, Kinds, Says, Acceptance
  <2>2. todo' \in Seq(Effects)
    BY <1>8, <2>1 DEF ArtifactName
  <2>3. Due(Emit("tool_finished", n, result).event, 4)'
    <3>1. ASSUME NEW e, e = Emit("tool_finished", n, result).event
          PROVE  Due(e, 4)'
      BY <1>5, <1>12, <1>15, <3>1, EffectFacts DEF Due
    <3>2. QED
      BY <3>1 DEF Due
  <2>4. QED
    <3>1. \A i \in 1..Len(todo') : todo'[i].do = "emit" => i = 4
      BY <1>13, EffectFacts
    <3>2. \A i \in 1..Len(todo') :
            todo'[i].do = "emit" => Due(todo[i].event, i)'
      BY <1>13, <2>3, <3>1 DEF Due
    <3>3. \A i \in 1..Len(todo') : todo'[i].what = "run" => i = 6
      BY <1>13, EffectFacts DEF Emit
    <3>4. QED
      BY <1>13, <2>2, <3>2, <3>3 DEF QueueInv
<1>18. ArtifactFiles'
  <2>1. \A a : Owes(a, n, 4)' => Owed(a, n)'
    BY <1>13 DEF Owed, Owes
  <2>2. pc' \notin {"command", "verify", "return"}
    BY <1>10
  <2>3. QED
    BY <1>12, <1>15, <2>1, <2>2 DEF ArtifactFiles
<1>19. Owed("plan", 0)' /\ Owed("run", 0)'
  BY <1>13 DEF Owed, Owes
<1>20. FilesInv' /\ TraceInv'
  BY <1>2, <1>5, <1>9, <1>11, <1>12, <1>14, <1>18, <1>19, ChangeKeeps
<1>21. QED
  BY <1>2, <1>10, <1>16, <1>17, <1>20 DEF RunInv

LEMMA FinishPlanKeeps ==
  ASSUME JudgeInv, RunInv, FinishPlan
  PROVE  RunInv'
<1>1. /\ todo = <<>> /\ pc = "step" /\ NextStep > Len(plan.steps)
      /\ plan' = [plan EXCEPT !.outcome = "completed",
                              !.current = Len(plan.steps)]
      /\ todo' = <<Write("plan", 0)>>
      /\ pc' = "archive" /\ UNCHANGED <<disk, run, exit>>
  BY DEF FinishPlan
<1>2. /\ plan' = [field \in PlanFields |-> plan'[field]]
      /\ plan'.steps = plan.steps /\ plan'.outcome = "completed"
  BY <1>1 DEF RunInv, MemoryInv, PlanFields
<1>3. Len(run.results) = Len(plan.steps)
  BY <1>1, MemoryFacts DEF NextStep
<1>4. MemoryInv'
  <2>1. run.status = "running"
    BY <1>1, MemoryFacts
  <2>2. QED
    BY <1>1, <1>2, <1>3, <2>1, MemoryFacts DEF MemoryInv
<1>5. Len(todo') = 1 /\ todo'[1] = Write("plan", 0)
  BY <1>1
<1>6. QueueInv'
  <2>1. Write("plan", 0) \in Effects
    BY EffectFacts DEF Names
  <2>2. todo' \in Seq(Effects)
    BY <1>1, <2>1
  <2>3. \A i \in 1..Len(todo') : i = 1 /\ todo'[i].do = "write"
    BY <1>5, EffectFacts
  <2>4. QED
    BY <2>2, <2>3 DEF QueueInv
<1>7. Agree(plan.steps, run.results)
  BY MemoryFacts DEF Agree
<1>8. ArtifactFiles'
  BY <1>1, AtRest DEF RunInv, FilesInv, ArtifactFiles, Has
<1>9. Owed("plan", 0)'
  BY <1>5 DEF Owed, Owes
<1>10. FilesInv' /\ TraceInv'
  BY <1>1, <1>2, <1>7, <1>8, <1>9, MemoryFacts, ChangeKeeps
<1>11. QED
  BY <1>1, <1>4, <1>6, <1>10 DEF RunInv

LEMMA ArchiveKeeps ==
  ASSUME JudgeInv, RunInv, Archive
  PROVE  RunInv'
<1>1. /\ todo = <<>> /\ pc = "archive" /\ pc' = "verify"
      /\ todo' = <<Write("index", 0), Emit("verification_started", 0, "none")>>
      /\ UNCHANGED <<disk, plan, run, exit>>
  BY DEF Archive
<1>2. MemoryInv'
  BY <1>1 DEF RunInv, MemoryInv
<1>3. /\ Len(todo') = 2 /\ todo'[1] = Write("index", 0)
      /\ todo'[2] = Emit("verification_started", 0, "none")
  BY <1>1
<1>4. QueueInv'
  <2>1. /\ Write("index", 0) \in Effects
        /\ Emit("verification_started", 0, "none") \in Effects
    BY EffectFacts DEF Names, Kinds, Says
  <2>2. todo' \in Seq(Effects)
    BY <1>1, <2>1
  <2>3. Owes("index", 0, 2)'
    BY <1>3 DEF Owes
  <2>4. ASSUME NEW e, e = Emit("verification_started", 0, "none").event
        PROVE  Due(e, 2)'
    BY <2>3, <2>4, EffectFacts DEF Due
  <2>5. \A i \in 1..Len(todo') : todo'[i].do = "emit" => i = 2
    BY <1>3, EffectFacts
  <2>6. \A i \in 1..Len(todo') : todo'[i].do = "emit" => Due(todo[i].event, i)'
    BY <1>3, <2>4, <2>5 DEF Due
  <2>7. \A i \in 1..Len(todo') : todo'[i].what # "run"
    BY <1>3, EffectFacts DEF Emit
  <2>8. QED
    BY <2>2, <2>6, <2>7 DEF QueueInv
<1>5. Agree(plan.steps, run.results)
  BY MemoryFacts DEF Agree
<1>6. ArtifactFiles'
  <2>1. Owed("index", 0)'
    BY <1>3 DEF Owed, Owes
  <2>2. \A i \in 1..Len(run.results), a \in ArtifactName : Has(a, i)'
    BY <1>1, AtRest DEF RunInv, FilesInv, ArtifactFiles, Has
  <2>3. QED
    BY <1>1, <2>1, <2>2 DEF ArtifactFiles
<1>7. FilesInv' /\ TraceInv'
  BY <1>1, <1>5, <1>6, MemoryFacts, ChangeKeeps
<1>8. QED
  BY <1>1, <1>2, <1>4, <1>7 DEF RunInv

\* What Verify decides is a status that can be written as one or is "other".
LEMMA VerifyFacts ==
  ASSUME JudgeInv, Verify
  PROVE  \E verification \in Verification \cup {"other"},
           acceptance \in Acceptance \cup {"other"},
           status \in {"succeeded", "failed"},
           kind \in {"verification_passed", "verification_failed"} :
             /\ run' = [run EXCEPT !.verification = verification,
                                   !.acceptance = acceptance,
                                   !.status = status]
             /\ status = "succeeded" =>
                  verification = "passed" /\ acceptance = "success"
             /\ todo' = <<Emit(kind, 0, "none"),
                          Emit("acceptance_checked", 0, acceptance),
                          Write("run", 0),
                          Emit(IF status = "succeeded" THEN "run_succeeded"
                               ELSE "run_failed", 0, "none")>>
<1> DEFINE execution  == Execution(run.results)
           verified   == Verified(execution, answer')
           acceptance == Accepted(execution, verified)
           status     == IF verified.status = "passed" /\ acceptance = "success"
                         THEN "succeeded" ELSE "failed"
           kind       == IF verified.status = "passed"
                         THEN "verification_passed" ELSE "verification_failed"
<1>1. execution \in StepResult
  BY ExecutionIsWorst DEF JudgeInv
<1>2. /\ answer'.status \in Verification \cup {"other"}
      /\ answer'.acceptance \in Acceptance \cup {"other"}
  <2>1. answer' \in Answer \/ answer' = NoAnswer
    BY DEF Verify
  <2>2. QED
    BY <2>1 DEF Answer, NoAnswer, Verification, Acceptance
<1>3. /\ verified.status \in Verification \cup {"other"}
      /\ verified.acceptance \in Acceptance \cup {"other"}
  <2>1. \/ verified = [status |-> "failed", acceptance |-> "terminal_failure"]
        \/ verified = [status |-> "failed", acceptance |-> execution]
        \/ verified = [status |-> "failed",
                       acceptance |-> Merge(execution, answer'.acceptance)]
        \/ verified = [status |-> answer'.status,
                       acceptance |-> answer'.acceptance]
    BY DEF Verified
  <2>2. Merge(execution, answer'.acceptance) \in Acceptance \cup {"other"}
    BY <1>1, <1>2, MergeIsWorst DEF Acceptance
  <2> HIDE DEF verified, execution
  <2>3. QED
    BY <1>1, <1>2, <2>1, <2>2 DEF Verification, Acceptance, StepResult
<1>4. acceptance \in Acceptance \cup {"other"}
  <2>1. Merge(execution, verified.acceptance) \in Acceptance \cup {"other"}
    BY <1>1, <1>3, MergeIsWorst DEF Acceptance
  <2>2. \/ acceptance = "terminal_failure"
        \/ acceptance = Merge(execution, verified.acceptance)
    BY DEF Accepted
  <2> HIDE DEF acceptance, verified, execution
  <2>3. QED
    BY <2>1, <2>2 DEF Acceptance, StepResult
<1>5. /\ run' = [run EXCEPT !.verification = verified.status,
                            !.acceptance = acceptance, !.status = status]
      /\ todo' = <<Emit(kind, 0, "none"),
                   Emit("acceptance_checked", 0, acceptance), Write("run", 0),
                   Emit(IF status = "succeeded" THEN "run_succeeded"
                        ELSE "run_failed", 0, "none")>>
  BY DEF Verify
<1>6. status = "succeeded" =>
        verified.status = "passed" /\ acceptance = "success"
  OBVIOUS
<1>7. /\ status \in {"succeeded", "failed"}
      /\ kind \in {"verification_passed", "verification_failed"}
  OBVIOUS
<1> DEFINE verification == verified.status
<1>8. verification \in Verification \cup {"other"}
  BY <1>3
<1> HIDE DEF status, kind, acceptance, execution, verified
<1>9. QED
  BY <1>3, <1>4, <1>5, <1>6, <1>7

LEMMA VerifyKeeps ==
  ASSUME JudgeInv, RunInv, Verify
  PROVE  RunInv'
<1>1. /\ todo = <<>> /\ pc = "verify" /\ pc' = "return"
      /\ UNCHANGED <<disk, plan, exit>>
  BY DEF Verify
<1>2. PICK verification \in Verification \cup {"other"},
           acceptance \in Acceptance \cup {"other"},
           status \in {"succeeded", "failed"},
           kind \in {"verification_passed", "verification_failed"} :
             /\ run' = [run EXCEPT !.verification = verification,
                                   !.acceptance = acceptance,
                                   !.status = status]
             /\ status = "succeeded" =>
                  verification = "passed" /\ acceptance = "success"
             /\ todo' = <<Emit(kind, 0, "none"),
                          Emit("acceptance_checked", 0, acceptance),
                          Write("run", 0),
                          Emit(IF status = "succeeded" THEN "run_succeeded"
                               ELSE "run_failed", 0, "none")>>
  BY VerifyFacts
<1>3. PICK end : end = IF status = "succeeded" THEN "run_succeeded"
                       ELSE "run_failed"
  OBVIOUS
<1>4. /\ run'.results = run.results /\ run'.verification = verification
      /\ run'.acceptance = acceptance /\ run'.status = status
  BY <1>2 DEF JudgeInv, Fields
<1>5. /\ todo' = <<Emit(kind, 0, "none"),
                   Emit("acceptance_checked", 0, acceptance),
                   Write("run", 0), Emit(end, 0, "none")>>
      /\ status = "succeeded" => verification = "passed" /\ acceptance = "success"
  BY <1>2, <1>3
<1>6. status = "succeeded" => AllSucceeded(run.results)
  <2>1. AcceptanceIsWorst'
    BY VerifyJudges
  <2>2. \A i \in 1..Len(run.results) : Rank(acceptance) >= Rank(run.results[i])
    BY <1>1, <1>4, <2>1 DEF AcceptanceIsWorst
  <2>3. Rank("success") = 0
    BY DEF Rank
  <2>4. \A s \in StepResult : 0 >= Rank(s) => s = "success"
    BY DEF Rank, StepResult
  <2>5. \A i \in 1..Len(run.results) : run.results[i] \in StepResult
    BY MemoryFacts
  <2>6. QED
    BY <1>5, <2>2, <2>3, <2>4, <2>5 DEF AllSucceeded
<1>7. MemoryInv'
  <2>1. /\ plan = [field \in PlanFields |-> plan[field]]
        /\ AllSucceeded(run.results) =>
             plan.outcome = "completed" /\ Len(run.results) = Len(plan.steps)
        /\ \A i \in 1..Len(plan.steps) :
             i = Len(run.results) + 1 => plan.steps[i] = "pending"
    BY <1>1 DEF RunInv, MemoryInv
  <2>2. QED
    BY <1>1, <1>4, <1>5, <1>6, <2>1, MemoryFacts DEF MemoryInv
<1>8. /\ Len(todo') = 4
      /\ todo'[1] = Emit(kind, 0, "none")
      /\ todo'[2] = Emit("acceptance_checked", 0, acceptance)
      /\ todo'[3] = Write("run", 0) /\ todo'[4] = Emit(end, 0, "none")
  BY <1>5
<1>9. QueueInv'
  <2>1. /\ Emit(kind, 0, "none") \in Effects
        /\ Emit("acceptance_checked", 0, acceptance) \in Effects
        /\ Write("run", 0) \in Effects /\ Emit(end, 0, "none") \in Effects
    BY <1>3, EffectFacts DEF Names, Kinds, Says, Acceptance
  <2>2. todo' \in Seq(Effects)
    BY <1>5, <2>1
  <2>3. ASSUME NEW e, e.kind = kind
        PROVE  Due(e, 1)'
    BY <2>3 DEF Due
  <2>4. ASSUME NEW e, e.kind = "acceptance_checked", e.status = acceptance
        PROVE  Due(e, 2)'
    BY <1>1, <1>4, <2>4 DEF Due
  <2>5. ASSUME NEW e, e.kind = end
        PROVE  Due(e, 4)'
    BY <1>1, <1>3, <1>4, <1>8, <2>5 DEF Due
  <2>6. \A i \in 1..Len(todo') :
          /\ todo'[i].do = "emit" => i \in {1, 2, 4}
          /\ todo'[i].what = "run" => i = 3
    BY <1>8, EffectFacts DEF Emit
  <2>7. \A i \in 1..Len(todo') : i = 4 => todo'[i].do # "write"
    BY <1>8, EffectFacts
  <2>8. /\ todo'[1].event.kind = kind /\ todo'[4].event.kind = end
        /\ todo'[2].event.kind = "acceptance_checked"
        /\ todo'[2].event.status = acceptance
    BY <1>8, EffectFacts
  <2>9. \A i \in 1..Len(todo') : todo'[i].do = "emit" =>
          \A e : e = todo'[i].event => Due(e, i)'
    BY <2>3, <2>4, <2>5, <2>6, <2>8
  <2>10. \A i \in 1..Len(todo') : todo'[i].do = "emit" => Due(todo[i].event, i)'
    BY <2>9 DEF Due
  <2>11. QED
    BY <1>8, <2>2, <2>6, <2>7, <2>10 DEF QueueInv
<1>10. ArtifactFiles'
  <2>1. Has("index", 0)'
    BY <1>1, AtRest DEF RunInv, FilesInv, ArtifactFiles, Has
  <2>2. \A i \in 1..Len(run.results), a \in ArtifactName : Has(a, i)'
    BY <1>1, AtRest DEF RunInv, FilesInv, ArtifactFiles, Has
  <2>3. QED
    BY <1>1, <1>4, <2>1, <2>2 DEF ArtifactFiles
<1>11. Owed("run", 0)'
  BY <1>8 DEF Owed, Owes
<1>12. Agree(plan.steps, run.results)
  BY MemoryFacts DEF Agree
<1>13. FilesInv' /\ TraceInv'
  BY <1>1, <1>4, <1>10, <1>11, <1>12, MemoryFacts, ChangeKeeps
<1>14. QED
  BY <1>1, <1>7, <1>9, <1>13 DEF RunInv

-----------------------------------------------------------------------------
\* When a run returns, the exit status is that of the run that was written.
LEMMA ReturnKeeps ==
  ASSUME JudgeInv, RunInv, Return
  PROVE  (SuccessIsEarned /\ RecordsAgree)'
<1>1. SuccessIsEarned /\ RecordsAgree
  BY RunningRecords
<1>2. /\ disk' = disk /\ todo = <<>>
      /\ exit' = IF run.status = "succeeded" THEN "success" ELSE "failure"
  BY DEF Return, Ended
<1>3. exit' = "success" =>
        disk.run # <<>> /\ disk.run[1].status = "succeeded"
  BY <1>2, AtRest
<1>4. RecordsAgree'
  BY <1>1, <1>2 DEF RecordsAgree, OfOneRun, FilesAgree, EventIsTrue
<1>5. SuccessIsEarned'
  BY <1>1, <1>2, <1>3 DEF SuccessIsEarned, OfOneRun
<1>6. QED
  BY <1>4, <1>5

\* A file that vanishes takes nothing from what the others say: the plan and
\* the run are only replaced as long as no run is called successful.
LEMMA VanishKeeps ==
  ASSUME JudgeInv, RunInv, todo # <<>>, Head(todo).do = "write",
         disk' = Vanished(disk, Head(todo)), exit' = "error"
  PROVE  (SuccessIsEarned /\ RecordsAgree)'
<1>1. /\ QueueInv /\ FilesInv /\ TraceInv /\ MemoryInv
  BY DEF RunInv
<1>2. Len(todo) \in Nat \ {0} /\ Head(todo) = todo[1]
  BY <1>1 DEF QueueInv
<1>3. /\ disk'.trace = disk.trace /\ disk'.artifacts = disk.artifacts
      /\ disk'.torn = disk.torn
      /\ disk'.plan \in {<<>>, disk.plan} /\ disk'.run \in {<<>>, disk.run}
  BY <1>1 DEF FilesInv, DiskFields, Vanished
<1>4. ~(disk.run # <<>> /\ disk.run[1].status = "succeeded")
  BY <1>1, <1>2 DEF FilesInv, RunFile
<1>5. SuccessIsEarned'
  BY <1>3, <1>4 DEF SuccessIsEarned
<1>6. RecordsAgree /\ OfOneRun
  BY <1>1, RunningRecords DEF FilesInv, OfOneRun
<1>7. FilesAgree'
  BY <1>3, <1>6 DEF RecordsAgree, FilesAgree
<1>8. ASSUME NEW k \in 1..Len(disk.trace), NEW e, e = disk.trace[k]
      PROVE  EventIsTrue(e)'
  <2>1. EventIsTrue(e)
    BY <1>6, <1>8 DEF RecordsAgree
  <2>2. e.kind \notin {"run_succeeded", "run_failed"}
    BY <1>1, <1>8 DEF TraceInv, Told
  <2>3. disk'.run # <<>> => disk'.run = disk.run
    BY <1>3
  <2>4. disk'.plan # <<>> => disk'.plan = disk.plan
    BY <1>3
  <2>5. QED
    BY <1>3, <2>1, <2>2, <2>3, <2>4 DEF EventIsTrue
<1>9. \A k \in 1..Len(disk'.trace) : EventIsTrue(disk.trace[k])'
  BY <1>3, <1>8 DEF EventIsTrue
<1>10. QED
  BY <1>5, <1>7, <1>9 DEF RecordsAgree

\* The records of a run hold at every step.
LEMMA RecordsStep ==
  ASSUME RecordsInv, [Next]_vars
  PROVE  RecordsInv'
<1>1. JudgeInv /\ JudgeInv'
  BY JudgeStep DEF RecordsInv
<1>2. CASE Start
  <2>1. RunInv'
    BY <1>2, StartKeeps
  <2>2. QED
    BY <1>1, <2>1 DEF RecordsInv, RunInv
<1>3. CASE BeginStep \/ RunCommand \/ FinishPlan \/ Archive \/ Verify
  <2>1. RunInv
    BY <1>3 DEF RecordsInv, BeginStep, RunCommand, FinishPlan, Archive, Verify
  <2>2. RunInv'
    BY <1>1, <1>3, <2>1, BeginStepKeeps, RunCommandKeeps, FinishPlanKeeps,
       ArchiveKeeps, VerifyKeeps
  <2>3. QED
    BY <1>1, <2>2 DEF RecordsInv, RunInv
<1>4. CASE Perform
  <2>1. RunInv
    BY <1>4 DEF RecordsInv, Perform
  <2>2. RunInv'
    BY <1>1, <1>4, <2>1, PerformKeeps
  <2>3. QED
    BY <1>1, <2>2 DEF RecordsInv, RunInv
<1>5. CASE SetupFails
  <2>1. /\ pc' = "idle" /\ todo' = <<>> /\ exit' = "error"
        /\ disk' \in Remnants(disk) \cup {EmptyDir}
    BY <1>5 DEF SetupFails, Ended
  <2>2. CASE disk' \in Remnants(disk)
    <3>1. ~OfOneRun'
      BY <2>2 DEF Remnants, OfOneRun
    <3>2. QED
      BY <1>1, <2>1, <3>1 DEF RecordsInv, SuccessIsEarned, RecordsAgree
  <2>3. CASE disk' = EmptyDir
    <3>1. disk'.run = <<>> /\ disk'.plan = <<>> /\ Len(disk'.trace) = 0
      BY <2>3 DEF EmptyDir
    <3>2. SuccessIsEarned'
      BY <2>1, <3>1 DEF SuccessIsEarned
    <3>3. RecordsAgree'
      BY <3>1 DEF RecordsAgree, FilesAgree
    <3>4. QED
      BY <1>1, <2>1, <3>2, <3>3 DEF RecordsInv
  <2>4. QED
    BY <2>1, <2>2, <2>3
<1>6. CASE Return
  <2>1. RunInv /\ pc' = "idle" /\ todo' = <<>>
    BY <1>6 DEF RecordsInv, Return, Ended
  <2>2. QED
    BY <1>1, <1>6, <2>1, ReturnKeeps DEF RecordsInv
<1>7. CASE PerformFails \/ Crash
  <2>1. /\ RunInv /\ pc' = "idle" /\ todo' = <<>> /\ exit' # "success"
        /\ PerformFails => exit' = "error"
    BY <1>7 DEF RecordsInv, PerformFails, Crash, Ended
  <2>2. CASE disk' = disk
    <3>1. SuccessIsEarned /\ RecordsAgree
      BY <1>1, <2>1, RunningRecords
    <3>2. SuccessIsEarned'
      BY <2>1, <2>2, <3>1 DEF SuccessIsEarned, OfOneRun
    <3>3. RecordsAgree'
      BY <2>2, <3>1 DEF RecordsAgree, OfOneRun, FilesAgree, EventIsTrue
    <3>4. QED
      BY <1>1, <2>1, <3>2, <3>3 DEF RecordsInv
  <2>3. CASE /\ PerformFails /\ todo # <<>> /\ Head(todo).do = "write"
             /\ disk' = Vanished(disk, Head(todo))
    <3>1. (SuccessIsEarned /\ RecordsAgree)'
      BY <1>1, <2>1, <2>3, VanishKeeps
    <3>2. QED
      BY <1>1, <2>1, <3>1 DEF RecordsInv
  <2>4. QED
    BY <1>7, <2>2, <2>3 DEF PerformFails, Crash
<1>8. CASE Rest \/ UNCHANGED vars
  <2>1. UNCHANGED vars
    BY <1>8 DEF Rest
  <2>2. MemoryInv => MemoryInv'
    BY <2>1 DEF vars, MemoryInv
  <2>3. QueueInv => QueueInv'
    BY <2>1 DEF vars, QueueInv, Due, Owes, Has
  <2>4. FilesInv => FilesInv'
    <3>1. \A what, step : /\ Has(what, step) <=> Has(what, step)'
                          /\ Owed(what, step) <=> Owed(what, step)'
      BY <2>1 DEF vars, Has, Owed, Owes
    <3>2. (PlanFile => PlanFile') /\ (RunFile => RunFile')
      BY <2>1, <3>1 DEF vars, PlanFile, RunFile
    <3>3. ArtifactFiles => ArtifactFiles'
      BY <2>1, <3>1 DEF vars, ArtifactFiles, NextStep
    <3>4. QED
      BY <2>1, <3>2, <3>3 DEF vars, FilesInv
  <2>5. TraceInv => TraceInv'
    BY <2>1 DEF vars, TraceInv, Told, Has
  <2>6. SuccessIsEarned => SuccessIsEarned'
    BY <2>1 DEF vars, SuccessIsEarned, OfOneRun
  <2>7. RecordsAgree => RecordsAgree'
    BY <2>1 DEF vars, RecordsAgree, OfOneRun, FilesAgree, EventIsTrue
  <2>8. QED
    BY <1>1, <2>1, <2>2, <2>3, <2>4, <2>5, <2>6, <2>7
    DEF RecordsInv, RunInv, vars
<1>9. QED
  BY <1>2, <1>3, <1>4, <1>5, <1>6, <1>7, <1>8 DEF Next

\* The inductive invariant.
LEMMA RecordsInvariant == Spec => []RecordsInv
<1>1. Init => RecordsInv
  <2> SUFFICES ASSUME Init PROVE RecordsInv
    OBVIOUS
  <2>1. /\ disk.run = <<>> /\ disk.plan = <<>> /\ Len(disk.trace) = 0
        /\ pc = "idle" /\ exit = "none" /\ todo = <<>> /\ run = NewRun
        /\ archived = FALSE
    BY DEF Init, EmptyDir
  <2>2. SuccessIsEarned
    BY <2>1 DEF SuccessIsEarned
  <2>3. RecordsAgree
    BY <2>1 DEF RecordsAgree, FilesAgree
  <2>4. JudgeInv
    <3>1. /\ run = [field \in Fields |-> run[field]] /\ run.results = <<>>
      BY <2>1 DEF NewRun, Fields
    <3>2. <<>> \in Results /\ StopsAtFailure(<<>>)
      BY DEF Results, StopsAtFailure
    <3>3. QED
      BY <2>1, <3>1, <3>2 DEF JudgeInv
  <2>5. QED
    BY <2>1, <2>2, <2>3, <2>4 DEF RecordsInv
<1>2. RecordsInv /\ [Next]_vars => RecordsInv'
  BY RecordsStep
<1>3. QED
  BY <1>1, <1>2, PTL DEF Spec

LEMMA RecordsHold == RecordsInv => SuccessIsEarned /\ RecordsAgree
  BY RunningRecords DEF RecordsInv

\* However many steps a scenario has, whatever fails and whenever the process
\* dies: what run.json or the exit status calls a success has every step
\* completed, every artifact written, and was verified and accepted.
THEOREM RunSuccessIsEarned == Spec => []SuccessIsEarned
  BY RecordsInvariant, RecordsHold, PTL

\* And run.json, plan.json and the events of the trace never contradict each
\* other: each is written after what it tells of, and stays true.
THEOREM RunRecordsAgree == Spec => []RecordsAgree
  BY RecordsInvariant, RecordsHold, PTL
=============================================================================
