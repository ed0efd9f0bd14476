------------------------------- MODULE Harness -------------------------------
(***************************************************************************)
(* Runs of the benchmark harness (run_harness and its main program): the   *)
(* steps of a scenario are run as commands, then their artifacts are       *)
(* archived, verified and judged.  What a reader finds afterwards is the   *)
(* directory of the run: run.json, plan.json, the trace and the artifacts. *)
(*                                                                         *)
(* The code between two choices writes files and events one after the      *)
(* other; "todo" is what of this is still to be written.  Each of these    *)
(* can fail, which ends the run by an exception, and the process can die   *)
(* between any two.  A run reuses the directory of an earlier run with the *)
(* same id after removing it.                                              *)
(***************************************************************************)
EXTENDS Integers, Sequences, FiniteSets

CONSTANTS
  MaxSteps,   \* bound: steps of a scenario
  MaxRuns,    \* bound: runs under one run id
  MaxLost,    \* bound: events of the trace lost in one run
  Faults      \* what may happen: "setup", "write", "vanish", "event", "lost",
              \* "crash"

ASSUME HarnessAssumption ==
  /\ MaxSteps \in Nat /\ MaxRuns \in Nat /\ MaxLost \in Nat
  /\ Faults \subseteq {"setup", "write", "vanish", "event", "lost", "crash"}

VARIABLES
  disk,       \* the directory of the run
  plan,       \* the plan in memory
  run,        \* the RunArtifact in memory
  todo,       \* files and events still to be written
  lost,       \* number of events lost by this run
  archived,   \* archive_artifacts succeeded
  answer,     \* what the scenario's verifier answered
  pc,         \* where the harness is
  exit,       \* how the last process ended
  runs        \* number of runs so far

vars == <<disk, plan, run, todo, lost, archived, answer, pc, exit, runs>>

-----------------------------------------------------------------------------
(* Results and their judgement *)

StepResult == {"success", "retryable_failure", "terminal_failure"}

Acceptance == StepResult \cup {"not_checked"}

Verification == {"passed", "failed", "not_started"}

\* What run_subprocess_capture returns: ok is an exit with zero within limits.
Capture ==
  {c \in [ok : BOOLEAN, timedOut : BOOLEAN, truncated : BOOLEAN,
          error : BOOLEAN] :
     c.ok => ~c.timedOut /\ ~c.truncated /\ ~c.error}

\* make_step_result
Judged(capture) ==
  CASE capture.ok -> "success"
    [] ~capture.ok /\ (capture.timedOut \/ capture.truncated \/ capture.error)
         -> "retryable_failure"
    [] OTHER -> "terminal_failure"

\* What a verifier may answer; "other" is a status that is not one, and error
\* a message or an exception.
Answer ==
  [error : BOOLEAN, status : Verification \cup {"other"},
   acceptance : Acceptance \cup {"other"}]

NoAnswer == [error |-> FALSE, status |-> "not_started",
             acceptance |-> "not_checked"]

Rank(status) ==
  CASE status = "not_checked" -> -1
    [] status = "success" -> 0
    [] status = "retryable_failure" -> 1
    [] status = "terminal_failure" -> 2
    [] OTHER -> 3

\* Mutant: the overlay replaces the base unless it is a success.
MergeOverlay(base, overlay) == IF overlay = "success" THEN base ELSE overlay

\* merge_acceptance: the worse of the two, the first when they are alike.
Merge(base, overlay) == IF Rank(overlay) > Rank(base) THEN overlay ELSE base

\* base_acceptance_from_steps: the first failure; a run stops at it.
Execution(results) ==
  IF \E i \in 1..Len(results) : results[i] # "success"
  THEN results[CHOOSE i \in 1..Len(results) :
                 /\ results[i] # "success"
                 /\ \A j \in 1..i - 1 : results[j] = "success"]
  ELSE "success"

\* The verification of a run: the verifier is not asked when the archive
\* failed, and only adds to a failed execution.
Verified(execution, a) ==
  CASE ~archived -> [status |-> "failed", acceptance |-> "terminal_failure"]
    [] archived /\ execution # "success" ->
         [status |-> "failed",
          acceptance |-> IF a.error THEN execution
                         ELSE Merge(execution, a.acceptance)]
    [] archived /\ execution = "success" /\ a.error ->
         [status |-> "failed", acceptance |-> "terminal_failure"]
    [] OTHER -> [status |-> a.status, acceptance |-> a.acceptance]

\* Mutant: the verifier's decision alone counts.
AcceptVerifier(execution, verified) == verified.acceptance

Accepted(execution, verified) ==
  LET merged == Merge(execution, verified.acceptance)
  IN  IF verified.status # "passed" /\ merged = "success"
      THEN "terminal_failure" ELSE merged

-----------------------------------------------------------------------------
(* The directory *)

Event(kind, step, status) ==
  [kind |-> kind, step |-> step, status |-> status]

\* Effects that are still to come: a file, or an event of the trace.
Write(what, step) ==
  [do |-> "write", what |-> what, event |-> Event("none", step, "none")]

Emit(kind, step, status) ==
  [do |-> "emit", what |-> "none", event |-> Event(kind, step, status)]

ArtifactName == {"command", "stdout", "stderr", "result"}

\* A file is a sequence: empty when it is not there, else its one content.
\* The artifact <<0, "index">> is the index of the scenario's artifacts.
EmptyDir ==
  [plan |-> <<>>, run |-> <<>>, trace |-> <<>>, artifacts |-> {},
   torn |-> FALSE]

\* What is left of a directory when removing it fails half-way.
Remnants(d) ==
  {[plan |-> p, run |-> r, trace |-> t, artifacts |-> a, torn |-> TRUE] :
     p \in {<<>>, d.plan}, r \in {<<>>, d.run}, t \in {<<>>, d.trace},
     a \in {{}, d.artifacts}}

Put(d, effect) ==
  CASE effect.what = "plan" -> [d EXCEPT !.plan = <<plan>>]
    [] effect.what = "run" -> [d EXCEPT !.run = <<run>>]
    [] OTHER -> [d EXCEPT !.artifacts =
                   @ \cup {<<effect.event.step, effect.what>>}]

Vanished(d, effect) ==
  CASE effect.what = "plan" -> [d EXCEPT !.plan = <<>>]
    [] effect.what = "run" -> [d EXCEPT !.run = <<>>]
    [] OTHER -> d

\* to_json of a RunArtifact refuses statuses that are none.
Writable(effect) ==
  effect.what = "run" =>
    run.acceptance \in Acceptance /\ run.verification \in Verification

-----------------------------------------------------------------------------
NewRun == [status |-> "running", results |-> <<>>,
           verification |-> "not_started", acceptance |-> "not_checked"]

\* make_plan_from_definition
NewPlan(n) == [steps |-> [i \in 1..n |-> "pending"], current |-> 0,
               outcome |-> "pending"]

Init ==
  /\ disk = EmptyDir /\ plan = NewPlan(0) /\ run = NewRun /\ todo = <<>>
  /\ lost = 0 /\ archived = FALSE /\ answer = NoAnswer
  /\ pc = "idle" /\ exit = "none" /\ runs = 0

\* Only the directory outlives the process.
Ended(how) ==
  /\ plan' = NewPlan(0) /\ run' = NewRun /\ todo' = <<>>
  /\ lost' = 0 /\ archived' = FALSE /\ answer' = NoAnswer
  /\ pc' = "idle" /\ exit' = how

\* Removing the old directory, creating the new one or the trace fails.
SetupFails ==
  /\ pc = "idle" /\ runs < MaxRuns /\ "setup" \in Faults
  /\ runs' = runs + 1
  /\ disk' \in Remnants(disk) \cup {EmptyDir}
  /\ Ended("error")

\* Mutant: only the trace, which is appended to, is removed.
CleanedOfTrace(d) == [d EXCEPT !.trace = <<>>, !.torn = FALSE]

\* remove_path_if_exists and ensure_directory
Cleaned(d) == EmptyDir

Start ==
  /\ pc = "idle" /\ runs < MaxRuns
  /\ runs' = runs + 1 /\ exit' = "none"
  /\ disk' = Cleaned(disk)
  /\ \E n \in 0..MaxSteps : plan' = NewPlan(n)
  /\ run' = NewRun /\ lost' = 0 /\ archived' = FALSE /\ answer' = NoAnswer
  /\ todo' = <<Write("plan", 0), Write("run", 0),
               Emit("run_started", 0, "none"),
               Emit("plan_created", 0, "none")>>
  /\ pc' = "step"

NextStep == Len(run.results) + 1

BeginStep ==
  /\ pc = "step" /\ todo = <<>> /\ NextStep <= Len(plan.steps)
  /\ plan' = [plan EXCEPT !.current = NextStep, !.outcome = "in_progress",
                          !.steps[NextStep] = "in_progress"]
  /\ todo' = <<Write("plan", 0), Emit("step_started", NextStep, "none"),
               Write("command", NextStep),
               Emit("tool_invoked", NextStep, "none")>>
  /\ pc' = "command"
  /\ UNCHANGED <<disk, run, lost, archived, answer, exit, runs>>

\* Mutant: run.json is written before plan.json.
CommandTodoRunFirst(result) ==
  <<Write("stdout", NextStep), Write("stderr", NextStep),
    Write("result", NextStep), Emit("tool_finished", NextStep, result),
    Write("run", 0), Write("plan", 0)>>

CommandTodo(result) ==
  <<Write("stdout", NextStep), Write("stderr", NextStep),
    Write("result", NextStep), Emit("tool_finished", NextStep, result),
    Write("plan", 0), Write("run", 0)>>

RunCommand ==
  /\ pc = "command" /\ todo = <<>>
  /\ \E capture \in Capture :
       LET result == Judged(capture)
           ok     == result = "success"
       IN  /\ run' = [run EXCEPT !.results = Append(@, result)]
           /\ plan' = [plan EXCEPT
                         !.steps[NextStep] = IF ok THEN "completed"
                                             ELSE "failed",
                         !.outcome = IF ok THEN @ ELSE "failed"]
           /\ todo' = CommandTodo(result)
           /\ pc' = IF ok THEN "step" ELSE "archive"
  /\ UNCHANGED <<disk, lost, archived, answer, exit, runs>>

FinishPlan ==
  /\ pc = "step" /\ todo = <<>> /\ NextStep > Len(plan.steps)
  /\ plan' = [plan EXCEPT !.outcome = "completed", !.current = Len(plan.steps)]
  /\ todo' = <<Write("plan", 0)>>
  /\ pc' = "archive"
  /\ UNCHANGED <<disk, run, lost, archived, answer, exit, runs>>

\* An exception of the scenario counts as a failure; the index is written in
\* either case.
Archive ==
  /\ pc = "archive" /\ todo = <<>>
  /\ archived' \in BOOLEAN
  /\ todo' = <<Write("index", 0), Emit("verification_started", 0, "none")>>
  /\ pc' = "verify"
  /\ UNCHANGED <<disk, plan, run, lost, answer, exit, runs>>

Verify ==
  /\ pc = "verify" /\ todo = <<>>
  /\ answer' \in IF archived THEN Answer ELSE {NoAnswer}
  /\ LET execution  == Execution(run.results)
         verified   == Verified(execution, answer')
         acceptance == Accepted(execution, verified)
         status     == IF verified.status = "passed" /\ acceptance = "success"
                       THEN "succeeded" ELSE "failed"
     IN  /\ run' = [run EXCEPT !.verification = verified.status,
                               !.acceptance = acceptance, !.status = status]
         /\ todo' = <<Emit(IF verified.status = "passed"
                           THEN "verification_passed"
                           ELSE "verification_failed", 0, "none"),
                      Emit("acceptance_checked", 0, acceptance),
                      Write("run", 0),
                      Emit(IF status = "succeeded" THEN "run_succeeded"
                           ELSE "run_failed", 0, "none")>>
  /\ pc' = "return"
  /\ UNCHANGED <<disk, plan, lost, archived, exit, runs>>

Return ==
  /\ pc = "return" /\ todo = <<>>
  /\ Ended(IF run.status = "succeeded" THEN "success" ELSE "failure")
  /\ UNCHANGED <<disk, runs>>

-----------------------------------------------------------------------------
(* Writing *)

\* write_text_file puts a new file in the place of the old one; an event is
\* appended, or lost in the buffer of the stream when the disk is full.
Perform ==
  /\ todo # <<>>
  /\ IF Head(todo).do = "write"
     THEN /\ Writable(Head(todo))
          /\ disk' = Put(disk, Head(todo)) /\ lost' = lost
     ELSE \/ /\ disk' = [disk EXCEPT !.trace = Append(@, Head(todo).event)]
             /\ lost' = lost
          \/ /\ "lost" \in Faults /\ lost < MaxLost
             /\ disk' = disk /\ lost' = lost + 1
  /\ todo' = Tail(todo)
  /\ UNCHANGED <<plan, run, archived, answer, pc, exit, runs>>

\* An exception ends the run.  When a file cannot be replaced, the old one is
\* removed before the second try, which may fail too.
PerformFails ==
  /\ todo # <<>>
  /\ LET effect == Head(todo)
     IN  \/ /\ effect.do = "write" /\ (~Writable(effect) \/ "write" \in Faults)
            /\ disk' = disk
         \/ /\ effect.do = "write" /\ Writable(effect) /\ "vanish" \in Faults
            /\ disk' = Vanished(disk, effect)
         \/ /\ effect.do = "emit" /\ "event" \in Faults
            /\ disk' = disk
  /\ Ended("error")
  /\ UNCHANGED runs

Crash ==
  /\ pc # "idle" /\ "crash" \in Faults
  /\ Ended("killed")
  /\ UNCHANGED <<disk, runs>>

Rest == pc = "idle" /\ runs = MaxRuns /\ UNCHANGED vars

Next ==
  \/ SetupFails \/ Start \/ BeginStep \/ RunCommand \/ FinishPlan \/ Archive
  \/ Verify \/ Return \/ Perform \/ PerformFails \/ Crash \/ Rest

Spec == Init /\ [][Next]_vars

-----------------------------------------------------------------------------
(* Properties *)

\* The directory is one run's: removing an earlier one has not failed.
OfOneRun == ~disk.torn

\* A run that its file or its exit status calls successful is one: every step
\* of the plan succeeded and left its artifacts, the index is there, and
\* verification and acceptance say so.  The exit status never says more than
\* the file.
SuccessIsEarned ==
  OfOneRun =>
    /\ exit = "success" =>
         disk.run # <<>> /\ disk.run[1].status = "succeeded"
    /\ disk.run # <<>> /\ disk.run[1].status = "succeeded" =>
         /\ disk.run[1].verification = "passed"
         /\ disk.run[1].acceptance = "success"
         /\ disk.plan # <<>> /\ disk.plan[1].outcome = "completed"
         /\ Len(disk.run[1].results) = Len(disk.plan[1].steps)
         /\ \A i \in 1..Len(disk.plan[1].steps) :
              /\ disk.plan[1].steps[i] = "completed"
              /\ disk.run[1].results[i] = "success"
              /\ {i} \X ArtifactName \subseteq disk.artifacts
         /\ <<0, "index">> \in disk.artifacts

\* run.json is at most one step behind plan.json, and they say the same of the
\* steps both know; a failed step is the last one.
FilesAgree ==
  disk.run # <<>> /\ disk.plan # <<>> =>
    LET results == disk.run[1].results
        steps   == disk.plan[1].steps
    IN  /\ Len(results) <= Len(steps)
        /\ \A i \in 1..Len(steps) :
             /\ i <= Len(results) =>
                  steps[i] = IF results[i] = "success" THEN "completed"
                             ELSE "failed"
             /\ i > Len(results) + 1 => steps[i] = "pending"
        /\ \A i \in 1..Len(results) - 1 : results[i] = "success"

\* An event is written after what it tells of.
EventIsTrue(e) ==
  /\ e.kind = "step_started" /\ disk.plan # <<>> =>
       disk.plan[1].steps[e.step] # "pending"
  /\ e.kind = "tool_invoked" => <<e.step, "command">> \in disk.artifacts
  /\ e.kind = "tool_finished" =>
       /\ {e.step} \X ArtifactName \subseteq disk.artifacts
       /\ disk.run # <<>> =>
            /\ Len(disk.run[1].results) >= e.step - 1
            /\ e.step <= Len(disk.run[1].results) =>
                 disk.run[1].results[e.step] = e.status
  /\ e.kind = "verification_started" => <<0, "index">> \in disk.artifacts
  /\ e.kind = "acceptance_checked" /\ disk.run # <<>> =>
       disk.run[1].status = "running" \/ disk.run[1].acceptance = e.status
  /\ e.kind = "run_succeeded" =>
       disk.run # <<>> /\ disk.run[1].status = "succeeded"
  /\ e.kind = "run_failed" =>
       disk.run # <<>> /\ disk.run[1].status = "failed"

\* Whenever the process dies or gives up, the records of a run agree: the two
\* files with each other, and each event of the trace with the files.
RecordsAgree ==
  OfOneRun =>
    /\ FilesAgree
    /\ \A k \in 1..Len(disk.trace) : EventIsTrue(disk.trace[k])

\* A run is accepted as no better than anything that was found: the worst
\* result of a step, a failed archive, the verifier's own decision or error,
\* and a verification that did not pass.
AcceptanceIsWorst ==
  pc = "return" =>
    /\ \A i \in 1..Len(run.results) :
         Rank(run.acceptance) >= Rank(run.results[i])
    /\ ~archived => Rank(run.acceptance) >= Rank("terminal_failure")
    /\ archived /\ ~answer.error =>
         Rank(run.acceptance) >= Rank(answer.acceptance)
    /\ answer.error \/ (archived /\ answer.status # "passed") =>
         Rank(run.acceptance) > Rank("success")
=============================================================================
