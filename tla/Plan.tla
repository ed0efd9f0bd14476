-------------------------------- MODULE Plan --------------------------------
(***************************************************************************)
(* The plan a session carries, and the operations the agent loop performs  *)
(* on it.  A plan is abstracted to its progress: the status of each step,  *)
(* the step being worked on and the verdict.  Titles, details, summary and *)
(* metadata play no part in control and are left out.                      *)
(*                                                                         *)
(* Steps are numbered from 1; current = 0 stands for the index -1 that the *)
(* code uses for "no current step".                                        *)
(***************************************************************************)
EXTENDS Naturals

StepStatus == {"pending", "in_progress", "completed", "failed"}

\* The verdicts the runtime writes; "" is the verdict of a plan never built.
PlanOutcome == {"", "in_progress", "completed", "failed",
                "planner_reentry_blocked"}

PlanState == {"IDLE", "AWAITING_PLAN", "AWAITING_REPAIR",
              "PLAN_READY", "PLAN_INVALID"}

\* The plans of n steps.
Plans(n) ==
  [generation : Nat, size : {n}, steps : [1..n -> StepStatus], current : 0..n,
   outcome : PlanOutcome]

\* A plan without steps, as make_session_state and reset_session_plan leave it.
NoPlan(g) ==
  [generation |-> g, size |-> 0, steps |-> [i \in 1..0 |-> "pending"],
   current |-> 0, outcome |-> ""]

ResetPlan(p) == NoPlan(p.generation + 1)

BuildPlan(g, n) ==
  [generation |-> g, size |-> n,
   steps |-> [i \in 1..n |-> IF i = 1 THEN "in_progress" ELSE "pending"],
   current |-> 1, outcome |-> "in_progress"]

HasCurrentStep(p) == p.current \in 1..p.size

\* The two tests of "this plan is being executed" differ: the loader accepts
\* a plan without verdict, the loop does not.
IsActive(p) == HasCurrentStep(p) /\ p.outcome = "in_progress"
IsActiveForResume(p) == HasCurrentStep(p) /\ p.outcome \in {"", "in_progress"}

FailStep(p, verdict) ==
  [p EXCEPT !.steps = [i \in 1..p.size |-> IF i = p.current THEN "failed"
                                           ELSE p.steps[i]],
            !.outcome = verdict]

\* Mutant: the next step is not started.
CompleteStepOnly(p) ==
  IF ~HasCurrentStep(p) THEN p
  ELSE LET last == p.current = p.size
       IN [p EXCEPT !.steps[p.current] = "completed",
                    !.current = IF last THEN 0 ELSE @ + 1,
                    !.outcome = IF last THEN "completed" ELSE "in_progress"]

CompleteStep(p) ==
  IF ~HasCurrentStep(p) THEN p
  ELSE LET last == p.current = p.size
       IN [p EXCEPT
             !.steps = [i \in 1..p.size |->
                          IF i = p.current THEN "completed"
                          ELSE IF i = p.current + 1 THEN "in_progress"
                          ELSE p.steps[i]],
             !.current = IF last THEN 0 ELSE p.current + 1,
             !.outcome = IF last THEN "completed" ELSE "in_progress"]

-----------------------------------------------------------------------------
(***************************************************************************)
(* What a plan must look like at any time.  While it has a current step,   *)
(* everything before that step is completed, everything after it is        *)
(* pending, and the step itself is in progress exactly when the plan is.   *)
(* Without a current step the plan is either finished or has no steps.     *)
(***************************************************************************)
ProgressIsLinear(p) ==
  HasCurrentStep(p) =>
    /\ \A i \in 1..p.size : i < p.current => p.steps[i] = "completed"
    /\ \A i \in 1..p.size : i > p.current => p.steps[i] = "pending"
    /\ p.steps[p.current] =
         IF p.outcome = "in_progress" THEN "in_progress" ELSE "failed"

VerdictIsEarned(p) ==
  /\ p.outcome = "in_progress" => HasCurrentStep(p)
  /\ p.outcome = "completed" =>
       /\ p.current = 0
       /\ p.size > 0
       /\ \A i \in 1..p.size : p.steps[i] = "completed"
  /\ p.outcome = "" => p.size = 0
  /\ p.outcome = "planner_reentry_blocked" => HasCurrentStep(p)
  /\ p.outcome = "failed" => p.size = 0 \/ HasCurrentStep(p)

WellFormedPlan(p) == ProgressIsLinear(p) /\ VerdictIsEarned(p)
=============================================================================
