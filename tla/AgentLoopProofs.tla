--------------------------- MODULE AgentLoopProofs ---------------------------
(***************************************************************************)
(* Theorems about the agent loop, for every limit, every set of tool       *)
(* results, every plan length and any number of processes.  The first      *)
(* lemmas say what the operations on a plan return and preserve, for plans *)
(* of any length; nothing after them looks inside a plan operation.  Then  *)
(* come the plan and its contract; what the loop keeps account of: the     *)
(* records of its tool calls, the budgets they are charged to, the         *)
(* failures it has met, the steps it takes to be completed; and that it    *)
(* keeps the promise about the progress of a session (PlannedSession).     *)
(***************************************************************************)
EXTENDS AgentLoop, TLAPS

\* A plan without steps is a plan, and well formed (make_session_state and
\* reset_session_plan).
LEMMA NoPlanFacts ==
  ASSUME NEW g \in Nat
  PROVE  NoPlan(g) \in Plans(0) /\ WellFormedPlan(NoPlan(g)) /\ ~IsActive(NoPlan(g))
  BY DEF NoPlan, Plans, WellFormedPlan, ProgressIsLinear, VerdictIsEarned,
         HasCurrentStep, PlanOutcome, StepStatus, IsActive

\* reset_session_plan leaves no steps and starts the next generation.
LEMMA ResetPlanFacts ==
  ASSUME NEW n \in Nat, NEW p \in Plans(n)
  PROVE  /\ ResetPlan(p) \in Plans(0) /\ WellFormedPlan(ResetPlan(p))
         /\ ~IsActive(ResetPlan(p))
         /\ ResetPlan(p).size = 0 /\ ResetPlan(p).generation = p.generation + 1
<1>1. p.generation + 1 \in Nat
  BY DEF Plans
<1>2. QED
  BY <1>1, NoPlanFacts DEF ResetPlan, NoPlan

\* build_plan_from_validated_artifact starts the first step of a plan with at
\* least one step.
LEMMA BuildPlanFacts ==
  ASSUME NEW g \in Nat, NEW n \in Nat \ {0}
  PROVE  /\ BuildPlan(g, n) \in Plans(n) /\ WellFormedPlan(BuildPlan(g, n))
         /\ IsActive(BuildPlan(g, n)) /\ BuildPlan(g, n).size = n
         /\ BuildPlan(g, n).generation = g
<1>1. BuildPlan(g, n) \in Plans(n)
  BY DEF BuildPlan, Plans, PlanOutcome, StepStatus
<1>2. ProgressIsLinear(BuildPlan(g, n))
  BY DEF BuildPlan, ProgressIsLinear, HasCurrentStep
<1>3. VerdictIsEarned(BuildPlan(g, n))
  BY DEF BuildPlan, VerdictIsEarned, HasCurrentStep
<1>4. QED
  BY <1>1, <1>2, <1>3 DEF WellFormedPlan, IsActive, HasCurrentStep, BuildPlan

\* fail_current_plan_step on an active plan keeps the progress made and ends
\* the execution of the plan.
LEMMA FailStepFacts ==
  ASSUME NEW n \in Nat, NEW p \in Plans(n), WellFormedPlan(p), IsActive(p),
         NEW v \in {"failed", "planner_reentry_blocked"}
  PROVE  /\ FailStep(p, v) \in Plans(n) /\ WellFormedPlan(FailStep(p, v))
         /\ ~IsActive(FailStep(p, v)) /\ FailStep(p, v).size = p.size
         /\ FailStep(p, v).generation = p.generation
         /\ FailStep(p, v).current = p.current
<1> DEFINE q == FailStep(p, v)
<1>1. q \in Plans(n)
  BY DEF FailStep, Plans, StepStatus, PlanOutcome
<1>2. /\ q.size = p.size /\ q.current = p.current /\ q.outcome = v
      /\ q.generation = p.generation
      /\ \A i \in 1..p.size :
           q.steps[i] = IF i = p.current THEN "failed" ELSE p.steps[i]
  BY DEF FailStep, Plans
<1>3. ProgressIsLinear(q)
  BY <1>2 DEF ProgressIsLinear, WellFormedPlan, HasCurrentStep, IsActive
<1>4. VerdictIsEarned(q)
  BY <1>2 DEF VerdictIsEarned, IsActive, HasCurrentStep
<1>5. QED
  BY <1>1, <1>2, <1>3, <1>4 DEF WellFormedPlan, IsActive

\* complete_current_plan_step on an active plan completes the current step and
\* either starts the one after it or, after the last, completes the plan.
LEMMA CompleteStepFacts ==
  ASSUME NEW n \in Nat, NEW p \in Plans(n), WellFormedPlan(p), IsActive(p)
  PROVE  /\ CompleteStep(p) \in Plans(n) /\ WellFormedPlan(CompleteStep(p))
         /\ CompleteStep(p).size = p.size
         /\ CompleteStep(p).generation = p.generation
         /\ IsActive(CompleteStep(p)) \/ CompleteStep(p).outcome = "completed"
<1> DEFINE q == CompleteStep(p)
           last == p.current = p.size
<1>0. /\ p.size = n /\ n \in Nat /\ p.current \in 1..n
      /\ p.outcome = "in_progress"
      /\ \A i \in 1..n : i < p.current => p.steps[i] = "completed"
      /\ \A i \in 1..n : i > p.current => p.steps[i] = "pending"
  BY DEF Plans, IsActive, HasCurrentStep, WellFormedPlan, ProgressIsLinear
<1>1. q \in Plans(n)
  <2>1. /\ HasCurrentStep(p)
        /\ \A i \in 1..n : p.steps[i] \in StepStatus
    BY <1>0 DEF HasCurrentStep, Plans
  <2>2. [i \in 1..p.size |-> IF i = p.current THEN "completed"
                             ELSE IF i = p.current + 1 THEN "in_progress"
                             ELSE p.steps[i]] \in [1..n -> StepStatus]
    BY <1>0, <2>1 DEF StepStatus
  <2>3. (IF last THEN 0 ELSE p.current + 1) \in 0..n
    BY <1>0
  <2>4. QED
    BY <1>0, <2>1, <2>2, <2>3 DEF CompleteStep, Plans, PlanOutcome
<1>2. /\ q.size = n /\ q.generation = p.generation
      /\ q.current = IF last THEN 0 ELSE p.current + 1
      /\ q.outcome = IF last THEN "completed" ELSE "in_progress"
      /\ \A i \in 1..n :
           q.steps[i] = IF i = p.current THEN "completed"
                        ELSE IF i = p.current + 1 THEN "in_progress"
                        ELSE p.steps[i]
  BY <1>0 DEF CompleteStep, Plans, HasCurrentStep
<1>3. ProgressIsLinear(q)
  BY <1>0, <1>2 DEF ProgressIsLinear, HasCurrentStep
<1>4. VerdictIsEarned(q)
  BY <1>0, <1>2 DEF VerdictIsEarned, HasCurrentStep
<1>5. QED
  BY <1>0, <1>1, <1>2, <1>3, <1>4 DEF WellFormedPlan, IsActive, HasCurrentStep

\* On a well formed plan the loader's test and the loop's test of "this plan
\* is being executed" are the same.
LEMMA ResumeTestsAgree ==
  ASSUME NEW n \in Nat, NEW p \in Plans(n), WellFormedPlan(p)
  PROVE  IsActiveForResume(p) <=> IsActive(p)
<1>1. p.outcome = "" => ~HasCurrentStep(p)
  <2>1. p.outcome = "" => p.size = 0
    BY DEF WellFormedPlan, VerdictIsEarned
  <2>2. p.size = 0 => ~HasCurrentStep(p)
    BY DEF HasCurrentStep
  <2>3. QED
    BY <2>1, <2>2
<1>2. QED
  BY <1>1 DEF IsActiveForResume, IsActive

-----------------------------------------------------------------------------
(* The inductive invariant of the loop *)

(* The tool calls of a turn: which of them the transcript still owes an    *)
(* answer at each point of the loop, and which record is open.             *)
CallInv ==
  /\ pc = "judge" => session.open = run.reply.calls
  /\ pc \in {"call", "skip"} => session.open = run.pending /\ run.pending > 0
  /\ pc = "execute" => session.open = run.pending + 1
  /\ pc = "classify" => session.open = run.pending
  /\ pc = "after" => session.open = 0
  /\ session.started = IF pc = "execute" THEN 1 ELSE 0
  /\ disk.started = 0
  /\ pc = "classify" /\ run.class \notin {"none", "fatal"} =>
       run.failure \in Failures
  /\ pc \in {"off", "enter"} => run.first
  /\ pc \in {"turn", "llm"} /\ ~run.first /\ session.open > 0 =>
       session.planState = "AWAITING_REPAIR"

(* The flags that a turn keeps about the plan agree with the plan.         *)
TurnInv ==
  /\ pc \in {"llm", "judge"} => (run.planning <=> WaitingOnContract(session))
  /\ CallingTools => ~WaitingOnContract(session)
  /\ (pc \in {"llm", "judge"} \/ CallingTools) /\ run.executing =>
       ReadyForExecution(session)
  /\ pc = "invalid" => session.planState = "PLAN_INVALID"

IInv == TypeOK /\ PlanWellFormed /\ ContractMatchesPlan /\ CallInv /\ TurnInv

(* What PlanWellFormed and ContractMatchesPlan say of one session.         *)
GoodSession(s) ==
  /\ IsSession(s)
  /\ WellFormedPlan(s.plan)
  /\ s.plan.size > 0 <=> s.planState = "PLAN_READY"
  /\ s.artifact = s.plan.size
  /\ s.planState = "AWAITING_REPAIR" => s.repairAttempts = 1
  /\ s.planState \in {"IDLE", "AWAITING_PLAN"} => s.repairAttempts = 0

\* The invariants of AgentLoop, split by session: what the file and the memory
\* hold is each a good session.
LEMMA GoodSessionFacts ==
  TypeOK /\ PlanWellFormed /\ ContractMatchesPlan <=>
    GoodSession(session) /\ GoodSession(disk) /\ TypeOK
<1>1. ASSUME NEW s, IsSession(s), WellFormedPlan(s.plan)
      PROVE  IsActiveForResume(s.plan) <=> IsActive(s.plan)
  <2>1. s.plan.size \in Nat /\ s.plan \in Plans(s.plan.size)
    BY <1>1, LimitsAssumption DEF IsSession, SessionsOf
  <2>2. QED
    BY <1>1, <2>1, ResumeTestsAgree
<1>2. QED
  BY <1>1 DEF TypeOK, PlanWellFormed, ContractMatchesPlan, GoodSession

\* The plan of a session is a plan, of at most MaxSteps steps.
LEMMA PlanOfSession ==
  ASSUME NEW s, IsSession(s)
  PROVE  /\ s.plan.size \in Nat /\ s.plan.size \in 0..MaxSteps
         /\ s.plan \in Plans(s.plan.size) /\ s.plan.generation \in Nat
<1>1. s.plan.size \in 0..MaxSteps /\ s \in SessionsOf(s.plan.size)
  BY DEF IsSession
<1>2. s.plan \in Plans(s.plan.size)
  BY <1>1 DEF SessionsOf
<1>3. s.plan.generation \in Nat
  BY <1>2 DEF Plans
<1> QED
  BY <1>1, <1>2, <1>3, LimitsAssumption

\* A session whose planner contract is rewritten is a session.
LEMMA RewriteContract ==
  ASSUME NEW n, NEW s \in SessionsOf(n), NEW m, NEW p \in Plans(m),
         NEW state \in PlanState, NEW needs \in BOOLEAN, NEW repairs \in 0..1,
         NEW artifact \in 0..MaxSteps
  PROVE  [s EXCEPT !.plan = p, !.planState = state, !.needsPlan = needs,
                   !.repairAttempts = repairs, !.artifact = artifact]
           \in SessionsOf(m)
  BY DEF SessionsOf

\* A session whose plan is replaced is a session.
LEMMA ReplacePlan ==
  ASSUME NEW s, IsSession(s), NEW n \in 0..MaxSteps, NEW p \in Plans(n)
  PROVE  /\ IsSession([s EXCEPT !.plan = p])
         /\ [s EXCEPT !.plan = p].plan = p
<1>1. p.size = n
  BY DEF Plans
<1>2. [s EXCEPT !.plan = p].plan = p
  BY DEF IsSession, SessionsOf
<1>3. QED
  BY <1>1, <1>2 DEF IsSession, SessionsOf

\* make_session_state returns a good session.
LEMMA NewSessionIsGood == GoodSession(NewSession)
<1>1. NoPlan(0) \in Plans(0) /\ WellFormedPlan(NoPlan(0)) /\ NoPlan(0).size = 0
  BY NoPlanFacts DEF NoPlan
<1>2. IsSession(NewSession)
  BY <1>1, LimitsAssumption DEF NewSession, IsSession, SessionsOf, PlanState
<1>3. QED
  BY <1>1, <1>2 DEF GoodSession, NewSession

\* prepare_session_state turns what a process left in the file into a session
\* agent_run can work on, whether the plan is resumed or reset.
LEMMA PreparedSessionIsGood ==
  ASSUME NEW s, GoodSession(s)
  PROVE  GoodSession(Prepare(s)) /\ Prepare(s).started = s.started
<1>0. IsSession(s) /\ WellFormedPlan(s.plan)
  BY DEF GoodSession
<1>1. CASE IsActiveForResume(s.plan)
  <2>1. s.plan.size > 0
    <3>1. s.plan.size \in Nat /\ s.plan.current \in 1..s.plan.size
      BY <1>0, <1>1, PlanOfSession DEF IsActiveForResume, HasCurrentStep
    <3>2. QED
      BY <3>1
  <2>2. Prepare(s) = s
    BY <1>0, <1>1, <2>1 DEF Prepare, GoodSession, IsSession, SessionsOf
  <2>3. QED
    BY <2>2
<1>2. CASE ~IsActiveForResume(s.plan)
  <2>1. /\ ResetPlan(s.plan) \in Plans(0) /\ WellFormedPlan(ResetPlan(s.plan))
        /\ ResetPlan(s.plan).size = 0
    BY <1>0, PlanOfSession, ResetPlanFacts
  <2> DEFINE t == Prepare(s)
  <2>2. t = [s EXCEPT !.plan = ResetPlan(s.plan), !.planState = "IDLE",
                      !.needsPlan = FALSE, !.repairAttempts = 0, !.artifact = 0]
    BY <1>2 DEF Prepare
  <2>3. /\ t.plan = ResetPlan(s.plan) /\ t.planState = "IDLE"
        /\ t.repairAttempts = 0 /\ t.artifact = 0 /\ t.started = s.started
    BY <1>0, <2>2 DEF IsSession, SessionsOf
  <2>4. s \in SessionsOf(s.plan.size) /\ 0 \in 0..MaxSteps
    BY <1>0, LimitsAssumption DEF IsSession
  <2>5. t \in SessionsOf(0)
    <3>1. "IDLE" \in PlanState /\ 0 \in 0..1 /\ FALSE \in BOOLEAN
      BY DEF PlanState
    <3>2. [s EXCEPT !.plan = ResetPlan(s.plan), !.planState = "IDLE",
                    !.needsPlan = FALSE, !.repairAttempts = 0, !.artifact = 0]
            \in SessionsOf(0)
      BY <2>1, <2>4, <3>1 DEF SessionsOf
    <3>3. QED
      BY <2>2, <3>2
  <2>6. QED
    BY <2>1, <2>3, <2>4, <2>5 DEF GoodSession, IsSession
<1>3. QED
  BY <1>1, <1>2

\* A session that differs only in its counters and records is as good.
LEMMA SameContract ==
  ASSUME NEW s, GoodSession(s), NEW t \in SessionsOf(s.plan.size),
         t.plan = s.plan, t.planState = s.planState,
         t.repairAttempts = s.repairAttempts, t.artifact = s.artifact
  PROVE  GoodSession(t)
  BY DEF GoodSession, IsSession

\* Failing the current step of an active plan, and completing it.
LEMMA FailedSessionIsGood ==
  ASSUME NEW s, GoodSession(s), IsActive(s.plan),
         NEW v \in {"failed", "planner_reentry_blocked"}
  PROVE  LET t == [s EXCEPT !.plan = FailStep(@, v)]
         IN  GoodSession(t) /\ t.started = s.started /\ t.planState = s.planState
<1> DEFINE n == s.plan.size
           p == FailStep(s.plan, v)
           t == [s EXCEPT !.plan = p]
<1>1. /\ s \in SessionsOf(n) /\ n \in 0..MaxSteps /\ n \in Nat
      /\ s.plan \in Plans(n) /\ WellFormedPlan(s.plan)
  BY PlanOfSession DEF GoodSession, IsSession
<1>2. p \in Plans(n) /\ WellFormedPlan(p) /\ p.size = n
  BY <1>1, FailStepFacts
<1>3. t \in SessionsOf(n) /\ t.plan = p /\ t.planState = s.planState
      /\ t.repairAttempts = s.repairAttempts /\ t.artifact = s.artifact
      /\ t.started = s.started
  BY <1>1, <1>2 DEF SessionsOf
<1>4. GoodSession(t)
  BY <1>1, <1>2, <1>3 DEF GoodSession, IsSession
<1>5. QED
  BY <1>3, <1>4

\* complete_current_plan_step keeps an executed session good, and leaves its
\* plan active or completed.
LEMMA CompletedSessionIsGood ==
  ASSUME NEW s, GoodSession(s), ReadyForExecution(s)
  PROVE  LET t == [s EXCEPT !.plan = CompleteStep(@)]
         IN  /\ GoodSession(t) /\ t.started = s.started /\ t.open = s.open
             /\ t.needsPlan = s.needsPlan
             /\ IsActive(t.plan) \/ t.plan.outcome = "completed"
             /\ IsActive(t.plan) => ReadyForExecution(t)
<1> DEFINE n == s.plan.size
           p == CompleteStep(s.plan)
           t == [s EXCEPT !.plan = p]
<1>1. /\ s \in SessionsOf(n) /\ n \in 0..MaxSteps /\ n \in Nat
      /\ s.plan \in Plans(n) /\ WellFormedPlan(s.plan) /\ IsActive(s.plan)
  BY PlanOfSession DEF GoodSession, IsSession, ReadyForExecution
<1>2. /\ p \in Plans(n) /\ WellFormedPlan(p) /\ p.size = n
      /\ IsActive(p) \/ p.outcome = "completed"
  BY <1>1, CompleteStepFacts
<1>3. /\ t \in SessionsOf(n) /\ t.plan = p /\ t.planState = s.planState
      /\ t.repairAttempts = s.repairAttempts /\ t.artifact = s.artifact
      /\ t.started = s.started /\ t.open = s.open /\ t.needsPlan = s.needsPlan
  BY <1>1, <1>2 DEF SessionsOf
<1>4. GoodSession(t)
  BY <1>1, <1>2, <1>3 DEF GoodSession, IsSession
<1>5. QED
  BY <1>2, <1>3, <1>4 DEF ReadyForExecution

-----------------------------------------------------------------------------
(* The invariant holds initially and is preserved by every action *)

\* The local variables of agent_run are initialised to values of their types.
LEMMA NewRunIsRun == NewRun \in Run
  BY LimitsAssumption
  DEF NewRun, Run, Replies, NoReply, FailureClass, Outcome, Failures

\* The invariant holds before the first process starts.
LEMMA InitIInv == Init => IInv
<1> SUFFICES ASSUME Init PROVE IInv
  OBVIOUS
<1>1. GoodSession(session) /\ GoodSession(disk)
  BY NewSessionIsGood DEF Init
<1>2. TypeOK
  BY <1>1, NewRunIsRun, LimitsAssumption DEF Init, TypeOK, GoodSession
<1>3. CallInv /\ TurnInv
  BY DEF Init, CallInv, TurnInv, NewSession, NewRun, CallingTools
<1>4. QED
  BY <1>1, <1>2, <1>3, GoodSessionFacts DEF IInv

\* What has to be shown of a step.
LEMMA IInvFromParts ==
  ASSUME GoodSession(session)', GoodSession(disk)', CallInv', TurnInv',
         pc' \in {"off", "enter", "turn", "llm", "judge", "invalid", "call",
                  "execute", "classify", "skip", "after", "finish", "save"},
         (run \in Run)', (runs \in 0..MaxRuns)'
  PROVE  IInv'
<1>1. TypeOK'
  BY DEF TypeOK, GoodSession
<1>2. (PlanWellFormed /\ ContractMatchesPlan)'
  BY <1>1, GoodSessionFacts, PTL
<1>3. QED
  BY <1>1, <1>2 DEF IInv

\* The assignments of agent_run to its local variables keep their types.
LEMMA RunUpdates ==
  ASSUME NEW r \in Run
  PROVE  /\ \A a, b \in BOOLEAN :
              [r EXCEPT !.planning = a, !.executing = b, !.failed = FALSE] \in Run
         /\ \A n \in 0..MaxBatch : [r EXCEPT !.pending = n] \in Run
         /\ \A o \in Outcome : [r EXCEPT !.outcome = o] \in Run
         /\ \A f \in [Failures -> Nat] : [r EXCEPT !.retries = f] \in Run
         /\ \A f \in [Failures -> Nat], o \in Outcome :
              [r EXCEPT !.retries = f, !.outcome = o] \in Run
  BY DEF Run

\* The result of a tool and what is kept of it for the judgement.
LEMMA JudgedRun ==
  ASSUME NEW r \in Run, NEW x \in ToolResults
  PROVE  /\ [r EXCEPT !.class = Classify(x),
                      !.failure = IF IsRecoverable(x)
                                  THEN Fingerprint(x) ELSE <<>>,
                      !.met = [f \in Failures |->
                                 IF IsRecoverable(x) /\ f = Fingerprint(x)
                                 THEN @[f] + 1 ELSE @[f]],
                      !.failed = @ \/ Contaminated(x)] \in Run
         /\ IsRecoverable(x) => Fingerprint(x) \in Failures
<1>1. IsRecoverable(x) => Fingerprint(x) \in Failures
  BY DEF Failures
<1>2. x \in ToolResult
  BY ResultsAssumption
<1>3. Classify(x) \in FailureClass
  <2>1. /\ ApplyPatchClass(x) \in FailureClass /\ BuildTestClass(x) \in FailureClass
        /\ GenericClass(x) \in FailureClass
    BY DEF ApplyPatchClass, BuildTestClass, GenericClass, FailureClass
  <2>2. QED
    BY <1>2, <2>1 DEF Classify, FailureClass, ToolResult
<1>4. (IF IsRecoverable(x) THEN Fingerprint(x) ELSE <<>>) \in Failures \cup {<<>>}
  BY <1>1
<1>5. [f \in Failures |-> IF IsRecoverable(x) /\ f = Fingerprint(x)
                          THEN r.met[f] + 1 ELSE r.met[f]] \in [Failures -> Nat]
  BY DEF Run
<1>6. (r.failed \/ Contaminated(x)) \in BOOLEAN
  OBVIOUS
<1>7. QED
  BY <1>1, <1>3, <1>4, <1>5, <1>6 DEF Run

\* Counting a failure against the retry budget keeps the counts naturals.
LEMMA CountedFailure ==
  run \in Run /\ run.failure \in Failures => Counted \in [Failures -> Nat]
  BY DEF Run, Counted, Seen

\* Counters, records and the transcript do not touch the contract.
LEMMA SessionUpdates ==
  ASSUME NEW n, NEW s \in SessionsOf(n)
  PROVE  /\ \A a \in Nat : [s EXCEPT !.turnIndex = a] \in SessionsOf(n)
         /\ \A a \in Nat : [s EXCEPT !.toolCalls = a] \in SessionsOf(n)
         /\ \A a \in 0..MaxBatch : [s EXCEPT !.open = a] \in SessionsOf(n)
         /\ \A a \in 0..1 : [s EXCEPT !.started = a] \in SessionsOf(n)
         /\ \A a \in 0..MaxBatch, b \in Nat, c \in Nat :
              [s EXCEPT !.open = a, !.skipped = b, !.observations = c]
                \in SessionsOf(n)
         /\ \A a \in 0..MaxBatch, t \in BOOLEAN, b \in 0..1, c \in Nat, d \in Nat :
              [s EXCEPT !.open = a, !.torn = t, !.started = b, !.finished = c,
                        !.observations = d] \in SessionsOf(n)
  BY DEF SessionsOf

\* What prompt_needs_plan decides concerns sessions without steps only.
LEMMA DecidedSessionIsGood ==
  ASSUME NEW s, GoodSession(s), NEW b \in BOOLEAN
  PROVE  GoodSession(DecidePlanning(s, b)) /\ DecidePlanning(s, b).started = s.started
<1>1. CASE ~WaitingOnContract(s) /\ s.plan.size = 0
  <2> DEFINE t == DecidePlanning(s, b)
             state == IF b THEN "AWAITING_PLAN" ELSE "IDLE"
  <2>1. t = [s EXCEPT !.needsPlan = b, !.planState = state,
                      !.artifact = 0, !.repairAttempts = 0]
    BY <1>1 DEF DecidePlanning
  <2>2. /\ s \in SessionsOf(0) /\ 0 \in 0..MaxSteps /\ 0 \in 0..1
        /\ state \in PlanState
    BY <1>1, LimitsAssumption DEF GoodSession, IsSession, PlanState
  <2> HIDE DEF state
  <2>3. [s EXCEPT !.needsPlan = b, !.planState = state, !.artifact = 0,
                  !.repairAttempts = 0] \in SessionsOf(0)
    BY <2>2 DEF SessionsOf
  <2>4. /\ t.plan = s.plan /\ t.planState = state /\ t.artifact = 0
        /\ t.repairAttempts = 0 /\ t.started = s.started
    BY <2>1, <2>2 DEF SessionsOf
  <2>5. QED
    BY <1>1, <2>1, <2>2, <2>3, <2>4 DEF GoodSession, IsSession, state
<1>2. CASE ~(~WaitingOnContract(s) /\ s.plan.size = 0)
  BY <1>2 DEF DecidePlanning
<1>3. QED
  BY <1>1, <1>2

\* Every step of a process, of its host and of what may go wrong around them
\* preserves the invariant.
LEMMA NextIInv == IInv /\ [Next]_vars => IInv'
<1> SUFFICES ASSUME IInv, [Next]_vars PROVE IInv'
  OBVIOUS
<1> USE LimitsAssumption
<1>0. /\ GoodSession(session) /\ GoodSession(disk) /\ CallInv /\ TurnInv
      /\ TypeOK /\ IsSession(session) /\ run \in Run
      /\ session \in SessionsOf(session.plan.size)
  BY GoodSessionFacts DEF IInv, TypeOK, IsSession
<1>1. CASE Boot
  <2>1. GoodSession(session)' /\ session'.started = 0
    BY <1>0, <1>1, PreparedSessionIsGood DEF Boot, CallInv
  <2>2. GoodSession(disk)' /\ CallInv' /\ TurnInv'
    BY <1>0, <1>1, <2>1 DEF Boot, CallInv, TurnInv, CallingTools
  <2>3. (run \in Run)' /\ (runs \in 0..MaxRuns)'
    BY <1>0, <1>1 DEF Boot, TypeOK
  <2>9. QED
    BY <1>1, <2>1, <2>2, <2>3, IInvFromParts DEF Boot, Stop, Emit
<1>2. CASE EnterRun
  <2> PICK b \in BOOLEAN : session' = DecidePlanning(session, b)
    BY <1>2 DEF EnterRun
  <2>1. GoodSession(session)' /\ session'.started = session.started
    BY <1>0, DecidedSessionIsGood
  <2>2. GoodSession(disk)' /\ CallInv' /\ TurnInv'
    BY <1>0, <1>2, <2>1 DEF EnterRun, Emit, CallInv, TurnInv, CallingTools
  <2>3. (run \in Run)' /\ (runs \in 0..MaxRuns)'
    BY <1>0, <1>2 DEF EnterRun, TypeOK
  <2>9. QED
    BY <1>2, <2>1, <2>2, <2>3, IInvFromParts DEF EnterRun, Stop, Emit
<1>3. CASE StartTurn
  <2>1. /\ GoodSession(session)'
        /\ session'.plan = session.plan /\ session'.planState = session.planState
        /\ session'.needsPlan = session.needsPlan
    <3>1. session' = [session EXCEPT !.turnIndex = @ + 1]
      BY <1>3 DEF StartTurn
    <3>2. session.turnIndex + 1 \in Nat
      BY <1>0 DEF SessionsOf
    <3>3. session' \in SessionsOf(session.plan.size)
      BY <1>0, <3>1, SessionUpdates, <3>2
    <3>4. /\ session'.plan = session.plan
          /\ session'.planState = session.planState
          /\ session'.repairAttempts = session.repairAttempts
          /\ session'.artifact = session.artifact
          /\ session'.needsPlan = session.needsPlan
      BY <1>0, <3>1 DEF SessionsOf
    <3>5. QED
      BY <1>0, <3>3, <3>4, SameContract
  <2>2. GoodSession(disk)' /\ CallInv' /\ TurnInv'
    <3>1. /\ session'.open = session.open /\ session'.started = session.started
          /\ disk' = disk
      BY <1>0, <1>3 DEF StartTurn, SessionsOf
    <3>2. /\ WaitingOnContract(session') <=> WaitingOnContract(session)
          /\ ReadyForExecution(session') <=> ReadyForExecution(session)
      BY <2>1 DEF WaitingOnContract, ReadyForExecution
    <3>3. \/ pc' \in {"finish", "save"}
          \/ /\ pc' = "llm" /\ run'.first = run.first
             /\ run'.planning <=> WaitingOnContract(session)
             /\ run'.executing <=> ReadyForExecution(session)
      BY <1>0, <1>3 DEF StartTurn, Stop, Emit, Run, WaitingOnContract,
         ReadyForExecution
    <3>4. QED
      BY <1>0, <1>3, <2>1, <3>1, <3>2, <3>3 DEF StartTurn, CallInv, TurnInv,
         CallingTools
  <2>3. (run \in Run)' /\ (runs \in 0..MaxRuns)'
    <3>1. WaitingOnContract(session) \in BOOLEAN /\ ReadyForExecution(session) \in BOOLEAN
      BY DEF WaitingOnContract, ReadyForExecution
    <3>2. \/ run' = run
          \/ run' = [run EXCEPT !.outcome = "max_turns_exceeded"]
          \/ run' = [run EXCEPT !.planning = WaitingOnContract(session),
                                 !.executing = ReadyForExecution(session),
                                 !.failed = FALSE]
      BY <1>3 DEF StartTurn, Stop
    <3>3. "max_turns_exceeded" \in Outcome
      BY DEF Outcome
    <3>4. run' \in Run
      BY <1>0, <3>1, <3>2, <3>3, RunUpdates
    <3>5. QED
      BY <1>3, <1>0, <3>4 DEF StartTurn, TypeOK
  <2>9. QED
    BY <1>3, <2>1, <2>2, <2>3, IInvFromParts DEF StartTurn, Stop, Emit
<1>4. CASE RequestFails
  <2>1. GoodSession(session)' /\ session'.started = session.started
    <3>1. CASE run.executing
      <4>1. IsActive(session.plan)
        BY <1>0, <1>4, <3>1 DEF RequestFails, TurnInv, CallingTools,
           ReadyForExecution
      <4>2. session' = [session EXCEPT !.plan = FailStep(@, "failed")]
        BY <1>4, <3>1 DEF RequestFails, FailIfExecuting
      <4>3. QED
        BY <1>0, <4>1, <4>2, FailedSessionIsGood
    <3>2. CASE ~run.executing
      BY <1>0, <1>4, <3>2 DEF RequestFails, FailIfExecuting
    <3>3. QED
      BY <3>1, <3>2
  <2>2. GoodSession(disk)' /\ CallInv' /\ TurnInv'
    BY <1>0, <1>4, <2>1 DEF RequestFails, Stop, CallInv, TurnInv, CallingTools
  <2>3. (run \in Run)' /\ (runs \in 0..MaxRuns)'
    BY <1>0, <1>4, RunUpdates DEF RequestFails, Stop, Outcome, TypeOK
  <2>9. QED
    BY <1>4, <2>1, <2>2, <2>3, IInvFromParts DEF RequestFails, Stop, Emit
<1>5. CASE ReceiveReply
  <2> PICK reply \in Replies : /\ session' = [session EXCEPT !.open = reply.calls]
                                /\ run' = [run EXCEPT !.reply = reply, !.first = FALSE]
    BY <1>5 DEF ReceiveReply
  <2>1. GoodSession(session)' /\ session'.started = session.started
    <3>1. reply.calls \in 0..MaxBatch
      BY DEF Replies
    <3>2. session' \in SessionsOf(session.plan.size)
      BY <1>0, <3>1, SessionUpdates
    <3>3. /\ session'.plan = session.plan
          /\ session'.planState = session.planState
          /\ session'.repairAttempts = session.repairAttempts
          /\ session'.artifact = session.artifact
          /\ session'.started = session.started
      BY <1>0 DEF SessionsOf
    <3>4. QED
      BY <1>0, <3>2, <3>3, SameContract
  <2>2. GoodSession(disk)' /\ CallInv' /\ TurnInv'
    BY <1>0, <1>5, <2>1 DEF ReceiveReply, CallInv, TurnInv, CallingTools, Stop,
       Emit, Run, SessionsOf, WaitingOnContract, ReadyForExecution, Replies
  <2>3. (run \in Run)' /\ (runs \in 0..MaxRuns)'
    BY <1>0, <1>5 DEF ReceiveReply, Run, TypeOK
  <2>9. QED
    BY <1>5, <2>1, <2>2, <2>3, IInvFromParts DEF ReceiveReply, Stop, Emit
<1>6. CASE AcceptPlan
  <2> DEFINE n == run.reply.steps
             p == BuildPlan(session.plan.generation, n)
  <2>0. n \in 1..MaxSteps /\ n \in Nat \ {0} /\ n \in 0..MaxSteps
    BY <1>0, <1>6 DEF AcceptPlan, AcceptableContract, Run, Replies
  <2>1. /\ GoodSession(session)' /\ session'.started = session.started
        /\ session'.open = session.open
    <3>1. session' = [session EXCEPT !.plan = p, !.planState = "PLAN_READY",
                                     !.needsPlan = TRUE, !.artifact = n]
      BY <1>6 DEF AcceptPlan
    <3>2. p \in Plans(n) /\ WellFormedPlan(p) /\ p.size = n
      BY <1>0, <2>0, PlanOfSession, BuildPlanFacts
    <3>3. session' \in SessionsOf(n)
      BY <1>0, <2>0, <3>1, <3>2 DEF SessionsOf, PlanState
    <3>4. /\ session'.plan = p /\ session'.planState = "PLAN_READY"
          /\ session'.artifact = n /\ session'.started = session.started
          /\ session'.open = session.open
      BY <1>0, <3>1 DEF SessionsOf
    <3>5. QED
      BY <2>0, <3>2, <3>3, <3>4 DEF GoodSession, IsSession
  <2>2. GoodSession(disk)' /\ CallInv' /\ TurnInv'
    BY <1>0, <1>6, <2>1 DEF AcceptPlan, AcceptableContract, Emit, CallInv,
       TurnInv,
       CallingTools
  <2>3. (run \in Run)' /\ (runs \in 0..MaxRuns)'
    BY <1>0, <1>6 DEF AcceptPlan, TypeOK
  <2>9. QED
    BY <1>6, <2>1, <2>2, <2>3, IInvFromParts DEF AcceptPlan, Stop, Emit
<1>7. CASE RequestRepair
  <2>1. /\ GoodSession(session)' /\ session'.started = session.started
        /\ session'.planState = "AWAITING_REPAIR"
    <3>1. session' = [session EXCEPT !.planState = "AWAITING_REPAIR", !.repairAttempts = 1, !.artifact = 0]
      BY <1>7 DEF RequestRepair
    <3>2. session.plan.size = 0
      <4>1. session.planState # "PLAN_READY"
        BY <1>0, <1>7 DEF RequestRepair, TurnInv, WaitingOnContract
      <4>2. QED
        BY <1>0, <4>1, PlanOfSession DEF GoodSession
    <3>3. session' \in SessionsOf(session.plan.size)
      <4>1. /\ "AWAITING_REPAIR" \in PlanState /\ 1 \in 0..1
            /\ 0 \in 0..MaxSteps
        BY DEF PlanState
      <4>2. QED
        BY <1>0, <3>1, <4>1 DEF SessionsOf
    <3>4. /\ session'.plan = session.plan /\ session'.planState = "AWAITING_REPAIR"
          /\ session'.artifact = 0 /\ session'.started = session.started /\ session'.repairAttempts = 1
      BY <1>0, <3>1 DEF SessionsOf
    <3>5. QED
      BY <1>0, <3>2, <3>3, <3>4 DEF GoodSession, IsSession
  <2>2. GoodSession(disk)' /\ CallInv' /\ TurnInv'
    BY <1>0, <1>7, <2>1 DEF RequestRepair, Emit, CallInv, TurnInv, CallingTools
  <2>3. (run \in Run)' /\ (runs \in 0..MaxRuns)'
    BY <1>0, <1>7 DEF RequestRepair, TypeOK
  <2>9. QED
    BY <1>7, <2>1, <2>2, <2>3, IInvFromParts DEF RequestRepair, Stop, Emit
<1>8. CASE RejectRepair
  <2>1. /\ GoodSession(session)' /\ session'.started = session.started
        /\ session'.planState = "PLAN_INVALID"
    <3>1. session' = [session EXCEPT !.planState = "PLAN_INVALID", !.artifact = 0]
      BY <1>8 DEF RejectRepair
    <3>2. session.plan.size = 0
      <4>1. session.planState # "PLAN_READY"
        BY <1>0, <1>8 DEF RejectRepair, TurnInv, WaitingOnContract
      <4>2. QED
        BY <1>0, <4>1, PlanOfSession DEF GoodSession
    <3>3. session' \in SessionsOf(session.plan.size)
      <4>1. /\ "PLAN_INVALID" \in PlanState /\ 1 \in 0..1
            /\ 0 \in 0..MaxSteps
        BY DEF PlanState
      <4>2. QED
        BY <1>0, <3>1, <4>1 DEF SessionsOf
    <3>4. /\ session'.plan = session.plan /\ session'.planState = "PLAN_INVALID"
          /\ session'.artifact = 0 /\ session'.started = session.started
      BY <1>0, <3>1 DEF SessionsOf
    <3>5. QED
      BY <1>0, <3>2, <3>3, <3>4 DEF GoodSession, IsSession
  <2>2. GoodSession(disk)' /\ CallInv' /\ TurnInv'
    BY <1>0, <1>8, <2>1 DEF RejectRepair, Emit, CallInv, TurnInv, CallingTools
  <2>3. (run \in Run)' /\ (runs \in 0..MaxRuns)'
    BY <1>0, <1>8 DEF RejectRepair, TypeOK
  <2>9. QED
    BY <1>8, <2>1, <2>2, <2>3, IInvFromParts DEF RejectRepair, Stop, Emit
<1>9. CASE ClosePlanner
  <2>1. GoodSession(session)' /\ session'.started = session.started
    <3>1. session' = [session EXCEPT !.plan = [@ EXCEPT !.outcome = "failed"]]
      BY <1>9 DEF ClosePlanner
    <3> DEFINE p == [session.plan EXCEPT !.outcome = "failed"]
    <3>2. session.plan.size = 0 /\ session.plan \in Plans(0)
      BY <1>0, <1>9, PlanOfSession DEF ClosePlanner, TurnInv, GoodSession
    <3>3. p \in Plans(0) /\ p.size = 0 /\ p.outcome = "failed"
      BY <3>2 DEF Plans, PlanOutcome
    <3>4. WellFormedPlan(p)
      BY <3>3 DEF WellFormedPlan, ProgressIsLinear, VerdictIsEarned,
         HasCurrentStep
    <3>5. session' \in SessionsOf(0)
      BY <1>0, <3>1, <3>2, <3>3 DEF SessionsOf
    <3>6. /\ session'.plan = p /\ session'.planState = session.planState
          /\ session'.repairAttempts = session.repairAttempts
          /\ session'.artifact = session.artifact
          /\ session'.started = session.started
      BY <1>0, <3>1 DEF SessionsOf
    <3>7. QED
      BY <1>0, <3>2, <3>3, <3>4, <3>5, <3>6 DEF GoodSession, IsSession
  <2>2. GoodSession(disk)' /\ CallInv' /\ TurnInv'
    BY <1>0, <1>9, <2>1 DEF ClosePlanner, Stop, CallInv, TurnInv, CallingTools
  <2>3. (run \in Run)' /\ (runs \in 0..MaxRuns)'
    BY <1>0, <1>9, RunUpdates DEF ClosePlanner, Stop, Outcome, TypeOK
  <2>9. QED
    BY <1>9, <2>1, <2>2, <2>3, IInvFromParts DEF ClosePlanner, Stop, Emit
<1>10. CASE BlockReentry
  <2>1. GoodSession(session)' /\ session'.started = session.started
    <3>1. IsActive(session.plan)
      BY <1>0, <1>10 DEF BlockReentry, Reenters, TurnInv, ReadyForExecution
    <3>2. session' = [session EXCEPT
                        !.plan = FailStep(@, "planner_reentry_blocked")]
      BY <1>10 DEF BlockReentry
    <3>3. QED
      BY <1>0, <3>1, <3>2, FailedSessionIsGood
  <2>2. GoodSession(disk)' /\ CallInv' /\ TurnInv'
    BY <1>0, <1>10, <2>1 DEF BlockReentry, Stop, CallInv, TurnInv, CallingTools
  <2>3. (run \in Run)' /\ (runs \in 0..MaxRuns)'
    BY <1>0, <1>10, RunUpdates DEF BlockReentry, Stop, Outcome, TypeOK
  <2>9. QED
    BY <1>10, <2>1, <2>2, <2>3, IInvFromParts DEF BlockReentry, Stop, Emit
<1>11. CASE ReplyWithoutTools
  <2>1. /\ GoodSession(session)' /\ session'.started = session.started
        /\ session'.open = session.open
    <3>1. CASE run.executing
      <4>1. ReadyForExecution(session)
        BY <1>0, <1>11, <3>1 DEF ReplyWithoutTools, TurnInv, CallingTools
      <4>2. session' = [session EXCEPT !.plan = CompleteStep(@)]
        BY <1>11, <3>1 DEF ReplyWithoutTools, CompleteIfExecuting
      <4>3. QED
        BY <1>0, <4>1, <4>2, CompletedSessionIsGood
    <3>2. CASE ~run.executing
      BY <1>0, <1>11, <3>2 DEF ReplyWithoutTools, CompleteIfExecuting
    <3>3. QED
      BY <3>1, <3>2
  <2>2. GoodSession(disk)' /\ CallInv' /\ TurnInv'
    BY <1>0, <1>11, <2>1 DEF ReplyWithoutTools, Stop, CallInv, TurnInv,
       CallingTools
  <2>3. (run \in Run)' /\ (runs \in 0..MaxRuns)'
    BY <1>0, <1>11, RunUpdates DEF ReplyWithoutTools, Stop, Outcome, TypeOK
  <2>9. QED
    BY <1>11, <2>1, <2>2, <2>3, IInvFromParts DEF ReplyWithoutTools, Stop, Emit
<1>12. CASE ReplyWithTools
  <2>0. run.reply.calls \in 0..MaxBatch
    BY <1>0 DEF Run, Replies
  <2>1. GoodSession(session)' /\ session'.open = session.open
        /\ session'.started = session.started /\ session'.plan = session.plan
        /\ session'.planState = session.planState
        /\ session'.needsPlan = session.needsPlan
    <3>1. CASE UNCHANGED session
      BY <1>0, <3>1
    <3>2. CASE session' = [session EXCEPT !.toolCalls = @ + run.reply.calls]
      <4>1. session.toolCalls + run.reply.calls \in Nat
        BY <1>0, <2>0 DEF SessionsOf
      <4>2. session' \in SessionsOf(session.plan.size)
        BY <1>0, <3>2, <4>1, SessionUpdates
      <4>3. /\ session'.plan = session.plan
            /\ session'.planState = session.planState
            /\ session'.repairAttempts = session.repairAttempts
            /\ session'.artifact = session.artifact
            /\ session'.open = session.open
            /\ session'.needsPlan = session.needsPlan
            /\ session'.started = session.started
        BY <1>0, <3>2 DEF SessionsOf
      <4>4. QED
        BY <1>0, <4>2, <4>3, SameContract
    <3>3. QED
      BY <1>12, <3>1, <3>2 DEF ReplyWithTools
  <2>2. GoodSession(disk)' /\ CallInv' /\ TurnInv'
    BY <1>0, <1>12, <2>0, <2>1 DEF ReplyWithTools, Stop, CallInv, TurnInv,
       CallingTools, Run, ReadyForExecution, WaitingOnContract
  <2>3. (run \in Run)' /\ (runs \in 0..MaxRuns)'
    <3>1. \/ run' = [run EXCEPT !.outcome = "max_tool_calls_per_turn_exceeded"]
          \/ run' = [run EXCEPT !.outcome = "max_total_tool_calls_exceeded"]
          \/ run' = [run EXCEPT !.pending = run.reply.calls]
      BY <1>12 DEF ReplyWithTools, Stop
    <3>2. QED
      BY <1>0, <1>12, <2>0, <3>1, RunUpdates DEF ReplyWithTools, Outcome,
         TypeOK
  <2>9. QED
    BY <1>12, <2>1, <2>2, <2>3, IInvFromParts DEF ReplyWithTools, Stop, Emit
<1>13. CASE StartCall
  <2>1. /\ GoodSession(session)'
        /\ session'.plan = session.plan /\ session'.planState = session.planState
        /\ session'.needsPlan = session.needsPlan
    <3>1. session' = [session EXCEPT !.started = @ + 1]
      BY <1>13 DEF StartCall
    <3>2. session.started + 1 \in 0..1
      BY <1>0, <1>13 DEF StartCall, CallInv
    <3>3. session' \in SessionsOf(session.plan.size)
      BY <1>0, <3>1, SessionUpdates, <3>2
    <3>4. /\ session'.plan = session.plan
          /\ session'.planState = session.planState
          /\ session'.repairAttempts = session.repairAttempts
          /\ session'.artifact = session.artifact
          /\ session'.needsPlan = session.needsPlan
      BY <1>0, <3>1 DEF SessionsOf
    <3>5. QED
      BY <1>0, <3>3, <3>4, SameContract
  <2>0. run.pending - 1 \in 0..MaxBatch
    BY <1>0, <1>13 DEF StartCall, CallInv, Run
  <2>4. /\ run'.pending = run.pending - 1 /\ run'.executing = run.executing
        /\ run'.planning = run.planning /\ run'.first = run.first
        /\ session'.open = session.open
        /\ session'.started = session.started + 1
        /\ pc = "call" /\ pc' = "execute" /\ disk' = disk
    BY <1>0, <1>13 DEF StartCall, Run, SessionsOf
  <2>5. CallInv'
    BY <1>0, <2>0, <2>4 DEF CallInv, Run, SessionsOf
  <2>6. TurnInv'
    BY <1>0, <2>1, <2>4 DEF TurnInv, CallingTools, WaitingOnContract,
       ReadyForExecution
  <2>2. GoodSession(disk)' /\ CallInv' /\ TurnInv'
    BY <1>0, <2>4, <2>5, <2>6
  <2>3. (run \in Run)' /\ (runs \in 0..MaxRuns)'
    BY <1>0, <1>13, <2>0, RunUpdates DEF StartCall, TypeOK
  <2>9. QED
    BY <1>13, <2>1, <2>2, <2>3, IInvFromParts DEF StartCall, Stop, Emit
<1>14. CASE RunTool
  <2> PICK result \in ToolResults, cut \in {FALSE} \cup {"torn" \in Faults} :
        /\ session' = [session EXCEPT
                         !.open = @ - 1, !.torn = @ \/ cut,
                         !.started = @ - 1, !.finished = @ + 1,
                         !.observations = @ + 1]
        /\ run' = [run EXCEPT
                     !.class = Classify(result),
                     !.failure = IF IsRecoverable(result)
                                 THEN Fingerprint(result) ELSE <<>>,
                     !.met = [f \in Failures |->
                                IF IsRecoverable(result) /\ f = Fingerprint(result)
                                THEN @[f] + 1 ELSE @[f]],
                     !.failed = @ \/ Contaminated(result)]
    BY <1>14 DEF RunTool
  <2>0. /\ session.open - 1 \in 0..MaxBatch /\ session.started - 1 = 0
        /\ run.pending \in Nat
        /\ session.open - 1 = run.pending
    <3>1. session.open = run.pending + 1 /\ session.started = 1
      BY <1>0, <1>14 DEF RunTool, CallInv
    <3>2. session.open \in 0..MaxBatch /\ run.pending \in 0..MaxBatch
      BY <1>0 DEF Run, SessionsOf
    <3>3. QED
      BY <3>1, <3>2
  <2>1. GoodSession(session)' /\ session'.started = 0
        /\ session'.open = run.pending /\ session'.plan = session.plan
        /\ session'.planState = session.planState
        /\ session'.needsPlan = session.needsPlan
    <3>1. (session.torn \/ cut) \in BOOLEAN
      OBVIOUS
    <3>2. /\ session.finished + 1 \in Nat /\ session.observations + 1 \in Nat
          /\ session.started - 1 \in 0..1
      BY <1>0, <2>0 DEF SessionsOf
    <3>3. session' \in SessionsOf(session.plan.size)
      BY <1>0, <2>0, <3>1, <3>2, SessionUpdates
    <3>4. /\ session'.plan = session.plan
          /\ session'.planState = session.planState
          /\ session'.repairAttempts = session.repairAttempts
          /\ session'.artifact = session.artifact
          /\ session'.open = session.open - 1
          /\ session'.needsPlan = session.needsPlan
          /\ session'.started = session.started - 1
      BY <1>0 DEF SessionsOf
    <3>5. QED
      BY <1>0, <2>0, <3>3, <3>4, SameContract
  <2>4. /\ run' \in Run /\ run'.pending = run.pending
        /\ run'.executing = run.executing /\ run'.planning = run.planning
        /\ run'.class \notin {"none", "fatal"} => run'.failure \in Failures
    <3>1. run' \in Run /\ (IsRecoverable(result) => Fingerprint(result) \in Failures)
      BY <1>0, JudgedRun
    <3>2. /\ run'.class = Classify(result) /\ run'.pending = run.pending
          /\ run'.executing = run.executing /\ run'.planning = run.planning
          /\ run'.failure = IF IsRecoverable(result) THEN Fingerprint(result) ELSE <<>>
      BY <1>0 DEF Run
    <3>3. QED
      BY <3>1, <3>2 DEF IsRecoverable
  <2>2. GoodSession(disk)' /\ CallInv' /\ TurnInv'
    BY <1>0, <1>14, <2>0, <2>1, <2>4 DEF RunTool, Emit, CallInv, TurnInv,
       CallingTools, ReadyForExecution, WaitingOnContract
  <2>3. (run \in Run)' /\ (runs \in 0..MaxRuns)'
    BY <1>0, <1>14, <2>4 DEF RunTool, TypeOK
  <2>9. QED
    BY <1>14, <2>1, <2>2, <2>3, IInvFromParts DEF RunTool, Stop, Emit
<1>15. CASE NextCall
  <2>1. GoodSession(session)'
    BY <1>0, <1>15 DEF NextCall
  <2>2. GoodSession(disk)' /\ CallInv' /\ TurnInv'
    BY <1>0, <1>15, <2>1 DEF NextCall, CallInv, TurnInv, CallingTools, Stop,
       Emit, Run, SessionsOf, WaitingOnContract, ReadyForExecution, Replies
  <2>3. (run \in Run)' /\ (runs \in 0..MaxRuns)'
    BY <1>0, <1>15 DEF NextCall, TypeOK
  <2>9. QED
    BY <1>15, <2>1, <2>2, <2>3, IInvFromParts DEF NextCall, Stop, Emit
<1>16. CASE FatalFailure
  <2>1. GoodSession(session)' /\ session'.started = session.started
    <3>1. CASE run.executing
      <4>1. IsActive(session.plan)
        BY <1>0, <1>16, <3>1 DEF FatalFailure, TurnInv, CallingTools,
           ReadyForExecution
      <4>2. session' = [session EXCEPT !.plan = FailStep(@, "failed")]
        BY <1>16, <3>1 DEF FatalFailure, FailIfExecuting
      <4>3. QED
        BY <1>0, <4>1, <4>2, FailedSessionIsGood
    <3>2. CASE ~run.executing
      BY <1>0, <1>16, <3>2 DEF FatalFailure, FailIfExecuting
    <3>3. QED
      BY <3>1, <3>2
  <2>2. GoodSession(disk)' /\ CallInv' /\ TurnInv'
    BY <1>0, <1>16, <2>1 DEF FatalFailure, Stop, CallInv, TurnInv, CallingTools
  <2>3. (run \in Run)' /\ (runs \in 0..MaxRuns)'
    BY <1>0, <1>16, RunUpdates DEF FatalFailure, Stop, Outcome, TypeOK
  <2>9. QED
    BY <1>16, <2>1, <2>2, <2>3, IInvFromParts DEF FatalFailure, Stop, Emit
<1>17. CASE RetryBudgetExceeded
  <2>1. GoodSession(session)' /\ session'.started = session.started
    <3>1. CASE run.executing
      <4>1. IsActive(session.plan)
        BY <1>0, <1>17, <3>1 DEF RetryBudgetExceeded, TurnInv, CallingTools,
           ReadyForExecution
      <4>2. session' = [session EXCEPT !.plan = FailStep(@, "failed")]
        BY <1>17, <3>1 DEF RetryBudgetExceeded, FailIfExecuting
      <4>3. QED
        BY <1>0, <4>1, <4>2, FailedSessionIsGood
    <3>2. CASE ~run.executing
      BY <1>0, <1>17, <3>2 DEF RetryBudgetExceeded, FailIfExecuting
    <3>3. QED
      BY <3>1, <3>2
  <2>2. GoodSession(disk)' /\ CallInv' /\ TurnInv'
    BY <1>0, <1>17, <2>1 DEF RetryBudgetExceeded, Stop, CallInv, TurnInv,
       CallingTools
  <2>3. (run \in Run)' /\ (runs \in 0..MaxRuns)'
    <3>1. run.failure \in Failures
      BY <1>0, <1>17 DEF RetryBudgetExceeded, CallInv
    <3>2. run' = [run EXCEPT !.retries = Counted,
                             !.outcome = "retry_budget_exceeded"]
      BY <1>17 DEF RetryBudgetExceeded
    <3>3. "retry_budget_exceeded" \in Outcome
      BY DEF Outcome
    <3>4. run' \in Run
      BY <1>0, <3>1, <3>2, <3>3, CountedFailure, RunUpdates
    <3>5. QED
      BY <1>0, <1>17, <3>4 DEF RetryBudgetExceeded, TypeOK
  <2>9. QED
    BY <1>17, <2>1, <2>2, <2>3, IInvFromParts DEF RetryBudgetExceeded, Stop,
       Emit
<1>18. CASE Recover
  <2>1. GoodSession(session)'
    BY <1>0, <1>18 DEF Recover
  <2>0. /\ run' \in Run /\ run'.pending = run.pending
        /\ run'.executing = run.executing /\ run'.planning = run.planning
    <3>1. run.failure \in Failures
      BY <1>0, <1>18 DEF Recover, CallInv
    <3>2. run' = [run EXCEPT !.retries = Counted]
      BY <1>18 DEF Recover
    <3>3. run' \in Run
      BY <1>0, <3>1, <3>2, CountedFailure, RunUpdates
    <3>4. QED
      BY <1>0, <3>2, <3>3 DEF Run
  <2>2. GoodSession(disk)' /\ CallInv' /\ TurnInv'
    BY <1>0, <1>18, <2>0, <2>1 DEF Recover, CallInv, TurnInv, CallingTools,
       ReadyForExecution
  <2>3. (run \in Run)' /\ (runs \in 0..MaxRuns)'
    BY <1>0, <1>18, <2>0 DEF Recover, TypeOK
  <2>9. QED
    BY <1>18, <2>1, <2>2, <2>3, IInvFromParts DEF Recover, Stop, Emit
<1>19. CASE SkipCall
  <2>0. /\ run.pending - 1 \in 0..MaxBatch /\ session.open - 1 \in 0..MaxBatch
        /\ session.skipped + 1 \in Nat /\ session.observations + 1 \in Nat
        /\ session.open = run.pending /\ run.pending \in Nat
    <3>1. session.open = run.pending /\ run.pending > 0
      BY <1>0, <1>19 DEF SkipCall, CallInv
    <3>2. /\ session.open \in 0..MaxBatch /\ run.pending \in 0..MaxBatch
          /\ session.skipped \in Nat /\ session.observations \in Nat
      BY <1>0 DEF Run, SessionsOf
    <3>3. QED
      BY <3>1, <3>2
  <2>1. /\ GoodSession(session)'
        /\ session'.plan = session.plan /\ session'.planState = session.planState
        /\ session'.needsPlan = session.needsPlan
    <3>1. session' = [session EXCEPT !.open = @ - 1, !.skipped = @ + 1,
                                     !.observations = @ + 1]
      BY <1>19 DEF SkipCall
    <3>3. session' \in SessionsOf(session.plan.size)
      BY <1>0, <3>1, SessionUpdates, <2>0
    <3>4. /\ session'.plan = session.plan
          /\ session'.planState = session.planState
          /\ session'.repairAttempts = session.repairAttempts
          /\ session'.artifact = session.artifact
          /\ session'.needsPlan = session.needsPlan
      BY <1>0, <3>1 DEF SessionsOf
    <3>5. QED
      BY <1>0, <3>3, <3>4, SameContract
  <2>4. /\ run' \in Run /\ run'.pending = run.pending - 1
        /\ run'.executing = run.executing /\ run'.planning = run.planning
        /\ session'.open = session.open - 1 /\ session'.started = session.started
        /\ session'.plan = session.plan /\ session'.planState = session.planState
        /\ session'.needsPlan = session.needsPlan
    <3>1. run' = [run EXCEPT !.pending = run.pending - 1]
      BY <1>19 DEF SkipCall
    <3>2. run' \in Run
      BY <1>0, <2>0, <3>1, RunUpdates
    <3>3. /\ run'.pending = run.pending - 1
          /\ run'.executing = run.executing /\ run'.planning = run.planning
      BY <1>0, <3>1 DEF Run
    <3>4. /\ session'.open = session.open - 1
          /\ session'.started = session.started
      BY <1>0, <1>19 DEF SkipCall, SessionsOf
    <3>5. QED
      BY <2>1, <3>2, <3>3, <3>4
  <2>5. /\ pc = "skip" /\ disk' = disk
        /\ pc' \in IF run.pending > 1 THEN {"skip", "save"} ELSE {"turn", "save"}
    BY <1>19 DEF SkipCall, Emit
  <2>6. CallInv'
    <3>1. /\ session.open = run.pending /\ run.pending \in Nat /\ run.pending > 0
          /\ session.started = 0 /\ disk.started = 0
      BY <1>0, <2>5 DEF CallInv, Run
    <3>2. CASE run.pending > 1
      <4>1. session'.open = run'.pending /\ run'.pending > 0
        BY <2>4, <3>1, <3>2
      <4>2. QED
        BY <2>4, <2>5, <3>1, <3>2, <4>1 DEF CallInv
    <3>3. CASE ~(run.pending > 1)
      <4>1. session'.open = 0
        BY <2>4, <3>1, <3>3
      <4>2. QED
        BY <2>4, <2>5, <3>1, <3>3, <4>1 DEF CallInv
    <3>4. QED
      BY <3>2, <3>3
  <2>7. TurnInv'
    BY <1>0, <2>4, <2>5 DEF TurnInv, CallingTools, ReadyForExecution,
       WaitingOnContract
  <2>2. GoodSession(disk)' /\ CallInv' /\ TurnInv'
    BY <1>0, <2>5, <2>6, <2>7
  <2>3. (run \in Run)' /\ (runs \in 0..MaxRuns)'
    BY <1>0, <1>19, <2>4 DEF SkipCall, TypeOK
  <2>9. QED
    BY <1>19, <2>1, <2>2, <2>3, IInvFromParts DEF SkipCall, Stop, Emit
<1>20. CASE AfterTools
  <2>1. /\ GoodSession(session)' /\ session'.started = session.started
        /\ session'.open = session.open
    <3>1. CASE run.executing
      <4>1. ReadyForExecution(session)
        BY <1>0, <1>20, <3>1 DEF AfterTools, TurnInv, CallingTools
      <4>2. session' = [session EXCEPT !.plan = CompleteStep(@)]
        BY <1>20, <3>1 DEF AfterTools, CompleteIfExecuting
      <4>3. QED
        BY <1>0, <4>1, <4>2, CompletedSessionIsGood
    <3>2. CASE ~run.executing
      BY <1>0, <1>20, <3>2 DEF AfterTools, CompleteIfExecuting
    <3>3. QED
      BY <3>1, <3>2
  <2>2. GoodSession(disk)' /\ CallInv' /\ TurnInv'
    BY <1>0, <1>20, <2>1 DEF AfterTools, Stop, CallInv, TurnInv, CallingTools
  <2>3. (run \in Run)' /\ (runs \in 0..MaxRuns)'
    BY <1>0, <1>20, RunUpdates DEF AfterTools, Stop, Outcome, TypeOK
  <2>9. QED
    BY <1>20, <2>1, <2>2, <2>3, IInvFromParts DEF AfterTools, Stop, Emit
<1>21. CASE Refusal
  <2>0. pc' = "save" /\ UNCHANGED <<session, run, disk, runs>>
        /\ pc # "execute"
    BY <1>21 DEF Refusal, TraceRefused
  <2>1. GoodSession(session)' /\ (run \in Run)' /\ (runs \in 0..MaxRuns)'
    BY <1>0, <2>0 DEF TypeOK
  <2>2. GoodSession(disk)' /\ CallInv' /\ TurnInv'
    BY <1>0, <2>0 DEF CallInv, TurnInv, CallingTools
  <2>9. QED
    BY <2>0, <2>1, <2>2, IInvFromParts
<1>22. CASE FinishRun
  <2>1. GoodSession(session)'
    BY <1>0, <1>22 DEF FinishRun
  <2>2. GoodSession(disk)' /\ CallInv' /\ TurnInv'
    BY <1>0, <1>22, <2>1 DEF FinishRun, CallInv, TurnInv, CallingTools, Stop,
       Emit, Run, SessionsOf, WaitingOnContract, ReadyForExecution, Replies
  <2>3. (run \in Run)' /\ (runs \in 0..MaxRuns)'
    BY <1>0, <1>22 DEF FinishRun, TypeOK
  <2>9. QED
    BY <1>22, <2>1, <2>2, <2>3, IInvFromParts DEF FinishRun, Stop, Emit
<1>23. CASE SaveSession \/ SaveFails \/ Crash
  <2>0. /\ pc' = "off" /\ session' = NewSession /\ run' = NewRun /\ runs' = runs
        /\ disk' = disk \/ (pc = "save" /\ disk' = session)
    BY <1>23 DEF SaveSession, SaveFails, Crash, Forget
  <2>1. GoodSession(session)' /\ GoodSession(disk)'
    BY <1>0, <2>0, NewSessionIsGood
  <2>2. CallInv' /\ TurnInv'
    BY <1>0, <2>0 DEF CallInv, TurnInv, CallingTools, NewSession,
       NewRun
  <2>3. (run \in Run)' /\ (runs \in 0..MaxRuns)'
    BY <1>0, <2>0, NewRunIsRun DEF TypeOK
  <2>9. QED
    BY <2>0, <2>1, <2>2, <2>3, IInvFromParts
<1>24. CASE UNCHANGED vars
  BY <1>0, <1>24 DEF vars, IInv, TypeOK, PlanWellFormed, ContractMatchesPlan,
     CallInv, TurnInv, CallingTools
<1>25. QED
  BY <1>1, <1>2, <1>3, <1>4, <1>5, <1>6, <1>7, <1>8, <1>9, <1>10, <1>11, <1>12,
     <1>13, <1>14, <1>15, <1>16, <1>17, <1>18, <1>19, <1>20, <1>21, <1>22,
     <1>23, <1>24
  DEF Next, RunStep, Planning, Judging, Calling, Rest

\* The invariant of the loop: the types, the plan and its contract, the calls
\* of the turn and the flags of the turn hold together in every state.
THEOREM LoopInvariant == Spec => []IInv
<1>1. Init => IInv
  BY InitIInv
<1>2. IInv /\ [Next]_vars => IInv'
  BY NextIInv
<1>3. QED
  BY <1>1, <1>2, PTL DEF Spec

-----------------------------------------------------------------------------
(* What follows from the invariant *)

\* No index of the loop leaves its range, for any limits and plan length.
THEOREM TypeCorrect == Spec => []TypeOK
<1>1. IInv => TypeOK
  BY DEF IInv
<1>2. QED
  BY <1>1, LoopInvariant, PTL

\* Whatever fails, crashes or is resumed, the plan can be validated again, and
\* the loader's and the loop's idea of an active plan agree.
THEOREM PlanStaysWellFormed == Spec => []PlanWellFormed
<1>1. IInv => PlanWellFormed
  BY DEF IInv
<1>2. QED
  BY <1>1, LoopInvariant, PTL

\* The planner contract and the plan never contradict each other.
THEOREM ContractFollowsPlan == Spec => []ContractMatchesPlan
<1>1. IInv => ContractMatchesPlan
  BY DEF IInv
<1>2. QED
  BY <1>1, LoopInvariant, PTL

\* A plan contract that is awaited is never overtaken by a tool call, under
\* either kind of host.
THEOREM ContractComesFirst == Spec => []NoToolsBeforeContract
<1>1. IInv => NoToolsBeforeContract
  BY DEF IInv, TurnInv, NoToolsBeforeContract
<1>2. QED
  BY <1>1, LoopInvariant, PTL

\* The transcript sent to the model answers every tool call in it, except
\* those of a planner response under repair.
THEOREM CallsAreAnswered == Spec => []EveryCallIsAnswered
<1>1. IInv => EveryCallIsAnswered
  BY DEF IInv, CallInv, EveryCallIsAnswered
<1>2. QED
  BY <1>1, LoopInvariant, PTL

-----------------------------------------------------------------------------
(* Under main(), which prepares the session, a task that needs a plan is   *)
(* at every point either waiting for its contract or carrying it out.      *)

PlanOwnsTools ==
  /\ pc = "enter" =>
       IF session.plan.size > 0 THEN ReadyForExecution(session)
       ELSE ~session.needsPlan
  /\ pc = "turn" /\ session.needsPlan =>
       WaitingOnContract(session) \/ ReadyForExecution(session)
  /\ pc \in {"llm", "judge"} /\ session.needsPlan =>
       run.planning \/ run.executing
  /\ CallingTools /\ session.needsPlan => run.executing

\* After prepare_session_state a session that needs a plan either has one to
\* resume or is asked for one.
LEMMA PreparedSessionIsOwned ==
  ASSUME NEW s, GoodSession(s)
  PROVE  IF Prepare(s).plan.size > 0 THEN ReadyForExecution(Prepare(s))
         ELSE ~Prepare(s).needsPlan
<1>1. /\ IsSession(s) /\ WellFormedPlan(s.plan) /\ s.plan.size \in Nat
      /\ s.plan \in Plans(s.plan.size)
  BY PlanOfSession DEF GoodSession
<1>2. CASE IsActiveForResume(s.plan)
  <2>1. IsActive(s.plan)
    BY <1>1, <1>2, ResumeTestsAgree
  <2>2. Prepare(s).plan = s.plan /\ Prepare(s).planState = "PLAN_READY"
    BY <1>1, <1>2 DEF Prepare, IsSession, SessionsOf
  <2>3. s.plan.current \in 1..s.plan.size
    BY <2>1 DEF IsActive, HasCurrentStep
  <2>4. QED
    BY <1>1, <2>1, <2>2, <2>3 DEF ReadyForExecution
<1>3. CASE ~IsActiveForResume(s.plan)
  <2>1. ResetPlan(s.plan).size = 0
    BY <1>1, ResetPlanFacts
  <2>2. Prepare(s).plan = ResetPlan(s.plan) /\ Prepare(s).needsPlan = FALSE
    BY <1>1, <1>3 DEF Prepare, IsSession, SessionsOf
  <2>3. QED
    BY <2>1, <2>2
<1>4. QED
  BY <1>2, <1>3

\* Every step preserves that tools of a planned session belong to its plan.
LEMMA NextPlanOwnsTools ==
  ASSUME PreparesSession, IInv, IInv', PlanOwnsTools, [Next]_vars
  PROVE  PlanOwnsTools'
<1>0. /\ GoodSession(session) /\ GoodSession(disk) /\ TurnInv /\ CallInv
      /\ session \in SessionsOf(session.plan.size) /\ run \in Run
  BY GoodSessionFacts DEF IInv, TypeOK, IsSession
<1>1. CASE Boot
  BY <1>0, <1>1, PreparedSessionIsOwned DEF Boot, PlanOwnsTools, CallingTools
<1>2. CASE EnterRun
  <2> PICK b \in BOOLEAN : session' = DecidePlanning(session, b)
    BY <1>2 DEF EnterRun
  <2>1. CASE session.plan.size > 0
    <3>1. ReadyForExecution(session) /\ session' = session
      BY <1>2, <2>1 DEF EnterRun, PlanOwnsTools, DecidePlanning
    <3>2. QED
      BY <1>2, <3>1 DEF EnterRun, Emit, PlanOwnsTools, CallingTools
  <2>2. CASE ~(session.plan.size > 0)
    <3>1. session.plan.size = 0 /\ ~session.needsPlan
      BY <1>0, <1>2, <2>2, PlanOfSession
      DEF EnterRun, PlanOwnsTools, GoodSession
    <3>2. session' = [session EXCEPT
                        !.needsPlan = b,
                        !.planState = IF b THEN "AWAITING_PLAN" ELSE "IDLE",
                        !.artifact = 0, !.repairAttempts = 0]
      BY <3>1 DEF DecidePlanning, WaitingOnContract
    <3>3. session'.needsPlan => session'.planState = "AWAITING_PLAN"
      BY <1>0, <3>2 DEF SessionsOf
    <3>4. QED
      BY <1>2, <3>3 DEF EnterRun, Emit, PlanOwnsTools, CallingTools,
         WaitingOnContract
  <2>3. QED
    BY <2>1, <2>2
<1>3. CASE StartTurn
  <2>1. session.needsPlan => WaitingOnContract(session) \/ ReadyForExecution(session)
    BY <1>3 DEF StartTurn, PlanOwnsTools
  <2>2. session'.needsPlan = session.needsPlan
    BY <1>0, <1>3 DEF StartTurn, SessionsOf
  <2>3. \/ pc' \in {"finish", "save"}
        \/ /\ pc' \in {"llm", "save"}
           /\ run'.planning = WaitingOnContract(session)
           /\ run'.executing = ReadyForExecution(session)
    BY <1>0, <1>3 DEF StartTurn, Stop, Emit, Run
  <2>4. QED
    BY <2>1, <2>2, <2>3 DEF PlanOwnsTools, CallingTools
<1>4. CASE RequestFails
  BY <1>0, <1>4 DEF RequestFails, PlanOwnsTools, CallingTools, Stop, Emit,
     SessionsOf, Run, WaitingOnContract, ReadyForExecution, TurnInv, CallInv
<1>5. CASE ReceiveReply
  BY <1>0, <1>5 DEF ReceiveReply, PlanOwnsTools, CallingTools, Stop, Emit,
     SessionsOf, Run, WaitingOnContract, ReadyForExecution, TurnInv, CallInv
<1>6. CASE AcceptPlan
  <2> DEFINE p == BuildPlan(session.plan.generation, run.reply.steps)
  <2>1. run.reply.steps \in Nat \ {0}
    BY <1>0, <1>6, LimitsAssumption DEF AcceptPlan, AcceptableContract, Run,
       Replies
  <2>2. IsActive(p)
    BY <1>0, <2>1, PlanOfSession, BuildPlanFacts DEF GoodSession
  <2>3. session'.plan = p /\ session'.planState = "PLAN_READY"
    BY <1>0, <1>6 DEF AcceptPlan, SessionsOf
  <2>4. QED
    BY <1>6, <2>2, <2>3 DEF AcceptPlan, Emit, PlanOwnsTools, CallingTools,
       ReadyForExecution
<1>7. CASE RequestRepair
  BY <1>0, <1>7 DEF RequestRepair, PlanOwnsTools, CallingTools, Stop, Emit,
     SessionsOf, Run, WaitingOnContract, ReadyForExecution, TurnInv, CallInv
<1>8. CASE RejectRepair
  BY <1>0, <1>8 DEF RejectRepair, PlanOwnsTools, CallingTools, Stop, Emit,
     SessionsOf, Run, WaitingOnContract, ReadyForExecution, TurnInv, CallInv
<1>9. CASE ClosePlanner
  BY <1>0, <1>9 DEF ClosePlanner, PlanOwnsTools, CallingTools, Stop, Emit,
     SessionsOf, Run, WaitingOnContract, ReadyForExecution, TurnInv, CallInv
<1>10. CASE BlockReentry
  BY <1>0, <1>10 DEF BlockReentry, PlanOwnsTools, CallingTools, Stop, Emit,
     SessionsOf, Run, WaitingOnContract, ReadyForExecution, TurnInv, CallInv
<1>11. CASE ReplyWithoutTools
  <2>1. CASE run.executing
    <3>1. ReadyForExecution(session)
      BY <1>0, <1>11, <2>1 DEF ReplyWithoutTools, TurnInv, CallingTools
    <3>2. session' = [session EXCEPT !.plan = CompleteStep(@)]
      BY <1>11, <2>1 DEF ReplyWithoutTools, CompleteIfExecuting
    <3>3. /\ IsActive(session'.plan) \/ session'.plan.outcome = "completed"
          /\ IsActive(session'.plan) => ReadyForExecution(session')
      BY <1>0, <3>1, <3>2, CompletedSessionIsGood
    <3>4. QED
      BY <1>11, <2>1, <3>3 DEF ReplyWithoutTools, Stop, PlanOwnsTools,
         CallingTools
  <2>2. CASE ~run.executing
    <3>1. ~session.needsPlan /\ session' = session
      BY <1>0, <1>11, <2>2 DEF ReplyWithoutTools, CompleteIfExecuting,
         PlanOwnsTools,
         CallingTools, TurnInv
    <3>2. QED
      BY <1>11, <2>2, <3>1 DEF ReplyWithoutTools, Stop, PlanOwnsTools,
         CallingTools
  <2>3. QED
    BY <2>1, <2>2
<1>12. CASE ReplyWithTools
  <2>1. pc = "judge" /\ ~run.planning
    BY <1>12 DEF ReplyWithTools
  <2>2. session.needsPlan => run.executing
    BY <2>1 DEF PlanOwnsTools
  <2>3. session'.needsPlan = session.needsPlan
    BY <1>0, <1>12 DEF ReplyWithTools, SessionsOf
  <2>4. pc' = "finish" \/ (pc' = "call" /\ run'.executing = run.executing)
    BY <1>0, <1>12 DEF ReplyWithTools, Stop, Run
  <2>5. QED
    BY <2>2, <2>3, <2>4 DEF PlanOwnsTools, CallingTools
<1>13. CASE StartCall
  BY <1>0, <1>13 DEF StartCall, PlanOwnsTools, CallingTools, Stop, Emit,
     SessionsOf, Run, WaitingOnContract, ReadyForExecution, TurnInv, CallInv
<1>14. CASE RunTool
  BY <1>0, <1>14 DEF RunTool, PlanOwnsTools, CallingTools, Stop, Emit,
     SessionsOf, Run, WaitingOnContract, ReadyForExecution, TurnInv, CallInv
<1>15. CASE NextCall
  BY <1>0, <1>15 DEF NextCall, PlanOwnsTools, CallingTools, Stop, Emit,
     SessionsOf, Run, WaitingOnContract, ReadyForExecution, TurnInv, CallInv
<1>16. CASE FatalFailure
  BY <1>0, <1>16 DEF FatalFailure, PlanOwnsTools, CallingTools, Stop, Emit,
     SessionsOf, Run, WaitingOnContract, ReadyForExecution, TurnInv, CallInv
<1>17. CASE RetryBudgetExceeded
  BY <1>0, <1>17 DEF RetryBudgetExceeded, PlanOwnsTools, CallingTools, Stop,
     Emit, SessionsOf, Run, WaitingOnContract, ReadyForExecution, TurnInv,
     CallInv
<1>18. CASE Recover
  BY <1>0, <1>18 DEF Recover, PlanOwnsTools, CallingTools, Stop, Emit,
     SessionsOf, Run, WaitingOnContract, ReadyForExecution, TurnInv, CallInv
<1>19. CASE SkipCall
  BY <1>0, <1>19 DEF SkipCall, PlanOwnsTools, CallingTools, Stop, Emit,
     SessionsOf, Run, WaitingOnContract, ReadyForExecution, TurnInv, CallInv
<1>20. CASE AfterTools
  <2>1. CASE run.executing
    <3>1. ReadyForExecution(session)
      BY <1>0, <1>20, <2>1 DEF AfterTools, TurnInv, CallingTools
    <3>2. session' = [session EXCEPT !.plan = CompleteStep(@)]
      BY <1>20, <2>1 DEF AfterTools, CompleteIfExecuting
    <3>3. /\ IsActive(session'.plan) \/ session'.plan.outcome = "completed"
          /\ IsActive(session'.plan) => ReadyForExecution(session')
      BY <1>0, <3>1, <3>2, CompletedSessionIsGood
    <3>4. QED
      BY <1>20, <2>1, <3>3 DEF AfterTools, Stop, PlanOwnsTools, CallingTools
  <2>2. CASE ~run.executing
    <3>1. ~session.needsPlan /\ session' = session
      BY <1>0, <1>20, <2>2 DEF AfterTools, CompleteIfExecuting, PlanOwnsTools,
         CallingTools, TurnInv
    <3>2. QED
      BY <1>20, <2>2, <3>1 DEF AfterTools, Stop, PlanOwnsTools, CallingTools
  <2>3. QED
    BY <2>1, <2>2
<1>21. CASE Refusal \/ FinishRun \/ SaveSession \/ SaveFails \/ Crash
  BY <1>21 DEF Refusal, TraceRefused, FinishRun, SaveSession, SaveFails, Crash,
     Forget, PlanOwnsTools, CallingTools
<1>22. CASE UNCHANGED vars
  BY <1>22 DEF vars, PlanOwnsTools, CallingTools
<1>23. QED
  BY <1>1, <1>2, <1>3, <1>4, <1>5, <1>6, <1>7, <1>8, <1>9, <1>10, <1>11, <1>12,
     <1>13, <1>14, <1>15, <1>16, <1>17, <1>18, <1>19, <1>20, <1>21, <1>22
  DEF Next, RunStep, Planning, Judging, Calling, Rest

\* Under main() a task that needs a plan calls tools only while a validated
\* plan is being executed, in every process that works on the session.
THEOREM PlanPrecedesTools ==
  ASSUME PreparesSession
  PROVE  Spec => []ToolsOnlyUnderPlan
<1>1. Init => PlanOwnsTools
  BY DEF Init, PlanOwnsTools, CallingTools
<1>2. IInv /\ IInv' /\ PlanOwnsTools /\ [Next]_vars => PlanOwnsTools'
  BY NextPlanOwnsTools
<1>3. IInv /\ PlanOwnsTools => ToolsOnlyUnderPlan
  BY DEF IInv, TurnInv, PlanOwnsTools, ToolsOnlyUnderPlan
<1>4. QED
  BY <1>1, <1>2, <1>3, LoopInvariant, PTL DEF Spec

-----------------------------------------------------------------------------
(* The records of tool calls and the number of calls requested so far, in  *)
(* memory and in the file.  The calls of a turn that are still pending are *)
(* counted as requested and not recorded.                                  *)
Recorded(s) == s.started + s.finished + s.skipped

Balanced(s) ==
  /\ s.observations = s.finished + s.skipped
  /\ Recorded(s) <= MaxTotalToolCalls /\ Recorded(s) <= s.toolCalls

HasPending == pc \in {"call", "execute", "classify", "skip"}

LedgerInv ==
  /\ Balanced(session) /\ Balanced(disk)
  /\ HasPending =>
       /\ session.toolCalls <= MaxTotalToolCalls
       /\ Recorded(session) + run.pending <= session.toolCalls

\* The part of a session the ledger is about.
SameLedger(s, t) ==
  /\ s.started = t.started /\ s.finished = t.finished /\ s.skipped = t.skipped
  /\ s.observations = t.observations /\ s.toolCalls = t.toolCalls

\* A session of the same ledger is as balanced.
LEMMA LedgerDecides ==
  ASSUME NEW s, NEW t, SameLedger(s, t)
  PROVE  (Balanced(s) <=> Balanced(t)) /\ Recorded(s) = Recorded(t)
  BY DEF SameLedger, Balanced, Recorded

\* Planning, judging and failing a plan leave the ledger alone.
LEMMA PlanIsNotLedger ==
  ASSUME NEW n, NEW s \in SessionsOf(n)
  PROVE  /\ \A p : SameLedger([s EXCEPT !.plan = p], s)
         /\ SameLedger(FailIfExecuting(s), s)
         /\ SameLedger(CompleteIfExecuting(s), s)
         /\ SameLedger(Prepare(s), s)
         /\ \A b \in BOOLEAN : SameLedger(DecidePlanning(s, b), s)
<1>1. \A p : SameLedger([s EXCEPT !.plan = p], s)
  BY DEF SameLedger, SessionsOf
<1>2. SameLedger(FailIfExecuting(s), s) /\ SameLedger(CompleteIfExecuting(s), s)
  BY <1>1 DEF FailIfExecuting, CompleteIfExecuting, SameLedger
<1>3. SameLedger(Prepare(s), s)
  BY DEF Prepare, SameLedger, SessionsOf
<1>4. \A b \in BOOLEAN : SameLedger(DecidePlanning(s, b), s)
  BY DEF DecidePlanning, SameLedger, SessionsOf
<1>5. QED
  BY <1>1, <1>2, <1>3, <1>4

\* A step that leaves the ledger and the file alone and does not start or
\* continue with pending calls.
LEMMA LedgerStep ==
  ASSUME LedgerInv, SameLedger(session', session), disk' = disk, ~HasPending'
  PROVE  LedgerInv'
  BY LedgerDecides DEF LedgerInv

\* The actions that neither record nor request a tool call.
NoCallStep ==
  \/ EnterRun \/ StartTurn \/ RequestFails \/ ReceiveReply
  \/ Planning \/ BlockReentry \/ ReplyWithoutTools \/ FatalFailure
  \/ RetryBudgetExceeded \/ AfterTools \/ Refusal \/ FinishRun

\* These actions leave the ledger alone.
LEMMA NoCallStepsKeepLedger ==
  ASSUME IInv, NoCallStep
  PROVE  SameLedger(session', session) /\ disk' = disk /\ ~HasPending'
<1>0. session \in SessionsOf(session.plan.size)
  BY DEF IInv, TypeOK, IsSession
<1>1. CASE EnterRun
  BY <1>0, <1>1, PlanIsNotLedger DEF EnterRun, Emit, HasPending
<1>2. CASE StartTurn \/ ReceiveReply
  BY <1>0, <1>2 DEF StartTurn, ReceiveReply, Stop, Emit, HasPending, SameLedger,
     SessionsOf
<1>3. CASE RequestFails \/ FatalFailure \/ RetryBudgetExceeded
  BY <1>0, <1>3, PlanIsNotLedger
  DEF RequestFails, FatalFailure, RetryBudgetExceeded, Stop, HasPending
<1>4. CASE Planning
  BY <1>0, <1>4
  DEF Planning, AcceptPlan, RequestRepair, RejectRepair, ClosePlanner, Stop,
      Emit, HasPending, SameLedger, SessionsOf
<1>5. CASE BlockReentry
  BY <1>0, <1>5, PlanIsNotLedger DEF BlockReentry, Stop, HasPending
<1>6. CASE ReplyWithoutTools \/ AfterTools
  BY <1>0, <1>6, PlanIsNotLedger DEF ReplyWithoutTools, AfterTools, Stop, HasPending
<1>7. CASE Refusal \/ FinishRun
  BY <1>7 DEF Refusal, TraceRefused, FinishRun, HasPending, SameLedger
<1>8. QED
  BY <1>1, <1>2, <1>3, <1>4, <1>5, <1>6, <1>7 DEF NoCallStep

\* The counters of a session and the calls still pending are numbers.
LEMMA CountersAreNumbers ==
  ASSUME TypeOK
  PROVE  /\ \A s \in {session, disk} :
              /\ s.started \in Nat /\ s.finished \in Nat /\ s.skipped \in Nat
              /\ s.observations \in Nat /\ s.toolCalls \in Nat
         /\ run.pending \in Nat /\ run.reply.calls \in Nat
<1>1. /\ session \in SessionsOf(session.plan.size) /\ disk \in SessionsOf(disk.plan.size)
      /\ run \in Run
  BY DEF TypeOK, IsSession
<1>2. ASSUME NEW n, NEW s \in SessionsOf(n)
      PROVE  /\ s.started \in Nat /\ s.finished \in Nat /\ s.skipped \in Nat
             /\ s.observations \in Nat /\ s.toolCalls \in Nat
  BY DEF SessionsOf
<1>3. run.pending \in Nat
  BY <1>1, LimitsAssumption DEF Run
<1>4. run.reply.calls \in Nat
  BY <1>1, LimitsAssumption DEF Run, Replies
<1>5. QED
  BY <1>1, <1>2, <1>3, <1>4

\* A fresh session is balanced.
LEMMA NewSessionIsBalanced == Balanced(NewSession)
  BY LimitsAssumption DEF Balanced, Recorded, NewSession

\* Every step keeps the books.
LEMMA NextLedger ==
  ASSUME IInv, IInv', LedgerInv, [Next]_vars
  PROVE  LedgerInv'
<1>0. /\ session \in SessionsOf(session.plan.size) /\ disk \in SessionsOf(disk.plan.size)
      /\ run \in Run /\ CallInv
  BY DEF IInv, TypeOK, IsSession
<1>n. /\ session.started \in Nat /\ session.finished \in Nat
      /\ session.skipped \in Nat /\ session.observations \in Nat
      /\ session.toolCalls \in Nat /\ run.pending \in Nat
      /\ run.reply.calls \in Nat
  BY CountersAreNumbers DEF IInv
<1> USE LimitsAssumption
<1>1. CASE Boot
  <2>1. SameLedger(session', disk) /\ disk' = disk /\ ~HasPending'
    BY <1>0, <1>1, PlanIsNotLedger DEF Boot, HasPending, SameLedger
  <2>2. QED
    BY <2>1, LedgerDecides DEF LedgerInv
<1>2. CASE NoCallStep
  BY <1>2, NoCallStepsKeepLedger, LedgerStep
<1>3. CASE ReplyWithTools
  <2>1. run.reply.calls \in Nat
    BY <1>n
  <2>2. CASE run.reply.calls > MaxToolCallsPerTurn
    BY <1>0, <1>3, <2>1, <2>2, LedgerStep
    DEF ReplyWithTools, Stop, HasPending, SameLedger
  <2>3. CASE ~(run.reply.calls > MaxToolCallsPerTurn)
    <3>1. /\ session' = [session EXCEPT !.toolCalls = @ + run.reply.calls]
          /\ disk' = disk
          /\ \/ pc' = "finish"
             \/ /\ pc' = "call" /\ session'.toolCalls <= MaxTotalToolCalls
                /\ run' = [run EXCEPT !.pending = run.reply.calls]
      BY <1>0, <1>3, <2>1, <2>3 DEF ReplyWithTools, Stop, SessionsOf
    <3>2. /\ session'.toolCalls = session.toolCalls + run.reply.calls
          /\ session'.started = session.started
          /\ session'.finished = session.finished
          /\ session'.skipped = session.skipped
          /\ session'.observations = session.observations
          /\ pc' = "call" => run'.pending = run.reply.calls
      BY <1>0, <3>1 DEF SessionsOf, Run
    <3>3. QED
      BY <1>n, <3>1, <3>2 DEF LedgerInv, Balanced, Recorded, HasPending
  <2>4. QED
    BY <2>2, <2>3
<1>4. CASE StartCall
  <2>1. /\ pc = "call" /\ pc' = "execute" /\ disk' = disk
        /\ session.started = 0 /\ session'.started = 1
        /\ session'.finished = session.finished
        /\ session'.skipped = session.skipped
        /\ session'.observations = session.observations
        /\ session'.toolCalls = session.toolCalls
        /\ run.pending > 0 /\ run'.pending = run.pending - 1
    BY <1>0, <1>4 DEF StartCall, SessionsOf, Run, CallInv
  <2>2. QED
    BY <1>n, <2>1 DEF LedgerInv, Balanced, Recorded, HasPending
<1>5. CASE RunTool
  <2>1. /\ pc = "execute" /\ disk' = disk
        /\ session.started = 1 /\ session'.started = 0
        /\ session'.finished = session.finished + 1
        /\ session'.skipped = session.skipped
        /\ session'.observations = session.observations + 1
        /\ session'.toolCalls = session.toolCalls
        /\ run'.pending = run.pending
    <3>1. PICK result \in ToolResults, cut \in {FALSE} \cup {"torn" \in Faults} :
            session' = [session EXCEPT
                          !.open = @ - 1, !.torn = @ \/ cut,
                          !.started = @ - 1, !.finished = @ + 1,
                          !.observations = @ + 1]
      BY <1>5 DEF RunTool
    <3>2. pc = "execute" /\ disk' = disk /\ session.started = 1
      BY <1>0, <1>5 DEF RunTool, CallInv
    <3>3. run'.pending = run.pending
      BY <1>0, <1>5 DEF RunTool, Run
    <3>4. QED
      BY <1>0, <3>1, <3>2, <3>3 DEF SessionsOf
  <2>2. QED
    BY <1>n, <2>1 DEF LedgerInv, Balanced, Recorded, HasPending
<1>6. CASE NextCall \/ Recover
  BY <1>0, <1>6 DEF NextCall, Recover, LedgerInv, HasPending, Run
<1>7. CASE SkipCall
  <2>1. /\ pc = "skip" /\ disk' = disk
        /\ session'.started = session.started
        /\ session'.finished = session.finished
        /\ session'.skipped = session.skipped + 1
        /\ session'.observations = session.observations + 1
        /\ session'.toolCalls = session.toolCalls
        /\ run.pending > 0 /\ run'.pending = run.pending - 1
    BY <1>0, <1>7 DEF SkipCall, SessionsOf, Run, CallInv
  <2>2. QED
    BY <1>n, <2>1 DEF LedgerInv, Balanced, Recorded, HasPending
<1>8. CASE SaveSession \/ SaveFails \/ Crash
  <2>1. session' = NewSession /\ pc' = "off" /\ disk' \in {disk, session}
    BY <1>8 DEF SaveSession, SaveFails, Crash, Forget
  <2>2. QED
    BY <2>1, NewSessionIsBalanced DEF LedgerInv, HasPending
<1>9. CASE UNCHANGED vars
  BY <1>9 DEF vars, LedgerInv, HasPending
<1>10. QED
  BY <1>1, <1>2, <1>3, <1>4, <1>5, <1>6, <1>7, <1>8, <1>9
  DEF Next, RunStep, NoCallStep, Judging, Calling, Rest

\* The books are balanced in every state.
LEMMA LedgerInvariant == Spec => []LedgerInv
<1>1. Init => LedgerInv
  BY NewSessionIsBalanced DEF Init, LedgerInv, HasPending
<1>2. IInv /\ IInv' /\ LedgerInv /\ [Next]_vars => LedgerInv'
  BY NextLedger
<1>3. QED
  BY <1>1, <1>2, LoopInvariant, PTL DEF Spec

\* max_total_tool_calls bounds the calls recorded by all runs of a session
\* together, and none is recorded that no reply asked for.
THEOREM ToolBudgetIsKept == Spec => []ToolBudgetHolds
<1>1. LedgerInv => ToolBudgetHolds
  BY DEF LedgerInv, Balanced, Recorded, ToolBudgetHolds
<1>2. QED
  BY <1>1, LedgerInvariant, PTL

\* Every recorded call has its observation, and no session is saved with a
\* record that is still "started", wherever the run was left.
THEOREM RecordsStayClosed == Spec => []RecordsAreClosed
<1>1. IInv /\ LedgerInv => RecordsAreClosed
  BY DEF IInv, CallInv, LedgerInv, Balanced, RecordsAreClosed
<1>2. QED
  BY <1>1, LoopInvariant, LedgerInvariant, PTL

-----------------------------------------------------------------------------
(* The failures of a run: those it has met are those it has counted, save  *)
(* for the one it is judging; none that was counted too often is survived. *)

Judged == pc = "classify" /\ run.class \notin {"none", "fatal"}

RetryInv ==
  pc \notin {"finish", "save"} =>
    /\ run.met = IF Judged THEN Counted ELSE run.retries
    /\ pc = "classify" => (run.class \notin {"none", "fatal"} =>
                             run.failure \in Failures)
    /\ \A f \in Failures : run.retries[f] <= MaxFailureRetries

\* A step that leaves the counts alone.
LEMMA RetryStep ==
  ASSUME RetryInv, ~Judged, ~Judged', pc' # "classify",
         pc \notin {"finish", "save"},
         run'.met = run.met, run'.retries = run.retries
  PROVE  RetryInv'
  BY DEF RetryInv

\* Every step preserves that failures are counted as they are met.
LEMMA NextRetry ==
  ASSUME IInv, RetryInv, [Next]_vars
  PROVE  RetryInv'
<1>0. run \in Run
  BY DEF IInv, TypeOK
<1>1. CASE pc' \in {"finish", "save"}
  BY <1>1 DEF RetryInv
<1>2. CASE RunTool /\ pc' = "classify"
  <2>1. PICK x \in ToolResults :
          run' = [run EXCEPT
                    !.class = Classify(x),
                    !.failure = IF IsRecoverable(x)
                                THEN Fingerprint(x) ELSE <<>>,
                    !.met = [f \in Failures |->
                               IF IsRecoverable(x) /\ f = Fingerprint(x)
                               THEN @[f] + 1 ELSE @[f]],
                    !.failed = @ \/ Contaminated(x)]
    BY <1>2 DEF RunTool
  <2>2. /\ run'.class = Classify(x) /\ run'.retries = run.retries
        /\ run'.failure = IF IsRecoverable(x) THEN Fingerprint(x) ELSE <<>>
        /\ run'.met = [f \in Failures |->
                         IF IsRecoverable(x) /\ f = Fingerprint(x)
                         THEN run.met[f] + 1 ELSE run.met[f]]
    BY <1>0, <2>1 DEF Run
  <2>3. pc = "execute" /\ ~Judged
    BY <1>2 DEF RunTool, Judged
  <2>4. run.met = run.retries /\ run.retries \in [Failures -> Nat]
    BY <1>0, <2>3 DEF RetryInv, Run
  <2>5. CASE IsRecoverable(x)
    <3>1. Judged' /\ run'.failure = Fingerprint(x) /\ Fingerprint(x) \in Failures
      BY <1>2, <2>2, <2>5 DEF Judged, IsRecoverable, Failures
    <3>2. Counted' = [run.retries EXCEPT
                        ![Fingerprint(x)] = run.retries[Fingerprint(x)] + 1]
      BY <2>2, <3>1 DEF Counted, Seen
    <3>3. run'.met = Counted'
      BY <2>2, <2>4, <2>5, <3>1, <3>2
    <3>4. QED
      BY <2>2, <2>3, <3>1, <3>3 DEF RetryInv
  <2>6. CASE ~IsRecoverable(x)
    <3>1. ~Judged' /\ run'.class \in {"none", "fatal"}
      BY <2>2, <2>6 DEF Judged, IsRecoverable
    <3>2. run'.met = run.retries
      BY <2>2, <2>4, <2>6
    <3>3. QED
      BY <2>2, <2>3, <3>1, <3>2 DEF RetryInv
  <2>7. QED
    BY <2>5, <2>6
<1>3. CASE NextCall
  BY <1>3 DEF NextCall, RetryInv, Judged
<1>4. CASE Recover
  <2>1. /\ Judged /\ pc' \notin {"classify", "finish", "save"}
        /\ run.failure \in Failures
        /\ run.met = Counted /\ Seen(run.failure) <= MaxFailureRetries
    BY <1>4 DEF Recover, Judged, RetryInv
  <2>2. run'.retries = Counted /\ run'.met = run.met
    BY <1>0, <1>4 DEF Recover, Run
  <2>3. \A f \in Failures : Counted[f] <= MaxFailureRetries
    BY <1>0, <1>4, <2>1 DEF Counted, Seen, RetryInv, Recover, Run
  <2>4. QED
    BY <2>1, <2>2, <2>3 DEF RetryInv, Judged
<1>5. CASE /\ pc \notin {"classify", "finish", "save"}
           /\ pc' \notin {"classify", "finish", "save"}
           /\ run'.met = run.met /\ run'.retries = run.retries
  BY <1>5, RetryStep DEF Judged
<1>6. CASE pc' = "off" /\ run' = NewRun
  BY <1>6, LimitsAssumption DEF RetryInv, Judged, NewRun
<1>7. CASE UNCHANGED vars
  BY <1>7 DEF vars, RetryInv, Judged, Counted, Seen
<1>8. QED
  <2>1. CASE SaveSession \/ SaveFails \/ Crash
    BY <2>1, <1>6 DEF SaveSession, SaveFails, Crash, Forget
  <2>2. CASE Boot \/ EnterRun \/ StartTurn \/ ReceiveReply \/ Planning \/ Judging
    BY <1>0, <1>1, <1>5, <2>2
    DEF Boot, EnterRun, StartTurn, ReceiveReply, Planning, AcceptPlan,
        RequestRepair, RejectRepair, ClosePlanner, Judging, BlockReentry,
        ReplyWithoutTools, ReplyWithTools, Emit, Stop, Run
  <2>3. CASE StartCall \/ SkipCall \/ AfterTools
    BY <1>0, <1>1, <1>5, <2>3 DEF StartCall, SkipCall, AfterTools, Emit, Stop, Run
  <2>4. CASE RunTool \/ RequestFails \/ FatalFailure \/ RetryBudgetExceeded
             \/ Refusal \/ FinishRun
    BY <1>1, <1>2, <2>4
    DEF RunTool, RequestFails, FatalFailure, RetryBudgetExceeded, Refusal,
        TraceRefused, FinishRun, Emit, Stop
  <2>5. QED
    BY <1>3, <1>4, <1>7, <2>1, <2>2, <2>3, <2>4
    DEF Next, RunStep, Calling, Rest

\* Every failure met is counted, over the whole run.
LEMMA RetryInvariant == Spec => []RetryInv
<1>1. Init => RetryInv
  BY LimitsAssumption DEF Init, RetryInv, Judged, NewRun
<1>2. IInv /\ RetryInv /\ [Next]_vars => RetryInv'
  BY NextRetry
<1>3. QED
  BY <1>1, <1>2, LoopInvariant, PTL DEF Spec

\* A failure that was met more often than kMaxFailureRetries allows is never
\* followed by another request to the model, whatever happened in between.
THEOREM RetriesAreBounded == Spec => []FailuresAreRetriedOnce
<1>1. RetryInv => FailuresAreRetriedOnce
  BY DEF RetryInv, Judged, FailuresAreRetriedOnce
<1>2. QED
  BY <1>1, RetryInvariant, PTL

-----------------------------------------------------------------------------
(* A turn in which a tool failed does not complete a step *)

CleanInv ==
  /\ pc \in {"llm", "judge", "call", "execute", "after"} => ~run.failed
  /\ pc = "classify" /\ run.class = "none" => ~run.failed

\* A result that analyze_tool_result takes for no failure shows no sign of one.
LEMMA NoFailureIsClean ==
  ASSUME NEW x \in ToolResults, Classify(x) = "none"
  PROVE  ~Contaminated(x)
<1>1. x.parsed /\ x.status # "blocked"
  BY DEF Classify
<1>2. CASE x.tool = "apply_patch"
  <2>1. Classify(x) = ApplyPatchClass(x)
    BY <1>1, <1>2 DEF Classify, BuildTestTools
  <2>2. x.ok
    BY <2>1 DEF ApplyPatchClass
  <2>3. QED
    BY <1>1, <1>2, <2>2, SuccessAssumption DEF Contaminated
<1>3. CASE x.tool # "apply_patch" /\ x.tool \in BuildTestTools
  <2>1. Classify(x) = BuildTestClass(x)
    BY <1>1, <1>3 DEF Classify
  <2>2. x.ok
    BY <2>1 DEF BuildTestClass
  <2>3. QED
    BY <1>1, <1>3, <2>2, SuccessAssumption DEF Contaminated
<1>4. CASE x.tool # "apply_patch" /\ x.tool \notin BuildTestTools
  <2>1. Classify(x) = GenericClass(x)
    BY <1>1, <1>4 DEF Classify
  <2>2. x.ok /\ ~x.timedOut /\ x.status \notin {"failed", "timed_out"}
    BY <2>1 DEF GenericClass
  <2>3. QED
    BY <1>1, <2>2 DEF Contaminated
<1>5. QED
  BY <1>2, <1>3, <1>4

\* Every step preserves that the turn has been clean so far.
LEMMA NextClean ==
  ASSUME IInv, CleanInv, [Next]_vars
  PROVE  CleanInv'
<1>0. run \in Run
  BY DEF IInv, TypeOK
<1>1. CASE RunTool
  <2>1. PICK x \in ToolResults :
          run' = [run EXCEPT
                    !.class = Classify(x),
                    !.failure = IF IsRecoverable(x)
                                THEN Fingerprint(x) ELSE <<>>,
                    !.met = [f \in Failures |->
                               IF IsRecoverable(x) /\ f = Fingerprint(x)
                               THEN @[f] + 1 ELSE @[f]],
                    !.failed = @ \/ Contaminated(x)]
    BY <1>1 DEF RunTool
  <2>2. /\ run'.class = Classify(x)
        /\ run'.failed = (run.failed \/ Contaminated(x))
    BY <1>0, <2>1 DEF Run
  <2>3. pc = "execute" /\ pc' \in {"classify", "save"} /\ ~run.failed
    BY <1>1 DEF RunTool, Emit, CleanInv
  <2>4. run'.class = "none" => ~run'.failed
    BY <2>2, <2>3, NoFailureIsClean
  <2>5. QED
    BY <2>3, <2>4 DEF CleanInv
<1>2. CASE StartTurn
  BY <1>0, <1>2 DEF StartTurn, Stop, Emit, CleanInv, Run
<1>3. CASE ReceiveReply \/ Planning \/ Judging
  BY <1>0, <1>3
  DEF ReceiveReply, Planning, AcceptPlan, RequestRepair, RejectRepair,
      ClosePlanner, Judging, BlockReentry, ReplyWithoutTools, ReplyWithTools,
      Emit, Stop, Run, CleanInv
<1>4. CASE StartCall \/ NextCall
  BY <1>0, <1>4 DEF StartCall, NextCall, Run, CleanInv
<1>5. CASE pc' \in {"off", "enter", "turn", "skip", "finish", "save"}
  BY <1>5 DEF CleanInv
<1>6. CASE UNCHANGED vars
  BY <1>6 DEF vars, CleanInv
<1>7. QED
  <2>1. CASE Boot \/ EnterRun \/ RequestFails \/ FatalFailure
             \/ RetryBudgetExceeded \/ Recover \/ SkipCall \/ AfterTools
    BY <1>5, <2>1
    DEF Boot, EnterRun, RequestFails, FatalFailure, RetryBudgetExceeded,
        Recover, SkipCall, AfterTools, Emit, Stop
  <2>2. CASE Refusal \/ FinishRun \/ SaveSession \/ SaveFails \/ Crash
    BY <1>5, <2>2
    DEF Refusal, TraceRefused, FinishRun, SaveSession, SaveFails, Crash, Forget
  <2>3. QED
    BY <1>1, <1>2, <1>3, <1>4, <1>6, <2>1, <2>2
    DEF Next, RunStep, Calling, Rest

\* A turn stays clean until a tool fails in it.
LEMMA CleanInvariant == Spec => []CleanInv
<1>1. Init => CleanInv
  BY DEF Init, CleanInv
<1>2. IInv /\ CleanInv /\ [Next]_vars => CleanInv'
  BY NextClean
<1>3. QED
  BY <1>1, <1>2, LoopInvariant, PTL DEF Spec

\* fail_current_plan_step takes no completed step back.
LEMMA FailingCompletesNothing ==
  ASSUME NEW p, WellFormedPlan(p), IsActive(p), NEW v,
         p = [generation |-> p.generation, size |-> p.size, steps |-> p.steps,
              current |-> p.current, outcome |-> p.outcome]
  PROVE  Completed(FailStep(p, v)) = Completed(p)
<1>1. p.current \in 1..p.size /\ p.steps[p.current] = "in_progress"
  BY DEF IsActive, HasCurrentStep, WellFormedPlan, ProgressIsLinear
<1>2. /\ FailStep(p, v).size = p.size
      /\ \A i \in 1..p.size :
           FailStep(p, v).steps[i] = IF i = p.current THEN "failed" ELSE p.steps[i]
  BY DEF FailStep
<1>3. QED
  BY <1>1, <1>2 DEF Completed

\* Only the two ends of a turn that was executed complete a step; whatever
\* else is done to a plan while the process runs leaves its progress alone.
LEMMA OnlyEndsComplete ==
  ASSUME IInv, [Next]_vars, pc # "off", pc' # "off",
         Completed(session'.plan) # Completed(session.plan)
  PROVE  run.executing /\ (ReplyWithoutTools \/ AfterTools)
<1>0. /\ session \in SessionsOf(session.plan.size) /\ WellFormedPlan(session.plan)
      /\ session.plan \in Plans(session.plan.size)
      /\ TurnInv /\ ContractMatchesPlan /\ run \in Run
      /\ session.plan.size \in 0..MaxSteps
  BY PlanOfSession
  DEF IInv, TypeOK, IsSession, PlanWellFormed
<1>1. ASSUME session'.plan = session.plan
      PROVE  FALSE
  BY <1>1
<1>2. ASSUME NEW v, session' = [session EXCEPT !.plan = FailStep(@, v)],
             IsActive(session.plan)
      PROVE  FALSE
  <2>1. session'.plan = FailStep(session.plan, v)
    BY <1>0, <1>2 DEF SessionsOf
  <2>2. session.plan =
          [generation |-> session.plan.generation, size |-> session.plan.size,
           steps |-> session.plan.steps, current |-> session.plan.current,
           outcome |-> session.plan.outcome]
    BY <1>0 DEF Plans
  <2>3. QED
    BY <1>0, <1>2, <2>1, <2>2, FailingCompletesNothing
<1>3. CASE EnterRun
  BY <1>0, <1>1, <1>3 DEF EnterRun, DecidePlanning, SessionsOf
<1>4. CASE StartTurn \/ ReceiveReply \/ ReplyWithTools \/ StartCall \/ SkipCall
  BY <1>0, <1>1, <1>4
  DEF StartTurn, ReceiveReply, ReplyWithTools, StartCall, SkipCall, SessionsOf
<1>5. CASE RunTool
  BY <1>0, <1>1, <1>5 DEF RunTool, SessionsOf
<1>6. CASE RequestFails \/ FatalFailure \/ RetryBudgetExceeded
  <2>1. session' = FailIfExecuting(session) /\ pc \in {"llm", "classify"}
    BY <1>6 DEF RequestFails, FatalFailure, RetryBudgetExceeded
  <2>2. run.executing => IsActive(session.plan)
    BY <1>0, <2>1 DEF TurnInv, CallingTools, ReadyForExecution
  <2>3. QED
    BY <1>1, <1>2, <2>1, <2>2 DEF FailIfExecuting
<1>7. CASE BlockReentry
  BY <1>0, <1>2, <1>7
  DEF BlockReentry, Reenters, TurnInv, ReadyForExecution
<1>8. CASE AcceptPlan
  <2>1. session.plan.size = 0
    BY <1>0, <1>8
    DEF AcceptPlan, TurnInv, WaitingOnContract, ContractMatchesPlan
  <2>2. session'.plan = BuildPlan(session.plan.generation, run.reply.steps)
    BY <1>0, <1>8 DEF AcceptPlan, SessionsOf
  <2>3. Completed(session'.plan) = {}
    BY <2>2 DEF Completed, BuildPlan
  <2>4. Completed(session.plan) = {}
    BY <2>1 DEF Completed
  <2>5. QED
    BY <2>3, <2>4
<1>9. CASE RequestRepair \/ RejectRepair
  BY <1>0, <1>1, <1>9 DEF RequestRepair, RejectRepair, SessionsOf
<1>10. CASE ClosePlanner
  <2>1. /\ session'.plan.size = session.plan.size
        /\ session'.plan.steps = session.plan.steps
    BY <1>0, <1>10 DEF ClosePlanner, SessionsOf, Plans
  <2>2. QED
    BY <2>1 DEF Completed
<1>11. CASE NextCall \/ Recover \/ Refusal \/ FinishRun \/ UNCHANGED vars
  BY <1>1, <1>11 DEF NextCall, Recover, Refusal, TraceRefused, FinishRun, vars
<1>12. CASE (ReplyWithoutTools \/ AfterTools) /\ ~run.executing
  BY <1>1, <1>12 DEF ReplyWithoutTools, AfterTools, CompleteIfExecuting
<1>13. CASE Boot \/ SaveSession \/ SaveFails \/ Crash
  BY <1>13 DEF Boot, SaveSession, SaveFails, Crash, Forget
<1>14. QED
  BY <1>3, <1>4, <1>5, <1>6, <1>7, <1>8, <1>9, <1>10, <1>11, <1>12, <1>13
  DEF Next, RunStep, Planning, Judging, Calling, Rest

\* A step of a plan is marked completed only by a turn in which no tool failed,
\* timed out or was refused and every call was answered (the condition of
\* complete_current_plan_step in agent_run), for every tool whose results are
\* as SuccessAssumption says.
THEOREM CompletionIsClean == Spec => StepsAreCompletedCleanly
<1> DEFINE A == pc # "off" /\ pc' # "off"
                  /\ Completed(session'.plan) # Completed(session.plan)
                => run.executing /\ ~run.failed /\ session.open = 0
<1>1. IInv /\ CleanInv /\ [Next]_vars => [A]_vars
  <2> SUFFICES ASSUME IInv, CleanInv, [Next]_vars, pc # "off", pc' # "off",
                      Completed(session'.plan) # Completed(session.plan)
               PROVE  run.executing /\ ~run.failed /\ session.open = 0
    OBVIOUS
  <2>1. run.executing /\ (ReplyWithoutTools \/ AfterTools)
    BY OnlyEndsComplete
  <2>2. pc \in {"judge", "after"} /\ session.open = 0
    BY <2>1 DEF ReplyWithoutTools, AfterTools, IInv, CallInv
  <2>3. QED
    BY <2>1, <2>2 DEF CleanInv
<1>2. QED
  BY <1>1, LoopInvariant, CleanInvariant, PTL DEF Spec, StepsAreCompletedCleanly

\* A planner is asked for a repair once: the reply to a repair request is
\* accepted or ends the planning, in every process (the branches of agent_run
\* on plan_state "AWAITING_REPAIR").
THEOREM OneRepairOnly == Spec => AtMostOneRepair
<1> DEFINE A == pc = "judge" /\ run.planning /\ session.planState = "AWAITING_REPAIR"
                => session'.planState # "AWAITING_REPAIR" \/ pc' \in {"save", "off"}
<1>1. IInv /\ [Next]_vars => [A]_vars
  <2> SUFFICES ASSUME IInv, Next, pc = "judge", run.planning,
                      session.planState = "AWAITING_REPAIR"
               PROVE  session'.planState # "AWAITING_REPAIR" \/ pc' \in {"save", "off"}
    BY DEF vars
  <2>0. session \in SessionsOf(session.plan.size)
    BY DEF IInv, TypeOK, IsSession
  <2>1. AcceptPlan \/ RejectRepair \/ Refusal \/ Crash
    BY DEF Next, RunStep, Boot, EnterRun, StartTurn, RequestFails, ReceiveReply,
       Planning, RequestRepair, ClosePlanner, Judging, BlockReentry,
       ReplyWithoutTools, ReplyWithTools, Calling, StartCall, RunTool, NextCall,
       FatalFailure, RetryBudgetExceeded, Recover, SkipCall, AfterTools,
       FinishRun, SaveSession, SaveFails, Rest
  <2>2. CASE AcceptPlan
    BY <2>0, <2>2 DEF AcceptPlan, SessionsOf
  <2>3. CASE RejectRepair
    BY <2>0, <2>3 DEF RejectRepair, SessionsOf
  <2>4. CASE Refusal \/ Crash
    BY <2>4 DEF Refusal, TraceRefused, Crash, Forget
  <2>5. QED
    BY <2>1, <2>2, <2>3, <2>4
<1>2. QED
  BY <1>1, LoopInvariant, PTL DEF Spec, AtMostOneRepair

-----------------------------------------------------------------------------
(* The loop implements the planned session *)

\* The promise of PlannedSession speaks of these parts of a session only.
LEMMA SameView ==
  ASSUME NEW s, NEW t, t.planState = s.planState,
         t.plan.generation = s.plan.generation, t.plan.size = s.plan.size,
         t.plan.current = s.plan.current, t.plan.outcome = s.plan.outcome
  PROVE  View(t) = View(s)
<1>1. /\ ContractOf(t) = ContractOf(s) /\ StepsDone(t.plan) = StepsDone(s.plan)
      /\ VerdictOf(t.plan) = VerdictOf(s.plan)
  BY DEF ContractOf, StepsDone, VerdictOf
<1>2. QED
  BY <1>1 DEF View

\* No view of a session is the value that stands for the absence of one.
LEMMA SomebodyIsNotNobody ==
  ASSUME NEW s
  PROVE  View(s) # [process |-> "none"]
<1>1. "size" \in DOMAIN View(s)
  BY DEF View
<1>2. "size" \notin DOMAIN [process |-> "none"]
  OBVIOUS
<1>3. QED
  BY <1>1, <1>2

\* The contract of a session is the one its plan state names.
LEMMA ContractFacts ==
  ASSUME NEW s
  PROVE  /\ s.planState = "IDLE" => ContractOf(s) = "idle"
         /\ s.planState = "AWAITING_PLAN" => ContractOf(s) = "asked"
         /\ s.planState = "AWAITING_REPAIR" => ContractOf(s) = "repair"
         /\ s.planState = "PLAN_READY" => ContractOf(s) = "ready"
         /\ s.planState = "PLAN_INVALID" => ContractOf(s) = "invalid"
  BY DEF ContractOf

\* A plan is open in the promise exactly when the loop executes it and the
\* next process would go on with it.
LEMMA OpenIsActive ==
  ASSUME NEW n \in Nat, NEW p \in Plans(n), WellFormedPlan(p)
  PROVE  /\ VerdictOf(p) = "open" <=> IsActive(p)
         /\ IsActiveForResume(p) <=> IsActive(p)
         /\ IsActive(p) => p.size > 0 /\ StepsDone(p) = p.current - 1
<1>1. HasCurrentStep(p) => p.size > 0
  BY DEF HasCurrentStep, Plans
<1>2. p.outcome = "in_progress" => HasCurrentStep(p)
  BY DEF WellFormedPlan, VerdictIsEarned
<1>3. VerdictOf(p) = "open" <=> p.size > 0 /\ p.outcome = "in_progress"
  BY DEF VerdictOf, Plans
<1>4. IsActive(p) => StepsDone(p) = p.current - 1
  BY DEF IsActive, HasCurrentStep, StepsDone, Plans
<1>5. QED
  BY <1>1, <1>2, <1>3, <1>4, ResumeTestsAgree DEF IsActive

\* Failing the current step of a plan abandons it with the progress it has.
LEMMA FailingAbandons ==
  ASSUME NEW n \in Nat, NEW p \in Plans(n), WellFormedPlan(p), IsActive(p),
         NEW v \in {"failed", "planner_reentry_blocked"}
  PROVE  /\ VerdictOf(FailStep(p, v)) = "abandoned"
         /\ StepsDone(FailStep(p, v)) = StepsDone(p)
<1>1. /\ FailStep(p, v).size = p.size /\ FailStep(p, v).current = p.current
  BY FailStepFacts
<1>2. FailStep(p, v).outcome = v
  BY DEF FailStep, Plans
<1>3. p.size > 0
  BY OpenIsActive
<1>4. QED
  BY <1>1, <1>2, <1>3 DEF VerdictOf, StepsDone

\* Completing the current step of a plan advances it by one step, and
\* completes it with the last.
LEMMA CompletingAdvances ==
  ASSUME NEW n \in Nat, NEW p \in Plans(n), WellFormedPlan(p), IsActive(p)
  PROVE  /\ StepsDone(CompleteStep(p)) = StepsDone(p) + 1
         /\ VerdictOf(CompleteStep(p)) =
              IF StepsDone(p) + 1 = p.size THEN "completed" ELSE "open"
<1> DEFINE q == CompleteStep(p)
<1>1. /\ p.size = n /\ p.current \in 1..n /\ HasCurrentStep(p)
  BY DEF IsActive, HasCurrentStep, Plans
<1>2. /\ q.size = n /\ q.current = IF p.current = n THEN 0 ELSE p.current + 1
      /\ q.outcome = IF p.current = n THEN "completed" ELSE "in_progress"
  BY <1>1 DEF CompleteStep, Plans
<1>3. StepsDone(p) = p.current - 1
  BY OpenIsActive
<1> HIDE DEF q
<1>4. StepsDone(q) = p.current
  BY <1>1, <1>2 DEF StepsDone
<1>5. VerdictOf(q) = IF p.current = n THEN "completed" ELSE "open"
  BY <1>1, <1>2 DEF VerdictOf
<1>6. QED
  BY <1>1, <1>3, <1>4, <1>5 DEF q

\* What main() hands to agent_run: a plan under way, or a session that has
\* not asked for a plan yet.
PreparedInv ==
  pc = "enter" => session.planState = "IDLE" \/ session.plan.size > 0

LEMMA NextPrepared ==
  ASSUME PreparesSession, IInv, PreparedInv, [Next]_vars
  PROVE  PreparedInv'
<1>1. CASE Boot
  <2>1. session' = Prepare(disk) /\ GoodSession(disk)
    BY <1>1, GoodSessionFacts DEF Boot, IInv
  <2>2. CASE IsActiveForResume(disk.plan)
    <3>1. disk.plan.size > 0
      BY <2>1, <2>2, PlanOfSession, OpenIsActive DEF GoodSession
    <3>2. (Prepare(disk)).plan = disk.plan
      BY <2>1, <2>2 DEF Prepare, GoodSession, IsSession, SessionsOf
    <3>3. QED
      BY <2>1, <3>1, <3>2 DEF PreparedInv
  <2>3. CASE ~IsActiveForResume(disk.plan)
    BY <2>1, <2>3 DEF PreparedInv, Prepare, GoodSession, IsSession, SessionsOf
  <2>4. QED
    BY <2>2, <2>3
<1>2. CASE UNCHANGED vars
  BY <1>2 DEF PreparedInv, vars
<1>3. CASE pc' # "enter"
  BY <1>3 DEF PreparedInv
<1>4. CASE Crash \/ Rest \/ Refusal \/ FinishRun \/ SaveSession \/ SaveFails
  BY <1>4 DEF Rest, Crash, Forget, Refusal, TraceRefused, FinishRun, SaveSession,
     SaveFails, PreparedInv, vars
<1>5. CASE EnterRun \/ StartTurn \/ RequestFails \/ ReceiveReply
  BY <1>3, <1>5 DEF EnterRun, StartTurn, RequestFails, ReceiveReply, Emit, Stop
<1>6. CASE Planning \/ Judging
  BY <1>3, <1>6 DEF Planning, AcceptPlan, RequestRepair, RejectRepair, ClosePlanner,
     Judging, BlockReentry, ReplyWithoutTools, ReplyWithTools, Emit, Stop
<1>7. CASE StartCall \/ RunTool \/ NextCall \/ FatalFailure \/ AfterTools
  BY <1>3, <1>7 DEF StartCall, RunTool, NextCall, FatalFailure, AfterTools, Emit, Stop
<1>8. CASE RetryBudgetExceeded \/ Recover \/ SkipCall
  BY <1>3, <1>8 DEF RetryBudgetExceeded, Recover, SkipCall, Emit
<1>9. QED
  BY <1>1, <1>2, <1>4, <1>5, <1>6, <1>7, <1>8 DEF Next, RunStep, Calling

\* The view after a plan is accepted, written out.
LEMMA AcceptedView ==
  ASSUME NEW s, NEW n
  PROVE  [View(s) EXCEPT !.contract = "ready", !.size = n, !.verdict = "open"] =
           [generation |-> s.plan.generation, contract |-> "ready", size |-> n,
            done |-> StepsDone(s.plan), verdict |-> "open"]
<1> DEFINE fields == {"generation", "contract", "size", "done", "verdict"}
           x == [View(s) EXCEPT !.contract = "ready", !.size = n, !.verdict = "open"]
           y == [generation |-> s.plan.generation, contract |-> "ready", size |-> n,
                 done |-> StepsDone(s.plan), verdict |-> "open"]
<1>1. /\ x.generation = y.generation /\ x.contract = y.contract
      /\ x.size = y.size /\ x.done = y.done /\ x.verdict = y.verdict
  BY DEF View
<1>2. x = [f \in fields |-> x[f]] /\ y = [f \in fields |-> y[f]]
  BY DEF View
<1>3. x = y
  <2> HIDE DEF x, y
  <2>1. QED
    BY <1>1, <1>2
<1>4. QED
  BY <1>3

\* The view after a step is completed, written out.
LEMMA AdvancedView ==
  ASSUME NEW s, NEW d, NEW v
  PROVE  [View(s) EXCEPT !.done = d, !.verdict = v] =
           [generation |-> s.plan.generation, contract |-> ContractOf(s),
            size |-> s.plan.size, done |-> d, verdict |-> v]
<1> DEFINE fields == {"generation", "contract", "size", "done", "verdict"}
           x == [View(s) EXCEPT !.done = d, !.verdict = v]
           y == [generation |-> s.plan.generation, contract |-> ContractOf(s),
                 size |-> s.plan.size, done |-> d, verdict |-> v]
<1>1. /\ x.generation = y.generation /\ x.contract = y.contract
      /\ x.size = y.size /\ x.done = y.done /\ x.verdict = y.verdict
  BY DEF View
<1>2. x = [f \in fields |-> x[f]] /\ y = [f \in fields |-> y[f]]
  BY DEF View
<1>3. x = y
  <2> HIDE DEF x, y
  <2>1. QED
    BY <1>1, <1>2
<1>4. QED
  BY <1>3

\* A step within a process that leaves the file and the view of the session
\* alone is not seen from outside.
LEMMA UnseenStep ==
  ASSUME pc # "off", pc' # "off", disk' = disk, View(session)' = View(session)
  PROVE  UNCHANGED Promise!vars
<1>1. View(disk)' = View(disk)
  OBVIOUS
<1>2. QED
  BY <1>1 DEF Promise!vars

\* A step that does not touch plan and planner state is not seen either.
LEMMA UntouchedPlan ==
  ASSUME pc # "off", pc' # "off", disk' = disk,
         session'.plan = session.plan, session'.planState = session.planState
  PROVE  UNCHANGED Promise!vars
<1>1. View(session)' = View(session)
  BY SameView
<1>2. QED
  BY <1>1, UnseenStep

\* A process that starts opens the session file.
LEMMA BootOpens ==
  ASSUME PreparesSession, IInv, Boot
  PROVE  Promise!Open
<1>1. /\ session' = Prepare(disk) /\ disk' = disk /\ GoodSession(disk)
      /\ pc = "off" /\ pc' # "off"
  BY GoodSessionFacts DEF Boot, IInv
<1>2. disk.plan.size \in Nat /\ disk.plan \in Plans(disk.plan.size)
      /\ WellFormedPlan(disk.plan) /\ disk \in SessionsOf(disk.plan.size)
  BY <1>1, PlanOfSession DEF GoodSession, IsSession
<1>3. View(disk).verdict = "open" <=> IsActiveForResume(disk.plan)
  BY <1>2, OpenIsActive DEF View
<1>4. CASE IsActiveForResume(disk.plan)
  <2>1. disk.plan.size > 0
    BY <1>2, <1>4, OpenIsActive
  <2>2. Prepare(disk) = disk
    BY <1>1, <1>2, <1>4, <2>1 DEF Prepare, GoodSession, SessionsOf
  <2>3. QED
    BY <1>1, <1>3, <1>4, <2>2 DEF Promise!Open, Promise!Nobody
<1>5. CASE ~IsActiveForResume(disk.plan)
  <2> DEFINE t == Prepare(disk)
  <2>1. /\ t.planState = "IDLE" /\ t.plan = ResetPlan(disk.plan)
    BY <1>2, <1>5 DEF Prepare, SessionsOf
  <2>2. t.plan.size = 0 /\ t.plan.generation = disk.plan.generation + 1
    BY <1>2, <2>1, ResetPlanFacts
  <2>3. ContractOf(t) = "idle" /\ StepsDone(t.plan) = 0 /\ VerdictOf(t.plan) = "none"
    BY <2>1, <2>2 DEF ContractOf, StepsDone, VerdictOf
  <2>4. View(t) = Promise!Fresh(View(disk).generation + 1)
    BY <2>2, <2>3 DEF View, Promise!Fresh
  <2>5. QED
    BY <1>1, <1>3, <1>5, <2>4 DEF Promise!Open, Promise!Nobody
<1>6. QED
  BY <1>4, <1>5

\* Entering agent_run asks for a plan, or does not.
LEMMA EnterAsks ==
  ASSUME IInv, PreparedInv, EnterRun
  PROVE  Promise!Ask \/ UNCHANGED Promise!vars
<1>1. /\ pc = "enter" /\ pc' # "off" /\ disk' = disk
      /\ GoodSession(session) /\ session \in SessionsOf(session.plan.size)
  BY GoodSessionFacts DEF EnterRun, Emit, IInv, GoodSession, IsSession
<1>2. PICK b \in BOOLEAN : session' = DecidePlanning(session, b)
  BY DEF EnterRun
<1>3. CASE ~WaitingOnContract(session) /\ session.plan.size = 0
  <2>1. session.planState = "IDLE"
    BY <1>1, <1>3 DEF PreparedInv
  <2>2. /\ session'.plan = session.plan
        /\ session'.planState = IF b THEN "AWAITING_PLAN" ELSE "IDLE"
    BY <1>1, <1>2, <1>3 DEF DecidePlanning, SessionsOf
  <2>3. CASE b = FALSE
    BY <1>1, <2>1, <2>2, <2>3, UntouchedPlan
  <2>4. CASE b = TRUE
    <3>1. View(session).contract = "idle" /\ ContractOf(session') = "asked"
      BY <2>1, <2>2, <2>4, ContractFacts DEF View
    <3>2. View(session') = [View(session) EXCEPT !.contract = "asked"]
      BY <2>2, <3>1 DEF View
    <3>3. QED
      BY <1>1, <3>1, <3>2, SomebodyIsNotNobody DEF Promise!Ask, Promise!Nobody
  <2>5. QED
    BY <2>3, <2>4
<1>4. CASE ~(~WaitingOnContract(session) /\ session.plan.size = 0)
  BY <1>1, <1>2, <1>4, UntouchedPlan DEF DecidePlanning
<1>5. QED
  BY <1>3, <1>4

\* A valid planner response is the plan; any other is rejected; giving the
\* planner up is not seen, as a session without steps has no verdict.
LEMMA PlanningIsSeen ==
  ASSUME IInv, Planning
  PROVE  Promise!Accept \/ Promise!Reject \/ UNCHANGED Promise!vars
<1>0. /\ GoodSession(session) /\ session \in SessionsOf(session.plan.size)
      /\ run \in Run /\ pc # "off" /\ session.plan.size \in Nat
      /\ session.plan \in Plans(session.plan.size)
  BY GoodSessionFacts, PlanOfSession
  DEF IInv, TypeOK, GoodSession, IsSession, Planning, AcceptPlan, RequestRepair,
      RejectRepair, ClosePlanner
<1>1. CASE AcceptPlan
  <2> DEFINE n == run.reply.steps
  <2>1. /\ session.planState \in {"AWAITING_PLAN", "AWAITING_REPAIR"}
        /\ pc' # "off" /\ disk' = disk
    BY <1>1 DEF AcceptPlan, Emit, IInv, TurnInv, WaitingOnContract
  <2>2. n \in 1..MaxSteps /\ n \in Nat \ {0}
    BY <1>0, <1>1, LimitsAssumption DEF AcceptPlan, AcceptableContract, Run, Replies
  <2>3. session.plan.size = 0
    BY <1>0, <2>1 DEF GoodSession
  <2>4. /\ session'.plan = BuildPlan(session.plan.generation, n)
        /\ session'.planState = "PLAN_READY"
    BY <1>0, <1>1 DEF AcceptPlan, SessionsOf
  <2>5. /\ session'.plan.generation = session.plan.generation
        /\ session'.plan.size = n /\ StepsDone(session'.plan) = 0
        /\ VerdictOf(session'.plan) = "open" /\ ContractOf(session') = "ready"
    BY <2>2, <2>4 DEF BuildPlan, StepsDone, VerdictOf, ContractOf
  <2>6. StepsDone(session.plan) = 0 /\ View(session).contract \in {"asked", "repair"}
    BY <2>1, <2>3, ContractFacts DEF StepsDone, View
  <2>7. View(session') = [View(session) EXCEPT !.contract = "ready", !.size = n,
                                               !.verdict = "open"]
    <3>1. View(session') =
            [generation |-> session.plan.generation, contract |-> "ready",
             size |-> n, done |-> StepsDone(session.plan), verdict |-> "open"]
      BY <2>5, <2>6 DEF View
    <3>2. [View(session) EXCEPT !.contract = "ready", !.size = n,
                                !.verdict = "open"] =
            [generation |-> session.plan.generation, contract |-> "ready",
             size |-> n, done |-> StepsDone(session.plan), verdict |-> "open"]
      BY AcceptedView
    <3>3. QED
      BY <3>1, <3>2
  <2>8. QED
    BY <1>0, <2>1, <2>2, <2>6, <2>7, SomebodyIsNotNobody
    DEF Promise!Accept, Promise!Nobody
<1>2. CASE RequestRepair
  <2>1. /\ session.planState = "AWAITING_PLAN" /\ pc' # "off" /\ disk' = disk
    BY <1>2 DEF RequestRepair, Emit, IInv, TurnInv, WaitingOnContract
  <2>2. session'.plan = session.plan /\ session'.planState = "AWAITING_REPAIR"
    BY <1>0, <1>2 DEF RequestRepair, SessionsOf
  <2>3. View(session).contract = "asked" /\ ContractOf(session') = "repair"
    BY <2>1, <2>2, ContractFacts DEF View
  <2>4. View(session') = [View(session) EXCEPT !.contract = "repair"]
    BY <2>2, <2>3 DEF View
  <2>5. QED
    BY <1>0, <2>1, <2>3, <2>4, SomebodyIsNotNobody DEF Promise!Reject, Promise!Nobody
<1>3. CASE RejectRepair
  <2>1. /\ session.planState = "AWAITING_REPAIR" /\ pc' # "off" /\ disk' = disk
    BY <1>3 DEF RejectRepair, Emit
  <2>2. session'.plan = session.plan /\ session'.planState = "PLAN_INVALID"
    BY <1>0, <1>3 DEF RejectRepair, SessionsOf
  <2>3. View(session).contract = "repair" /\ ContractOf(session') = "invalid"
    BY <2>1, <2>2, ContractFacts DEF View
  <2>4. View(session') = [View(session) EXCEPT !.contract = "invalid"]
    BY <2>2, <2>3 DEF View
  <2>5. QED
    BY <1>0, <2>1, <2>3, <2>4, SomebodyIsNotNobody DEF Promise!Reject, Promise!Nobody
<1>4. CASE ClosePlanner
  <2>1. session.planState = "PLAN_INVALID" /\ pc' # "off" /\ disk' = disk
    BY <1>4 DEF ClosePlanner, Stop, IInv, TurnInv
  <2>2. session.plan.size = 0
    BY <1>0, <2>1 DEF GoodSession
  <2>3. /\ session'.planState = session.planState
        /\ session'.plan.size = session.plan.size
        /\ session'.plan.generation = session.plan.generation
    BY <1>0, <1>4 DEF ClosePlanner, SessionsOf, Plans
  <2>4. /\ ContractOf(session') = ContractOf(session)
        /\ StepsDone(session'.plan) = StepsDone(session.plan)
        /\ VerdictOf(session'.plan) = VerdictOf(session.plan)
    BY <2>2, <2>3 DEF ContractOf, StepsDone, VerdictOf
  <2>5. View(session') = View(session)
    BY <2>3, <2>4 DEF View
  <2>6. QED
    BY <1>0, <2>1, <2>5, UnseenStep
<1>5. QED
  BY <1>1, <1>2, <1>3, <1>4 DEF Planning

\* A failure that ends the run abandons the plan that is executed.
LEMMA FailureIsSeen ==
  ASSUME IInv, NEW v \in {"failed", "planner_reentry_blocked"},
         pc \in {"llm", "judge"} \/ CallingTools, pc' # "off", disk' = disk,
         \/ ~run.executing /\ session' = session
         \/ run.executing /\ session' = [session EXCEPT !.plan = FailStep(@, v)]
  PROVE  Promise!Abandon \/ UNCHANGED Promise!vars
<1>0. /\ GoodSession(session) /\ session \in SessionsOf(session.plan.size)
      /\ session.plan.size \in Nat /\ session.plan \in Plans(session.plan.size)
      /\ WellFormedPlan(session.plan) /\ pc # "off"
  BY GoodSessionFacts, PlanOfSession DEF IInv, GoodSession, IsSession, CallingTools
<1>1. CASE ~run.executing
  BY <1>0, <1>1, UntouchedPlan
<1>2. CASE run.executing
  <2>1. IsActive(session.plan)
    BY <1>2 DEF IInv, TurnInv, ReadyForExecution
  <2>2. /\ session'.plan = FailStep(session.plan, v)
        /\ session'.planState = session.planState
    BY <1>0, <1>2 DEF SessionsOf
  <2>3. /\ VerdictOf(session'.plan) = "abandoned"
        /\ StepsDone(session'.plan) = StepsDone(session.plan)
        /\ session'.plan.size = session.plan.size
        /\ session'.plan.generation = session.plan.generation
        /\ ContractOf(session') = ContractOf(session)
    BY <1>0, <2>1, <2>2, FailingAbandons, FailStepFacts DEF ContractOf
  <2>4. View(session).verdict = "open"
    BY <1>0, <2>1, OpenIsActive DEF View
  <2>5. View(session') = [View(session) EXCEPT !.verdict = "abandoned"]
    BY <2>3 DEF View
  <2>6. QED
    BY <1>0, <2>4, <2>5, SomebodyIsNotNobody DEF Promise!Abandon, Promise!Nobody
<1>3. QED
  BY <1>1, <1>2

\* The end of a clean turn advances the plan that is executed by one step.
LEMMA CompletionIsSeen ==
  ASSUME IInv, pc \in {"judge", "after"}, pc' # "off", disk' = disk,
         session' = CompleteIfExecuting(session)
  PROVE  Promise!Advance \/ UNCHANGED Promise!vars
<1>0. /\ GoodSession(session) /\ session \in SessionsOf(session.plan.size)
      /\ session.plan.size \in Nat /\ session.plan \in Plans(session.plan.size)
      /\ WellFormedPlan(session.plan) /\ pc # "off"
  BY GoodSessionFacts, PlanOfSession DEF IInv, GoodSession, IsSession
<1>1. CASE ~run.executing
  BY <1>0, <1>1, UntouchedPlan DEF CompleteIfExecuting
<1>2. CASE run.executing
  <2>1. IsActive(session.plan)
    BY <1>2 DEF IInv, TurnInv, ReadyForExecution, CallingTools
  <2>2. /\ session'.plan = CompleteStep(session.plan)
        /\ session'.planState = session.planState
    BY <1>0, <1>2 DEF SessionsOf, CompleteIfExecuting
  <2>3. /\ StepsDone(session'.plan) = StepsDone(session.plan) + 1
        /\ VerdictOf(session'.plan) =
             IF StepsDone(session.plan) + 1 = session.plan.size
             THEN "completed" ELSE "open"
        /\ session'.plan.size = session.plan.size
        /\ session'.plan.generation = session.plan.generation
        /\ ContractOf(session') = ContractOf(session)
    BY <1>0, <2>1, <2>2, CompletingAdvances, CompleteStepFacts DEF ContractOf
  <2>4. /\ View(session).verdict = "open"
        /\ View(session).done = StepsDone(session.plan)
        /\ View(session).size = session.plan.size
    BY <1>0, <2>1, OpenIsActive DEF View
  <2>5. View(session') =
          [View(session) EXCEPT
             !.done = StepsDone(session.plan) + 1,
             !.verdict = IF StepsDone(session.plan) + 1 = session.plan.size
                         THEN "completed" ELSE "open"]
    <3> DEFINE done == StepsDone(session.plan) + 1
               verdict == IF done = session.plan.size THEN "completed" ELSE "open"
    <3>1. View(session') =
            [generation |-> session.plan.generation,
             contract |-> ContractOf(session), size |-> session.plan.size,
             done |-> done, verdict |-> verdict]
      BY <2>3 DEF View
    <3>2. [View(session) EXCEPT !.done = done, !.verdict = verdict] =
            [generation |-> session.plan.generation,
             contract |-> ContractOf(session), size |-> session.plan.size,
             done |-> done, verdict |-> verdict]
      <4> HIDE DEF done, verdict
      <4>1. QED
        BY AdvancedView
    <3>3. QED
      BY <3>1, <3>2
  <2>6. QED
    BY <1>0, <2>4, <2>5, SomebodyIsNotNobody DEF Promise!Advance, Promise!Nobody
<1>3. QED
  BY <1>1, <1>2

\* A process that ends leaves its session in the file or what was there.
LEMMA EndingCloses ==
  ASSUME pc # "off", Forget, disk' \in {disk, session}
  PROVE  Promise!Close
<1>1. pc' = "off" /\ View(disk') \in {View(disk), View(session)}
  BY DEF Forget
<1>2. QED
  BY <1>1, SomebodyIsNotNobody DEF Promise!Close, Promise!Nobody

\* Every step of the loop is a step of the promise or not seen from outside.
LEMMA StepIsPromised ==
  ASSUME PreparesSession, IInv, PreparedInv, [Next]_vars
  PROVE  [Promise!Next]_Promise!vars
<1>0. session \in SessionsOf(session.plan.size)
  BY DEF IInv, TypeOK, IsSession
<1>1. CASE Boot
  BY <1>1, BootOpens DEF Promise!Next
<1>2. CASE EnterRun
  BY <1>2, EnterAsks DEF Promise!Next
<1>3. CASE Planning
  BY <1>3, PlanningIsSeen DEF Promise!Next
<1>4. CASE RequestFails \/ FatalFailure \/ RetryBudgetExceeded
  <2>1. /\ pc \in {"llm", "judge"} \/ CallingTools
        /\ pc' # "off" /\ disk' = disk /\ session' = FailIfExecuting(session)
    BY <1>4 DEF RequestFails, FatalFailure, RetryBudgetExceeded, Stop, CallingTools
  <2>2. \/ ~run.executing /\ session' = session
        \/ run.executing /\ session' = [session EXCEPT !.plan = FailStep(@, "failed")]
    BY <2>1 DEF FailIfExecuting
  <2>3. QED
    BY <2>1, <2>2, FailureIsSeen DEF Promise!Next
<1>5. CASE BlockReentry
  <2>1. /\ pc = "judge" /\ run.executing /\ pc' # "off" /\ disk' = disk
        /\ session' = [session EXCEPT !.plan = FailStep(@, "planner_reentry_blocked")]
    BY <1>5 DEF BlockReentry, Reenters, Stop
  <2>2. QED
    BY <2>1, FailureIsSeen DEF Promise!Next
<1>6. CASE ReplyWithoutTools \/ AfterTools
  <2>1. /\ pc \in {"judge", "after"} /\ pc' # "off" /\ disk' = disk
        /\ session' = CompleteIfExecuting(session)
    BY <1>6 DEF ReplyWithoutTools, AfterTools, Stop
  <2>2. QED
    BY <2>1, CompletionIsSeen DEF Promise!Next
<1>7. CASE SaveSession \/ SaveFails \/ Crash
  <2>1. pc # "off" /\ Forget /\ disk' \in {disk, session}
    BY <1>7 DEF SaveSession, SaveFails, Crash
  <2>2. QED
    BY <2>1, EndingCloses DEF Promise!Next
<1>8. CASE Refusal \/ FinishRun \/ NextCall \/ Recover
  <2>1. pc # "off" /\ pc' # "off" /\ disk' = disk /\ session' = session
    BY <1>8 DEF Refusal, TraceRefused, FinishRun, NextCall, Recover
  <2>2. QED
    BY <2>1, UntouchedPlan
<1>9. CASE StartTurn \/ ReceiveReply
  <2>1. /\ pc # "off" /\ pc' # "off" /\ disk' = disk
        /\ session'.plan = session.plan /\ session'.planState = session.planState
    BY <1>0, <1>9 DEF StartTurn, ReceiveReply, Emit, Stop, SessionsOf
  <2>2. QED
    BY <2>1, UntouchedPlan
<1>10. CASE ReplyWithTools \/ StartCall \/ RunTool \/ SkipCall
  <2>1. /\ pc # "off" /\ pc' # "off" /\ disk' = disk
        /\ session'.plan = session.plan /\ session'.planState = session.planState
    BY <1>0, <1>10 DEF ReplyWithTools, StartCall, RunTool, SkipCall, Emit, Stop,
       SessionsOf
  <2>2. QED
    BY <2>1, UntouchedPlan
<1>11. CASE UNCHANGED vars \/ Rest
  BY <1>11 DEF vars, Rest, Promise!vars
<1>12. QED
  BY <1>1, <1>2, <1>3, <1>4, <1>5, <1>6, <1>7, <1>8, <1>9, <1>10, <1>11
  DEF Next, RunStep, Judging, Calling

\* Under main(), which prepares the session it loads, the loop implements the
\* planned session: for every limit, every set of tool results and faults, any
\* number of steps, replies, repairs, failures, crashes and processes, the
\* plan in the file and in the process changes as PlannedSession allows.
THEOREM LoopKeepsPromise == ASSUME PreparesSession PROVE Spec => KeepsPromise
<1>1. Init => Promise!Init
  <2> SUFFICES ASSUME Init PROVE Promise!Init
    OBVIOUS
  <2>1. View(NewSession) = Promise!Fresh(0)
    BY DEF View, NewSession, NoPlan, ContractOf, StepsDone, VerdictOf, Promise!Fresh
  <2>2. QED
    BY <2>1 DEF Init, Promise!Init, Promise!Nobody
<1>2. Init => PreparedInv
  BY DEF Init, PreparedInv
<1>3. IInv /\ PreparedInv /\ [Next]_vars => PreparedInv'
  BY NextPrepared
<1>4. IInv /\ PreparedInv /\ [Next]_vars => [Promise!Next]_Promise!vars
  BY StepIsPromised
<1>5. QED
  BY <1>1, <1>2, <1>3, <1>4, LoopInvariant, PTL DEF Spec, KeepsPromise, Promise!Spec
=============================================================================
