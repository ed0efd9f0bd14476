------------------------------ MODULE AgentLoop ------------------------------
(***************************************************************************)
(* One process of the agent at a time: main() loads the session, prepares  *)
(* it, calls agent_run() and saves what is left, and agent_run() plans,    *)
(* asks the model, executes the tool calls it requests and judges their    *)
(* results.  The session file outlives the process; everything else is     *)
(* lost when it exits or crashes.                                          *)
(*                                                                         *)
(* Each action is the code between two points at which something else can  *)
(* intervene: a trace event whose sink may refuse it (the exception leaves *)
(* agent_run and main saves what there is), a call of the model or of a    *)
(* tool, a crash.  Several events written with no state change between     *)
(* them are one.                                                           *)
(***************************************************************************)
EXTENDS Plan, ToolFailure

CONSTANTS
  MaxTurns,             \* config.max_turns
  MaxToolCallsPerTurn,  \* config.max_tool_calls_per_turn
  MaxTotalToolCalls,    \* config.max_total_tool_calls
  MaxFailureRetries,    \* kMaxFailureRetries
  ToolResults,          \* the results the executed tools can return
  PreparesSession,      \* TRUE: the host is main(); FALSE: it calls agent_run
                        \* on the loaded session without preparing it
  Faults,               \* what may go wrong around the loop, see Fault
  MaxSteps,             \* bound: steps of a plan the model proposes
  MaxBatch,             \* bound: tool calls in one reply
  MaxRuns               \* bound: processes started on the session

\* "trace": a sink refuses an event.  "llm": a model request fails.  "save":
\* the session file cannot be written.  "crash": the process dies.  "torn":
\* a tool output is cut inside a multi-byte character, so that no message
\* list or session that holds it can be serialised any more.
Fault == {"trace", "llm", "save", "crash", "torn"}

ASSUME LimitsAssumption ==
  /\ MaxTurns \in Nat /\ MaxToolCallsPerTurn \in Nat
  /\ MaxTotalToolCalls \in Nat /\ MaxFailureRetries \in Nat
  /\ MaxSteps \in Nat \ {0} /\ MaxBatch \in Nat /\ MaxRuns \in Nat

ASSUME ResultsAssumption == ToolResults \subseteq ToolResult

\* A patch or a build that says it worked shows no sign of failure: both set
\* "ok" only where neither a time limit nor another failure was met.
ASSUME SuccessAssumption ==
  \A r \in ToolResults :
    r.tool \in {"apply_patch"} \cup BuildTestTools /\ r.ok =>
      ~r.timedOut /\ r.status \notin {"blocked", "failed", "timed_out"}

ASSUME FaultsAssumption == Faults \subseteq Fault /\ PreparesSession \in BOOLEAN

VARIABLES
  pc,       \* where the process is; "off" when there is none
  session,  \* the SessionState in memory
  run,      \* the local variables of agent_run
  disk,     \* the session file; a missing file equals a fresh session
  runs      \* processes started so far

vars == <<pc, session, run, disk, runs>>

-----------------------------------------------------------------------------
(* The session and the local state of a run *)

\* artifact: steps of the validated contract kept next to the plan, 0: none.
\* started, finished, skipped: tool call records by status.
\* open: tool calls of the last assistant message no tool message answers.
\* torn: some message holds text that cannot be serialised.
NewSession ==
  [plan |-> NoPlan(0), planState |-> "IDLE", needsPlan |-> FALSE,
   repairAttempts |-> 0, artifact |-> 0, turnIndex |-> 0, toolCalls |-> 0,
   started |-> 0, finished |-> 0, skipped |-> 0, observations |-> 0,
   open |-> 0, torn |-> FALSE]

Failures == {Fingerprint(r) : r \in {x \in ToolResults : IsRecoverable(x)}}

\* What the model may answer.  "malformed" has an object field "plan" that
\* does not validate; a "valid" one has that many well-formed steps.
Replies ==
  [contract : {"none", "malformed"}, steps : {0}, calls : 0..MaxBatch]
    \cup [contract : {"valid"}, steps : 1..MaxSteps, calls : 0..MaxBatch]

NoReply == [contract |-> "none", steps |-> 0, calls |-> 0]

\* Three fields only record history: whether no reply has been received yet
\* (first), whether a tool of this turn failed (failed), and how often each
\* recoverable failure was met in this run (met).
NewRun ==
  [first |-> TRUE, planning |-> FALSE, executing |-> FALSE, reply |-> NoReply,
   pending |-> 0, failed |-> FALSE, class |-> "none", failure |-> <<>>,
   retries |-> [f \in Failures |-> 0], met |-> [f \in Failures |-> 0],
   outcome |-> "completed"]

Outcome ==
  {"completed", "max_turns_exceeded", "llm_request_failed",
   "planner_response_invalid", "planner_reentry_blocked",
   "max_tool_calls_per_turn_exceeded", "max_total_tool_calls_exceeded",
   "fatal_tool_failure", "retry_budget_exceeded"}

WaitingOnContract(s) ==
  s.needsPlan /\ s.planState \in {"AWAITING_PLAN", "AWAITING_REPAIR"}

ReadyForExecution(s) == IsActive(s.plan) /\ s.planState = "PLAN_READY"

Init ==
  /\ pc = "off"
  /\ session = NewSession
  /\ run = NewRun
  /\ disk = NewSession
  /\ runs = 0

\* An event is offered to the sinks; a refusal ends the run with an exception.
Emit(next) ==
  \/ pc' = next
  \/ "trace" \in Faults /\ pc' = "save"

TraceRefused(at) ==
  /\ pc = at
  /\ "trace" \in Faults
  /\ pc' = "save"
  /\ UNCHANGED <<session, run, disk, runs>>

Stop(outcome) ==
  /\ run' = [run EXCEPT !.outcome = outcome]
  /\ pc' = "finish"

-----------------------------------------------------------------------------
(* Starting a process and entering agent_run *)

\* Mutant: a plan that is not resumed leaves its contract behind.
PrepareKeepingContract(s) ==
  IF IsActiveForResume(s.plan)
  THEN [s EXCEPT !.planState = "PLAN_READY"]
  ELSE [s EXCEPT !.plan = ResetPlan(s.plan), !.needsPlan = FALSE]

Prepare(s) ==
  IF IsActiveForResume(s.plan)
  THEN [s EXCEPT !.planState = "PLAN_READY",
                 !.artifact = IF @ = 0 THEN s.plan.size ELSE @]
  ELSE [s EXCEPT !.plan = ResetPlan(s.plan), !.planState = "IDLE",
                 !.needsPlan = FALSE, !.repairAttempts = 0, !.artifact = 0]

Boot ==
  /\ pc = "off" /\ runs < MaxRuns
  /\ runs' = runs + 1
  /\ session' = IF PreparesSession THEN Prepare(disk) ELSE disk
  /\ pc' = "enter"
  /\ UNCHANGED <<run, disk>>

\* A new contract is begun only for a session without steps; whether the
\* prompt asks for one is up to its wording.
DecidePlanning(s, promptNeedsPlan) ==
  IF ~WaitingOnContract(s) /\ s.plan.size = 0
  THEN [s EXCEPT !.needsPlan = promptNeedsPlan,
                 !.planState = IF promptNeedsPlan THEN "AWAITING_PLAN"
                                                  ELSE "IDLE",
                 !.artifact = 0, !.repairAttempts = 0]
  ELSE s

EnterRun ==
  /\ pc = "enter"
  /\ \E promptNeedsPlan \in BOOLEAN :
       session' = DecidePlanning(session, promptNeedsPlan)
  /\ Emit("turn")
  /\ UNCHANGED <<run, disk, runs>>

-----------------------------------------------------------------------------
(* One turn: ask the model *)

\* Mutant: only the first planner response is recognised as one.
StartTurnForgettingRepair ==
  /\ pc = "turn"
  /\ session' = [session EXCEPT !.turnIndex = @ + 1]
  /\ \/ /\ session'.turnIndex > MaxTurns
        /\ Stop("max_turns_exceeded")
     \/ /\ session'.turnIndex <= MaxTurns
        /\ run' = [run EXCEPT !.planning = session.planState = "AWAITING_PLAN",
                              !.executing = ReadyForExecution(session),
                              !.failed = FALSE]
        /\ Emit("llm")
  /\ UNCHANGED <<disk, runs>>

\* The context limit serialises all messages before it looks at their size.
StartTurn ==
  /\ pc = "turn"
  /\ session' = [session EXCEPT !.turnIndex = @ + 1]
  /\ \/ /\ session'.turnIndex > MaxTurns
        /\ Stop("max_turns_exceeded")
     \/ /\ session'.turnIndex <= MaxTurns /\ session.torn
        /\ pc' = "save"
        /\ UNCHANGED run
     \/ /\ session'.turnIndex <= MaxTurns /\ ~session.torn
        /\ run' = [run EXCEPT !.planning = WaitingOnContract(session),
                              !.executing = ReadyForExecution(session),
                              !.failed = FALSE]
        /\ Emit("llm")
  /\ UNCHANGED <<disk, runs>>

FailIfExecuting(s) ==
  IF run.executing THEN [s EXCEPT !.plan = FailStep(@, "failed")] ELSE s

\* Mutant: a failed request is tried again and does not count as a turn.
RequestIsRetried ==
  /\ pc = "llm" /\ "llm" \in Faults
  /\ session' = [session EXCEPT !.turnIndex = @ - 1]
  /\ pc' = "turn"
  /\ UNCHANGED <<run, disk, runs>>

RequestFails ==
  /\ pc = "llm" /\ "llm" \in Faults
  /\ session' = FailIfExecuting(session)
  /\ Stop("llm_request_failed")
  /\ UNCHANGED <<disk, runs>>

ReceiveReply ==
  /\ pc = "llm"
  /\ \E reply \in Replies :
       /\ session' = [session EXCEPT !.open = reply.calls]
       /\ run' = [run EXCEPT !.reply = reply, !.first = FALSE]
  /\ pc' = "judge"
  /\ UNCHANGED <<disk, runs>>

-----------------------------------------------------------------------------
(* A planning turn: the reply is a plan contract or is rejected *)

AcceptableContract(reply) == reply.contract = "valid" /\ reply.calls = 0

\* Mutant: a plan is accepted in any turn.
AcceptPlanAnytime ==
  /\ pc = "judge" /\ AcceptableContract(run.reply)
  /\ session' = [session EXCEPT
                   !.plan = BuildPlan(@.generation, run.reply.steps),
                   !.planState = "PLAN_READY", !.needsPlan = TRUE,
                   !.artifact = run.reply.steps]
  /\ Emit("turn")
  /\ UNCHANGED <<run, disk, runs>>

AcceptPlan ==
  /\ pc = "judge" /\ run.planning /\ AcceptableContract(run.reply)
  /\ session' = [session EXCEPT
                   !.plan = BuildPlan(@.generation, run.reply.steps),
                   !.planState = "PLAN_READY", !.needsPlan = TRUE,
                   !.artifact = run.reply.steps]
  /\ Emit("turn")
  /\ UNCHANGED <<run, disk, runs>>

\* Mutant: a rejected repair is repaired again.
RequestRepairAgain ==
  /\ pc = "judge" /\ run.planning /\ ~AcceptableContract(run.reply)
  /\ session' = [session EXCEPT !.planState = "AWAITING_REPAIR",
                                !.repairAttempts = 1, !.artifact = 0]
  /\ Emit("turn")
  /\ UNCHANGED <<run, disk, runs>>

RequestRepair ==
  /\ pc = "judge" /\ run.planning /\ ~AcceptableContract(run.reply)
  /\ session.planState # "AWAITING_REPAIR"
  /\ session' = [session EXCEPT !.planState = "AWAITING_REPAIR",
                                !.repairAttempts = 1, !.artifact = 0]
  /\ Emit("turn")
  /\ UNCHANGED <<run, disk, runs>>

RejectRepair ==
  /\ pc = "judge" /\ run.planning /\ ~AcceptableContract(run.reply)
  /\ session.planState = "AWAITING_REPAIR"
  /\ session' = [session EXCEPT !.planState = "PLAN_INVALID", !.artifact = 0]
  /\ Emit("invalid")
  /\ UNCHANGED <<run, disk, runs>>

\* Mutant: the run goes on after the planner was given up.
ClosePlannerAndGoOn ==
  /\ pc = "invalid"
  /\ session' = [session EXCEPT !.plan.outcome = "failed"]
  /\ pc' = "turn"
  /\ UNCHANGED <<run, disk, runs>>

ClosePlanner ==
  /\ pc = "invalid"
  /\ session' = [session EXCEPT !.plan.outcome = "failed"]
  /\ Stop("planner_response_invalid")
  /\ UNCHANGED <<disk, runs>>

-----------------------------------------------------------------------------
(* Any other turn: a plan is no longer welcome, tool calls are *)

Reenters == run.executing /\ run.reply.contract # "none"

BlockReentry ==
  /\ pc = "judge" /\ ~run.planning /\ Reenters
  /\ session' = [session EXCEPT
                   !.plan = FailStep(@, "planner_reentry_blocked")]
  /\ Stop("planner_reentry_blocked")
  /\ UNCHANGED <<disk, runs>>

CompleteIfExecuting(s) ==
  IF run.executing THEN [s EXCEPT !.plan = CompleteStep(@)] ELSE s

ReplyWithoutTools ==
  /\ pc = "judge" /\ ~run.planning /\ ~Reenters /\ run.reply.calls = 0
  /\ session' = CompleteIfExecuting(session)
  /\ IF run.executing /\ IsActive(session'.plan)
     THEN pc' = "turn" /\ UNCHANGED run
     ELSE Stop("completed")
  /\ UNCHANGED <<disk, runs>>

\* Mutant: the total is compared before this turn's calls are added.
ReplyWithToolsUncounted ==
  /\ pc = "judge" /\ ~run.planning /\ ~Reenters /\ run.reply.calls > 0
  /\ run.reply.calls <= MaxToolCallsPerTurn
  /\ session' = [session EXCEPT !.toolCalls = @ + run.reply.calls]
  /\ IF session.toolCalls > MaxTotalToolCalls
     THEN Stop("max_total_tool_calls_exceeded")
     ELSE run' = [run EXCEPT !.pending = run.reply.calls] /\ pc' = "call"
  /\ UNCHANGED <<disk, runs>>

ReplyWithTools ==
  /\ pc = "judge" /\ ~run.planning /\ ~Reenters /\ run.reply.calls > 0
  /\ \/ /\ run.reply.calls > MaxToolCallsPerTurn
        /\ Stop("max_tool_calls_per_turn_exceeded")
        /\ UNCHANGED session
     \/ /\ run.reply.calls <= MaxToolCallsPerTurn
        /\ session' = [session EXCEPT !.toolCalls = @ + run.reply.calls]
        /\ IF session'.toolCalls > MaxTotalToolCalls
           THEN Stop("max_total_tool_calls_exceeded")
           ELSE /\ run' = [run EXCEPT !.pending = run.reply.calls]
                /\ pc' = "call"
  /\ UNCHANGED <<disk, runs>>

-----------------------------------------------------------------------------
(* Executing the tool calls of a turn, one after the other *)

StartCall ==
  /\ pc = "call"
  /\ session' = [session EXCEPT !.started = @ + 1]
  /\ run' = [run EXCEPT !.pending = @ - 1]
  /\ pc' = "execute"
  /\ UNCHANGED <<disk, runs>>

\* The output is answered to the model, cut to the output limit, before its
\* failure is acted upon.
RunTool ==
  /\ pc = "execute"
  /\ \E result \in ToolResults, cut \in {FALSE} \cup {"torn" \in Faults} :
       /\ session' = [session EXCEPT
                        !.open = @ - 1, !.torn = @ \/ cut,
                        !.started = @ - 1, !.finished = @ + 1,
                        !.observations = @ + 1]
       /\ run' = [run EXCEPT
                    !.class = Classify(result),
                    !.failure = IF IsRecoverable(result)
                                THEN Fingerprint(result) ELSE <<>>,
                    !.met = [f \in Failures |->
                               IF IsRecoverable(result) /\ f = Fingerprint(result)
                               THEN @[f] + 1 ELSE @[f]],
                    !.failed = @ \/ Contaminated(result)]
  /\ Emit("classify")
  /\ UNCHANGED <<disk, runs>>

\* Mutant: a success forgives the failures before it.
NextCallForgiving ==
  /\ pc = "classify" /\ run.class = "none"
  /\ run' = [run EXCEPT !.retries = [f \in Failures |-> 0]]
  /\ pc' = IF run.pending > 0 THEN "call" ELSE "after"
  /\ UNCHANGED <<session, disk, runs>>

NextCall ==
  /\ pc = "classify" /\ run.class = "none"
  /\ pc' = IF run.pending > 0 THEN "call" ELSE "after"
  /\ UNCHANGED <<session, run, disk, runs>>

FatalFailure ==
  /\ pc = "classify" /\ run.class = "fatal"
  /\ session' = FailIfExecuting(session)
  /\ Stop("fatal_tool_failure")
  /\ UNCHANGED <<disk, runs>>

Seen(failure) == run.retries[failure] + 1

Counted == [run.retries EXCEPT ![run.failure] = Seen(run.failure)]

RetryBudgetExceeded ==
  /\ pc = "classify" /\ run.class \notin {"none", "fatal"}
  /\ Seen(run.failure) > MaxFailureRetries
  /\ session' = FailIfExecuting(session)
  /\ run' = [run EXCEPT !.retries = Counted,
                        !.outcome = "retry_budget_exceeded"]
  /\ pc' = "finish"
  /\ UNCHANGED <<disk, runs>>

\* Mutant: the remaining calls are dropped.
RecoverDroppingCalls ==
  /\ pc = "classify" /\ run.class \notin {"none", "fatal"}
  /\ Seen(run.failure) <= MaxFailureRetries
  /\ run' = [run EXCEPT !.retries = Counted]
  /\ pc' = "turn"
  /\ UNCHANGED <<session, disk, runs>>

\* Mutant: the turn counts as a success if the failure came last.
RecoverAsSuccess ==
  /\ pc = "classify" /\ run.class \notin {"none", "fatal"}
  /\ Seen(run.failure) <= MaxFailureRetries
  /\ run' = [run EXCEPT !.retries = Counted]
  /\ pc' = IF run.pending > 0 THEN "skip" ELSE "after"
  /\ UNCHANGED <<session, disk, runs>>

Recover ==
  /\ pc = "classify" /\ run.class \notin {"none", "fatal"}
  /\ Seen(run.failure) <= MaxFailureRetries
  /\ run' = [run EXCEPT !.retries = Counted]
  /\ pc' = IF run.pending > 0 THEN "skip" ELSE "turn"
  /\ UNCHANGED <<session, disk, runs>>

\* Mutant: a skipped call leaves no observation.
SkipCallUnobserved ==
  /\ pc = "skip"
  /\ session' = [session EXCEPT !.open = @ - 1, !.skipped = @ + 1]
  /\ run' = [run EXCEPT !.pending = @ - 1]
  /\ Emit(IF run.pending > 1 THEN "skip" ELSE "turn")
  /\ UNCHANGED <<disk, runs>>

\* Mutant: one call too many is skipped.
SkipCallOffByOne ==
  /\ pc = "skip"
  /\ session' = [session EXCEPT !.open = @ - 1, !.skipped = @ + 1,
                                !.observations = @ + 1]
  /\ run' = [run EXCEPT !.pending = @ - 1]
  /\ Emit(IF run.pending > 0 THEN "skip" ELSE "turn")
  /\ UNCHANGED <<disk, runs>>

\* The calls after a recoverable failure are answered without being executed.
SkipCall ==
  /\ pc = "skip"
  /\ session' = [session EXCEPT !.open = @ - 1, !.skipped = @ + 1,
                                !.observations = @ + 1]
  /\ run' = [run EXCEPT !.pending = @ - 1]
  /\ Emit(IF run.pending > 1 THEN "skip" ELSE "turn")
  /\ UNCHANGED <<disk, runs>>

AfterTools ==
  /\ pc = "after"
  /\ session' = CompleteIfExecuting(session)
  /\ IF run.executing /\ session'.plan.outcome = "completed"
     THEN Stop("completed")
     ELSE pc' = "turn" /\ UNCHANGED run
  /\ UNCHANGED <<disk, runs>>

-----------------------------------------------------------------------------
(* Leaving agent_run: run_finished is emitted or refused, then main saves *)

FinishRun ==
  /\ pc = "finish"
  /\ pc' = "save"
  /\ UNCHANGED <<session, run, disk, runs>>

Forget ==
  /\ pc' = "off"
  /\ session' = NewSession
  /\ run' = NewRun
  /\ UNCHANGED runs

SaveSession ==
  /\ pc = "save" /\ ~session.torn
  /\ disk' = session
  /\ Forget

SaveFails ==
  /\ pc = "save" /\ (session.torn \/ "save" \in Faults)
  /\ UNCHANGED disk
  /\ Forget

Crash ==
  /\ pc # "off" /\ "crash" \in Faults
  /\ UNCHANGED disk
  /\ Forget

\* Nothing is left to do once the bound on processes is reached.
Rest ==
  /\ pc = "off" /\ runs = MaxRuns
  /\ UNCHANGED vars

-----------------------------------------------------------------------------
Planning == AcceptPlan \/ RequestRepair \/ RejectRepair \/ ClosePlanner

Judging == BlockReentry \/ ReplyWithoutTools \/ ReplyWithTools

Calling ==
  \/ StartCall \/ RunTool \/ NextCall \/ FatalFailure
  \/ RetryBudgetExceeded \/ Recover \/ SkipCall \/ AfterTools

\* The events whose refusal leaves no other trace than the exception: the
\* reply that is not stored, the planner's reply, a call that is not started,
\* a failure that is not acted upon.
Refusal ==
  \/ TraceRefused("llm")
  \/ run.planning /\ TraceRefused("judge")
  \/ TraceRefused("call")
  \/ run.class # "none" /\ TraceRefused("classify")

RunStep ==
  \/ EnterRun \/ StartTurn \/ RequestFails \/ ReceiveReply
  \/ Planning \/ Judging \/ Calling \/ Refusal
  \/ FinishRun \/ SaveSession \/ SaveFails

Next == Boot \/ RunStep \/ Crash \/ Rest

Spec == Init /\ [][Next]_vars

\* A started process keeps going: requests and tools return or time out.
FairSpec == Spec /\ WF_vars(RunStep)

-----------------------------------------------------------------------------
(* Properties *)

SessionsOf(n) ==
  [plan : Plans(n), planState : PlanState, needsPlan : BOOLEAN,
   repairAttempts : 0..1, artifact : 0..MaxSteps, turnIndex : Nat,
   toolCalls : Nat, started : 0..1, finished : Nat, skipped : Nat,
   observations : Nat, open : 0..MaxBatch, torn : BOOLEAN]

IsSession(s) == s.plan.size \in 0..MaxSteps /\ s \in SessionsOf(s.plan.size)

Run ==
  [first : BOOLEAN, planning : BOOLEAN, executing : BOOLEAN, reply : Replies,
   pending : 0..MaxBatch, failed : BOOLEAN, class : FailureClass,
   failure : Failures \cup {<<>>}, retries : [Failures -> Nat],
   met : [Failures -> Nat], outcome : Outcome]

\* Every variable has its type: in particular the indices that the code
\* leaves unchecked (the current step, the calls still to answer) stay in
\* range whatever happens between two processes.
TypeOK ==
  /\ pc \in {"off", "enter", "turn", "llm", "judge", "invalid", "call",
             "execute", "classify", "skip", "after", "finish", "save"}
  /\ IsSession(session)
  /\ run \in Run
  /\ IsSession(disk)
  /\ runs \in 0..MaxRuns

\* The plan in memory and the plan in the file are always ones that
\* validate_plan_or_throw accepts, so that a session that was saved can be
\* loaded and one that ran can be saved.  It follows that the test main()
\* uses to resume a plan and the test agent_run uses to execute it agree.
PlanWellFormed ==
  \A s \in {session, disk} :
    WellFormedPlan(s.plan) /\ (IsActiveForResume(s.plan) <=> IsActive(s.plan))

\* The planner contract kept beside the plan speaks of that plan: there are
\* steps exactly in state PLAN_READY, the validated artifact describes as
\* many steps as the plan has, and a repair was counted exactly when asked.
ContractMatchesPlan ==
  \A s \in {session, disk} :
    /\ s.plan.size > 0 <=> s.planState = "PLAN_READY"
    /\ s.artifact = s.plan.size
    /\ s.planState = "AWAITING_REPAIR" => s.repairAttempts = 1
    /\ s.planState \in {"IDLE", "AWAITING_PLAN"} => s.repairAttempts = 0

CallingTools == pc \in {"call", "execute", "classify", "skip", "after"}

\* A task that needs a plan calls tools only while a validated plan is being
\* executed and its current step is in progress: not while the contract is
\* awaited or repaired, not after the plan was rejected, has failed or is
\* completed, and not in a later process that finds it in that state.
ToolsOnlyUnderPlan ==
  CallingTools /\ session.needsPlan =>
    run.executing /\ ReadyForExecution(session)

\* kMaxFailureRetries counts each distinct failure over the whole run, with
\* whatever happens in between: once a failure has been met more often, the
\* model is not asked again.
FailuresAreRetriedOnce ==
  pc \in {"turn", "llm", "judge", "call"} =>
    \A f \in Failures : run.met[f] <= MaxFailureRetries

\* When the model is asked again within a run, every tool call of its last
\* message has been answered by a tool message (the calls after a recoverable
\* failure by "skipped"), as chat APIs demand.  The one exception: tool calls
\* in a rejected planner response stay unanswered when the repair is asked.
EveryCallIsAnswered ==
  pc = "llm" /\ ~run.first /\ session.open > 0 =>
    session.planState = "AWAITING_REPAIR"

\* max_total_tool_calls bounds the tool calls of all runs of a session
\* together, executed or skipped; no call is recorded that was not requested.
ToolBudgetHolds ==
  LET recorded == session.started + session.finished + session.skipped
  IN  recorded <= MaxTotalToolCalls /\ recorded <= session.toolCalls

\* Every recorded call has its observation, and no record is left "started"
\* in a session that is about to be saved or was.
RecordsAreClosed ==
  /\ session.observations = session.finished + session.skipped
  /\ pc = "save" => session.started = 0
  /\ disk.started = 0 /\ disk.observations = disk.finished + disk.skipped

Completed(p) == {i \in 1..p.size : p.steps[i] = "completed"}

\* A step is marked completed only at the end of a turn in which no tool
\* failed, timed out or was refused, and with no call left unanswered.
StepsAreCompletedCleanly ==
  [][pc # "off" /\ pc' # "off" /\ Completed(session'.plan) # Completed(session.plan)
       => run.executing /\ ~run.failed /\ session.open = 0]_vars

\* The view of a session that PlannedSession speaks about.
ContractOf(s) ==
  CASE s.planState = "IDLE" -> "idle"
    [] s.planState = "AWAITING_PLAN" -> "asked"
    [] s.planState = "AWAITING_REPAIR" -> "repair"
    [] s.planState = "PLAN_READY" -> "ready"
    [] s.planState = "PLAN_INVALID" -> "invalid"

StepsDone(p) ==
  IF p.size = 0 THEN 0 ELSE IF p.current = 0 THEN p.size ELSE p.current - 1

VerdictOf(p) ==
  CASE p.size = 0 -> "none"
    [] p.size > 0 /\ p.outcome = "in_progress" -> "open"
    [] p.size > 0 /\ p.outcome = "completed" -> "completed"
    [] OTHER -> "abandoned"

View(s) ==
  [generation |-> s.plan.generation, contract |-> ContractOf(s),
   size |-> s.plan.size, done |-> StepsDone(s.plan),
   verdict |-> VerdictOf(s.plan)]

Promise ==
  INSTANCE PlannedSession WITH
    durable <- View(disk),
    working <- IF pc = "off" THEN [process |-> "none"] ELSE View(session)

\* Under main() the loop, its repair turn, its failures and its crashes
\* implement the planned session.
KeepsPromise == Promise!Spec

\* A planner response is judged at most twice: after a repair was asked for,
\* the next response is accepted, or the plan is invalid and the run over;
\* it may also be lost with the process or to a refused event.
AtMostOneRepair ==
  [][pc = "judge" /\ run.planning /\ session.planState = "AWAITING_REPAIR"
       => session'.planState # "AWAITING_REPAIR" \/ pc' \in {"save", "off"}]_vars

\* No tool runs while a plan contract is awaited, also when the contract was
\* asked for by an earlier process.
NoToolsBeforeContract == CallingTools => ~WaitingOnContract(session)

\* Every process that starts ends: turns are bounded over the whole session,
\* so neither a planner that never plans, nor a model that always calls
\* tools, nor alternating failures keep it going.
EveryRunEnds == pc # "off" ~> pc = "off"

-----------------------------------------------------------------------------
(* What the documentation says and the code does not do *)

\* "Persist session state to a JSON file": when nothing is wrong with the
\* file, the session of a process that was not killed is in it afterwards.
SessionIsPersisted ==
  [][pc = "save" /\ pc' = "off" => disk' = session]_vars

=============================================================================
