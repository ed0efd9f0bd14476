------------------------------ MODULE Conversation ------------------------------
(***************************************************************************)
(* The messages of a session: what agent_run appends to them, what         *)
(* enforce_context_limits takes out of them before they are sent, what the *)
(* LLM layer makes of the last of them, and what becomes of them in the    *)
(* session file and in the next process.  AgentLoop has the same loop with *)
(* its plan and its failures in detail and counts the messages only; here  *)
(* a plan is a state of its contract and a tool result a way to go on.     *)
(***************************************************************************)
EXTENDS Integers, FiniteSets, SequencesExt, SessionFile

CONSTANTS
  MaxTurns,             \* config.max_turns
  MaxToolCallsPerTurn,  \* config.max_tool_calls_per_turn
  MaxTotalToolCalls,    \* config.max_total_tool_calls
  MaxContext,           \* config.max_context_bytes, in units of length
  MaxToolOutput,        \* config.max_tool_output_bytes
  Placeholder,          \* length of what a dropped content is replaced by
  OutputLengths,        \* lengths of the outputs of tools
  TextLengths,          \* lengths of the model's texts; 0: none
  HasSystemPrompt,      \* FALSE: the system prompt is empty
  BatchSizes,           \* bound: numbers of tool calls in one reply
  MaxProcesses          \* bound: processes started on the session

ASSUME LimitsAssumption ==
  /\ MaxTurns \in Nat /\ MaxToolCallsPerTurn \in Nat
  /\ MaxTotalToolCalls \in Nat /\ MaxContext \in Nat /\ MaxToolOutput \in Nat
  /\ Placeholder \in Nat \ {0} /\ OutputLengths \subseteq Nat \ {0}
  /\ TextLengths \subseteq Nat /\ HasSystemPrompt \in BOOLEAN
  /\ BatchSizes \subseteq Nat /\ MaxProcesses \in Nat

VARIABLES
  session,    \* what the process has of the session
  run,        \* the local variables of agent_run
  pc,         \* where the process is; "off" when there is none
  processes   \* processes started so far

vars == <<session, run, pc, processes, fileVars>>

-----------------------------------------------------------------------------
(* Messages *)

\* calls: the tool calls of a reply.  call: which of them an answer is for.
\* length and dropped describe the content: a dropped one is the placeholder.
Message ==
  [kind : {"system", "user", "reply", "answer", "guidance", "repair"},
   calls : Nat, call : Nat, skipped : BOOLEAN, length : Nat, dropped : BOOLEAN]

Plain(kind, length) ==
  [kind |-> kind, calls |-> 0, call |-> 0, skipped |-> FALSE,
   length |-> length, dropped |-> FALSE]

Reply(calls, length) == [Plain("reply", length) EXCEPT !.calls = calls]

Answer(call, length) == [Plain("answer", length) EXCEPT !.call = call]

SkippedAnswer(call) == [Answer(call, 1) EXCEPT !.skipped = TRUE]

\* Mutant: the outputs of tools are not bounded.
WholeOutput(length) == length

\* The mark that says how much was cut counts as one.
TruncateToolOutput(length) ==
  IF length <= MaxToolOutput THEN length ELSE MaxToolOutput + 1

Seed ==
  (IF HasSystemPrompt THEN <<Plain("system", 1)>> ELSE <<>>)
    \o <<Plain("user", 1)>>

\* plan: "idle"; "plan" and "repair" while a contract is awaited; "active";
\* "over" when it ended; "invalid" when no contract could be had.
PlanStates == {"idle", "plan", "repair", "active", "over", "invalid"}

SessionRecord ==
  [messages : Seq(Message), plan : PlanStates, turn : Nat, total : Nat]

NewSession == [messages |-> <<>>, plan |-> "idle", turn |-> 0, total |-> 0]

\* start: the messages that were there when the run began.  before: the
\* messages before they were cut for the request (history).  next: the tool
\* call to execute next.
NoRun ==
  [start |-> 0, before |-> <<>>, planning |-> FALSE, executing |-> FALSE,
   next |-> 0]

Pushed(message) == [session EXCEPT !.messages = Append(@, message)]

-----------------------------------------------------------------------------
(* Cutting the messages down to the context limit *)

\* What the messages come to when they are sent: their contents, and as much
\* again for the form of each.
Size(messages) ==
  FoldLeft(LAMBDA sum, message : sum + message.length + 1, 0, messages)

\* Message 1 is taken for the system prompt and kept.
Droppable(messages) ==
  {i \in 2..Len(messages) : ~messages[i].dropped /\ messages[i].length # 0}

ToolOutputs(messages) ==
  {i \in 2..Len(messages) :
     messages[i].kind = "answer" /\ ~messages[i].dropped}

\* Mutant: whatever is oldest goes first.
OldestOfAll(messages) == Min(Droppable(messages))

\* Outputs of tools go before anything else; the oldest of either first.
ToDrop(messages) ==
  IF ToolOutputs(messages) # {}
  THEN Min(ToolOutputs(messages))
  ELSE Min(Droppable(messages))

Drop(messages, i) ==
  [messages EXCEPT ![i].length = Placeholder, ![i].dropped = TRUE]

TooLong(messages) == Size(messages) > MaxContext /\ Len(messages) > 2

DropOne(messages) ==
  IF TooLong(messages) /\ Droppable(messages) # {}
  THEN Drop(messages, ToDrop(messages))
  ELSE messages

\* The loop of enforce_context_limits: no message is dropped twice, so as many
\* rounds as there are messages are enough.
EnforceContextLimits(messages) ==
  LET cut[n \in 0..Len(messages)] ==
        IF n = 0 THEN messages ELSE DropOne(cut[n - 1])
  IN  cut[Len(messages)]

-----------------------------------------------------------------------------
(* Starting a process *)

Init ==
  /\ FileInit
  /\ session = NewSession /\ run = NoRun /\ pc = "off" /\ processes = 0

StartProcess ==
  /\ pc = "off" /\ processes < MaxProcesses
  /\ processes' = processes + 1

\* A session whose plan can be resumed keeps it; any other starts without one,
\* and whether it needs one depends on the prompt.  The prompts of a process
\* that finds messages are not added to them.
Enter(loaded) ==
  /\ \E plan \in {"plan", "idle"} :
       session' = [loaded EXCEPT
         !.plan = IF @ = "active" THEN @ ELSE plan,
         !.messages = IF @ = <<>> THEN Seed ELSE @]
  /\ run' = [NoRun EXCEPT !.start = Len(session'.messages)]
  /\ pc' = "turn"

Boot ==
  /\ StartProcess
  /\ \/ Missing /\ Enter(NewSession)
     \/ Loadable /\ Enter(file[1])
  /\ UNCHANGED fileVars

\* The session cannot be loaded, and the process ends.  Whatever else fails
\* before agent_run (MCP servers, skills, the trace file) looks the same.
BootFails ==
  /\ StartProcess
  /\ LoadFails
  /\ UNCHANGED <<session, run, pc, fileVars>>

-----------------------------------------------------------------------------
(* A turn: the request *)

EndRun == pc' = "save"

ExceedTurns ==
  /\ pc = "turn" /\ session.turn >= MaxTurns
  /\ session' = [session EXCEPT !.turn = @ + 1]
  /\ EndRun
  /\ UNCHANGED <<run, processes, fileVars>>

StartTurn ==
  /\ pc = "turn" /\ session.turn < MaxTurns
  /\ session' = [session EXCEPT !.turn = @ + 1,
                                !.messages = EnforceContextLimits(@)]
  /\ run' = [run EXCEPT !.before = session.messages,
                        !.planning = session.plan \in {"plan", "repair"},
                        !.executing = session.plan = "active"]
  /\ pc' = "llm"
  /\ UNCHANGED <<processes, fileVars>>

IsRepairPrompt(message) == message.kind = "repair" /\ ~message.dropped

\* Mutant: any repair prompt in the conversation makes a repair turn.
IsRepairTurnSoFar(messages) ==
  \E i \in DOMAIN messages : IsRepairPrompt(messages[i])

\* A repair turn is told by its last message; its request offers no tools.
IsPlannerRepairTurn(messages) ==
  messages # <<>> /\ IsRepairPrompt(Last(messages))

\* The request or its answer fails, or the trace sink refuses the turn: a plan
\* being executed fails with the first two.
LlmFails ==
  /\ pc = "llm"
  /\ \E plan \in {session.plan, IF run.executing THEN "over" ELSE session.plan} :
       session' = [session EXCEPT !.plan = plan]
  /\ EndRun
  /\ UNCHANGED <<run, processes, fileVars>>

ReceiveReply ==
  /\ pc = "llm"
  /\ \E calls \in BatchSizes, length \in TextLengths :
       session' = Pushed(Reply(calls, length))
  /\ run' = [run EXCEPT !.before = <<>>]
  /\ pc' = "judge"
  /\ UNCHANGED <<processes, fileVars>>

-----------------------------------------------------------------------------
(* A turn: what the reply is *)

TheReply == Last(session.messages)

AcceptPlan ==
  /\ pc = "judge" /\ run.planning
  /\ TheReply.calls = 0 /\ TheReply.length # 0
  /\ session' = [session EXCEPT !.plan = "active"]
  /\ pc' = "turn"
  /\ UNCHANGED <<run, processes, fileVars>>

\* The trace sink may refuse to hear of the repair when the prompt is there.
RequestRepair ==
  /\ pc = "judge" /\ run.planning /\ session.plan = "plan"
  /\ session' = [Pushed(Plain("repair", 1)) EXCEPT !.plan = "repair"]
  /\ pc' = "turn" \/ EndRun
  /\ UNCHANGED <<run, processes, fileVars>>

\* It refuses to hear of the contract that failed: the repair is awaited, and
\* its prompt is not there.
RepairNotSent ==
  /\ pc = "judge" /\ run.planning /\ session.plan = "plan"
  /\ session' = [session EXCEPT !.plan = "repair"]
  /\ EndRun
  /\ UNCHANGED <<run, processes, fileVars>>

RejectRepair ==
  /\ pc = "judge" /\ run.planning /\ session.plan = "repair"
  /\ session' = [session EXCEPT !.plan = "invalid"]
  /\ EndRun
  /\ UNCHANGED <<run, processes, fileVars>>

\* A contract in the middle of the execution of a plan.
BlockReentry ==
  /\ pc = "judge" /\ run.executing /\ TheReply.length # 0
  /\ session' = [session EXCEPT !.plan = "over"]
  /\ EndRun
  /\ UNCHANGED <<run, processes, fileVars>>

\* A step of the plan is done: the plan goes on or is over, and the run with it.
CompleteStep ==
  \/ pc' = "turn" /\ UNCHANGED session
  \/ EndRun /\ session' = [session EXCEPT !.plan = "over"]

ReplyWithoutTools ==
  /\ pc = "judge" /\ ~run.planning /\ TheReply.calls = 0
  /\ IF run.executing THEN CompleteStep ELSE EndRun /\ UNCHANGED session
  /\ UNCHANGED <<run, processes, fileVars>>

TooManyCalls ==
  /\ pc = "judge" /\ ~run.planning
  /\ TheReply.calls > MaxToolCallsPerTurn
  /\ EndRun
  /\ UNCHANGED <<session, run, processes, fileVars>>

WithCalls == [session EXCEPT !.total = @ + TheReply.calls]

TooManyCallsInTotal ==
  /\ pc = "judge" /\ ~run.planning
  /\ TheReply.calls \in 1..MaxToolCallsPerTurn
  /\ session.total + TheReply.calls > MaxTotalToolCalls
  /\ session' = WithCalls
  /\ EndRun
  /\ UNCHANGED <<run, processes, fileVars>>

BeginCalls ==
  /\ pc = "judge" /\ ~run.planning
  /\ TheReply.calls \in 1..MaxToolCallsPerTurn
  /\ session.total + TheReply.calls <= MaxTotalToolCalls
  /\ session' = WithCalls
  /\ run' = [run EXCEPT !.next = 1]
  /\ pc' = "call"
  /\ UNCHANGED <<processes, fileVars>>

-----------------------------------------------------------------------------
(* A turn: the tool calls *)

\* The calls of the last reply.
Calls == session.messages[SelectLastInSeq(session.messages,
                            LAMBDA message : message.kind = "reply")].calls

RunTool ==
  /\ pc = "call" /\ run.next <= Calls
  /\ \E length \in OutputLengths :
       session' = Pushed(Answer(run.next, TruncateToolOutput(length)))
  /\ pc' = "result"
  /\ UNCHANGED <<run, processes, fileVars>>

ToolSucceeds ==
  /\ pc = "result"
  /\ run' = [run EXCEPT !.next = @ + 1]
  /\ pc' = "call"
  /\ UNCHANGED <<session, processes, fileVars>>

\* A fatal failure, or the same one once too often.
ToolStopsRun ==
  /\ pc = "result"
  /\ session' = [session EXCEPT !.plan = IF run.executing THEN "over" ELSE @]
  /\ EndRun
  /\ UNCHANGED <<run, processes, fileVars>>

\* Mutant: the calls after a recoverable failure are not answered.
GuideOnly ==
  /\ pc = "result"
  /\ session' = Pushed(Plain("guidance", 1))
  /\ run' = [run EXCEPT !.next = 0]
  /\ pc' = "turn"
  /\ UNCHANGED <<processes, fileVars>>

Guide ==
  /\ pc = "result"
  /\ session' = Pushed(Plain("guidance", 1))
  /\ run' = [run EXCEPT !.next = @ + 1]
  /\ pc' = "skip"
  /\ UNCHANGED <<processes, fileVars>>

Skip ==
  /\ pc = "skip" /\ run.next <= Calls
  /\ session' = Pushed(SkippedAnswer(run.next))
  /\ run' = [run EXCEPT !.next = @ + 1]
  /\ UNCHANGED <<pc, processes, fileVars>>

EndSkips ==
  /\ pc = "skip" /\ run.next > Calls
  /\ run' = [run EXCEPT !.next = 0]
  /\ pc' = "turn"
  /\ UNCHANGED <<session, processes, fileVars>>

\* All calls succeeded: a step of the plan is done.
EndCalls ==
  /\ pc = "call" /\ run.next > Calls
  /\ run' = [run EXCEPT !.next = 0]
  /\ IF run.executing THEN CompleteStep ELSE pc' = "turn" /\ UNCHANGED session
  /\ UNCHANGED <<processes, fileVars>>

\* The trace sink refuses an event: the exception leaves agent_run.
Abort ==
  /\ pc \in {"judge", "call", "result", "skip"}
  /\ EndRun
  /\ UNCHANGED <<session, run, processes, fileVars>>

-----------------------------------------------------------------------------
(* The end of a process *)

Off == session' = NewSession /\ run' = NoRun /\ pc' = "off"

SaveSession ==
  /\ pc = "save"
  /\ BeginSave(session)
  /\ pc' = "saving"
  /\ UNCHANGED <<session, run, processes>>

GoOnSaving ==
  /\ pc = "saving"
  /\ SaveStep
  /\ IF at' = "idle" THEN Off ELSE UNCHANGED <<session, run, pc>>
  /\ UNCHANGED processes

Crash ==
  /\ pc # "off" /\ "crash" \in FileFaults
  /\ Die
  /\ Off
  /\ UNCHANGED processes

Next ==
  \/ Boot \/ BootFails \/ ExceedTurns \/ StartTurn \/ LlmFails \/ ReceiveReply
  \/ AcceptPlan \/ RequestRepair \/ RepairNotSent \/ RejectRepair
  \/ BlockReentry \/ ReplyWithoutTools \/ TooManyCalls \/ TooManyCallsInTotal \/ BeginCalls
  \/ RunTool \/ ToolSucceeds \/ ToolStopsRun \/ Guide \/ Skip \/ EndSkips
  \/ EndCalls \/ Abort \/ SaveSession \/ GoOnSaving \/ Crash

Spec == Init /\ [][Next]_vars

-----------------------------------------------------------------------------
(* Properties *)

\* Types, and the bound of a tool's output wherever it is kept.
TypeOK ==
  /\ session \in SessionRecord
  /\ run \in [start : Nat, before : Seq(Message), planning : BOOLEAN,
              executing : BOOLEAN, next : Nat]
  /\ pc \in {"off", "turn", "llm", "judge", "call", "result", "skip", "save",
             "saving"}
  /\ processes \in 0..MaxProcesses
  /\ FileTypeOK
  /\ \A i \in DOMAIN session.messages :
       LET message == session.messages[i] IN
         message.length <= IF message.dropped THEN Placeholder
                           ELSE IF message.kind = "answer" THEN MaxToolOutput + 1
                           ELSE message.length

\* What is sent is what there was with the fewest contents taken out: only
\* contents, never of message 1; outputs of tools before anything else and the
\* oldest first; nothing if it fitted; and with the last one back in, it would
\* not fit.  It fits unless there was nothing left to take out.
LeastCut(was, sent) ==
  LET cut == {i \in DOMAIN sent : sent[i] # was[i]}
      Outputs(S) == {i \in S : was[i].kind = "answer"}
      OldestFirst(S) == \A i \in S \ cut : \A j \in S \cap cut : j < i
  IN
    /\ Len(sent) = Len(was)
    /\ \A i \in DOMAIN sent : sent[i] \in {was[i], Drop(was, i)[i]}
    /\ cut \subseteq Droppable(was)
    /\ cut \subseteq Outputs(cut) \/ Outputs(Droppable(was)) \subseteq cut
    /\ OldestFirst(Outputs(Droppable(was)))
    /\ OldestFirst(Droppable(was) \ Outputs(Droppable(was)))
    /\ cut # {} => Len(was) > 2
    /\ ~TooLong(sent) \/ Droppable(sent) = {}
    /\ LET last == IF cut = Outputs(cut) THEN cut ELSE cut \ Outputs(cut)
       IN  cut # {} => TooLong([sent EXCEPT ![Max(last)] = was[Max(last)]])

\* enforce_context_limits, on the messages of every request.
CutIsLeast == pc = "llm" => LeastCut(run.before, session.messages)

\* The messages from after a reply to before the next one.
Block(k) ==
  LET ends == {e \in k..Len(session.messages) :
                 e = Len(session.messages) \/ session.messages[e + 1].kind = "reply"}
  IN  SubSeq(session.messages, k + 1, Min(ends))

Replies == {k \in DOMAIN session.messages : session.messages[k].kind = "reply"}

\* Every tool message belongs to the reply before it: its answers are the first
\* ones of its calls, in their order, none twice.  The guidance after a failure
\* comes between the answer of the failed call and the answers of the skipped
\* ones, once.  When the model is asked again, every reply of this run has all
\* its answers, unless its calls were part of a plan that is being repaired.
AnswersBelong ==
  \A k \in Replies :
    LET block == Block(k)
        Of(kind) == {i \in DOMAIN block : block[i].kind = kind}
        Answered(S) == {block[i].call : i \in S}
        calls == 1..session.messages[k].calls
    IN
      /\ \A i \in Of("answer") :
           /\ block[i].call \in calls
           /\ Answered({j \in Of("answer") : j < i}) = 1..block[i].call - 1
      /\ \A i \in Of("guidance") :
           /\ Of("guidance") = {i} /\ i > 1
           /\ \A j \in Of("answer") : block[j].skipped <=> j > i
      /\ Of("guidance") = {} => \A i \in Of("answer") : ~block[i].skipped
      /\ \/ pc # "llm" \/ k <= run.start
         \/ Answered(Of("answer")) = calls
         \/ Of("repair") # {}

\* The LLM layer knows a repair turn by its last message only.  While a repair
\* is awaited the request is one for a repair, unless the context limit took
\* the prompt away, and everything else that could go with it.  At any other
\* time it is not, unless this is the first request of a process that found the
\* prompt of an earlier one at the end of its messages.
RepairIsRecognised ==
  pc = "llm" =>
    /\ session.plan = "repair" =>
         \/ IsPlannerRepairTurn(session.messages)
         \/ /\ Last(session.messages).kind = "repair"
            /\ Droppable(session.messages) = {}
    /\ IsPlannerRepairTurn(session.messages) =>
         session.plan = "repair" \/ run.start = Len(session.messages)
=============================================================================
