# NanoCodeAgent: a verification development in TLA+

NanoCodeAgent is a small coding agent in C++: a command line program that sends a
task to a language model, executes the tool calls the model asks for inside a
workspace, and keeps a session file so that the next process can go on where the
last one stopped. This directory models its control: what is done in which
order, what is checked, what happens when something fails or the process dies.
The models are checked with TLC on small instances; theorems about them are
proved with TLAPS for all values of their constants.

All source paths below are relative to the repository root (`src/agent_loop.cpp`
is the file the map in `PROJECT.json` calls `src/src/agent_loop.cpp`).

To reproduce: `tlc -config loop.cfg MCAgentLoop` (and likewise for each row of the
table of runs), and `tlapm` on each module whose name ends in `Proofs`. Operators commented "Mutant:" are not part of a
specification: each is a plausible bug that can be put in the place of the
definition after it, to see that the property meant to catch it does.

## 1. Inventory

### The parts and how they interact

```
 main.cpp ── load ──> prepare ──> agent_run ──> save          (one process)
    |           ^                    |  ^                ^
    |           |                    |  | reply          |
 McpSession     |                    v  |                |
  (servers)  session file      llm.cpp <── sse_parser, tool_call_assembler <── http.cpp
    ^                                |
    |                                v
    +---- tool registry <── tool calls, one after the other
                |
                +── bash / build / test / git: child processes
                +── read, write, apply_patch: files of the workspace
          every step: events to the trace sinks
```

The program is single-threaded. What makes it hard is not threads but
everything around it: a model whose reply is arbitrary, child processes that run
beside it, servers that talk when they like, sinks and file systems that refuse,
and a session that outlives the process.

| Part | State | Operations | Interacts by | Hard because |
|---|---|---|---|---|
| Agent loop (`agent_loop.cpp`) | local state of `agent_run`: planning/execution turn, retry counters, outcome | turns: ask, judge a plan contract, repair once, re-entry block, call limits, execute, classify, retry, skip, complete or fail a step | calls `llm`, tools, sinks; changes the session | flags read before the request and used after it; exceptions from a sink in the middle of a turn; budgets over turns and runs |
| Session state and plan (`state.cpp`) | plan, step statuses, current step, outcome, contract fields, counters, call records, observations | build, complete, fail, reset a plan; validate; to and from JSON | memory of the loop, content of the file | two tests of "active"; fields that must change together |
| Host process (`main.cpp`) | the session between load and save | load, prepare, run, save also after an exception | session file, loop | crash or failed save between processes |
| Session file (`state_store.cpp`) | the file, a temporary file | load, save as replacement | all processes of a session | crash between steps, two processes at once |
| Child processes (`bash_tool.cpp`, `subprocess.cpp`, `build_test_tools.cpp`) | child, process group, two pipes, deadline, output counters | fork, poll, read, limit, kill, reap | pipes, signals | everything runs beside the runner; helpers left in the background |
| Reply stream (`http.cpp`, `sse_parser.cpp`, `llm.cpp`, `tool_call_assembler.cpp`) | remainder of the parser, fragments by index, done | feed a chunk, interpret events, assemble, finalize | callback of the transfer | chunks end anywhere; limits; transfers that just end |
| MCP servers (`mcp.cpp`, `mcp_transport_stdio.cpp`, `mcp_tool_bridge.cpp`) | clients, request ids, server processes, records in the session | start all or none, initialize, list tools by pages, call, close | pipes, session state, registry | late, doubled and unasked messages; death at any moment |
| Tool registry and tools (`tool_registry.cpp`, `agent_tools.cpp`) | registered tools, approval settings | execute, or block | called by the loop | which failures the loop may recover from |
| File tools (`read_file.cpp`, `write_file.cpp`, `apply_patch.cpp`, `workspace.cpp`) | files of the workspace | read, write, patch one or several places | file system | a batch must apply as a whole; truncating write |
| Repository tools (`repo_tools.cpp`) | the repository: commits, HEAD, reflog, index | search, git status, diff, add, commit | child processes | a commit is several git commands, with hooks and other users of the repository in between |
| Trace sinks (`trace.cpp`) | open file, event number | append an event, may throw | every part of the loop | failures noticed late |
| Context limits (`agent_utils.cpp`) | the messages | cut tool outputs and messages to a size | loop, before each request | cuts inside characters; messages that cannot be cut enough |
| Skills (`skill_loader.cpp`) | none | read skill files into the prompt | main, before the loop | budget |
| Harness (`harness*.cpp`) | a run in memory; its directory: `plan.json`, `run.json`, trace, artifacts | run the steps of a scenario as commands, archive, verify, accept | child processes, file system | failures and crashes between writes; several judges; reused directories |
| Configuration (`config.cpp`, `cli.cpp`, `logger.cpp`) | options | merge file, environment, options | main | – |
| Documentation automation (`scripts/`) | – | builds the book | not part of the program | – |

### What makes each part correct

* **Agent loop, session, host**: a task that needs a plan calls tools only under a
  validated plan; a planner gets one repair; a failure is retried a bounded number
  of times, whatever happens in between; every call is answered before the model is
  asked again; a step is completed only by a clean turn; limits hold over the whole
  session; every run ends; what the file says about a plan never goes back, over
  crashes, exceptions and failed saves.
* **Child processes**: no zombie, nothing of the killed group left, no signal to a
  number that is no longer ours, success only of what succeeded and was read to its
  end, and a return within the limits.
* **Reply stream**: the reply is what was sent, for every way of cutting it into
  chunks; a reply fails for what the server sent, and for nothing else. (That no half
  call gets to the loop is refuted: run `stream_cut`.)
* **MCP servers**: all servers or none; answers are used for the request they
  answer; the protocol's order is kept; the session names what is connected.
* **Session file**: after any crash the file is one that was saved, whole.
* **File tools**: a patch does what its entries mean or nothing; a failure that the
  loop may recover from has changed nothing; what is read is what is there.
* **Harness**: success is recorded only where every step, the archive, the verifier
  and the acceptance agree on it; the records found after a crash agree.
* **Context limits and conversation**: no more is cut than must be, outputs of tools
  first and the oldest before the newer; whatever is cut, skipped or resumed, answers stay
  with the calls they answer, and a repair turn is still known as one.
* **Repository tools**: `git_commit` names the commit it made, says failure only of what
  it did not do or lost sight of, and commits nothing outside the workspace.

`PROJECT.json` lists under `hazards` where each of these can go wrong, with the
line and the properties that would notice.

## 2. Modules

| Module | What it models |
|---|---|
| `Plan` | the plan of a session and the operations on it (`state.cpp`, the step functions of `agent_loop.cpp`); `WellFormedPlan` is stronger than what `validate_plan_or_throw` accepts (`src/state.cpp:269`): it also says how the steps, the current one and the outcome go together |
| `ToolFailure` | how a tool result is judged: `Classify`, `Fingerprint`, `Contaminated` |
| `AgentLoop` | `agent_run` and `main()` around it, one process after the other on one session file; EXTENDS the two above |
| `PlannedSession` | abstract: the promise about the progress in the session file; `AgentLoop` implements it |
| `AgentLoopProofs` | lemmas about the plan operations, theorems about the loop that hold each other up, then about what the loop keeps account of, and that it implements `PlannedSession` |
| `ChildProcess`, `ChildProcessProofs` | the three ways a command is run, and theorems about them |
| `ReplyStream`, `ReplyStreamProofs` | one streamed reply, from bytes to assistant message; theorems on what the reply is made of |
| `McpSession`, `McpSessionProofs` | the MCP servers of a run, and theorems about them |
| `WorkspaceFile`, `WorkspaceFileProofs` | the file tools on one file, and theorems about failures, patches and reads |
| `SessionRegister` | abstract: what a session store promises, a register replaced whole or not at all |
| `SessionFile` | `JsonFileStateStore` step by step; it implements `SessionRegister` |
| `Conversation`, `ConversationProofs` | the messages of a session through turns, cuts, saves and resumptions; EXTENDS `SessionFile`; theorems about both |
| `GitCommit`, `GitCommitProofs` | `git_add` and `git_commit` among others that use the repository; theorems on what is committed and on what is answered |
| `Harness`, `HarnessProofs` | runs of the benchmark harness under one run id, and the directory they leave; theorems about their judgement and about the directory |
| `MC…` | values of constants for TLC |

`ReplyStream`, `ChildProcess`, `McpSession` and `WorkspaceFile` are each the inside of
one step of `AgentLoop`: what `ReceiveReply` or `RequestFails` takes from the model, and
what `RunTool` takes from a tool. In `AgentLoop` these steps are free choices over every
outcome; the modules say which of them can come about, what they mean, and that
they come about (`EveryRunEnds` rests on requests and tools returning). `GitCommit` is such an
inside too, of the two tools of the repository that change it. `SessionFile` is the
inside of `SaveSession` and `SaveFails`, which `AgentLoop` takes for one step; that this is
right is what the theorem `SessionFileIsARegister` says. `Conversation` is the same loop
seen from its messages, composed with the steps of `SessionFile`: where `AgentLoop` counts
messages, it has them in order, and where `AgentLoop` has the plan, it has the state of its contract
only. `Harness` stands
beside the agent: its steps are commands run by `run_subprocess_capture`, the
`capture` runner of `ChildProcess`, of which it takes any result.

### AgentLoop

State: `session` is the `SessionState` in memory, `disk` the one in the file, `run`
the local variables of `agent_run`, `pc` where the process is. A session is reduced
to what control depends on: plan, planner contract (`planState`, `needsPlan`,
`repairAttempts`, `artifact`), turn and call counters, call records by status,
number of observations, calls not answered (`open`), and whether its texts can be
serialised (`torn`). Texts, titles, metadata, prompts and wording are left out; the
influence of the prompt on planning is a free choice. A plan contract is "none",
"malformed" or "valid" with a number of steps: the rules that decide which text is
which are not modelled.

Actions are the code between two points where something else can intervene: `Boot`
(load and prepare), `EnterRun` and `StartTurn` (`agent_run` up to the request),
`ReceiveReply`/`RequestFails`, `AcceptPlan`/`RequestRepair`/`RejectRepair`/
`ClosePlanner` (a planning turn), `BlockReentry`/`ReplyWithoutTools`/
`ReplyWithTools` (any other turn), `StartCall`, `RunTool`, then `NextCall`,
`FatalFailure`, `RetryBudgetExceeded` or `Recover` by the class of the result,
`SkipCall`, `AfterTools`, `FinishRun`, `SaveSession`/`SaveFails`, and `Crash`.
`Emit` lets a sink refuse the event at the end of an action and `TraceRefused` one
before it: the exception leaves `agent_run`, and main saves what there is. Faults
are chosen by a constant, so that a run can say which of them it assumes.

`run.first`, `run.failed` and `run.met` record history for the properties only; no
action reads them.

### ChildProcess

`child`, `helper` (one background process the command may leave, in or out of its
group), `holders` and `piped` (who can write to each pipe, and what is in it) are the
outside; `pc`, `parent` the runner's position and local variables; `kind` says
which of the three it is. The outside moves at any time: the child gets its group,
writes, closes a stream, leaves a helper, exits; time passes the deadline. The
runner's actions are the pieces of its poll loop: `TryReap` (build only), `TimeOut`,
`InTime`, `Poll`, `PollError`, `ReadChunk`, `ReadEnd`, `Finish`. Where the runners
differ (build reaps first, reads until the pipe is empty, has no output limit and
goes on to the next step) the action says so. A command is killed with two system calls: `Kill`
is `killpg`, which ends the whole group or finds none; `FallBack` is the `kill` that follows in
the second case, and between the two the child may get its group and leave a helper in it.
`capture` called with a `timeout_ms` of zero or less has no deadline (`src/subprocess.cpp:88`); the default
is an hour, no scenario changes it, and the model has a deadline always.

### ReplyStream

The server writes events; on the wire an event is one piece followed by the pieces
of its blank line in either form, so that a chunk can end inside the blank line.
`Receive` is the write callback for a chunk of any size: limits, `Feed`
(`SseParser`), `Interpret` (`llm.cpp`), `Ingest` (`ToolCallAssembler`). `Parsed` is
the parser's loop as a recursive function on the pieces, `ReadEvent` one round of it;
`Interpreted` hands the events of a chunk over in their order. A transfer may fail or just
end at any moment; then `Finalizes` decides. The index of a call is only compared with others,
so indices are any set.

### McpSession

`specs`, `phase`, `current`, `pending`, `nextId`, `initialized`, `listing`,
`connected`, `records`, `observed` are the clients, the session and what it writes
into the session state; `process`, `inbox`, `out` the servers. A server may answer
one of the last requests it was sent, with a good or a bad result, an error, an id
that cannot be used, rubbish, a notification, again and again, or die. The client
sends, skips what does not concern it, refuses what it cannot use, and fails the
whole start if one server fails. A call ends with an observation (`CallReturns`,
`CallReturnsNoObject`, `CallFails`), or without one when its result cannot be shown and the
exception goes up to the registry (`CallThrows`).

### WorkspaceFile

`file` is one file, there or not, with a text of characters (one of them NUL, which makes
it binary). `approved` is the approval setting; `call` and `pc` are the call that is carried
out and where it is, `seen` and `truncated` what it has read, `text` and `written` what it
writes, `result` its answer. `base` and `outside` record, for the properties, the file as the
call found it or others left it. `OpenToRead`, `ReadPiece`, `ReadEnd`, `Probe` are `read_file_safe`, which `read_file_safe`
the tool and `apply_patch` share with different limits; `Probe` is the byte it reads behind
the limit. `Unpatchable`, `RejectFile`, `RejectEntry`, `AcceptPatch` judge a patch
against the text that was read (`Reject`, `Count`, `Replaced`, for a batch `Patched`,
entry after entry on each other's results); `AcceptWrite`, `OpenToWrite`, `WritePiece`,
`WriteDone` are `write_file_safe`. Any read, open or write can fail, a registry can block a call
or a tool refuse its arguments, and others (an editor, a process left by `bash`) can
change or remove the file between any two steps. When the probe fails, the code takes the file to end at
the limit; `outside.blind` records that for the properties, and `Visible` is what there is of the
file for such a call. What a path is allowed to be is one free
choice between accepted and refused.

### SessionFile and SessionRegister

A session is written in `NPieces` pieces. `file` and `temp` are the session file and the
temporary file beside it, as the pieces they hold; `saving`, `at`, `written` where a
`save()` is, `answer` what the last one said. `BeginSave`, `RefuseSave` (not valid, not
serialisable, no directory), `OpenTemp` (with truncation), `OpenFails`, `WritePiece`,
`WriteFails`, `Rename`, `RenameFails` are `save()` from top to bottom; `Discard` is its
clean-up, which may fail in silence. `Die` is a process killed between any two. `Missing`,
`Loadable` and `LoadFails` are the three answers of `load()`. The register has what a load
would find (`kept`), what is being saved (`asked`) and what was answered (`told`).

### Conversation

`session` has the messages, the state of the planner contract and the two counters that
limit a run; `run` the local variables of `agent_run`. A message is its kind, which of the calls
it answers, whether it was skipped, and the length of its content; `dropped` says that the
content is the placeholder of `enforce_context_limits`. `EnforceContextLimits` is
that function's loop, `TruncateToolOutput` the bound on an output, `IsPlannerRepairTurn` how
`llm.cpp` tells a repair turn (it then offers no tools). The actions follow `agent_run`, from
`StartTurn`, which cuts and sends, over what the reply is (`AcceptPlan`, `RequestRepair`,
`RepairNotSent`, `RejectRepair`, `BlockReentry`, `ReplyWithoutTools`, the two limits on calls) to the calls
(`RunTool`, `ToolSucceeds`, `ToolStopsRun`, `Guide`, `Skip`, `EndSkips`, `EndCalls`); `Abort`
is a sink that refuses an event, and `RepairNotSent` one that refuses it between the state of a
repair and its prompt. `SaveSession` hands the session to `SessionFile`, `GoOnSaving` takes its
steps, `Boot` and `BootFails` load what is there, `Crash` ends the process anywhere.

### GitCommit

`commits` (the parent of each), `head`, `reflog` and `staged` are the repository; `prefix`
says whether the workspace is all of it or a part, `logs` whether it keeps a reflog. `pc` is the
next git command of `git_commit`: `ListStagedPaths`, `ResolveHead`, `ListReflog`, then git commit
itself (`HookStages`, `MakeCommit`, `HookCommits`, ended by `EndCommit` or `LoseCommit`), then
`ResolveHeadAfter`, `ListReflogAfter` and `Judge`, with `FirstNewCommitFromReflog` and
`AncestryPath` as the two ways to tell which commit it was. `OtherStages`, `OtherCommits`,
`OtherResets` and `OtherExpires` are anybody else, at any moment. `disturbed`, `restaged`
and `unseen` record for the properties what they did and what the call could not see.

### Harness

`disk` is the directory of a run, `plan` and `run` the objects in memory. Between two
decisions `run_harness` writes files and events in a fixed order: `todo` holds those
still to come, `Perform` does the next, `PerformFails` makes it throw, `Crash` ends
the process between any two. The decisions are `Start`, `BeginStep`, `RunCommand` (any
`SubprocessResult`), `FinishPlan`, `Archive`, `Verify` (any answer of an adapter, statuses
that are none included, and exceptions) and `Return`. A file is replaced by renaming a
temporary one, so it is old or new; when the rename fails the old file is removed before a
second try, which may leave none (`Vanished`). An event may be lost after it was
accepted, since the stream is flushed only when it is closed.

## 3. Runs

| Run | Constants that matter | What it shows |
|---|---|---|
| `loop` | 3 processes, 4 turns, plans of up to 2 steps, up to 3 calls in a reply, 2 accepted per turn, 3 in total, 1 retry, all faults | all safety of the loop under `main()`; the loop implements `PlannedSession` |
| `embedded` | 2 processes, no preparation by the host, other failures, fairness | a contract left open by an earlier process is still honoured, and repaired once; every run ends |
| `persisted` | only the "torn" fault | finding: a cut inside a character keeps the session from being saved |
| `child` | three runners, 1 chunk of limit and of pipe, 2 build steps, `poll` may fail | the safety of the runners, and that they return from polite commands |
| `bash_ceiling` | one runner | finding: a command that holds the runner past its deadline |
| `stream` | 3 events, calls with three indices (interchangeable), 2 calls accepted, 2 parts of arguments, the limits on stream, event and calls within reach | the reply is what arrived, for every cut; it fails for what the server sent, and for nothing else |
| `stream_cut` | 2 events | finding: a transfer that ends early is a complete reply |
| `mcp` | up to 2 servers, 2 tool names that collide as aliases, at most one of them on a page, 1 cursor, 2 pages, 3 connections and observed calls together, next ids of up to 7 together | all or none, answers to the right request, requests end |
| `files` | 2 calls, texts over two letters and NUL of up to 5 characters around limits of 3 and 4, batches of up to 2, one change by others, all failures, those of the probe included | a patch does what its entries mean or nothing; what may be retried changed nothing; what is shown is what was there, as far as the call could see |
| `conversation` | 2 processes, 3 turns, up to 3 calls in a reply, 2 accepted per turn, 4 in total, a context limit of 15 units with outputs of 1 or 4 and texts of 0 or 7, a session written in 2 pieces, all faults | the cut is the least possible; answers stay with their calls; repair turns are recognised; the file implements `SessionRegister` |
| `git` | one path inside, one outside, both kinds of workspace, 3 commits, 3 entries of the reflog, with and without a reflog, others at any moment | the commit that is named is the one that was made; nothing outside the workspace is committed |
| `harness` | 2 runs under one id, 2 steps, 1 lost event, all faults | success is only recorded where earned; records agree after any crash, but for a directory that was removed in part only (`OfOneRun`) |

Why the bounds are enough. Three processes are the fewest in which a session is
left by one, resumed by a second and found by a third in the state the second left
it in. Two steps give a first, a last and a change between them; one retry makes
both "again" and "too often" happen, and four turns let two failures alternate. A
batch of three exceeds the limit per turn, and two of two exceed the total. A pipe of
one chunk already blocks its writer and a limit of one chunk is exceeded by the
second; two build steps share a deadline. Three events suffice for two to
interleave with a third cut, and for `[DONE]` to be followed by something; the
limit on arguments alone is out of reach (a fragment beyond it is the fourth event of its
call) and is left to the theorem `FailuresHaveCause`. Two
servers are the fewest of which the first must be taken down when the second
fails; two pages make a cursor come back, and a name or an alias come again (the model
has pages of any size, `Pages`, and the theorem `ToolsCanBeToldApart` is about all of them). Two calls are the fewest in which the second finds what the first left; two
entries of a batch the fewest of which one can depend on the other; texts one piece
longer than a limit tell "as long as" from "longer". Two steps of a scenario give one after a
success and one that fails; the second run under an id finds a finished, failed or
half-written directory. In `mcp` the next ids of all
clients come to 6 when two servers are connected with one page each, so that a call that throws can be followed by one
more (`MaxIds`). `MaxLate` lets a server answer an old
request in place of the present one; `MaxQueue` is one because messages of a server
are read one at a time and nothing in the client depends on how many wait.

In `conversation` a limit of 15 units is passed by the outputs of one batch, by one long text,
and in the first messages of a resumed session alike, so that outputs alone, outputs and texts,
and even a repair prompt get cut; two processes are enough for what one leaves (a half-written
temporary file, a repair prompt at the end, calls without answers) to be met by the next;
two pieces make a text that is neither empty nor whole. What a process that died while it
saved leaves in the temporary file is bounded to conversations of four messages
(`ShortLeftovers`): a save truncates it, whatever it is. Three commits let one be before the
call's own and one on top of it, or be made by someone else. Until a call looks at
HEAD there is at most one commit (`ShortHistory`): a longer history before it is to the call what a
short one is, since only what is new to HEAD and reflog counts.

What the properties say is written above each of them. `TypeOK` is a type
invariant (that of `ReplyStream` is part of no run: `StreamTypes` proves it); the rest are about orders of events that take several
steps, often of several actors, to go wrong.

### Fairness

Only the program's own steps are fair: `WF(RunStep)` for a process that was started
(its requests and tools return or time out, as `ReplyStream` and `ChildProcess` look
at from inside), `WF(Runner)` and the passing of time for a runner, `WF(Client)` for
an MCP client, whose reads have time limits. A sequential process that is
scheduled has exactly this. Nothing is assumed of the model, the commands or the
servers. Where the code needs their cooperation, the property says so in its premise:
`Returns` is about commands that keep a stream open while they run and do not write
for ever, and `RequestsEnd` about servers that fall silent; the run `bash_ceiling`
shows that the premise of the first is needed. A new process is not
fair: `EveryRunEnds` is about those that start.

## 4. Findings

1. **persisted**: `truncate_tool_output` (`src/agent_utils.cpp:8`) cuts at a byte
   offset. Cut inside a UTF-8 sequence, the text makes the next turn throw and the
   session unsaveable; the run is over and the file keeps the old state.
2. **bash_ceiling**: `include/bash_tool.hpp:22` calls `timeout_ms` a global ceiling;
   once both streams are closed the wait has none (`src/bash_tool.cpp:190`, and
   `src/subprocess.cpp:167` alike).
3. **stream_cut**: neither the HTTP status nor a missing `[DONE]` is looked at
   (`src/llm.cpp:422`); `book/src/03-http-llm-streaming.md:64` says the loop never sees
   half a network state. A call that was cut off between its name and its first arguments
   is part of such a reply: `finalize` (`src/tool_call_assembler.cpp:83`) gives it an empty
   object, and the loop executes it.

Three more disagreements are not kept as runs, since the model shows them without: in two
of them a property that a run checks names the case as its exception, and is false without it.

* A command over its limit is killed with `killpg` and, if there is no such group yet, with
  `kill` (`src/bash_tool.cpp:115`, `src/subprocess.cpp:90`, `src/build_test_tools.cpp:77`).
  Between the two calls the child may enter its group and leave a background process there,
  which survives; `book/src/04-tools-and-safety.md:82` says the process group is killed.
  `KilledMeansGone` holds with this one exception (`missed`).
* `read_file_safe` takes a failing probe behind the limit for the end of the file
  (`src/read_file.cpp:131`), although the reads before it report errors; `apply_patch` then
  writes the patched part back as the whole file, while `include/apply_patch.hpp:53` promises
  that a truncated read is refused. `PatchIsExact` and `ReadIsHonest` are about what such a
  call could see of the file (`Visible`).
* `book/src/04-tools-and-safety.md:65` says the loop stops directly after a contaminated
  result; the code recovers from blocked calls, inspectable patch rejections and failed
  builds (`Recover` of `AgentLoop`, `src/agent_loop.cpp:1639`).

## 5. Proofs

### The loop (`AgentLoopProofs`)

From `LimitsAssumption`, `ResultsAssumption` and `FaultsAssumption` (any limits, any set
of tool results, any set of faults, both hosts): `TypeCorrect`, `PlanStaysWellFormed`,
`ContractFollowsPlan`, `ContractComesFirst`, `CallsAreAnswered`; and, for a host that
prepares the session, `PlanPrecedesTools`.

None of these is inductive alone, and they hold each other up, so they are proved at
once from

    IInv == TypeOK /\ PlanWellFormed /\ ContractMatchesPlan /\ CallInv /\ TurnInv

* That a completed step exists at all (`TypeOK`: the current step is in range) follows
  from the plan being well formed; that a plan stays well formed when a step is failed or
  completed follows from the plan being active, which follows from the turn
  being an execution turn.
* `run.executing` is read at the start of a turn and used after the request and the
  tools. `TurnInv` says that what was read is still true at every point where it is
  used: an execution turn has an active plan, a planning turn a contract that is
  awaited, and never both.
* `ContractMatchesPlan` carries this over a process: what is in the file when a
  process dies satisfies it, so the next process is prepared from a good session.
* `CallInv` counts: calls open are calls pending plus the one under way, which gives
  `EveryCallIsAnswered`, and that no record is left started outside a call.

`PlanPrecedesTools` adds `PlanOwnsTools`: under `main()` a session that needs a plan
has either one that is carried out or no tool calls; it is false for a host
that does not prepare the session, which is why the theorem assumes it.

The module starts with what the operations on a plan preserve, and that the loader's and the
loop's test of an active plan agree on well-formed plans (`ResumeTestsAgree`).

### What the loop keeps account of (`AgentLoopProofs`, second part)

On top of `IInv`, each with an invariant of its own:

* `ToolBudgetIsKept` and `RecordsStayClosed`. `LedgerInv` balances the books of the
  session in memory and of the one in the file: calls requested are calls recorded plus
  those still pending, observations are finished and skipped calls, and at most one record is
  open, during a call.
* `RetriesAreBounded`. The property is about `run.met`, which counts every failure; the code
  counts in `run.retries`, which it looks at only where it may retry. `RetryInv` says how the two
  are related until the run ends: equal, but for the failure that has just been judged.
* `CompletionIsClean` (an action property). `run.failed` records that a tool of the turn failed;
  the code's own condition is made of the class of each result. The two agree only if a
  patch or build that says it worked carries no sign of failure. `SuccessAssumption`
  states this of `ToolResults`; `apply_patch.cpp` and `build_test_tools.cpp` set `ok` only there,
  and TLC evaluates it for the results of the runs.
* `OneRepairOnly` (an action property), over all processes.
* `LoopKeepsPromise`: `Spec => KeepsPromise` for a host that prepares the session, the
  refinement of `PlannedSession` under which the progress in the file never goes back. The
  abstract state is the view of the session in memory and of the one in the file (`View`); each
  action is shown to map to one abstract step or to none. Its premise is the one the
  promise itself has: without preparation the next process may start over.

### Child processes (`ChildProcessProofs`)

From `RunnersAssumption`, for every output limit, pipe size and number of steps:
`TypeCorrect`, `NoZombieHolds`, `KilledIsGone`, `SignalsAreHome`, `SuccessIsHonest`. The
inductive invariant adds what a runner believes while it reads (`ReadingInv`: nothing
was killed yet, bash and capture have not reaped), that a `kill` follows only when `killpg` found no
group (`ExitInv`, `KillStep`), that a stream it has closed is
really at its end and that reading ends for one of three reasons (`EndInv`), and that
an exit status is that of a child that has ended (`ExitInv`). `SuccessIsHonest` needs all
of them: success after reading to the end is only honest if the end was seen.

### Reply stream (`ReplyStreamProofs`)

`StreamTypes`, `FailuresHaveCause` and `RepliesReadWhatArrived` (`TypeOK`, `FailsForCause`,
`ReplyReadsWhatArrived`), from `StreamAssumption`: for any indices and limits, any number of
events, either blank line behind each, and every way to cut what is sent into chunks. The
invariant (`Inv`) has one number `d` at its centre, the events taken so far:

* `Progress`: what waits in the parser is exactly the pieces that have arrived behind the
  first `d` events (`Spans`), and none of it is a whole event; or `[DONE]` stands behind them
  and has arrived;
* `Made`: the reply is a function of the first `d` events and of nothing else (`MadeOf`), so the
  chunks they came in cannot show in it, and they are within the limits (`WithinLimits`);
* `Ordered`: the fragments of a call are sent in order, however calls interleave.

A chunk moves `d` (`ChunkIsRead`). That rests on two halves. On the wire, a text that begins with an
event ends behind it, at the blank line that follows, if and only if all of it is there
(`EndsOfText`: the two forms of blank line cannot be mistaken for each other, not even cut in the
middle); so a round of the parser takes the next event (`SomethingToRead`) or finds nothing
(`NothingToRead`), and as many rounds as there are pieces take all that is whole
(`ParserReads`), which is also why the model's bound on the rounds takes nothing away from the
`while (!done_)` of the code. In the reply, one event more makes `MadeOf(s, k)` of
`MadeOf(s, k - 1)` or fails (`InterpretMakes`). The three recursive functions (`Pieces`, `Parsed`,
`Interpreted`) are shown to exist and unfolded by induction over sets of numbers
(`SetInduction`). `DeliveredAre` says at last that the events the properties count are the
first `d`. `FailuresHaveCause` needs both directions: that the calls and the arguments among the first
`d` events stay within the limits exactly as long as nothing was refused (what came before is a part of
what came by now, so an excess never goes away), and that what waits is too long exactly when the
property's `Overrun` says so. The theorem assumes of the server what the model does: that it writes fragments in
order, and one event between two blank lines.

### File tools (`WorkspaceFileProofs`)

`RejectionChangesNothing`: for every set of texts, every limit and whatever fails or is
changed by others, a result the agent loop may recover from (a rejected patch, a
blocked call: those it offers to the model for another try) has left the file alone.
This is the premise of recovery in `AgentLoop`. It is proved from `UntouchedInv`: until
the file is opened for writing it is as the call found it or others left it, and what is
answered after that is a success or fatal to the run; the position of the call decides
which half applies. That the latter results are indeed not recoverable is a lemma about
`Classify` (`FatalResult`).

`PatchesAreExact` and `ReadsAreHonest` (`PatchIsExact`, `ReadIsHonest`): for all texts, entries,
limits and sizes of the pieces, what an applied patch leaves is the one text its entries mean
in their order, a rejected one names the file or the first entry that does not fit
exactly one place, and a read shows the whole file or says that it does not. A call whose probe
failed is about the start of the file it could see (`Visible`; section 4). As in the properties,
nothing is promised about a call during which others changed the file. The inductive invariant
`FileInv` (TLC checked it on the run's instance first) adds to the two properties

* `TextsInv`: the types the texts need;
* `ReadInv`: what has been read is the start of the text the call found, all of it or as much
  as the limit unless it is still reading; `truncated` is said only of a longer file, and when it is
  not said, what was read is `Visible`;
* `WriteInv`: an accepted patch holds the one text its entries mean, and what is in the file
  while it is written is the start of that text, as far as it was written.

The work is in the operators. The code looks for a fragment twice, once for where it is and once
for how often (`Find`, `Count`), and applies entries one after the other on each other's
results (`Patched`); the properties are stated with the places of a fragment as a set (`Sites`)
and with the set of texts a sequence of entries can mean (`Meaning`). `Find` is shown to give the first
place of the set, `Count` to be 0 exactly for the empty set and 1 exactly when that place is the
only one (`CountIsHits`; which number it is otherwise does not matter), and `PatchedIsMeant` that the result of a batch is the only element of its meaning, or stops
at the entry at which the meaning becomes empty. The recursive functions among them are
shown to exist, and then unfolded, by induction over a set of numbers (below).

### Harness (`HarnessProofs`)

`WorstIsAccepted`: for any number of steps and whatever the verifier answers, a run is
accepted as no better than the worst of what was found. `base_acceptance_from_steps` only
looks at the first failure, so `JudgeInv` says that a run stops at a failure (all results
but the last are successes, and all of them while steps are still started);
`ExecutionIsWorst` and `MergeIsWorst` turn that into a bound, and `VerifyJudges` carries it
through the four cases of the verification.

`RunSuccessIsEarned` and `RunRecordsAgree`: what is found in the directory, for any number of
steps and runs, every fault, and a process that dies between any two writes. What makes them
true is not what has been written but in which order the rest will be, so the invariant
(`RunInv`) speaks of `todo`:

* `MemoryInv`: the plan and the run in memory agree step by step, and a run that is called
  successful has a completed plan and only successes;
* `QueueInv`: each event to come is due, that is, by the time it is written, all it tells of is in
  the directory or earlier in the queue, and nothing is written after `run.json`;
* `FilesInv`: each file is that of the memory, or one change behind it while it is still in
  the queue, and a `run.json` that says "succeeded" means that no write is left;
* `TraceInv`: what the trace tells stays true as the run goes on.

An end of the run (return, exception, kill) forgets the memory and the queue, and the two
properties are what remains of the invariant in the directory (`RunningRecords`). `Perform` is
proved once for every effect (`TakeOne`, `WriteKeeps`, `EmitKeeps`, `QueueShrinks`), every other action by
the queue it fills (`ChangeKeeps`).

### MCP servers (`McpSessionProofs`)

`TypeCorrect`, `NoProcessIsOrphaned`, `ToolsCanBeToldApart`, `RecordsFollowServers` and
`OnlyAnswersAreUsed`, for any servers, tools, pages and messages, from `McpAssumption`. The
inductive invariant has five parts: types; which processes exist in which phase
(`ProcessInv`); what may be on the wire (`WireInv`: ids are below the next one and never those of two requests of a client, and every
answer is to a request that was sent, so no late answer carries the id of the request that is
waited for); the tools collected so far and those of every connected server have distinct aliases
(`AliasInv`); and the records. `OnlyAnswersAreUsed` is an action property that needs
`WireInv`.

### Session file and conversation (`ConversationProofs`)

`SessionFileIsARegister`: `FileSpec => KeepsRegister`, for any set of sessions, any number of
pieces and any set of failures. The refinement maps the register to what a load would find
(`Kept`). The inductive invariant (`FileInv`) says that while pieces are written the temporary file holds
the session being saved in all the pieces written so far (none after the truncation, and
none of another session ever counts as written), and that the session file is whole or not there;
so a rename, which comes after the last piece, installs a whole
text (`WrittenIsWhole`, `KeptOfWhole`), and every other step leaves what a load finds.

`ConversationKeepsRegister` carries this over to the file as the processes of `Conversation` use
it: each of their steps is a step of the file or leaves it alone (`NextIsFileStep`).
`ConversationTypes`, `CutsAreLeast`, `AnswersAlwaysBelong` and `RepairsAreRecognised` are about
what is in it, for all limits, lengths, batch sizes and faults and any number of processes. These
five assume `SessionRecord \subseteq Sessions`, that any session can be saved; it is a
hypothesis of the theorems and no ASSUME because TLC cannot enumerate the sessions (the run sets
the two equal).

The invariant (`ConversationInv`, checked by TLC on the run's instance before it was proved) adds to
`FileInv` that what is in the file or being saved may be taken up again (`KeptInv`), and for the
process (`LoopInv`):

* `Sound`: bounds of every message. Outputs of tools are never empty, which is why those that are
  left are among the contents that can still go (`Outspoken`).
* `BlocksInv`: what follows each reply has one of three shapes: the answers of its first calls,
  run; those, the guidance, and the answers of skipped calls; or one repair prompt (`Shape`).
  Only the replies of earlier runs and the one at work may be incomplete; which reply that is, how
  far it has come, and that `run.next` says so, is told for each point of the loop
  (`Midway`). A cut changes no shape (`CutBlocks`), and `BlocksBelong` reads `AnswersBelong` off the
  shapes.
* `RepairInv`: while a repair is awaited its prompt is the last message, and what was read of the
  plan before the request (`run.planning`) is still true of it when it is used.

`CutsAreLeast` is about a loop against a declarative definition. What is left after each round
is the messages without the contents in a set that goes first (`GoesFirst`: outputs
before the rest, the oldest of both, and not even one less would do), and as long as it does not fit the set
has as many members as there were rounds (`RoundsDrop`); so after as many rounds as there are
messages it fits or nothing is left (`CutResult`), which is also why the model's bound on the rounds
takes nothing away from the loop of the code.

### Repository tools (`GitCommitProofs`)

`CommitsStayInside`: for any paths, bounds and histories, a commit made by `git_commit` has
only paths that are allowed, unless others staged something after the list was made. The
invariant adds that from the moment the list was accepted until the commit is made the index is
within the allowed paths; hooks, the one thing inside the call that could change that, are
either turned off or everything is allowed.

`AnswersAreTrue` (`AnswerIsTrue`): for any history of the repository and any number of hooks,
other commits, resets and expiries, as long as nobody moves HEAD before the commit is made or
resets it later, the commit `git_commit` names is the one it made, and it names none only when
it made none or lost sight of git. The invariant (`AnswerInv`, which TLC checked on the run's
instance) says what the call may still rely on: HEAD is where it was until the commit is made,
and from then on every commit is the child of the one numbered before it (`HeadIsWatched`); the
reflog is made of `y` entries for this commit and later ones, then the newest of those read
before (`LogIsWatched`). Three lemmas turn that into the answer: the oldest entry that is new is
`call.made` or there is none (`ReflogFindsMade`: if older entries have expired, the entries from
before are no longer the tail, because a later commit has a larger number than any of them); the
path between the two HEADs starts with `call.made` (`PathFindsMade`), and there is no path from
a commit to itself (`NoPathToItself`). The last two are about the recursive function `History`;
they rest on an induction over the commits, which is done here over a *set* of numbers
(`SetInduction`, from `WFMin` and the well-foundedness of `<`), since the library's induction
theorem cannot be used (it takes an operator); that the function exists is proved the same way
(`SomethingTells`).

### Only model-checked, and why

* Liveness (`EveryRunEnds`, `Returns`, `RequestsEnd`) and anything with ENABLED: the
  prover does not handle fairness.
* What the findings refute (`SessionIsPersisted`, `CeilingHolds`, `NoHalfReply`) is false, so
  there is nothing to prove.

## 6. Not modelled

`agent_run` without a session; the texts of prompts, contracts and messages; the tools of the
repository that only look (listing, searching, `git_status`, `git_diff`, `git_show`: parsing and
limits); two processes that save one session at the same moment (they share the one
temporary file, `src/state_store.cpp:114`) and what a machine that stops does to files that were not
synchronised; skills; approval settings that block a tool (that one is blocked is a free choice); dry
runs; refusal of dangerous commands; path checks and the creation of directories; a file
that is removed while a tool holds it open; what `DocAutomationScenario` archives and verifies; torn lines of a trace; failures of `pipe` and `fork` (nothing was started then); the
non-streaming request; framing and JSON of MCP messages; configuration, logging and the
documentation tooling. The component list in `PROJECT.json` has the reason for each.

Known and left open, with no property: others that commit or reset while `git_commit` is
under way make it name their commit or report a failure (`src/repo_tools.cpp:1188`; `AnswerIsTrue`
excludes them), and what they stage after the check is committed (`src/repo_tools.cpp:2306`);
a repair prompt left at the end of a session makes the first request of the next process a
repair turn, without tools, although no repair is awaited (`src/llm.cpp:222`;
`RepairIsRecognised` names the case); the system prompt of a resumed session is the one it was
started with (`src/state.cpp:588`); `include/agent_utils.hpp:9` says the messages are kept under the
limit, which they are only as far as there is content to drop; the inner read loop of build steps
(`src/build_test_tools.cpp:230`) looks at no deadline while a command keeps writing, which is
why `Returns` is about commands that do not write for ever; a directory of a reused run
id that could be removed only in part may keep an old `run.json` (`src/harness.cpp:673`);
a new prompt is not added to the messages of a
resumed session, yet decides whether a plan is needed (`src/agent_loop.cpp:1146`); turns are
counted over the whole session, so that one that reached its limit ends every later
run at once (`src/agent_loop.cpp:1171`); arguments that do not parse are replaced by an
empty object (`src/agent_loop.cpp:1094`); `bash` and `capture` keep descriptors when the second
pipe or the fork fails (`src/bash_tool.cpp:49`); an exception of the stream parser passes
through the C callback of the transfer (`src/sse_parser.cpp:13`).

## 7. Plan

What is left to model, in this order: two processes that save one session at once, which
`SessionRegister` may not survive; the JSONL sink with a disk that fills up (a prefix of the
events, at most the last line torn); which tool is blocked under which approval settings;
the bounded output of the tools that only look.

Every invariant and every safety property of the passing runs is stated by a theorem. What is left
to prove comes with what is left to model.
