----------------------------- MODULE MCAgentLoop -----------------------------
(* Values for the constants of AgentLoop: one result per way the loop can   *)
(* judge a call, and the two recoverable failures a run can alternate.      *)
EXTENDS AgentLoop

Result(tool, ok, status, reject) ==
  [tool |-> tool, args |-> "args", parsed |-> TRUE, ok |-> ok,
   timedOut |-> status = "timed_out", status |-> status, reject |-> reject,
   detail |-> ""]

Read == Result("read_file_safe", TRUE, "", "")
ReadFails == Result("read_file_safe", FALSE, "failed", "")
NoMatch == Result("apply_patch", FALSE, "", "no_match")
WritebackFails == Result("apply_patch", FALSE, "", "writeback_failure")
Blocked == Result("write_file_safe", FALSE, "blocked", "")
BuildTimesOut == Result("build_project_safe", FALSE, "timed_out", "")
Garbled == [Result("mcp", FALSE, "", "") EXCEPT !.parsed = FALSE]

Judgements == {Read, ReadFails, NoMatch, Blocked}
OneFailure == {Read, ReadFails, Blocked}
OtherJudgements == {Read, NoMatch, BuildTimesOut, WritebackFails, Garbled}

AllFaults == Fault
TornOutput == {"torn"}
=============================================================================
