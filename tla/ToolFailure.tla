----------------------------- MODULE ToolFailure -----------------------------
(***************************************************************************)
(* How the agent loop judges the result of a tool call: is it a failure,   *)
(* may the model try again, and which earlier failure does it repeat.      *)
(*                                                                         *)
(* A result is a record of the fields the judgement reads.  "args" and     *)
(* "detail" stand for the call's arguments and for the remaining fields    *)
(* the fingerprint mixes in (patch index, exit code, failed tests).  The   *)
(* fingerprint of long arguments is a 64-bit hash in the code; collisions  *)
(* are ignored, so equal fingerprints mean equal fields.                   *)
(***************************************************************************)
EXTENDS Naturals

BuildTestTools == {"build_project_safe", "test_project_safe"}

ToolResult ==
  [tool : STRING, args : STRING, parsed : BOOLEAN, ok : BOOLEAN,
   timedOut : BOOLEAN, status : STRING, reject : STRING, detail : STRING]

FailureClass == {"none", "retryable", "needs_inspection", "blocked", "fatal"}

\* Reject codes of apply_patch after which the model may inspect and retry.
InspectableRejects ==
  {"no_match", "multiple_matches", "empty_old_text", "invalid_batch_entry",
   "file_read_failure", "binary_file", "truncated_file"}

ApplyPatchClass(r) ==
  CASE r.ok -> "none"
    [] ~r.ok /\ r.reject \in InspectableRejects -> "needs_inspection"
    [] OTHER -> "fatal"

BuildTestClass(r) ==
  CASE r.ok /\ r.status # "timed_out" -> "none"
    [] ~r.ok /\ r.status # "timed_out" /\ ~r.timedOut -> "needs_inspection"
    [] OTHER -> "retryable"

GenericClass(r) ==
  IF ~r.ok \/ r.timedOut \/ r.status \in {"failed", "timed_out"}
  THEN "fatal" ELSE "none"

Classify(r) ==
  CASE ~r.parsed -> "fatal"
    [] r.parsed /\ r.status = "blocked" -> "blocked"
    [] r.parsed /\ r.status # "blocked" /\ r.tool = "apply_patch" ->
         ApplyPatchClass(r)
    [] r.parsed /\ r.status # "blocked" /\ r.tool \in BuildTestTools ->
         BuildTestClass(r)
    [] OTHER -> GenericClass(r)

IsRecoverable(r) == Classify(r) \notin {"none", "fatal"}

\* Two failures count as the same one when their fingerprints are equal.
Fingerprint(r) ==
  CASE r.status = "blocked" -> <<"blocked", r.tool, "", "", r.args>>
    [] r.status # "blocked" /\ r.tool = "apply_patch" ->
         <<"rejected", r.tool, r.reject, r.detail, r.args>>
    [] OTHER -> <<IF r.timedOut THEN "timed_out" ELSE "not_timed_out",
                  r.tool, r.status, r.detail, r.args>>

\* Any of the signals that say the tool did not do what it was asked to do.
Contaminated(r) ==
  \/ ~r.parsed \/ ~r.ok \/ r.timedOut
  \/ r.status \in {"blocked", "failed", "timed_out"}
=============================================================================
