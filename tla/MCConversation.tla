--------------------------- MODULE MCConversation ---------------------------
(* Conversation on a small instance: see README, run "conversation". *)
EXTENDS Conversation

MCSessions == SessionRecord

MCFaults == FileFault

\* Bound: what a process that died while it saved left in the temporary file.
ShortLeftovers ==
  pc = "saving" \/ temp = NoFile \/ temp[1] = Gap \/ Len(temp[1].messages) <= 4
=============================================================================
