---------------------------- MODULE MCReplyStream ----------------------------
(* The runs of ReplyStream: which index a tool call has makes no difference, *)
(* only which fragments have the same.                                       *)
EXTENDS ReplyStream, TLC

SameCalls == Permutations(Indices)
=============================================================================
