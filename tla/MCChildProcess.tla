--------------------------- MODULE MCChildProcess ---------------------------
(* The runners that the runs of ChildProcess consider. *)
EXTENDS ChildProcess

AllKinds == {"bash", "capture", "build"}
BashOnly == {"bash"}
=============================================================================
