---------------------------- MODULE SessionRegister ----------------------------
(***************************************************************************)
(* What a session store promises: a session that is being saved replaces   *)
(* the one that is kept, whole and in one step, or it does not, and the    *)
(* caller is told which.  A caller that dies is told nothing, and nothing  *)
(* happens on its behalf afterwards.                                       *)
(***************************************************************************)
CONSTANTS Sessions, NoSession

VARIABLES
  kept,    \* the session the store would load now, or NoSession
  asked,   \* the session a process is saving, or NoSession
  told     \* "none", "saved" or "refused": the answer to the last save

vars == <<kept, asked, told>>

Init == kept = NoSession /\ asked = NoSession /\ told = "none"

Ask ==
  /\ asked = NoSession
  /\ asked' \in Sessions /\ told' = "none"
  /\ UNCHANGED kept

Save ==
  /\ asked # NoSession
  /\ kept' = asked /\ asked' = NoSession /\ told' = "saved"

Refuse ==
  /\ asked # NoSession
  /\ asked' = NoSession /\ told' = "refused"
  /\ UNCHANGED kept

Abandon ==
  /\ asked # NoSession
  /\ asked' = NoSession
  /\ UNCHANGED <<kept, told>>

Next == Ask \/ Save \/ Refuse \/ Abandon

Spec == Init /\ [][Next]_vars
=============================================================================
