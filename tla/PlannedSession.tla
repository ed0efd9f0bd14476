---------------------------- MODULE PlannedSession ----------------------------
(***************************************************************************)
(* What a planned session promises, seen from outside the agent loop.  A   *)
(* session file holds the progress of one plan.  A process opens the file, *)
(* either going on with the plan that is under way or starting a new one,  *)
(* obtains a plan from the model with at most one repair, carries out its  *)
(* steps in order and either writes its progress back whole or not at all. *)
(***************************************************************************)
EXTENDS Naturals

CONSTANT MaxSteps

Progress ==
  [generation : Nat, contract : {"idle", "asked", "repair", "ready", "invalid"},
   size : 0..MaxSteps, done : 0..MaxSteps,
   verdict : {"none", "open", "completed", "abandoned"}]

Nobody == [process |-> "none"]

VARIABLES
  durable,   \* the progress the session file holds
  working    \* the progress of the process that has it open, or Nobody

vars == <<durable, working>>

Fresh(g) ==
  [generation |-> g, contract |-> "idle", size |-> 0, done |-> 0,
   verdict |-> "none"]

TypeOK == durable \in Progress /\ working \in Progress \cup {Nobody}

Init == durable = Fresh(0) /\ working = Nobody

Open ==
  /\ working = Nobody
  /\ working' = IF durable.verdict = "open" THEN durable
                ELSE Fresh(durable.generation + 1)
  /\ UNCHANGED durable

Ask ==
  /\ working # Nobody /\ working.contract = "idle"
  /\ working' = [working EXCEPT !.contract = "asked"]
  /\ UNCHANGED durable

Reject ==
  /\ working # Nobody
  /\ \/ working.contract = "asked"
        /\ working' = [working EXCEPT !.contract = "repair"]
     \/ working.contract = "repair"
        /\ working' = [working EXCEPT !.contract = "invalid"]
  /\ UNCHANGED durable

Accept ==
  /\ working # Nobody /\ working.contract \in {"asked", "repair"}
  /\ \E n \in 1..MaxSteps :
       working' = [working EXCEPT !.contract = "ready", !.size = n,
                                  !.verdict = "open"]
  /\ UNCHANGED durable

Advance ==
  /\ working # Nobody /\ working.verdict = "open"
  /\ working' = [working EXCEPT
                   !.done = @ + 1,
                   !.verdict = IF working.done + 1 = working.size
                               THEN "completed" ELSE "open"]
  /\ UNCHANGED durable

Abandon ==
  /\ working # Nobody /\ working.verdict = "open"
  /\ working' = [working EXCEPT !.verdict = "abandoned"]
  /\ UNCHANGED durable

Close ==
  /\ working # Nobody
  /\ working' = Nobody
  /\ durable' \in {durable, working}

Next == Open \/ Ask \/ Reject \/ Accept \/ Advance \/ Abandon \/ Close

Spec == Init /\ [][Next]_vars
=============================================================================
