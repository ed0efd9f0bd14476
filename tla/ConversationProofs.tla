-------------------------- MODULE ConversationProofs --------------------------
(***************************************************************************)
(* The session file implements the register of SessionRegister, for every  *)
(* set of sessions, every number of pieces they are written in, and every  *)
(* choice of the faults; and the conversation that is kept in it is what   *)
(* it should be, for all limits, outputs and texts, over any number of     *)
(* processes.                                                              *)
(***************************************************************************)
EXTENDS Conversation, WellFoundedInduction, FiniteSetTheorems, SequenceTheorems,
        TLAPS

-----------------------------------------------------------------------------
(* The session file *)

\* What the file may hold.
WholeTexts == {Whole(s) : s \in Sessions}

\* The session file is whole at any time; the temporary file is while it is
\* being written, up to the pieces written.
Whereabouts ==
  /\ file \in WholeTexts \cup {NoFile}
  /\ saving \in Sessions \cup {NoSession}
  /\ at \in {"idle", "ready", "write"}
  /\ at = "idle" <=> saving = NoSession
  /\ at # "write" => written = 0

Progress ==
  at = "write" =>
    /\ written \in 0..NPieces
    /\ temp \in Text
    /\ \A i \in 1..written : temp[i] = saving

FileInv == Whereabouts /\ Progress

\* The text of a session is the text of a session, and of that one.
LEMMA WholeTextIsWhole ==
  ASSUME NEW s \in Sessions
  PROVE  /\ Whole(s) \in Text
         /\ Whole(s) # NoFile
         /\ IsWhole(Whole(s))
         /\ Whole(s)[1] = s
<1>1. 1 \in Pieces
  BY PiecesAssumption DEF Pieces
<1>2. Whole(s) \in Text
  BY DEF Whole, Text
<1>3. Whole(s)[1] = s
  BY <1>1 DEF Whole
<1>4. Whole(s) # NoFile
  BY <1>2, SessionsAssumption DEF Text, Pieces
<1> QED
  BY <1>2, <1>3, <1>4 DEF IsWhole

\* Kept is a function of the file.
LEMMA KeptOfWhole ==
  ASSUME NEW s \in Sessions, file' = Whole(s)
  PROVE  Kept' = s
BY WholeTextIsWhole DEF Kept, IsWhole

\* Once all pieces are written the temporary file is the text of the session.
LEMMA WrittenIsWhole ==
  ASSUME FileInv, at = "write", written = NPieces
  PROVE  saving \in Sessions /\ temp = Whole(saving)
<1>1. saving \in Sessions
  BY DEF FileInv, Whereabouts
<1>2. temp \in Text /\ \A i \in Pieces : temp[i] = saving
  BY DEF FileInv, Progress, Pieces
<1> QED
  BY <1>1, <1>2 DEF Whole, Text

LEMMA InvHoldsInitially == FileInit => FileInv
BY DEF FileInit, FileInv, Whereabouts, Progress

\* A return from save() or the death of the process leaves nothing to say about
\* the temporary file.
LEMMA EndKeepsInv ==
  ASSUME FileInv, at' = "idle", saving' = NoSession, written' = 0,
         file' \in WholeTexts \cup {NoFile}
  PROVE  FileInv'
BY DEF FileInv, Whereabouts, Progress

LEMMA StepKeepsInv == FileInv /\ [FileNext]_fileVars => FileInv'
<1> SUFFICES ASSUME FileInv, [FileNext]_fileVars PROVE FileInv'
  OBVIOUS
<1>1. ASSUME NEW s \in Sessions, BeginSave(s) PROVE FileInv'
  BY <1>1, SessionsAssumption DEF BeginSave, FileInv, Whereabouts, Progress
<1>2. CASE RefuseSave
  BY <1>2, EndKeepsInv DEF RefuseSave, Return, FileInv, Whereabouts
<1>3. CASE OpenTemp
  <2>1. Empty \in Text
    BY DEF Empty, Text
  <2>2. Whereabouts'
    BY <1>3 DEF OpenTemp, FileInv, Whereabouts
  <2>3. Progress'
    BY <1>3, <2>1, PiecesAssumption DEF OpenTemp, FileInv, Whereabouts, Progress
  <2> QED
    BY <2>2, <2>3 DEF FileInv
<1>4. CASE OpenFails
  BY <1>4, EndKeepsInv DEF OpenFails, Return, FileInv, Whereabouts
<1>5. CASE WritePiece
  <2>1. saving \in Sessions /\ written + 1 \in Pieces
    BY <1>5, PiecesAssumption
       DEF WritePiece, FileInv, Whereabouts, Progress, Pieces
  <2>2. Whereabouts'
    BY <1>5 DEF WritePiece, FileInv, Whereabouts
  <2>3. temp' \in Text
    BY <1>5, <2>1 DEF WritePiece, FileInv, Progress, Text
  <2>4. \A i \in 1..written' : temp'[i] = saving'
    <3> SUFFICES ASSUME NEW i \in 1..written' PROVE temp'[i] = saving
      BY <1>5 DEF WritePiece
    <3>1. temp \in Text /\ i \in Pieces
      <4>1. temp \in Text /\ written \in 0..NPieces /\ written' = written + 1
        BY <1>5 DEF WritePiece, FileInv, Progress
      <4>2. written + 1 <= NPieces
        BY <2>1, <4>1, PiecesAssumption DEF Pieces
      <4> QED
        BY <4>1, <4>2, PiecesAssumption DEF Pieces
    <3>2. CASE i = written + 1
      BY <1>5, <3>1, <3>2 DEF WritePiece, Text
    <3>3. CASE i # written + 1
      <4>1. i \in 1..written
        BY <1>5, <3>3 DEF WritePiece, FileInv, Progress
      <4> QED
        BY <1>5, <3>1, <3>3, <4>1 DEF WritePiece, FileInv, Progress, Text
    <3> QED
      BY <3>2, <3>3
  <2>5. written' \in 0..NPieces
    BY <1>5, <2>1, PiecesAssumption DEF WritePiece, Pieces
  <2> QED
    BY <2>2, <2>3, <2>4, <2>5 DEF FileInv, Progress
<1>6. CASE WriteFails
  BY <1>6, EndKeepsInv DEF WriteFails, Return, FileInv, Whereabouts
<1>7. CASE Rename
  <2>1. temp \in WholeTexts
    BY <1>7, WrittenIsWhole DEF Rename, WholeTexts
  <2> QED
    BY <1>7, <2>1, EndKeepsInv DEF Rename, Return
<1>8. CASE RenameFails
  BY <1>8, EndKeepsInv DEF RenameFails, Return, FileInv, Whereabouts
<1>9. CASE Die
  BY <1>9, EndKeepsInv DEF Die, FileInv, Whereabouts
<1>10. CASE UNCHANGED fileVars
  BY <1>10 DEF fileVars, FileInv, Whereabouts, Progress
<1> QED
  BY <1>1, <1>2, <1>3, <1>4, <1>5, <1>6, <1>7, <1>8, <1>9, <1>10
     DEF FileNext, SaveStep

\* A step of save() that does not end it changes nothing in the register; one
\* that ends it without renaming refuses.
LEMMA StepIsRegisterStep ==
  FileInv /\ [FileNext]_fileVars => [Register!Next]_Register!vars
<1> SUFFICES ASSUME FileInv, [FileNext]_fileVars
             PROVE  [Register!Next]_Register!vars
  OBVIOUS
<1>0. file' = file => Kept' = Kept
  BY DEF Kept
<1>1. ASSUME NEW s \in Sessions, BeginSave(s) PROVE Register!Next
  <2>1. Register!Ask
    BY <1>0, <1>1 DEF BeginSave, FileInv, Whereabouts, Register!Ask
  <2> QED
    BY <2>1 DEF Register!Next
<1>2. ASSUME at # "idle", Return("refused"), UNCHANGED file PROVE Register!Next
  <2>1. Register!Refuse
    BY <1>0, <1>2 DEF Return, FileInv, Whereabouts, Register!Refuse
  <2> QED
    BY <2>1 DEF Register!Next
<1>3. CASE OpenTemp \/ WritePiece
  BY <1>0, <1>3 DEF OpenTemp, WritePiece, Register!vars
<1>4. CASE RefuseSave \/ OpenFails \/ WriteFails \/ RenameFails
  BY <1>2, <1>4 DEF RefuseSave, OpenFails, WriteFails, RenameFails
<1>5. CASE Rename
  <2>1. saving \in Sessions /\ file' = Whole(saving)
    BY <1>5, WrittenIsWhole DEF Rename
  <2>2. Kept' = saving
    BY <2>1, KeptOfWhole
  <2>3. Register!Save
    BY <1>5, <2>1, <2>2, SessionsAssumption DEF Rename, Return, Register!Save
  <2> QED
    BY <2>3 DEF Register!Next
<1>6. CASE Die
  <2>1. CASE saving = NoSession
    BY <1>0, <1>6, <2>1 DEF Die, Register!vars
  <2>2. CASE saving # NoSession
    <3>1. Register!Abandon
      BY <1>0, <1>6, <2>2 DEF Die, Register!Abandon
    <3> QED
      BY <3>1 DEF Register!Next
  <2> QED
    BY <2>1, <2>2
<1>7. CASE UNCHANGED fileVars
  BY <1>0, <1>7 DEF fileVars, Register!vars
<1> QED
  BY <1>1, <1>3, <1>4, <1>5, <1>6, <1>7 DEF FileNext, SaveStep

\* JsonFileStateStore::save replaces the session that is kept whole and says
\* so, or leaves it and says so, wherever it fails or its process dies.
THEOREM SessionFileIsARegister == FileSpec => KeepsRegister
<1>1. FileInit => Register!Init
  BY DEF FileInit, Register!Init, Kept
<1> QED
  BY <1>1, InvHoldsInitially, StepKeepsInv, StepIsRegisterStep, PTL
     DEF FileSpec, KeepsRegister, Register!Spec

-----------------------------------------------------------------------------
(* Induction over the numbers, for a set given as one *)

Less == {p \in Nat \X Nat : p[1] < p[2]}

LEMMA LessIsWellFounded == IsWellFoundedOn(Less, Nat)
<1>1. OpToRel(<, Nat) = Less
  BY DEF OpToRel, Less
<1> QED
  BY <1>1, NatLessThanWellFounded

\* A set of numbers that is not empty has a least one.
LEMMA Least ==
  ASSUME NEW S \in SUBSET Nat, S # {}
  PROVE  \E i \in S : \A j \in S : i <= j
<1>1. PICK i \in S : \A j \in S : ~(<<j, i>> \in Less)
  BY LessIsWellFounded, WFMin
<1>2. ASSUME NEW j \in S PROVE i <= j
  <2>1. i \in Nat /\ j \in Nat /\ ~(<<j, i>> \in Less)
    BY <1>1
  <2> QED
    BY <2>1 DEF Less
<1> QED
  BY <1>2

\* A set that has n when it has everything below n has every number.
LEMMA SetInduction ==
  ASSUME NEW S, \A n \in Nat : (\A m \in 0..n - 1 : m \in S) => n \in S
  PROVE  Nat \subseteq S
<1> DEFINE T == Nat \ S
<1> SUFFICES ASSUME T # {} PROVE FALSE
  OBVIOUS
<1>1. PICK x \in T : \A y \in T : x <= y
  BY Least
<1>2. x \in Nat /\ x \notin S /\ \A y \in Nat : y < x => y \in S
  BY <1>1
<1>3. \A m \in 0..x - 1 : m \in Nat /\ m < x
  BY <1>2
<1> QED
  BY <1>2, <1>3

LEMMA MinOfNumbers ==
  ASSUME NEW S \in SUBSET Nat, S # {}
  PROVE  Min(S) \in S /\ \A j \in S : Min(S) <= j
<1>1. \E i \in S : \A j \in S : i <= j
  BY Least
<1> QED
  BY <1>1 DEF Min

LEMMA MaxOfNumbers ==
  ASSUME NEW S \in SUBSET Nat, NEW x \in S, \A j \in S : j <= x
  PROVE  Max(S) = x
<1>1. Max(S) \in S /\ \A j \in S : Max(S) >= j
  <2>1. \E i \in S : \A j \in S : i >= j
    OBVIOUS
  <2> QED
    BY <2>1 DEF Max
<1>2. Max(S) \in Nat /\ x \in Nat /\ x <= Max(S) /\ Max(S) <= x
  BY <1>1
<1> QED
  BY <1>2

-----------------------------------------------------------------------------
(* Cutting the messages down to the context limit *)

Gone(message) == [message EXCEPT !.length = Placeholder, !.dropped = TRUE]

\* The messages without the contents of those in G.
Without(was, G) ==
  [i \in 1..Len(was) |-> IF i \in G THEN Gone(was[i]) ELSE was[i]]

\* What the tools return is never empty.
Outspoken(messages) ==
  \A i \in DOMAIN messages : messages[i].kind = "answer" => messages[i].length # 0

LEMMA GoneFields ==
  ASSUME NEW message \in Message
  PROVE  /\ Gone(message) \in Message
         /\ Gone(message).length = Placeholder /\ Gone(message).dropped
         /\ Gone(message).kind = message.kind
         /\ Gone(message).calls = message.calls
         /\ Gone(message).call = message.call
         /\ Gone(message).skipped = message.skipped
BY LimitsAssumption DEF Gone, Message

LEMMA WithoutIsMessages ==
  ASSUME NEW was \in Seq(Message), NEW G
  PROVE  /\ Without(was, G) \in Seq(Message)
         /\ Len(Without(was, G)) = Len(was)
         /\ \A i \in 1..Len(was) :
              Without(was, G)[i] = IF i \in G THEN Gone(was[i]) ELSE was[i]
<1>1. PICK n \in Nat : n = Len(was)
  OBVIOUS
<1>2. \A i \in 1..n : was[i] \in Message /\ Gone(was[i]) \in Message
  BY <1>1, GoneFields
<1> DEFINE cut == [i \in 1..n |-> IF i \in G THEN Gone(was[i]) ELSE was[i]]
<1>3. cut \in Seq(Message) /\ Len(cut) = n
  BY <1>1, <1>2
<1>4. Without(was, G) = cut
  BY <1>1 DEF Without
<1> QED
  BY <1>1, <1>3, <1>4

\* What can still go from what is left.
LEMMA WithoutDroppable ==
  ASSUME NEW was \in Seq(Message), Outspoken(was),
         NEW G \in SUBSET Droppable(was)
  PROVE  /\ Droppable(Without(was, G)) = Droppable(was) \ G
         /\ ToolOutputs(Without(was, G)) = ToolOutputs(was) \ G
         /\ ToolOutputs(was) = {i \in Droppable(was) : was[i].kind = "answer"}
         /\ Droppable(was) \subseteq 2..Len(was)
<1>0. PICK cut : cut = Without(was, G)
  OBVIOUS
<1>00. PICK n \in Nat : n = Len(was)
  OBVIOUS
<1>1. cut = Without(was, G) /\ n = Len(was)
  BY <1>0, <1>00
<1>2. /\ Len(cut) = n
      /\ \A i \in 1..n : cut[i] = IF i \in G THEN Gone(was[i]) ELSE was[i]
  BY <1>1, WithoutIsMessages
<1>3. ASSUME NEW i \in 2..n
      PROVE  /\ i \in G => cut[i].dropped
             /\ i \notin G => cut[i] = was[i]
             /\ was[i].kind = "answer" => was[i].length # 0
             /\ was[i].dropped \in BOOLEAN
  <2>1. i \in 1..n /\ was[i] \in Message
    BY <1>1
  <2>2. i \in G => cut[i].dropped
    BY <1>2, <2>1, GoneFields
  <2>3. i \in DOMAIN was
    BY <1>1, <2>1
  <2> QED
    BY <1>2, <2>1, <2>2, <2>3 DEF Outspoken, Message
<1>4. Droppable(was) = {i \in 2..n : ~was[i].dropped /\ was[i].length # 0}
  BY <1>1 DEF Droppable
<1>5. Droppable(cut) = {i \in 2..n : ~cut[i].dropped /\ cut[i].length # 0}
  BY <1>2 DEF Droppable
<1>6. ToolOutputs(was) = {i \in 2..n : was[i].kind = "answer" /\ ~was[i].dropped}
  BY <1>1 DEF ToolOutputs
<1>7. ToolOutputs(cut) = {i \in 2..n : cut[i].kind = "answer" /\ ~cut[i].dropped}
  BY <1>2 DEF ToolOutputs
<1>8. Droppable(cut) = Droppable(was) \ G
  BY <1>3, <1>4, <1>5
<1>9. ToolOutputs(cut) = ToolOutputs(was) \ G
  BY <1>3, <1>6, <1>7
<1>10. ToolOutputs(was) = {i \in Droppable(was) : was[i].kind = "answer"}
  BY <1>3, <1>4, <1>6
<1> QED
  BY <1>1, <1>4, <1>8, <1>9, <1>10

\* One more is taken out.
LEMMA DropFromRest ==
  ASSUME NEW was \in Seq(Message), NEW G \in SUBSET Droppable(was),
         NEW x \in Droppable(was), x \notin G
  PROVE  Drop(Without(was, G), x) = Without(was, G \cup {x})
<1>0. PICK cut : cut = Without(was, G)
  OBVIOUS
<1>00. PICK n \in Nat : n = Len(was)
  OBVIOUS
<1>1. cut = Without(was, G) /\ n = Len(was)
  BY <1>0, <1>00
<1>2. x \in 1..n
  BY <1>1 DEF Droppable
<1>3. cut = [i \in 1..n |-> IF i \in G THEN Gone(was[i]) ELSE was[i]]
  BY <1>1 DEF Without
<1>4. Drop(cut, x) = [cut EXCEPT ![x] = Gone(cut[x])]
  BY <1>2, <1>3 DEF Drop, Gone
<1>5. cut[x] = was[x]
  BY <1>2, <1>3
<1>6. Drop(cut, x) = [i \in 1..n |-> IF i \in G \cup {x} THEN Gone(was[i])
                                    ELSE was[i]]
  BY <1>2, <1>3, <1>4, <1>5
<1> QED
  BY <1>1, <1>6 DEF Without

\* G is what goes first: outputs of tools before the rest, the oldest of both,
\* only as long as it does not fit.
GoesFirst(was, G) ==
  LET D == Droppable(was)
      T == ToolOutputs(was)
  IN  /\ G \subseteq D
      /\ G \subseteq T \/ T \subseteq G
      /\ \A i \in T \ G, j \in T \cap G : j < i
      /\ \A i \in (D \ T) \ G, j \in (D \ T) \cap G : j < i
      /\ G # {} =>
           /\ Len(was) > 2
           /\ \E x \in G : /\ \A j \in G : j \in T \/ x \notin T
                           /\ \A j \in G : (j \in T <=> x \in T) => j <= x
                           /\ TooLong(Without(was, G \ {x}))

LEMMA NextToGo ==
  ASSUME NEW was \in Seq(Message), Outspoken(was), NEW G, GoesFirst(was, G),
         TooLong(Without(was, G)), Droppable(Without(was, G)) # {}
  PROVE  \E x \in Droppable(was) \ G :
           /\ DropOne(Without(was, G)) = Without(was, G \cup {x})
           /\ GoesFirst(was, G \cup {x})
<1>1. PICK cut : cut = Without(was, G)
  OBVIOUS
<1>2. PICK D, T : D = Droppable(was) /\ T = ToolOutputs(was)
  OBVIOUS
<1>3. G \in SUBSET Droppable(was)
  BY DEF GoesFirst
<1>4. /\ Droppable(cut) = D \ G /\ ToolOutputs(cut) = T \ G
      /\ T \subseteq D /\ D \subseteq 2..Len(was)
  BY <1>1, <1>2, <1>3, WithoutDroppable
<1>5. D \subseteq Nat /\ D \ G # {}
  BY <1>1, <1>4
<1>6. PICK x : x = ToDrop(cut)
  OBVIOUS
<1>7. /\ G \subseteq D /\ (G \subseteq T \/ T \subseteq G)
      /\ \A i \in T \ G, j \in T \cap G : j < i
      /\ \A i \in (D \ T) \ G, j \in (D \ T) \cap G : j < i
  BY <1>2 DEF GoesFirst
<1>8. \/ /\ x \in T \ G /\ G \subseteq T
         /\ \A i \in T \ G : x <= i
      \/ /\ x \in (D \ T) \ G /\ T \subseteq G
         /\ \A i \in D \ G : x <= i
  <2>1. CASE T \ G # {}
    <3>1. x = Min(T \ G) /\ T \ G \in SUBSET Nat
      BY <1>4, <1>5, <1>6, <2>1 DEF ToDrop
    <3>2. x \in T \ G /\ \A i \in T \ G : x <= i
      BY <2>1, <3>1, MinOfNumbers
    <3> QED
      BY <1>7, <2>1, <3>2
  <2>2. CASE T \ G = {}
    <3>1. x = Min(D \ G) /\ D \ G \in SUBSET Nat
      BY <1>4, <1>5, <1>6, <2>2 DEF ToDrop
    <3>2. x \in D \ G /\ \A i \in D \ G : x <= i
      BY <1>5, <3>1, MinOfNumbers
    <3> QED
      BY <2>2, <3>2
  <2> QED
    BY <2>1, <2>2
<1>9. x \in D /\ x \notin G /\ x \in Nat
  BY <1>4, <1>5, <1>8
<1>10. DropOne(cut) = Without(was, G \cup {x})
  <2>1. DropOne(cut) = Drop(cut, x)
    BY <1>1, <1>6 DEF DropOne
  <2> QED
    BY <1>1, <1>2, <1>3, <1>9, <2>1, DropFromRest
<1> DEFINE H == G \cup {x}
<1>11. H \subseteq D /\ (H \subseteq T \/ T \subseteq H)
  BY <1>7, <1>8, <1>9
<1>12. ASSUME NEW i \in T \ H, NEW j \in T \cap H PROVE j < i
  <2>1. i \in T \ G /\ i # x /\ i \in Nat
    BY <1>4, <1>5, <1>12
  <2>2. x \in T \ G /\ x <= i
    BY <1>8, <2>1
  <2>3. CASE j \in G
    BY <1>7, <2>1, <2>3
  <2>4. CASE j = x
    BY <1>9, <2>1, <2>2, <2>4
  <2> QED
    BY <2>3, <2>4
<1>13. ASSUME NEW i \in (D \ T) \ H, NEW j \in (D \ T) \cap H PROVE j < i
  <2>1. i \in (D \ T) \ G /\ i # x /\ i \in Nat
    BY <1>5, <1>13
  <2>2. CASE j \in G
    BY <1>7, <2>1, <2>2
  <2>3. CASE j = x
    BY <1>8, <1>9, <2>1, <2>3
  <2> QED
    BY <2>2, <2>3
<1>14. \A j \in H : j \in T \/ x \notin T
  BY <1>8
<1>15. ASSUME NEW j \in H, j \in T <=> x \in T PROVE j <= x
  <2>1. CASE j = x
    BY <1>9, <2>1
  <2>2. CASE j # x
    <3>1. j \in G /\ j \in D /\ j \in Nat
      BY <1>5, <1>7, <2>2
    <3>2. CASE x \in T
      <4>1. x \in T \ G /\ j \in T \cap G
        BY <1>9, <1>15, <3>1, <3>2
      <4>2. j < x
        BY <1>7, <4>1
      <4> QED
        BY <1>9, <3>1, <4>2
    <3>3. CASE x \notin T
      <4>1. x \in (D \ T) \ G /\ j \in (D \ T) \cap G
        BY <1>9, <1>15, <3>1, <3>3
      <4>2. j < x
        BY <1>7, <4>1
      <4> QED
        BY <1>9, <3>1, <4>2
    <3> QED
      BY <3>2, <3>3
  <2> QED
    BY <2>1, <2>2
<1>16. Len(was) > 2
  BY WithoutIsMessages DEF TooLong
<1>17. TooLong(Without(was, H \ {x}))
  <2>1. H \ {x} = G
    BY <1>9
  <2> QED
    BY <2>1
<1>18. GoesFirst(was, H)
  <2>1. x \in H
    OBVIOUS
  <2> HIDE DEF H
  <2> QED
    BY <1>2, <1>11, <1>12, <1>13, <1>14, <1>15, <1>16, <1>17, <2>1 DEF GoesFirst
<1> QED
  BY <1>1, <1>2, <1>9, <1>10, <1>18

\* f is what is left after each of the first k rounds.
Rounds(f, was, k) ==
  f = [n \in 0..k |-> IF n = 0 THEN was ELSE DropOne(f[n - 1])]

LEMMA SomethingIsLeft ==
  ASSUME NEW was
  PROVE  \A k \in Nat : \E f : Rounds(f, was, k)
<1> DEFINE S == {k \in Nat : \E f : Rounds(f, was, k)}
<1>1. ASSUME NEW n \in Nat, \A m \in 0..n - 1 : m \in S
      PROVE  n \in S
  <2>1. CASE n = 0
    <3> DEFINE f == [i \in 0..0 |-> was]
    <3>1. Rounds(f, was, 0)
      BY DEF Rounds
    <3> QED
      BY <2>1, <3>1
  <2>2. CASE n # 0
    <3>1. n - 1 \in 0..n - 1
      BY <2>2
    <3>2. PICK f : Rounds(f, was, n - 1)
      BY <1>1, <3>1
    <3> DEFINE g == [i \in 0..n |-> IF i = n THEN DropOne(f[n - 1]) ELSE f[i]]
    <3>3. /\ g[n] = DropOne(f[n - 1])
          /\ \A i \in 0..n - 1 : g[i] = f[i]
          /\ g = [i \in 0..n |-> g[i]]
      OBVIOUS
    <3> HIDE DEF g
    <3>4. \A i \in 0..n - 1 : f[i] = IF i = 0 THEN was ELSE DropOne(f[i - 1])
      BY <3>2 DEF Rounds
    <3>5. ASSUME NEW i \in 0..n
          PROVE  g[i] = IF i = 0 THEN was ELSE DropOne(g[i - 1])
      <4>1. CASE i = n
        BY <2>2, <3>1, <3>3, <4>1
      <4>2. CASE i # n
        <5>1. i \in 0..n - 1 /\ (i # 0 => i - 1 \in 0..n - 1)
          BY <4>2
        <5> QED
          BY <3>3, <3>4, <5>1
      <4> QED
        BY <4>1, <4>2
    <3>6. Rounds(g, was, n)
      BY <3>3, <3>5 DEF Rounds
    <3> QED
      BY <3>6
  <2> QED
    BY <2>1, <2>2
<1>2. Nat \subseteq S
  <2> HIDE DEF S
  <2> QED
    BY <1>1, SetInduction
<1> QED
  BY <1>2

\* As many contents are gone as there were rounds, while it does not fit.
LEMMA RoundsDrop ==
  ASSUME NEW was \in Seq(Message), Outspoken(was), NEW k \in Nat,
         NEW f, Rounds(f, was, k)
  PROVE  \A n \in 0..k : \E G :
           /\ GoesFirst(was, G) /\ f[n] = Without(was, G)
           /\ IsFiniteSet(G)
           /\ TooLong(f[n]) /\ Droppable(f[n]) # {} => Cardinality(G) = n
<1> DEFINE Left(n, G) ==
             /\ GoesFirst(was, G) /\ f[n] = Without(was, G)
             /\ IsFiniteSet(G)
             /\ TooLong(f[n]) /\ Droppable(f[n]) # {} => Cardinality(G) = n
           S == {n \in Nat : n <= k => \E G : Left(n, G)}
<1>1. \A n \in 0..k : f[n] = IF n = 0 THEN was ELSE DropOne(f[n - 1])
  BY DEF Rounds
<1>2. ASSUME NEW n \in Nat, \A m \in 0..n - 1 : m \in S, n <= k
      PROVE  \E G : Left(n, G)
  <2>1. CASE n = 0
    <3>1. f[n] = was
      BY <1>1, <2>1
    <3>2. was = Without(was, {})
      BY DEF Without
    <3>3. GoesFirst(was, {})
      BY DEF GoesFirst
    <3> QED
      BY <2>1, <3>1, <3>2, <3>3, FS_EmptySet
  <2>2. CASE n # 0
    <3>1. n - 1 \in 0..n - 1 /\ n - 1 <= k /\ n \in 0..k
      BY <1>2, <2>2
    <3>2. PICK G : Left(n - 1, G)
      BY <1>2, <3>1
    <3>3. PICK cut : cut = f[n - 1]
      OBVIOUS
    <3>4. cut = Without(was, G) /\ GoesFirst(was, G) /\ IsFiniteSet(G)
      BY <3>2, <3>3
    <3>5. f[n] = DropOne(cut)
      BY <1>1, <2>2, <3>1, <3>3
    <3>6. CASE TooLong(cut) /\ Droppable(cut) # {}
      <4>1. PICK x \in Droppable(was) \ G :
              /\ DropOne(Without(was, G)) = Without(was, G \cup {x})
              /\ GoesFirst(was, G \cup {x})
        BY <3>4, <3>6, NextToGo
      <4>2. Cardinality(G) = n - 1
        BY <3>2, <3>3, <3>6
      <4>3. IsFiniteSet(G \cup {x}) /\ Cardinality(G \cup {x}) = n
        <5>1. /\ IsFiniteSet(G \cup {x})
              /\ Cardinality(G \cup {x}) = Cardinality(G) + 1
          BY <3>4, <4>1, FS_AddElement
        <5> QED
          BY <4>2, <5>1
      <4>4. f[n] = Without(was, G \cup {x})
        BY <3>4, <3>5, <4>1
      <4>5. Left(n, G \cup {x})
        BY <4>1, <4>3, <4>4
      <4> QED
        BY <4>5
    <3>7. CASE ~(TooLong(cut) /\ Droppable(cut) # {})
      <4>1. f[n] = cut
        BY <3>5, <3>7 DEF DropOne
      <4>2. Left(n, G)
        BY <3>4, <3>7, <4>1
      <4> QED
        BY <4>2
    <3> QED
      BY <3>6, <3>7
  <2> QED
    BY <2>1, <2>2
<1>3. Nat \subseteq S
  <2>1. \A n \in Nat : (\A m \in 0..n - 1 : m \in S) => n \in S
    BY <1>2
  <2> HIDE DEF S
  <2> QED
    BY <2>1, SetInduction
<1> QED
  BY <1>3

\* What is sent.
LEMMA CutResult ==
  ASSUME NEW was \in Seq(Message), Outspoken(was)
  PROVE  \E G : /\ GoesFirst(was, G)
                /\ EnforceContextLimits(was) = Without(was, G)
                /\ TooLong(Without(was, G)) => Droppable(Without(was, G)) = {}
<1>1. PICK k \in Nat : k = Len(was)
  OBVIOUS
<1> DEFINE f == CHOOSE f : Rounds(f, was, k)
<1>2. Rounds(f, was, k)
  BY SomethingIsLeft
<1>3. EnforceContextLimits(was) = f[k]
  BY <1>1 DEF EnforceContextLimits, Rounds
<1> HIDE DEF f
<1>4. PICK G : /\ GoesFirst(was, G) /\ f[k] = Without(was, G)
               /\ IsFiniteSet(G)
               /\ TooLong(f[k]) /\ Droppable(f[k]) # {} => Cardinality(G) = k
  <2>1. k \in 0..k
    OBVIOUS
  <2> QED
    BY <1>2, <2>1, RoundsDrop
<1>5. ASSUME TooLong(f[k]), Droppable(f[k]) # {}
      PROVE  FALSE
  <2>1. G \in SUBSET Droppable(was)
    BY <1>4 DEF GoesFirst
  <2>2. Droppable(f[k]) \subseteq 2..k /\ G \subseteq 2..k
    BY <1>1, <1>4, <2>1, WithoutDroppable
  <2>3. k > 1
    BY <1>5, <2>2
  <2>4. IsFiniteSet(2..k) /\ Cardinality(2..k) = k - 1
    BY <2>3, FS_Interval
  <2>5. G \in SUBSET (2..k)
    BY <2>2
  <2>6. Cardinality(G) <= k - 1
    BY <2>4, <2>5, FS_Subset
  <2> QED
    BY <1>4, <1>5, <2>3, <2>6
<1> QED
  BY <1>3, <1>4, <1>5

LEMMA CutIsLeastCut ==
  ASSUME NEW was \in Seq(Message), Outspoken(was),
         NEW G, GoesFirst(was, G),
         TooLong(Without(was, G)) => Droppable(Without(was, G)) = {}
  PROVE  LeastCut(was, Without(was, G))
<1>1. PICK sent : sent = Without(was, G)
  OBVIOUS
<1>2. PICK n \in Nat : n = Len(was)
  OBVIOUS
<1>3. PICK D, T : D = Droppable(was) /\ T = ToolOutputs(was)
  OBVIOUS
<1>4. /\ G \subseteq D /\ (G \subseteq T \/ T \subseteq G)
      /\ \A i \in T \ G, j \in T \cap G : j < i
      /\ \A i \in (D \ T) \ G, j \in (D \ T) \cap G : j < i
  BY <1>3 DEF GoesFirst
<1>5. T = {i \in D : was[i].kind = "answer"} /\ D \subseteq 2..n
  BY <1>2, <1>3, <1>4, WithoutDroppable
<1>6. /\ Len(sent) = n /\ DOMAIN sent = 1..n
      /\ \A i \in 1..n : sent[i] = IF i \in G THEN Gone(was[i]) ELSE was[i]
      /\ sent \in Seq(Message)
  BY <1>1, <1>2, WithoutIsMessages
<1>7. ASSUME NEW i \in 1..n PROVE Drop(was, i)[i] = Gone(was[i])
  <2>1. was = [j \in 1..n |-> was[j]]
    BY <1>2
  <2> QED
    BY <2>1 DEF Drop, Gone
<1>8. ASSUME NEW i \in G PROVE i \in 1..n /\ sent[i] # was[i]
  <2>1. i \in 1..n /\ was[i] \in Message /\ ~was[i].dropped
    BY <1>2, <1>3, <1>4, <1>5 DEF Droppable
  <2>2. Gone(was[i]).dropped
    BY <2>1, GoneFields
  <2> QED
    BY <1>6, <2>1, <2>2
<1>9. {i \in DOMAIN sent : sent[i] # was[i]} = G
  BY <1>6, <1>8
<1>10. {i \in G : was[i].kind = "answer"} = T \cap G
  BY <1>4, <1>5
<1>11. G # {} =>
         \E x \in G : /\ \A j \in G : j \in T \/ x \notin T
                      /\ \A j \in G : (j \in T <=> x \in T) => j <= x
                      /\ TooLong(Without(was, G \ {x}))
  BY <1>3 DEF GoesFirst
<1>12. ASSUME G # {}
       PROVE  LET last == IF G = T \cap G THEN G ELSE G \ (T \cap G)
              IN  TooLong([sent EXCEPT ![Max(last)] = was[Max(last)]])
  <2>1. PICK x \in G : /\ \A j \in G : j \in T \/ x \notin T
                       /\ \A j \in G : (j \in T <=> x \in T) => j <= x
                       /\ TooLong(Without(was, G \ {x}))
    BY <1>11, <1>12
  <2>2. PICK last : last = IF G = T \cap G THEN G ELSE G \ (T \cap G)
    OBVIOUS
  <2>3. x \in last /\ \A j \in last : j <= x
    BY <2>1, <2>2
  <2>4. last \in SUBSET Nat
    <3>1. last \subseteq G
      BY <2>2
    <3>2. G \subseteq 2..n
      BY <1>4, <1>5
    <3> QED
      BY <3>1, <3>2
  <2>5. Max(last) = x
    BY <2>3, <2>4, MaxOfNumbers
  <2>6. [sent EXCEPT ![x] = was[x]] = Without(was, G \ {x})
    <3>1. x \in 1..n
      BY <1>8
    <3>2. sent = [i \in 1..n |-> IF i \in G THEN Gone(was[i]) ELSE was[i]]
      BY <1>1, <1>2 DEF Without
    <3> QED
      BY <1>2, <3>1, <3>2 DEF Without
  <2> QED
    BY <2>1, <2>2, <2>5, <2>6
<1>13. G # {} => Len(was) > 2
  BY DEF GoesFirst
<1>14. \A i \in 1..n : sent[i] \in {was[i], Drop(was, i)[i]}
  BY <1>6, <1>7
<1>15. ~TooLong(sent) \/ Droppable(sent) = {}
  BY <1>1
<1>16. PICK cut : cut = {i \in DOMAIN sent : sent[i] # was[i]}
  OBVIOUS
<1>17. PICK A : A = {i \in Droppable(was) : was[i].kind = "answer"}
  OBVIOUS
<1>18. PICK B : B = {i \in cut : was[i].kind = "answer"}
  OBVIOUS
<1>19. cut = G /\ A = T /\ B = T \cap G
  BY <1>3, <1>5, <1>9, <1>10, <1>16, <1>17, <1>18
<1>20. /\ cut \subseteq B \/ A \subseteq cut
       /\ \A i \in A \ cut : \A j \in A \cap cut : j < i
       /\ \A i \in (Droppable(was) \ A) \ cut :
            \A j \in (Droppable(was) \ A) \cap cut : j < i
       /\ cut \subseteq Droppable(was)
       /\ cut # {} => Len(was) > 2
  BY <1>3, <1>4, <1>13, <1>19
<1>21. LET last == IF cut = B THEN cut ELSE cut \ B
       IN  cut # {} => TooLong([sent EXCEPT ![Max(last)] = was[Max(last)]])
  BY <1>12, <1>19
<1>22. /\ Len(sent) = Len(was)
       /\ \A i \in DOMAIN sent : sent[i] \in {was[i], Drop(was, i)[i]}
  BY <1>2, <1>6, <1>14
<1> QED
  BY <1>1, <1>15, <1>16, <1>17, <1>18, <1>20, <1>21, <1>22 DEF LeastCut

-----------------------------------------------------------------------------
(* What follows a reply *)

Alike(x, y) ==
  x.kind = y.kind /\ x.calls = y.calls /\ x.call = y.call /\ x.skipped = y.skipped

IsRun(x, c) == x.kind = "answer" /\ x.call = c /\ ~x.skipped

IsSkip(x, c) == x.kind = "answer" /\ x.call = c /\ x.skipped

\* From behind the reply k to e there are the answers of its first n calls: all
\* run; or those behind the guidance skipped; or there is a repair prompt only.
Ran(m, k, e, n) == e = k + n /\ \A i \in 1..n : IsRun(m[k + i], i)

Guided(m, k, e, n) ==
  /\ e = k + n + 1
  /\ \E a \in 1..n :
       /\ \A i \in 1..a : IsRun(m[k + i], i)
       /\ m[k + a + 1].kind = "guidance"
       /\ \A i \in a + 1..n : IsSkip(m[k + i + 1], i)

Repaired(m, k, e, n) == n = 0 /\ e = k + 1 /\ m[e].kind = "repair"

Shape(m, k, e, n) ==
  /\ n <= m[k].calls
  /\ Ran(m, k, e, n) \/ Guided(m, k, e, n) \/ Repaired(m, k, e, n)

RepliesOf(m) == {k \in DOMAIN m : m[k].kind = "reply"}

EndsAt(m, e) == e = Len(m) \/ m[e + 1].kind = "reply"

\* What follows each reply has its shape, and is complete but for those in open.
Blocks(m, open) ==
  \A k \in RepliesOf(m) :
    \E e \in k..Len(m), n \in Nat :
      /\ Shape(m, k, e, n) /\ EndsAt(m, e)
      /\ k \in open \/ n = m[k].calls \/ m[e].kind = "repair"

LEMMA ShapeCarries ==
  ASSUME NEW m, NEW p, NEW k \in Nat, NEW e \in Nat, NEW n \in Nat,
         \A i \in k..e : Alike(p[i], m[i]), Shape(m, k, e, n), k <= e
  PROVE  Shape(p, k, e, n)
<1>1. p[k].calls = m[k].calls
  BY DEF Alike
<1>2. CASE Ran(m, k, e, n)
  <2>1. e = k + n /\ \A i \in 1..n : IsRun(m[k + i], i)
    BY <1>2 DEF Ran
  <2>2. ASSUME NEW i \in 1..n PROVE IsRun(p[k + i], i)
    <3>1. k + i \in k..e
      BY <2>1
    <3> QED
      BY <2>1, <3>1 DEF IsRun, Alike
  <2> QED
    BY <1>1, <2>1, <2>2 DEF Shape, Ran
<1>3. CASE Guided(m, k, e, n)
  <2>1. e = k + n + 1
    BY <1>3 DEF Guided
  <2>2. PICK a \in 1..n :
          /\ \A i \in 1..a : IsRun(m[k + i], i)
          /\ m[k + a + 1].kind = "guidance"
          /\ \A i \in a + 1..n : IsSkip(m[k + i + 1], i)
    BY <1>3 DEF Guided
  <2>3. ASSUME NEW i \in 1..a PROVE IsRun(p[k + i], i)
    <3>1. k + i \in k..e
      BY <2>1
    <3> QED
      BY <2>2, <3>1 DEF IsRun, Alike
  <2>4. ASSUME NEW i \in a + 1..n PROVE IsSkip(p[k + i + 1], i)
    <3>1. k + i + 1 \in k..e
      BY <2>1
    <3> QED
      BY <2>2, <3>1 DEF IsSkip, Alike
  <2>5. p[k + a + 1].kind = "guidance"
    <3>1. k + a + 1 \in k..e
      BY <2>1
    <3> QED
      BY <2>2, <3>1 DEF Alike
  <2> QED
    BY <1>1, <2>1, <2>3, <2>4, <2>5 DEF Shape, Guided
<1>4. CASE Repaired(m, k, e, n)
  BY <1>1, <1>4 DEF Shape, Repaired, Alike
<1> QED
  BY <1>2, <1>3, <1>4 DEF Shape

LEMMA ShapeHasNoReply ==
  ASSUME NEW m, NEW k \in Nat, NEW e \in Nat, NEW n \in Nat, Shape(m, k, e, n),
         NEW i \in k + 1..e
  PROVE  m[i].kind # "reply"
<1>1. CASE Ran(m, k, e, n)
  <2>1. i - k \in 1..n /\ k + (i - k) = i
    BY <1>1 DEF Ran
  <2> QED
    BY <1>1, <2>1 DEF Ran, IsRun
<1>2. CASE Guided(m, k, e, n)
  <2>1. PICK a \in 1..n :
          /\ \A j \in 1..a : IsRun(m[k + j], j)
          /\ m[k + a + 1].kind = "guidance"
          /\ \A j \in a + 1..n : IsSkip(m[k + j + 1], j)
    BY <1>2 DEF Guided
  <2>2. e = k + n + 1
    BY <1>2 DEF Guided
  <2>3. CASE i <= k + a
    <3>1. i - k \in 1..a /\ k + (i - k) = i
      BY <2>3
    <3> QED
      BY <2>1, <3>1 DEF IsRun
  <2>4. CASE i = k + a + 1
    BY <2>1, <2>4
  <2>5. CASE i > k + a + 1
    <3>1. i - k - 1 \in a + 1..n /\ k + (i - k - 1) + 1 = i
      BY <2>2, <2>5
    <3> QED
      BY <2>1, <3>1 DEF IsSkip
  <2> QED
    BY <2>3, <2>4, <2>5
<1>3. CASE Repaired(m, k, e, n)
  BY <1>3 DEF Repaired
<1> QED
  BY <1>1, <1>2, <1>3 DEF Shape

\* Who follows the last reply goes on from there.
LEMMA GrowBlock ==
  ASSUME NEW m \in Seq(Message), NEW x \in Message, x.kind # "reply",
         NEW open, Blocks(m, open),
         NEW k0 \in RepliesOf(m), NEW n0 \in Nat, NEW n1 \in Nat,
         Shape(m, k0, Len(m), n0), Shape(Append(m, x), k0, Len(m) + 1, n1),
         k0 \in open \/ n1 = m[k0].calls \/ x.kind = "repair"
  PROVE  Blocks(Append(m, x), open)
<1>1. PICK l \in Nat : l = Len(m)
  OBVIOUS
<1>2. PICK p : p = Append(m, x)
  OBVIOUS
<1>3. /\ p \in Seq(Message) /\ Len(p) = l + 1 /\ p[l + 1] = x
      /\ \A i \in 1..l : p[i] = m[i]
  BY <1>1, <1>2
<1>4. k0 \in 1..l
  BY <1>1 DEF RepliesOf
<1>5. SUFFICES ASSUME NEW k \in RepliesOf(p)
               PROVE  \E e \in k..l + 1, n \in Nat :
                        /\ Shape(p, k, e, n) /\ EndsAt(p, e)
                        /\ k \in open \/ n = p[k].calls \/ p[e].kind = "repair"
  BY <1>2, <1>3 DEF Blocks
<1>6. k \in 1..l /\ p[k] = m[k] /\ k \in RepliesOf(m)
  <2>1. k \in 1..l + 1 /\ p[k].kind = "reply"
    BY <1>3 DEF RepliesOf
  <2>2. k # l + 1
    BY <1>3, <2>1
  <2>3. k \in 1..l
    BY <2>1, <2>2
  <2> QED
    BY <1>1, <1>3, <2>1, <2>3 DEF RepliesOf
<1>7. CASE k = k0
  <2>1. Shape(p, k, l + 1, n1) /\ EndsAt(p, l + 1) /\ l + 1 \in k..l + 1
    BY <1>1, <1>2, <1>3, <1>6, <1>7 DEF EndsAt
  <2>2. k \in open \/ n1 = p[k].calls \/ p[l + 1].kind = "repair"
    BY <1>3, <1>6, <1>7
  <2> QED
    BY <2>1, <2>2
<1>8. CASE k # k0
  <2>1. PICK e \in k..l, n \in Nat :
          /\ Shape(m, k, e, n) /\ EndsAt(m, e)
          /\ k \in open \/ n = m[k].calls \/ m[e].kind = "repair"
    BY <1>1, <1>6 DEF Blocks
  <2>2. e \in Nat /\ e \in 1..l
    BY <1>6
  <2>3. e # l
    <3>1. CASE k < k0 /\ e = l
      <4>1. k0 \in k + 1..e /\ m[k0].kind = "reply"
        BY <1>4, <1>6, <3>1 DEF RepliesOf
      <4> QED
        BY <1>6, <2>1, <2>2, <4>1, ShapeHasNoReply
    <3>2. CASE k > k0 /\ e = l
      <4>1. k \in k0 + 1..l /\ m[k].kind = "reply"
        BY <1>4, <1>6, <3>2 DEF RepliesOf
      <4> QED
        BY <1>1, <1>4, <4>1, ShapeHasNoReply
    <3> QED
      BY <1>4, <1>6, <1>8, <3>1, <3>2
  <2>4. e + 1 \in 1..l /\ m[e + 1].kind = "reply"
    BY <1>1, <2>1, <2>2, <2>3 DEF EndsAt
  <2>5. EndsAt(p, e)
    BY <1>3, <2>4 DEF EndsAt
  <2>6. \A i \in k..e : Alike(p[i], m[i])
    BY <1>3, <1>6, <2>2 DEF Alike
  <2>7. Shape(p, k, e, n)
    BY <1>6, <2>1, <2>2, <2>6, ShapeCarries
  <2>8. p[e] = m[e] /\ e \in k..l + 1
    BY <1>3, <2>2
  <2> QED
    BY <1>6, <2>1, <2>5, <2>7, <2>8
<1> QED
  BY <1>7, <1>8

\* A reply begins a block of its own.
LEMMA OpenBlock ==
  ASSUME NEW m \in Seq(Message), NEW x \in Message, x.kind = "reply",
         NEW open, Blocks(m, open)
  PROVE  Blocks(Append(m, x), open \cup {Len(m) + 1})
<1>1. PICK l \in Nat : l = Len(m)
  OBVIOUS
<1>2. PICK p : p = Append(m, x)
  OBVIOUS
<1>3. /\ p \in Seq(Message) /\ Len(p) = l + 1 /\ p[l + 1] = x
      /\ \A i \in 1..l : p[i] = m[i]
  BY <1>1, <1>2
<1>4. SUFFICES ASSUME NEW k \in RepliesOf(p)
               PROVE  \E e \in k..l + 1, n \in Nat :
                        /\ Shape(p, k, e, n) /\ EndsAt(p, e)
                        /\ \/ k \in open \cup {l + 1} \/ n = p[k].calls
                           \/ p[e].kind = "repair"
  BY <1>1, <1>2, <1>3 DEF Blocks
<1>5. k \in 1..l + 1 /\ p[k].kind = "reply" /\ k \in Nat
  BY <1>3 DEF RepliesOf
<1>6. CASE k = l + 1
  <2>1. x.calls \in Nat
    BY DEF Message
  <2>2. Shape(p, k, k, 0)
    BY <1>3, <1>6, <2>1 DEF Shape, Ran
  <2>3. EndsAt(p, k)
    BY <1>3, <1>6 DEF EndsAt
  <2> QED
    BY <1>6, <2>2, <2>3
<1>7. CASE k # l + 1
  <2>1. k \in 1..l /\ p[k] = m[k] /\ k \in RepliesOf(m)
    BY <1>1, <1>3, <1>5, <1>7 DEF RepliesOf
  <2>2. PICK e \in k..l, n \in Nat :
          /\ Shape(m, k, e, n) /\ EndsAt(m, e)
          /\ k \in open \/ n = m[k].calls \/ m[e].kind = "repair"
    BY <1>1, <2>1 DEF Blocks
  <2>3. e \in Nat /\ e \in 1..l /\ e \in k..l + 1
    BY <2>1
  <2>4. EndsAt(p, e)
    <3>1. CASE e = l
      BY <1>3, <3>1 DEF EndsAt
    <3>2. CASE e # l
      BY <1>1, <1>3, <2>2, <2>3, <3>2 DEF EndsAt
    <3> QED
      BY <3>1, <3>2
  <2>5. \A i \in k..e : Alike(p[i], m[i])
    BY <1>3, <2>1, <2>3 DEF Alike
  <2>6. Shape(p, k, e, n)
    BY <1>5, <2>2, <2>3, <2>5, ShapeCarries
  <2>7. p[e] = m[e]
    BY <1>3, <2>3
  <2> QED
    BY <2>1, <2>2, <2>3, <2>4, <2>6, <2>7
<1> QED
  BY <1>6, <1>7

\* A block that is complete need not be excepted.
LEMMA CloseBlock ==
  ASSUME NEW m \in Seq(Message), NEW open, NEW k0 \in RepliesOf(m),
         Blocks(m, open \cup {k0}),
         NEW n0 \in Nat, Shape(m, k0, Len(m), n0),
         n0 = m[k0].calls \/ m[Len(m)].kind = "repair"
  PROVE  Blocks(m, open)
<1>1. SUFFICES ASSUME NEW k \in RepliesOf(m)
               PROVE  \E e \in k..Len(m), n \in Nat :
                        /\ Shape(m, k, e, n) /\ EndsAt(m, e)
                        /\ k \in open \/ n = m[k].calls \/ m[e].kind = "repair"
  BY DEF Blocks
<1>2. CASE k = k0
  <2>1. Len(m) \in k..Len(m) /\ EndsAt(m, Len(m))
    BY DEF RepliesOf, EndsAt
  <2> QED
    BY <1>2, <2>1
<1>3. CASE k # k0
  BY <1>3 DEF Blocks
<1> QED
  BY <1>2, <1>3

LEMMA WidenBlocks ==
  ASSUME NEW m, NEW open, NEW wide, Blocks(m, open), open \subseteq wide
  PROVE  Blocks(m, wide)
BY DEF Blocks

LEMMA NoBlocks ==
  ASSUME NEW m, NEW open, RepliesOf(m) = {}
  PROVE  Blocks(m, open)
BY DEF Blocks

\* What is cut stays where it belongs.
LEMMA CutBlocks ==
  ASSUME NEW m \in Seq(Message), NEW G, NEW open, Blocks(m, open)
  PROVE  Blocks(Without(m, G), open)
<1>1. PICK l \in Nat : l = Len(m)
  OBVIOUS
<1>2. PICK p : p = Without(m, G)
  OBVIOUS
<1>3. /\ p \in Seq(Message) /\ Len(p) = l
      /\ \A i \in 1..l : p[i] = IF i \in G THEN Gone(m[i]) ELSE m[i]
  BY <1>1, <1>2, WithoutIsMessages
<1>4. ASSUME NEW i \in 1..l PROVE Alike(p[i], m[i])
  <2>1. m[i] \in Message
    BY <1>1
  <2> QED
    BY <1>3, <2>1, GoneFields DEF Alike
<1>5. SUFFICES ASSUME NEW k \in RepliesOf(p)
               PROVE  \E e \in k..l, n \in Nat :
                        /\ Shape(p, k, e, n) /\ EndsAt(p, e)
                        /\ k \in open \/ n = p[k].calls \/ p[e].kind = "repair"
  BY <1>2, <1>3 DEF Blocks
<1>6. /\ k \in 1..l /\ k \in Nat /\ k \in RepliesOf(m)
      /\ p[k].calls = m[k].calls
  <2>1. k \in 1..l /\ p[k].kind = "reply"
    BY <1>3 DEF RepliesOf
  <2>2. Alike(p[k], m[k])
    BY <1>4, <2>1
  <2> QED
    BY <1>1, <2>1, <2>2 DEF Alike, RepliesOf
<1>7. PICK e \in k..l, n \in Nat :
        /\ Shape(m, k, e, n) /\ EndsAt(m, e)
        /\ k \in open \/ n = m[k].calls \/ m[e].kind = "repair"
  BY <1>1, <1>6 DEF Blocks
<1>8. e \in Nat /\ e \in 1..l
  BY <1>6
<1>9. Shape(p, k, e, n)
  <2>1. \A i \in k..e : Alike(p[i], m[i])
    BY <1>4, <1>6, <1>8
  <2> QED
    BY <1>6, <1>7, <1>8, <2>1, ShapeCarries
<1>10. EndsAt(p, e)
  <2>1. CASE e = l
    BY <1>3, <2>1 DEF EndsAt
  <2>2. CASE e # l
    <3>1. e + 1 \in 1..l /\ m[e + 1].kind = "reply"
      BY <1>1, <1>7, <1>8, <2>2 DEF EndsAt
    <3> QED
      BY <1>4, <3>1 DEF EndsAt, Alike
  <2> QED
    BY <2>1, <2>2
<1>11. p[e].kind = m[e].kind
  BY <1>4, <1>8 DEF Alike
<1> QED
  BY <1>6, <1>7, <1>9, <1>10, <1>11

\* The block of a reply ends where its shape does.
LEMMA BlockOfReply ==
  ASSUME NEW m \in Seq(Message), session.messages = m,
         NEW k \in RepliesOf(m), NEW e \in k..Len(m), NEW n \in Nat,
         Shape(m, k, e, n), EndsAt(m, e)
  PROVE  /\ Block(k) \in Seq(Message) /\ Len(Block(k)) = e - k
         /\ \A i \in 1..e - k : Block(k)[i] = m[k + i]
<1>1. PICK l \in Nat : l = Len(m)
  OBVIOUS
<1>2. PICK ends : ends = {i \in k..l : i = l \/ m[i + 1].kind = "reply"}
  OBVIOUS
<1>3. k \in 1..l /\ e \in Nat /\ e <= l /\ k <= e
  BY <1>1 DEF RepliesOf
<1>4. e \in ends /\ ends \in SUBSET Nat
  BY <1>1, <1>2, <1>3 DEF EndsAt
<1>5. ASSUME NEW i \in ends PROVE e <= i
  <2>1. SUFFICES ASSUME i < e PROVE FALSE
    BY <1>3, <1>4
  <2>2. i + 1 \in k + 1..e /\ m[i + 1].kind = "reply"
    BY <1>2, <1>3, <2>1
  <2> QED
    BY <1>3, <2>2, ShapeHasNoReply
<1>6. Min(ends) = e
  <2>1. Min(ends) \in ends /\ Min(ends) <= e
    BY <1>4, MinOfNumbers
  <2>2. e <= Min(ends)
    BY <1>5, <2>1
  <2> QED
    <3>1. Min(ends) \in Nat /\ e \in Nat
      BY <1>3, <1>4, <2>1
    <3> QED
      BY <2>1, <2>2, <3>1
<1>7. Block(k) = SubSeq(m, k + 1, e)
  BY <1>1, <1>2, <1>6 DEF Block
<1> QED
  BY <1>1, <1>3, <1>7

\* The answers to the first n calls, at A; behind the first a, if s = 1, there
\* is a message more.
Orderly(b, A, R, n, a, s) ==
  /\ A = 1..a \cup a + s + 1..n + s
  /\ R = IF s = 1 THEN {a + 1} ELSE {}
  /\ \A i \in A : b[i].skipped <=> i > a
  /\ \A i \in A :
       /\ b[i].call \in 1..n
       /\ {b[j].call : j \in {j \in A : j < i}} = 1..b[i].call - 1
  /\ {b[i].call : i \in A} = 1..n

LEMMA AnswersOfShape ==
  ASSUME NEW b, NEW A, NEW R, NEW n \in Nat, NEW a \in 0..n, NEW s \in {0, 1},
         DOMAIN b = 1..n + s,
         \A i \in 1..a : IsRun(b[i], i),
         s = 1 => b[a + 1].kind = "guidance",
         s = 0 => a = n,
         \A i \in a + 1..n : IsSkip(b[i + s], i),
         A = {i \in DOMAIN b : b[i].kind = "answer"},
         R = {i \in DOMAIN b : b[i].kind = "guidance"}
  PROVE  Orderly(b, A, R, n, a, s)
<1>1. ASSUME NEW i \in 1..n + s
      PROVE  \/ i <= a /\ i \in 1..a /\ IsRun(b[i], i)
             \/ s = 1 /\ i = a + 1 /\ b[i].kind = "guidance"
             \/ i > a + s /\ IsSkip(b[i], i - s)
  <2>1. CASE i <= a
    BY <2>1
  <2>2. CASE i > a + s
    <3>1. i - s \in a + 1..n /\ (i - s) + s = i
      BY <2>2
    <3> QED
      BY <2>2, <3>1
  <2>3. CASE i = a + 1 /\ s = 1
    BY <2>3
  <2> QED
    BY <2>1, <2>2, <2>3
<1>2. A = 1..a \cup a + s + 1..n + s
  BY <1>1 DEF IsRun, IsSkip
<1>3. R = IF s = 1 THEN {a + 1} ELSE {}
  BY <1>1 DEF IsRun, IsSkip
<1>4. ASSUME NEW i \in A
      PROVE  /\ b[i].call = IF i <= a THEN i ELSE i - s
             /\ b[i].skipped <=> i > a
  <2>1. i \in 1..n + s /\ b[i].kind = "answer"
    OBVIOUS
  <2>2. \/ i <= a /\ IsRun(b[i], i)
        \/ i > a + s /\ IsSkip(b[i], i - s)
    BY <1>1, <2>1
  <2>3. CASE i <= a /\ IsRun(b[i], i)
    <3>1. ~(i > a)
      BY <2>1, <2>3
    <3>2. b[i].call = i /\ ~b[i].skipped
      BY <2>3 DEF IsRun
    <3> QED
      BY <2>3, <3>1, <3>2
  <2>4. CASE i > a + s /\ IsSkip(b[i], i - s)
    <3>1. i > a /\ ~(i <= a)
      BY <2>1, <2>4
    <3>2. b[i].call = i - s /\ b[i].skipped
      BY <2>4 DEF IsSkip
    <3> QED
      BY <3>1, <3>2
  <2> QED
    BY <2>2, <2>3, <2>4
<1>5. ASSUME NEW i \in A
      PROVE  /\ b[i].call \in 1..n
             /\ {b[j].call : j \in {j \in A : j < i}} = 1..b[i].call - 1
  <2>1. PICK c : c = b[i].call
    OBVIOUS
  <2>2. c = (IF i <= a THEN i ELSE i - s) /\ i \in Nat /\ c \in 1..n
    BY <1>2, <1>4, <2>1
  <2>3. ASSUME NEW j \in A, j < i PROVE b[j].call \in 1..c - 1
    BY <1>2, <1>4, <2>2, <2>3
  <2>4. ASSUME NEW d \in 1..c - 1
        PROVE  \E j \in A : j < i /\ b[j].call = d
    <3>1. CASE d <= a
      <4>1. d \in A /\ d < i /\ b[d].call = d
        BY <1>2, <1>4, <2>2, <3>1
      <4> QED
        BY <4>1
    <3>2. CASE d > a
      <4>1. d \in Nat /\ d + s \in A /\ d + s < i /\ ~(d + s <= a)
        BY <1>2, <2>2, <3>2
      <4>2. b[d + s].call = (d + s) - s
        BY <1>4, <4>1
      <4>3. b[d + s].call = d
        BY <4>1, <4>2
      <4> QED
        BY <4>1, <4>3
    <3> QED
      BY <3>1, <3>2
  <2>5. {b[j].call : j \in {j \in A : j < i}} \subseteq 1..c - 1
    BY <2>3
  <2>6. 1..c - 1 \subseteq {b[j].call : j \in {j \in A : j < i}}
    BY <2>4
  <2> QED
    BY <2>1, <2>2, <2>5, <2>6, Zenon
<1>6. {b[i].call : i \in A} = 1..n
  <2>1. ASSUME NEW d \in 1..n PROVE \E j \in A : b[j].call = d
    <3>1. CASE d <= a
      <4>1. d \in A /\ d <= a
        BY <1>2, <3>1
      <4>2. b[d].call = d
        BY <1>4, <4>1
      <4> QED
        BY <4>1, <4>2
    <3>2. CASE d > a
      <4>1. d \in Nat /\ d + s \in A /\ ~(d + s <= a)
        BY <1>2, <3>2
      <4>2. b[d + s].call = (d + s) - s
        BY <1>4, <4>1
      <4>3. b[d + s].call = d
        BY <4>1, <4>2
      <4> QED
        BY <4>1, <4>3
    <3> QED
      BY <3>1, <3>2
  <2>2. \A i \in A : b[i].call \in 1..n
    BY <1>5
  <2> QED
    BY <2>1, <2>2
<1> QED
  BY <1>2, <1>3, <1>4, <1>5, <1>6 DEF Orderly

LEMMA BlocksBelong ==
  ASSUME NEW open, session.messages \in Seq(Message),
         Blocks(session.messages, open),
         \A k \in open : pc # "llm" \/ k <= run.start
  PROVE  AnswersBelong
<1>1. PICK m : m = session.messages
  OBVIOUS
<1>2. SUFFICES ASSUME NEW k \in Replies
      PROVE LET block == Block(k)
                Of(kind) == {i \in DOMAIN block : block[i].kind = kind}
                Answered(S) == {block[i].call : i \in S}
                calls == 1..session.messages[k].calls
            IN
              /\ \A i \in Of("answer") :
                   /\ block[i].call \in calls
                   /\ Answered({j \in Of("answer") : j < i}) = 1..block[i].call - 1
              /\ \A i \in Of("guidance") :
                   /\ Of("guidance") = {i} /\ i > 1
                   /\ \A j \in Of("answer") : block[j].skipped <=> j > i
              /\ Of("guidance") = {} => \A i \in Of("answer") : ~block[i].skipped
              /\ \/ pc # "llm" \/ k <= run.start
                 \/ Answered(Of("answer")) = calls
                 \/ Of("repair") # {}
  BY DEF AnswersBelong
<1>3. k \in RepliesOf(m) /\ k \in Nat /\ m[k] \in Message
  BY <1>1 DEF Replies, RepliesOf
<1>4. PICK c \in Nat : c = m[k].calls
  BY <1>3 DEF Message
<1>5. PICK e \in k..Len(m), n \in Nat :
        /\ Shape(m, k, e, n) /\ EndsAt(m, e)
        /\ k \in open \/ n = c \/ m[e].kind = "repair"
  BY <1>1, <1>3, <1>4 DEF Blocks
<1>6. PICK b : b = Block(k)
  OBVIOUS
<1>7. PICK l : l = e - k
  OBVIOUS
<1>8. l \in Nat /\ e = k + l
  BY <1>1, <1>3, <1>7
<1>9. Len(b) = l /\ DOMAIN b = 1..l /\ \A i \in 1..l : b[i] = m[k + i]
  <2>1. Len(b) = l /\ \A i \in 1..l : b[i] = m[k + i]
    BY <1>1, <1>3, <1>5, <1>6, <1>7, BlockOfReply
  <2>2. b \in Seq(Message)
    BY <1>1, <1>3, <1>5, <1>6, BlockOfReply
  <2> QED
    BY <2>1, <2>2
<1>10. n <= c
  BY <1>4, <1>5 DEF Shape
<1>11. PICK A : A = {i \in DOMAIN b : b[i].kind = "answer"}
  OBVIOUS
<1>12. PICK R : R = {i \in DOMAIN b : b[i].kind = "guidance"}
  OBVIOUS
<1>13. PICK P : P = {i \in DOMAIN b : b[i].kind = "repair"}
  OBVIOUS
<1> DEFINE Belongs ==
      /\ \A i \in A : /\ b[i].call \in 1..c
                      /\ {b[j].call : j \in {j \in A : j < i}} = 1..b[i].call - 1
      /\ \A i \in R : /\ R = {i} /\ i > 1
                      /\ \A j \in A : b[j].skipped <=> j > i
      /\ R = {} => \A i \in A : ~b[i].skipped
      /\ pc # "llm" \/ k <= run.start \/ {b[i].call : i \in A} = 1..c \/ P # {}
<1>14. ASSUME NEW s \in {0, 1}, NEW a \in 0..n,
              l = n + s, s = 1 => a > 0, s = 0 => a = n,
              Orderly(b, A, R, n, a, s),
              k \in open \/ n = c
       PROVE  Belongs
  <2>0. /\ A = 1..a \cup a + s + 1..n + s
        /\ R = IF s = 1 THEN {a + 1} ELSE {}
        /\ \A i \in A : b[i].skipped <=> i > a
        /\ \A i \in A :
             /\ b[i].call \in 1..n
             /\ {b[j].call : j \in {j \in A : j < i}} = 1..b[i].call - 1
        /\ {b[i].call : i \in A} = 1..n
    BY <1>14 DEF Orderly
  <2>1. \A i \in A : b[i].call \in 1..c
    BY <1>10, <2>0
  <2>2. ASSUME NEW i \in R
        PROVE  /\ R = {i} /\ i > 1
               /\ \A j \in A : b[j].skipped <=> j > i
    <3>1. s = 1 /\ i = a + 1 /\ R = {i} /\ i > 1
      BY <1>14, <2>0
    <3>2. \A j \in A : j > i <=> j > a
      BY <1>14, <2>0, <3>1
    <3> QED
      BY <1>14, <2>0, <3>1, <3>2, Zenon
  <2>3. R = {} => \A i \in A : ~b[i].skipped
    <3> SUFFICES ASSUME R = {}, NEW i \in A PROVE ~b[i].skipped
      OBVIOUS
    <3>1. s = 0 /\ a = n
      BY <1>14, <2>0
    <3>2. ~(i > a)
      BY <1>14, <2>0, <3>1
    <3> QED
      BY <1>14, <2>0, <3>2, Zenon
  <2>4. pc # "llm" \/ k <= run.start \/ {b[i].call : i \in A} = 1..c
    <3>1. CASE k \in open
      BY <3>1
    <3>2. CASE n = c
      BY <1>14, <2>0, <3>2
    <3> QED
      BY <1>14, <2>0, <3>1, <3>2
  <2> QED
    BY <1>14, <2>0, <2>1, <2>2, <2>3, <2>4, Zenon
<1>15. ASSUME Ran(m, k, e, n) PROVE Belongs
  <2>0. l = n /\ \A i \in 1..n : IsRun(m[k + i], i)
    BY <1>3, <1>8, <1>15 DEF Ran
  <2>1. l = n /\ \A i \in 1..n : IsRun(b[i], i)
    BY <1>9, <2>0
  <2>2. k \in open \/ n = c
    <3>1. n = 0 => m[e].kind = "reply"
      BY <1>3, <1>15 DEF Ran, RepliesOf
    <3>2. n # 0 => m[e].kind = "answer"
      BY <1>15 DEF Ran, IsRun
    <3> QED
      BY <1>5, <3>1, <3>2
  <2>3. DOMAIN b = 1..n + 0 /\ n \in 0..n /\ n + 0 = n
    BY <1>9, <2>1
  <2>4. PICK s \in {0, 1}, a \in 0..n : s = 0 /\ a = n
    BY <2>3
  <2>5. Orderly(b, A, R, n, a, s)
    <3>1. /\ DOMAIN b = 1..n + s
          /\ \A i \in 1..a : IsRun(b[i], i)
          /\ s = 1 => b[a + 1].kind = "guidance"
          /\ s = 0 => a = n
          /\ \A i \in a + 1..n : IsSkip(b[i + s], i)
      BY <2>1, <2>3, <2>4
    <3> HIDE DEF Belongs
    <3> QED
      BY <1>11, <1>12, <3>1, AnswersOfShape
  <2>6. l = n + s /\ (s = 1 => a > 0) /\ (s = 0 => a = n)
    BY <2>1, <2>4
  <2> HIDE DEF Belongs
  <2> QED
    BY <1>14, <2>2, <2>5, <2>6
<1>16. ASSUME Guided(m, k, e, n) PROVE Belongs
  <2>1. PICK a \in 1..n :
          /\ \A i \in 1..a : IsRun(m[k + i], i)
          /\ m[k + a + 1].kind = "guidance"
          /\ \A i \in a + 1..n : IsSkip(m[k + i + 1], i)
    BY <1>16 DEF Guided
  <2>2. l = n + 1 /\ e = k + n + 1
    BY <1>3, <1>8, <1>16 DEF Guided
  <2>3. k \in open \/ n = c
    <3>1. CASE a = n
      BY <1>5, <2>1, <2>2, <3>1
    <3>2. CASE a # n
      <4>1. n \in a + 1..n
        BY <3>2
      <4>2. m[e].kind = "answer"
        BY <2>1, <2>2, <4>1 DEF IsSkip
      <4> QED
        BY <1>5, <4>2
    <3> QED
      BY <3>1, <3>2
  <2>4. PICK s \in {0, 1} : s = 1
    OBVIOUS
  <2>5. /\ DOMAIN b = 1..n + s
        /\ \A i \in 1..a : IsRun(b[i], i)
        /\ s = 1 => b[a + 1].kind = "guidance"
        /\ s = 0 => a = n
    <3>1. ASSUME NEW i \in 1..a PROVE IsRun(b[i], i)
      BY <1>9, <2>1, <2>2
    <3>2. b[a + 1] = m[k + a + 1]
      <4>1. a + 1 \in 1..l /\ k + (a + 1) = k + a + 1
        BY <1>3, <2>2
      <4>2. b[a + 1] = m[k + (a + 1)]
        BY <1>9, <4>1
      <4> QED
        BY <4>1, <4>2
    <3> QED
      BY <1>9, <2>1, <2>2, <2>4, <3>1, <3>2
  <2>6. ASSUME NEW i \in a + 1..n PROVE IsSkip(b[i + s], i)
    <3>1. i + s \in 1..l /\ k + (i + s) = k + i + 1
      BY <1>3, <2>2, <2>4
    <3>2. b[i + s] = m[k + i + 1]
      <4>1. b[i + s] = m[k + (i + s)]
        BY <1>9, <3>1
      <4> QED
        BY <3>1, <4>1
    <3> QED
      BY <2>1, <3>2
  <2>7. a \in 0..n
    OBVIOUS
  <2>8. Orderly(b, A, R, n, a, s)
    <3> HIDE DEF Belongs
    <3> QED
      BY <1>11, <1>12, <2>5, <2>6, <2>7, AnswersOfShape
  <2>9. l = n + s /\ (s = 1 => a > 0) /\ (s = 0 => a = n)
    BY <2>2, <2>4
  <2> HIDE DEF Belongs
  <2> QED
    BY <1>14, <2>3, <2>7, <2>8, <2>9
<1>17. ASSUME Repaired(m, k, e, n) PROVE Belongs
  <2>1. l = 1 /\ b[1].kind = "repair"
    BY <1>3, <1>8, <1>9, <1>17 DEF Repaired
  <2>2. A = {} /\ R = {} /\ 1 \in P
    BY <1>9, <1>11, <1>12, <1>13, <2>1
  <2> QED
    BY <2>2
<1>18. Belongs
  <2> HIDE DEF Belongs
  <2> QED
    BY <1>5, <1>15, <1>16, <1>17 DEF Shape
<1>19. session.messages[k].calls = c
  BY <1>1, <1>4
<1> QED
  BY <1>6, <1>11, <1>12, <1>13, <1>18, <1>19

-----------------------------------------------------------------------------
(* The inductive invariant *)

InBounds(x) ==
  /\ x.dropped => x.length <= Placeholder
  /\ x.kind = "answer" =>
       x.length # 0 /\ (~x.dropped => x.length <= MaxToolOutput + 1)

Sound(m) == m \in Seq(Message) /\ \A i \in DOMAIN m : InBounds(m[i])

\* A session that may be saved, and taken up again by a later process.
Storable(s) ==
  s \in SessionRecord /\ Sound(s.messages) /\ Blocks(s.messages, Nat)

KeptInv ==
  /\ temp \in Text \cup {NoFile} /\ answer \in {"none", "saved", "refused"}
  /\ file # NoFile => Storable(file[1])
  /\ saving # NoSession => Storable(saving)

RunTypes ==
  /\ session \in SessionRecord
  /\ run \in [start : Nat, before : Seq(Message), planning : BOOLEAN,
              executing : BOOLEAN, next : Nat]
  /\ pc \in {"off", "turn", "llm", "judge", "call", "result", "skip", "save",
             "saving"}
  /\ processes \in 0..MaxProcesses

\* Between requests every reply of this run is complete; before that the last
\* one is as far as its calls have been carried out.
BlocksInv ==
  LET m == session.messages
      l == Len(session.messages)
  IN  /\ Blocks(m, Nat)
      /\ pc \in {"turn", "llm"} => m # <<>> /\ Blocks(m, 0..run.start)
      /\ pc \in {"judge", "call", "result", "skip"} =>
           \E k \in RepliesOf(m), n \in Nat :
             /\ Blocks(m, 0..run.start \cup {k}) /\ n <= m[k].calls
             /\ pc = "judge" => Ran(m, k, l, n) /\ n = 0
             /\ pc = "call" => Ran(m, k, l, n) /\ run.next = n + 1
             /\ pc = "result" => Ran(m, k, l, n) /\ run.next = n /\ n > 0
             /\ pc = "skip" => Guided(m, k, l, n) /\ run.next = n + 1

\* A repair is awaited when it was asked for last.
RepairInv ==
  /\ pc \in {"llm", "judge"} => (run.planning <=> session.plan \in {"plan", "repair"})
  /\ pc \in {"call", "result", "skip"} => session.plan \notin {"plan", "repair"}
  /\ pc = "turn" =>
       /\ session.plan = "repair" => IsRepairPrompt(Last(session.messages))
       /\ Last(session.messages).kind = "repair" =>
            session.plan = "repair" \/ run.start = Len(session.messages)

LoopInv ==
  /\ RunTypes /\ Sound(session.messages)
  /\ BlocksInv /\ RepairInv /\ CutIsLeast /\ RepairIsRecognised

ConversationInv == FileInv /\ KeptInv /\ LoopInv

-----------------------------------------------------------------------------
(* Messages *)

LEMMA PlainFields ==
  ASSUME NEW kind \in {"system", "user", "reply", "answer", "guidance", "repair"},
         NEW length \in Nat
  PROVE  /\ Plain(kind, length) \in Message
         /\ Plain(kind, length).kind = kind /\ ~Plain(kind, length).dropped
         /\ Plain(kind, length).length = length
         /\ kind # "answer" => InBounds(Plain(kind, length))
BY DEF Plain, Message, InBounds

LEMMA ReplyFields ==
  ASSUME NEW calls \in Nat, NEW length \in Nat
  PROVE  /\ Reply(calls, length) \in Message
         /\ Reply(calls, length).kind = "reply" /\ InBounds(Reply(calls, length))
         /\ Reply(calls, length).calls = calls
BY DEF Reply, Plain, Message, InBounds

LEMMA AnswerFields ==
  ASSUME NEW call \in Nat, NEW length \in Nat, length # 0,
         length <= MaxToolOutput + 1
  PROVE  /\ Answer(call, length) \in Message
         /\ IsRun(Answer(call, length), call) /\ InBounds(Answer(call, length))
BY DEF Answer, Plain, Message, InBounds, IsRun

LEMMA SkippedFields ==
  ASSUME NEW call \in Nat
  PROVE  /\ SkippedAnswer(call) \in Message
         /\ IsSkip(SkippedAnswer(call), call) /\ InBounds(SkippedAnswer(call))
<1>1. PICK x : x = Answer(call, 1)
  OBVIOUS
<1>2. x \in Message /\ IsRun(x, call) /\ x.length = 1 /\ ~x.dropped
  <2>1. 1 <= MaxToolOutput + 1
    BY LimitsAssumption DEF LimitsAssumption
  <2>2. x \in Message /\ IsRun(x, call)
    BY <1>1, <2>1, AnswerFields
  <2> QED
    BY <1>1, <2>2 DEF Answer, Plain
<1>3. [x EXCEPT !.skipped = TRUE] \in Message
  BY <1>2 DEF Message
<1>4. /\ IsSkip([x EXCEPT !.skipped = TRUE], call)
      /\ [x EXCEPT !.skipped = TRUE].length = 1
      /\ ~[x EXCEPT !.skipped = TRUE].dropped
  BY <1>2 DEF Message, IsRun, IsSkip
<1>5. InBounds([x EXCEPT !.skipped = TRUE])
  BY <1>4, LimitsAssumption DEF InBounds
<1> QED
  BY <1>1, <1>3, <1>4, <1>5 DEF SkippedAnswer

LEMMA TruncatedIsBounded ==
  ASSUME NEW length \in OutputLengths
  PROVE  /\ TruncateToolOutput(length) \in Nat
         /\ TruncateToolOutput(length) # 0
         /\ TruncateToolOutput(length) <= MaxToolOutput + 1
BY LimitsAssumption DEF TruncateToolOutput

LEMMA SoundAppend ==
  ASSUME NEW m, Sound(m), NEW x \in Message, InBounds(x)
  PROVE  Sound(Append(m, x))
BY DEF Sound

LEMMA SoundCut ==
  ASSUME NEW m, Sound(m), NEW G
  PROVE  Sound(Without(m, G)) /\ Outspoken(m)
<1>1. PICK l \in Nat : l = Len(m)
  BY DEF Sound
<1>2. m \in Seq(Message) /\ \A i \in 1..l : InBounds(m[i]) /\ m[i] \in Message
  BY <1>1 DEF Sound
<1>3. PICK p : p = Without(m, G)
  OBVIOUS
<1>4. /\ p \in Seq(Message) /\ Len(p) = l
      /\ \A i \in 1..l : p[i] = IF i \in G THEN Gone(m[i]) ELSE m[i]
  BY <1>1, <1>2, <1>3, WithoutIsMessages
<1>5. ASSUME NEW i \in 1..l PROVE InBounds(p[i])
  <2>1. InBounds(Gone(m[i]))
    <3>1. Gone(m[i]).dropped /\ Gone(m[i]).length = Placeholder
      BY <1>2, GoneFields
    <3> QED
      BY <3>1, LimitsAssumption DEF InBounds
  <2> QED
    BY <1>2, <1>4, <2>1
<1>6. Sound(p)
  BY <1>4, <1>5 DEF Sound
<1>7. Outspoken(m)
  BY <1>1, <1>2 DEF Outspoken, InBounds
<1> QED
  BY <1>3, <1>6, <1>7

LEMMA SeedIsSound ==
  /\ Sound(Seed) /\ Seed # <<>> /\ RepliesOf(Seed) = {}
  /\ Seed[Len(Seed)].kind = "user"
<1>1. PICK x : x = Plain("system", 1)
  OBVIOUS
<1>2. PICK y : y = Plain("user", 1)
  OBVIOUS
<1>3. /\ x \in Message /\ InBounds(x) /\ x.kind = "system"
      /\ y \in Message /\ InBounds(y) /\ y.kind = "user"
  BY <1>1, <1>2, PlainFields
<1>4. CASE HasSystemPrompt
  <2>1. PICK t : t = <<x>>
    OBVIOUS
  <2>2. PICK u : u = <<y>>
    OBVIOUS
  <2>3. t \in Seq(Message) /\ Len(t) = 1 /\ t[1] = x
    BY <1>3, <2>1
  <2>4. u \in Seq(Message) /\ Len(u) = 1 /\ u[1] = y
    BY <1>3, <2>2
  <2>5. PICK s : s = t \o u
    OBVIOUS
  <2>6. s \in Seq(Message) /\ Len(s) = 2
    <3>1. s \in Seq(Message) /\ Len(s) = Len(t) + Len(u)
      BY <2>3, <2>4, <2>5, ConcatProperties
    <3> QED
      BY <2>3, <2>4, <3>1
  <2>7. s[1] = x /\ s[2] = y
    <3>1. s[1] = t[1] /\ s[2] = u[2 - 1]
      BY <2>3, <2>4, <2>5, ConcatProperties
    <3> QED
      BY <2>3, <2>4, <3>1
  <2>8. Seed = s
    BY <1>1, <1>2, <1>4, <2>1, <2>2, <2>5 DEF Seed
  <2>9. \A i \in DOMAIN s : i = 1 \/ i = 2
    BY <2>6
  <2>10. Sound(s)
    BY <1>3, <2>6, <2>7, <2>9 DEF Sound
  <2>11. RepliesOf(s) = {}
    BY <1>3, <2>7, <2>9 DEF RepliesOf
  <2>12. s # <<>>
    BY <2>6
  <2>13. s[Len(s)].kind = "user"
    BY <1>3, <2>6, <2>7
  <2> QED
    BY <2>8, <2>10, <2>11, <2>12, <2>13
<1>5. CASE ~HasSystemPrompt
  <2>1. Seed = <<y>>
    <3>1. Seed = <<>> \o <<y>>
      BY <1>2, <1>5 DEF Seed
    <3> QED
      BY <3>1
  <2> QED
    BY <1>3, <2>1 DEF Sound, RepliesOf
<1> QED
  BY <1>4, <1>5

\* Calls looks for the last reply.
LEMMA CallsOfLast ==
  ASSUME session.messages \in Seq(Message), NEW k \in RepliesOf(session.messages),
         \A i \in k + 1..Len(session.messages) : session.messages[i].kind # "reply"
  PROVE  Calls = session.messages[k].calls
<1>1. PICK m : m = session.messages
  OBVIOUS
<1>2. PICK R : R = {i \in 1..Len(m) : m[i].kind = "reply"}
  OBVIOUS
<1>3. k \in R /\ R \in SUBSET Nat
  BY <1>1, <1>2 DEF RepliesOf
<1>4. ASSUME NEW i \in R PROVE i <= k
  BY <1>1, <1>2, <1>3
<1>5. Max(R) = k
  BY <1>3, <1>4, MaxOfNumbers
<1>6. SelectLastInSeq(m, LAMBDA message : message.kind = "reply") = k
  BY <1>2, <1>3, <1>5 DEF SelectLastInSeq
<1> QED
  BY <1>1, <1>6 DEF Calls

LEMMA CallsOfBlock ==
  ASSUME session.messages \in Seq(Message), NEW k \in RepliesOf(session.messages),
         NEW n \in Nat, n <= session.messages[k].calls,
         \/ Ran(session.messages, k, Len(session.messages), n)
         \/ Guided(session.messages, k, Len(session.messages), n)
  PROVE  Calls = session.messages[k].calls
<1>1. k \in Nat /\ Len(session.messages) \in Nat
  BY DEF RepliesOf
<1>2. Shape(session.messages, k, Len(session.messages), n)
  BY DEF Shape
<1>3. \A i \in k + 1..Len(session.messages) : session.messages[i].kind # "reply"
  BY <1>1, <1>2, ShapeHasNoReply
<1> QED
  BY <1>3, CallsOfLast

-----------------------------------------------------------------------------
(* Steps of a run *)

\* The run ends, or has ended.
LEMMA EndKeeps ==
  ASSUME LoopInv, pc' \in {"save", "saving"},
         session'.messages = session.messages, session' \in SessionRecord,
         run' \in [start : Nat, before : Seq(Message), planning : BOOLEAN,
                   executing : BOOLEAN, next : Nat],
         processes' = processes
  PROVE  LoopInv'
BY DEF LoopInv, RunTypes, Sound, InBounds, BlocksInv, RepairInv, CutIsLeast,
       RepairIsRecognised

\* The model is asked again, and no repair was asked for.
LEMMA TurnKeeps ==
  ASSUME LoopInv, pc' = "turn", session'.messages = session.messages,
         session' \in SessionRecord,
         run' \in [start : Nat, before : Seq(Message), planning : BOOLEAN,
                   executing : BOOLEAN, next : Nat],
         run'.start = run.start, processes' = processes,
         Blocks(session.messages, 0..run.start), session.messages # <<>>,
         Last(session.messages).kind # "repair", session'.plan # "repair"
  PROVE  LoopInv'
BY DEF LoopInv, RunTypes, Sound, InBounds, BlocksInv, RepairInv, CutIsLeast,
       RepairIsRecognised

LEMMA OffKeeps ==
  ASSUME LoopInv, Off, processes' = processes
  PROVE  LoopInv'
<1>1. session' = NewSession /\ run' = NoRun /\ pc' = "off"
  BY DEF Off
<1>2. NewSession \in SessionRecord /\ NewSession.messages = <<>>
  BY DEF NewSession, SessionRecord, PlanStates
<1>3. RunTypes'
  BY <1>1, <1>2 DEF NoRun, LoopInv, RunTypes
<1>4. Sound(<<>>) /\ RepliesOf(<<>>) = {}
  BY DEF Sound, RepliesOf
<1>5. Blocks(<<>>, Nat)
  BY <1>4, NoBlocks
<1>6. Sound(session.messages)' /\ BlocksInv'
  BY <1>1, <1>2, <1>4, <1>5 DEF BlocksInv
<1>7. RepairInv' /\ CutIsLeast' /\ RepairIsRecognised'
  BY <1>1 DEF RepairInv, CutIsLeast, RepairIsRecognised
<1> QED
  BY <1>3, <1>6, <1>7 DEF LoopInv

LEMMA EnterKeeps ==
  ASSUME NEW s, Storable(s) \/ s = NewSession, Enter(s), LoopInv,
         processes' \in 0..MaxProcesses
  PROVE  LoopInv'
<1>1. PICK plan \in {"plan", "idle"} :
        session' = [s EXCEPT
          !.plan = IF @ = "active" THEN @ ELSE plan,
          !.messages = IF @ = <<>> THEN Seed ELSE @]
  BY DEF Enter
<1>2. /\ run' = [NoRun EXCEPT !.start = Len(session'.messages)]
      /\ pc' = "turn"
  BY DEF Enter
<1>3. s \in SessionRecord /\ Sound(s.messages) /\ Blocks(s.messages, Nat)
  <2>1. CASE s = NewSession
    <3>1. NewSession \in SessionRecord /\ NewSession.messages = <<>>
      BY DEF NewSession, SessionRecord, PlanStates
    <3>2. Sound(<<>>) /\ RepliesOf(<<>>) = {}
      BY DEF Sound, RepliesOf
    <3> QED
      BY <2>1, <3>1, <3>2, NoBlocks
  <2> QED
    BY <2>1 DEF Storable
<1>4. PICK m : m = session'.messages
  OBVIOUS
<1>5. m = IF s.messages = <<>> THEN Seed ELSE s.messages
  BY <1>1, <1>3, <1>4 DEF SessionRecord
<1>6. Sound(m) /\ m # <<>> /\ Blocks(m, Nat)
  BY <1>3, <1>5, SeedIsSound, NoBlocks
<1>7. m \in Seq(Message) /\ Len(m) \in Nat
  BY <1>6 DEF Sound
<1>8. session' \in SessionRecord /\ session'.plan # "repair"
  BY <1>1, <1>3, <1>4, <1>5, <1>7 DEF SessionRecord, PlanStates
<1>9. run'.start = Len(m) /\ RunTypes'
  <2>1. run' = [start |-> Len(m), before |-> <<>>, planning |-> FALSE,
                executing |-> FALSE, next |-> 0]
    BY <1>2, <1>4 DEF NoRun
  <2>2. <<>> \in Seq(Message)
    OBVIOUS
  <2>3. run' \in [start : Nat, before : Seq(Message), planning : BOOLEAN,
                  executing : BOOLEAN, next : Nat]
    BY <1>7, <2>1, <2>2
  <2>4. run'.start = Len(m)
    BY <2>1
  <2> QED
    BY <1>2, <1>8, <2>3, <2>4 DEF RunTypes
<1>10. Blocks(m, 0..Len(m))
  <2>1. RepliesOf(m) \subseteq 0..Len(m)
    BY <1>7 DEF RepliesOf
  <2> QED
    BY <1>6, <2>1 DEF Blocks
<1>11. BlocksInv'
  BY <1>2, <1>4, <1>6, <1>9, <1>10 DEF BlocksInv
<1>12. RepairInv' /\ CutIsLeast' /\ RepairIsRecognised'
  BY <1>2, <1>4, <1>8, <1>9 DEF RepairInv, CutIsLeast, RepairIsRecognised
<1> QED
  BY <1>4, <1>6, <1>9, <1>11, <1>12 DEF LoopInv

LEMMA StaysSo ==
  ASSUME LoopInv, UNCHANGED <<session, run, pc>>, processes' \in 0..MaxProcesses
  PROVE  LoopInv'
<1>1. RunTypes' /\ Sound(session.messages)'
  BY DEF LoopInv, RunTypes, Sound, InBounds
<1>2. BlocksInv' /\ RepairInv' /\ CutIsLeast' /\ RepairIsRecognised'
  BY DEF LoopInv, BlocksInv, RepairInv, CutIsLeast, RepairIsRecognised
<1> QED
  BY <1>1, <1>2 DEF LoopInv

LEMMA BootKeeps ==
  ASSUME ConversationInv, Boot \/ BootFails
  PROVE  LoopInv'
<1>1. processes' \in 0..MaxProcesses
  BY LimitsAssumption DEF Boot, BootFails, StartProcess, ConversationInv, LoopInv, RunTypes
<1>2. CASE Boot
  <2>1. CASE Missing /\ Enter(NewSession)
    BY <1>1, <2>1, EnterKeeps DEF ConversationInv
  <2>2. CASE Loadable /\ Enter(file[1])
    <3>1. Storable(file[1])
      BY <2>2 DEF Loadable, ConversationInv, KeptInv
    <3> QED
      BY <1>1, <2>2, <3>1, EnterKeeps DEF ConversationInv
  <2> QED
    BY <1>2, <2>1, <2>2 DEF Boot
<1>3. CASE BootFails
  <2>1. UNCHANGED <<session, run, pc>>
    BY <1>3 DEF BootFails
  <2> QED
    BY <1>1, <2>1, StaysSo DEF ConversationInv
<1> QED
  BY <1>2, <1>3

\* What is left of a repair prompt that was asked for last.
LEMMA CutRepair ==
  ASSUME NEW m \in Seq(Message), m # <<>>, Outspoken(m),
         NEW G, GoesFirst(m, G)
  PROVE  LET sent == Without(m, G) IN
           /\ Last(sent).kind = Last(m).kind
           /\ IsRepairPrompt(Last(m)) =>
                IsRepairPrompt(Last(sent)) \/ Droppable(sent) = {}
<1>1. PICK l \in Nat : l = Len(m)
  OBVIOUS
<1>2. PICK sent : sent = Without(m, G)
  OBVIOUS
<1>3. l \in 1..l /\ m[l] \in Message /\ Last(m) = m[l]
  BY <1>1 DEF Last
<1>4. Last(sent) = IF l \in G THEN Gone(m[l]) ELSE m[l]
  BY <1>1, <1>2, <1>3, WithoutIsMessages DEF Last
<1>5. PICK D, T : D = Droppable(m) /\ T = ToolOutputs(m)
  OBVIOUS
<1>6. /\ G \subseteq D /\ (G \subseteq T \/ T \subseteq G)
      /\ \A i \in (D \ T) \ G, j \in (D \ T) \cap G : j < i
  BY <1>5 DEF GoesFirst
<1>7. /\ Droppable(sent) = D \ G /\ D \subseteq 2..l
      /\ T = {i \in D : m[i].kind = "answer"}
  BY <1>1, <1>2, <1>5, <1>6, WithoutDroppable
<1>8. ASSUME IsRepairPrompt(m[l]), l \in G PROVE D \ G = {}
  <2>1. l \notin T /\ T \subseteq G /\ l \in (D \ T) \cap G
    BY <1>6, <1>7, <1>8 DEF IsRepairPrompt
  <2>2. ASSUME NEW i \in D \ G PROVE FALSE
    <3>1. i \in (D \ T) \ G /\ i \in Nat /\ i <= l
      BY <1>7, <2>1, <2>2
    <3>2. l < i
      BY <1>6, <2>1, <3>1
    <3> QED
      BY <3>1, <3>2
  <2> QED
    BY <2>2
<1> QED
  BY <1>2, <1>3, <1>4, <1>7, <1>8, GoneFields

LEMMA StartTurnKeeps ==
  ASSUME LoopInv, StartTurn
  PROVE  LoopInv'
<1>1. /\ pc = "turn" /\ pc' = "llm" /\ processes' = processes
      /\ session' = [session EXCEPT !.turn = @ + 1,
                                    !.messages = EnforceContextLimits(@)]
      /\ run' = [run EXCEPT !.before = session.messages,
                            !.planning = session.plan \in {"plan", "repair"},
                            !.executing = session.plan = "active"]
  BY DEF StartTurn
<1>2. PICK m : m = session.messages
  OBVIOUS
<1>3. Sound(m) /\ m \in Seq(Message) /\ m # <<>> /\ Outspoken(m)
  BY <1>1, <1>2, SoundCut DEF LoopInv, Sound, BlocksInv
<1>4. PICK G : /\ GoesFirst(m, G)
               /\ EnforceContextLimits(m) = Without(m, G)
               /\ TooLong(Without(m, G)) => Droppable(Without(m, G)) = {}
  BY <1>3, CutResult
<1>5. PICK sent : sent = Without(m, G)
  OBVIOUS
<1>6. Sound(sent) /\ sent \in Seq(Message) /\ Len(sent) = Len(m) /\ sent # <<>>
  <2>1. Sound(sent) /\ sent \in Seq(Message) /\ Len(sent) = Len(m)
    BY <1>3, <1>5, SoundCut, WithoutIsMessages
  <2> QED
    BY <1>3, <2>1
<1>7. /\ session' \in SessionRecord /\ session'.messages = sent
      /\ session'.plan = session.plan
  <2>1. session \in SessionRecord
    BY DEF LoopInv, RunTypes
  <2>2. session' = [session EXCEPT !.turn = @ + 1, !.messages = sent]
    BY <1>1, <1>2, <1>4, <1>5
  <2>3. session.turn \in Nat /\ session.plan \in PlanStates /\ session.total \in Nat
    BY <2>1 DEF SessionRecord
  <2>4. session' = [messages |-> sent, plan |-> session.plan,
                    turn |-> session.turn + 1, total |-> session.total]
    BY <2>1, <2>2 DEF SessionRecord
  <2> QED
    BY <1>6, <2>3, <2>4 DEF SessionRecord
<1>8. /\ run'.before = m /\ run'.start = run.start
      /\ run'.planning <=> session.plan \in {"plan", "repair"}
  BY <1>1, <1>2 DEF LoopInv, RunTypes
<1>9. RunTypes'
  <2>1. run' \in [start : Nat, before : Seq(Message), planning : BOOLEAN,
                  executing : BOOLEAN, next : Nat]
    <3>1. /\ run \in [start : Nat, before : Seq(Message), planning : BOOLEAN,
                       executing : BOOLEAN, next : Nat]
          /\ (session.plan \in {"plan", "repair"}) \in BOOLEAN
          /\ (session.plan = "active") \in BOOLEAN
      BY DEF LoopInv, RunTypes
    <3> QED
      BY <1>1, <1>2, <1>3, <3>1
  <2> QED
    BY <1>1, <1>7, <2>1 DEF LoopInv, RunTypes
<1>10. Blocks(sent, 0..run.start) /\ Blocks(sent, Nat)
  BY <1>1, <1>2, <1>3, <1>5, CutBlocks DEF LoopInv, BlocksInv
<1>11. BlocksInv'
  BY <1>1, <1>6, <1>7, <1>8, <1>10 DEF BlocksInv
<1>12. CutIsLeast'
  <2>1. LeastCut(m, sent)
    BY <1>3, <1>4, <1>5, CutIsLeastCut
  <2> QED
    BY <1>7, <1>8, <2>1 DEF CutIsLeast
<1>13. /\ Last(sent).kind = Last(m).kind
       /\ IsRepairPrompt(Last(m)) =>
            IsRepairPrompt(Last(sent)) \/ Droppable(sent) = {}
  BY <1>3, <1>4, <1>5, CutRepair
<1>14. /\ session.plan = "repair" => IsRepairPrompt(Last(m))
       /\ Last(m).kind = "repair" =>
            session.plan = "repair" \/ run.start = Len(m)
  BY <1>1, <1>2 DEF LoopInv, RepairInv
<1>15. RepairIsRecognised'
  BY <1>6, <1>7, <1>8, <1>13, <1>14
     DEF RepairIsRecognised, IsPlannerRepairTurn, IsRepairPrompt
<1>16. RepairInv'
  BY <1>1, <1>7, <1>8 DEF RepairInv
<1> QED
  BY <1>6, <1>7, <1>9, <1>11, <1>12, <1>15, <1>16 DEF LoopInv

LEMMA SessionChanges ==
  ASSUME session \in SessionRecord, NEW plan \in PlanStates, NEW n \in Nat,
         NEW x \in Message
  PROVE  /\ [session EXCEPT !.turn = @ + n] \in SessionRecord
         /\ [session EXCEPT !.turn = @ + n].messages = session.messages
         /\ [session EXCEPT !.total = @ + n] \in SessionRecord
         /\ [session EXCEPT !.total = @ + n].messages = session.messages
         /\ [session EXCEPT !.total = @ + n].plan = session.plan
         /\ [session EXCEPT !.plan = plan] \in SessionRecord
         /\ [session EXCEPT !.plan = plan].messages = session.messages
         /\ [session EXCEPT !.plan = plan].plan = plan
         /\ Pushed(x) \in SessionRecord
         /\ Pushed(x).messages = Append(session.messages, x)
         /\ Pushed(x).plan = session.plan
         /\ [Pushed(x) EXCEPT !.plan = plan] \in SessionRecord
         /\ [Pushed(x) EXCEPT !.plan = plan].messages = Append(session.messages, x)
         /\ [Pushed(x) EXCEPT !.plan = plan].plan = plan
<1>1. PICK m, p, t, u : /\ m = session.messages /\ p = session.plan
                        /\ t = session.turn /\ u = session.total
  OBVIOUS
<1>2. /\ m \in Seq(Message) /\ p \in PlanStates /\ t \in Nat /\ u \in Nat
      /\ session = [messages |-> m, plan |-> p, turn |-> t, total |-> u]
  BY <1>1 DEF SessionRecord
<1>3. t + n \in Nat /\ u + n \in Nat
  BY <1>2
<1>3a. PICK a \in Seq(Message) : a = Append(m, x)
  <2>1. Append(m, x) \in Seq(Message)
    BY <1>2
  <2> QED
    BY <2>1
<1>4. /\ [session EXCEPT !.turn = @ + n]
           = [messages |-> m, plan |-> p, turn |-> t + n, total |-> u]
      /\ [session EXCEPT !.total = @ + n]
           = [messages |-> m, plan |-> p, turn |-> t, total |-> u + n]
      /\ [session EXCEPT !.plan = plan]
           = [messages |-> m, plan |-> plan, turn |-> t, total |-> u]
  BY <1>2
<1>5. PICK q : q = [messages |-> a, plan |-> p, turn |-> t, total |-> u]
  OBVIOUS
<1>6. Pushed(x) = q
  <2>1. Pushed(x) = [session EXCEPT !.messages = a]
    BY <1>1, <1>3a DEF Pushed
  <2> QED
    BY <1>2, <1>5, <2>1
<1>7. [Pushed(x) EXCEPT !.plan = plan]
        = [messages |-> a, plan |-> plan, turn |-> t, total |-> u]
  <2>1. [q EXCEPT !.plan = plan]
          = [messages |-> a, plan |-> plan, turn |-> t, total |-> u]
    BY <1>5
  <2> QED
    BY <1>6, <2>1
<1>8. ASSUME NEW e \in Seq(Message), NEW b \in PlanStates, NEW c \in Nat, NEW d \in Nat
      PROVE  LET s == [messages |-> e, plan |-> b, turn |-> c, total |-> d]
             IN  s \in SessionRecord /\ s.messages = e /\ s.plan = b
  BY DEF SessionRecord
<1>9. /\ [session EXCEPT !.turn = @ + n] \in SessionRecord
      /\ [session EXCEPT !.turn = @ + n].messages = session.messages
  BY <1>1, <1>2, <1>3, <1>4, <1>8
<1>10. /\ [session EXCEPT !.total = @ + n] \in SessionRecord
       /\ [session EXCEPT !.total = @ + n].messages = session.messages
       /\ [session EXCEPT !.total = @ + n].plan = session.plan
  BY <1>1, <1>2, <1>3, <1>4, <1>8
<1>11. /\ [session EXCEPT !.plan = plan] \in SessionRecord
       /\ [session EXCEPT !.plan = plan].messages = session.messages
       /\ [session EXCEPT !.plan = plan].plan = plan
  BY <1>1, <1>2, <1>4, <1>8
<1>12. /\ Pushed(x) \in SessionRecord
       /\ Pushed(x).messages = Append(session.messages, x)
       /\ Pushed(x).plan = session.plan
  <2>1. q \in SessionRecord /\ q.messages = a /\ q.plan = p
    BY <1>2, <1>5, <1>8
  <2> QED
    BY <1>1, <1>3a, <1>6, <2>1
<1>13. /\ [Pushed(x) EXCEPT !.plan = plan] \in SessionRecord
       /\ [Pushed(x) EXCEPT !.plan = plan].messages = Append(session.messages, x)
       /\ [Pushed(x) EXCEPT !.plan = plan].plan = plan
  <2>1. PICK r : r = [messages |-> a, plan |-> plan, turn |-> t, total |-> u]
    OBVIOUS
  <2>2. r \in SessionRecord /\ r.messages = a /\ r.plan = plan
    BY <1>2, <2>1, <1>8
  <2> QED
    BY <1>1, <1>3a, <1>7, <2>1, <2>2
<1> QED
  BY <1>9, <1>10, <1>11, <1>12, <1>13

LEMMA RunChanges ==
  ASSUME LoopInv, NEW n \in Nat
  PROVE  /\ [run EXCEPT !.next = n] \in
              [start : Nat, before : Seq(Message), planning : BOOLEAN,
               executing : BOOLEAN, next : Nat]
         /\ [run EXCEPT !.next = n].start = run.start
         /\ [run EXCEPT !.next = n].next = n
         /\ [run EXCEPT !.next = n].planning = run.planning
         /\ run \in [start : Nat, before : Seq(Message), planning : BOOLEAN,
                     executing : BOOLEAN, next : Nat]
BY DEF LoopInv, RunTypes

\* The steps with which the run ends.
LEMMA StopsKeep ==
  ASSUME LoopInv,
         \/ ExceedTurns \/ LlmFails \/ RepairNotSent \/ RejectRepair
         \/ BlockReentry \/ TooManyCalls \/ TooManyCallsInTotal
         \/ ToolStopsRun \/ Abort \/ SaveSession
  PROVE  LoopInv'
<1>1. session \in SessionRecord /\ session.plan \in PlanStates
  BY DEF LoopInv, RunTypes, SessionRecord
<1>2. /\ pc' \in {"save", "saving"} /\ UNCHANGED <<run, processes>>
  BY DEF EndRun, ExceedTurns, LlmFails, RepairNotSent, RejectRepair, BlockReentry,
         TooManyCalls, TooManyCallsInTotal, ToolStopsRun, Abort, SaveSession
<1>3. session' \in SessionRecord /\ session'.messages = session.messages
  <2>1. \A x \in Message : TRUE
    OBVIOUS
  <2>2. PICK x : x \in Message
    <3>1. Plain("user", 1) \in Message
      BY PlainFields
    <3> QED
      BY <3>1
  <2>3. CASE ExceedTurns
    <3>1. session' = [session EXCEPT !.turn = @ + 1]
      BY <2>3 DEF ExceedTurns
    <3> QED
      BY <1>1, <2>2, <3>1, SessionChanges
  <2>4. CASE LlmFails \/ RepairNotSent \/ RejectRepair \/ BlockReentry
               \/ ToolStopsRun
    <3>1. \E plan \in PlanStates : session' = [session EXCEPT !.plan = plan]
      <4>1. CASE LlmFails
        <5>1. PICK plan \in {session.plan,
                             IF run.executing THEN "over" ELSE session.plan} :
                session' = [session EXCEPT !.plan = plan]
          BY <4>1 DEF LlmFails
        <5>2. plan \in PlanStates
          BY <1>1 DEF PlanStates
        <5> QED
          BY <5>1, <5>2
      <4>2. CASE RepairNotSent \/ RejectRepair
        BY <4>2 DEF RepairNotSent, RejectRepair, PlanStates
      <4>3. CASE BlockReentry
        BY <4>3 DEF BlockReentry, PlanStates
      <4>4. CASE ToolStopsRun
        <5>1. PICK plan : plan = IF run.executing THEN "over" ELSE session.plan
          OBVIOUS
        <5>2. plan \in PlanStates
          BY <1>1, <5>1 DEF PlanStates
        <5>3. session' = [session EXCEPT !.plan = plan]
          BY <4>4, <5>1 DEF ToolStopsRun
        <5> QED
          BY <5>2, <5>3
      <4> QED
        BY <2>4, <4>1, <4>2, <4>3, <4>4
    <3> QED
      BY <1>1, <2>2, <3>1, SessionChanges
  <2>5. CASE TooManyCallsInTotal
    <3>1. session' = [session EXCEPT !.total = @ + TheReply.calls]
      BY <2>5 DEF TooManyCallsInTotal, WithCalls
    <3>2. TheReply.calls \in Nat
      BY <2>5, LimitsAssumption DEF TooManyCallsInTotal
    <3> QED
      BY <1>1, <2>2, <3>1, <3>2, SessionChanges
  <2>6. CASE TooManyCalls \/ Abort \/ SaveSession
    BY <1>1, <2>6 DEF TooManyCalls, Abort, SaveSession
  <2> QED
    BY <2>3, <2>4, <2>5, <2>6
<1>4. run \in [start : Nat, before : Seq(Message), planning : BOOLEAN,
               executing : BOOLEAN, next : Nat]
  BY DEF LoopInv, RunTypes
<1> QED
  BY <1>2, <1>3, <1>4, EndKeeps

LEMMA ReceiveReplyKeeps ==
  ASSUME LoopInv, ReceiveReply
  PROVE  LoopInv'
<1>1. /\ pc = "llm" /\ pc' = "judge" /\ processes' = processes
      /\ run' = [run EXCEPT !.before = <<>>]
  BY DEF ReceiveReply
<1>2. PICK calls \in BatchSizes, length \in TextLengths :
        session' = Pushed(Reply(calls, length))
  BY DEF ReceiveReply
<1>3. PICK x : x = Reply(calls, length)
  OBVIOUS
<1>4. calls \in Nat /\ length \in Nat
  BY LimitsAssumption
<1>5. x \in Message /\ x.kind = "reply" /\ InBounds(x)
  BY <1>3, <1>4, ReplyFields
<1>6. PICK m : m = session.messages
  OBVIOUS
<1>7. PICK l \in Nat : l = Len(m)
  BY <1>6 DEF LoopInv, Sound
<1>8. PICK p : p = Append(m, x)
  OBVIOUS
<1>9. /\ Sound(m) /\ m \in Seq(Message) /\ session \in SessionRecord
      /\ session.plan \in PlanStates
  BY <1>6 DEF LoopInv, Sound, RunTypes, SessionRecord
<1>10. /\ session' \in SessionRecord /\ session'.messages = p
       /\ session'.plan = session.plan
  BY <1>2, <1>3, <1>5, <1>6, <1>8, <1>9, SessionChanges
<1>11. /\ Sound(p) /\ p \in Seq(Message) /\ Len(p) = l + 1 /\ p[l + 1] = x
  <2>1. Sound(p)
    BY <1>5, <1>8, <1>9, SoundAppend
  <2> QED
    BY <1>5, <1>7, <1>8, <1>9, <2>1
<1>12. /\ run' \in [start : Nat, before : Seq(Message), planning : BOOLEAN,
                    executing : BOOLEAN, next : Nat]
       /\ run'.start = run.start /\ run'.planning = run.planning
  <2>1. run \in [start : Nat, before : Seq(Message), planning : BOOLEAN,
                 executing : BOOLEAN, next : Nat]
    BY DEF LoopInv, RunTypes
  <2>2. <<>> \in Seq(Message)
    OBVIOUS
  <2>3. PICK e \in Seq(Message) : e = <<>>
    BY <2>2
  <2>4. run' = [run EXCEPT !.before = e]
    BY <1>1, <2>3
  <2> QED
    BY <2>1, <2>4
<1>13. Blocks(p, 0..run.start \cup {l + 1}) /\ Blocks(p, Nat)
  <2>1. Blocks(m, 0..run.start) /\ Blocks(m, Nat)
    BY <1>1, <1>6 DEF LoopInv, BlocksInv
  <2>2. Blocks(p, 0..run.start \cup {l + 1}) /\ Blocks(p, Nat \cup {l + 1})
    BY <1>5, <1>7, <1>8, <1>9, <2>1, OpenBlock
  <2>3. Nat \cup {l + 1} = Nat
    BY <1>7
  <2> QED
    BY <2>2, <2>3
<1>14. l + 1 \in RepliesOf(p) /\ p[l + 1].calls \in Nat
  BY <1>5, <1>11 DEF RepliesOf, Message
<1>15. Ran(p, l + 1, Len(p), 0)
  BY <1>11 DEF Ran
<1>16. BlocksInv'
  <2>1. \E k \in RepliesOf(p), n \in Nat :
          Blocks(p, 0..run.start \cup {k}) /\ n <= p[k].calls
            /\ Ran(p, k, Len(p), n) /\ n = 0
    <3>1. PICK k \in RepliesOf(p) : k = l + 1
      BY <1>14
    <3>2. PICK n \in Nat : n = 0
      OBVIOUS
    <3>3. /\ Blocks(p, 0..run.start \cup {k}) /\ n <= p[k].calls
          /\ Ran(p, k, Len(p), n) /\ n = 0
      BY <1>13, <1>14, <1>15, <3>1, <3>2
    <3> QED
      BY <3>3
  <2> QED
    BY <1>1, <1>10, <1>12, <1>13, <2>1 DEF BlocksInv
<1>17. RepairInv'
  BY <1>1, <1>10, <1>12 DEF LoopInv, RepairInv
<1>18. RunTypes'
  BY <1>1, <1>10, <1>12 DEF LoopInv, RunTypes
<1>19. CutIsLeast' /\ RepairIsRecognised'
  BY <1>1 DEF CutIsLeast, RepairIsRecognised
<1> QED
  BY <1>10, <1>11, <1>16, <1>17, <1>18, <1>19 DEF LoopInv

\* How what follows a reply grows by a message.
LEMMA GrowsTo ==
  ASSUME NEW m \in Seq(Message), NEW x \in Message, NEW k \in RepliesOf(m),
         NEW n \in Nat
  PROVE  LET l == Len(m)
             p == Append(m, x)
         IN  /\ Ran(m, k, l, n) /\ IsRun(x, n + 1) => Ran(p, k, l + 1, n + 1)
             /\ Ran(m, k, l, n) /\ n > 0 /\ x.kind = "guidance" =>
                  Guided(p, k, l + 1, n)
             /\ Guided(m, k, l, n) /\ IsSkip(x, n + 1) => Guided(p, k, l + 1, n + 1)
             /\ Ran(m, k, l, 0) /\ x.kind = "repair" => Repaired(p, k, l + 1, 0)
<1>1. PICK l \in Nat : l = Len(m)
  OBVIOUS
<1>2. PICK p : p = Append(m, x)
  OBVIOUS
<1>3. p[l + 1] = x /\ (\A i \in 1..l : p[i] = m[i]) /\ k \in 1..l
  BY <1>1, <1>2 DEF RepliesOf
<1>4. ASSUME Ran(m, k, l, n)
      PROVE  l = k + n /\ \A i \in 1..n : IsRun(p[k + i], i)
  <2>1. l = k + n /\ \A i \in 1..n : IsRun(m[k + i], i)
    BY <1>4 DEF Ran
  <2>2. ASSUME NEW i \in 1..n PROVE p[k + i] = m[k + i]
    <3>1. k + i \in 1..l
      BY <1>3, <2>1
    <3> QED
      BY <1>3, <3>1
  <2> QED
    BY <2>1, <2>2
<1>5. ASSUME Ran(m, k, l, n), IsRun(x, n + 1) PROVE Ran(p, k, l + 1, n + 1)
  <2>1. l + 1 = k + (n + 1)
    BY <1>3, <1>4, <1>5
  <2>2. ASSUME NEW i \in 1..n + 1 PROVE IsRun(p[k + i], i)
    <3>1. CASE i = n + 1
      <4>1. k + i = l + 1
        BY <1>3, <2>1, <3>1
      <4> QED
        BY <1>3, <1>5, <3>1, <4>1
    <3>2. CASE i # n + 1
      <4>1. i \in 1..n
        BY <3>2
      <4> QED
        BY <1>4, <1>5, <4>1
    <3> QED
      BY <3>1, <3>2
  <2> QED
    BY <2>1, <2>2 DEF Ran
<1>6. ASSUME Ran(m, k, l, n), n > 0, x.kind = "guidance"
      PROVE  Guided(p, k, l + 1, n)
  <2>1. l + 1 = k + n + 1 /\ n \in 1..n
    BY <1>3, <1>4, <1>6
  <2>2. p[k + n + 1].kind = "guidance"
    BY <1>3, <1>6, <2>1
  <2>3. \A i \in 1..n : IsRun(p[k + i], i)
    BY <1>4, <1>6
  <2>4. \A i \in n + 1..n : IsSkip(p[k + i + 1], i)
    OBVIOUS
  <2> QED
    BY <2>1, <2>2, <2>3, <2>4 DEF Guided
<1>7. ASSUME Guided(m, k, l, n), IsSkip(x, n + 1)
      PROVE  Guided(p, k, l + 1, n + 1)
  <2>1. l = k + n + 1
    BY <1>7 DEF Guided
  <2>2. PICK a \in 1..n :
          /\ \A i \in 1..a : IsRun(m[k + i], i)
          /\ m[k + a + 1].kind = "guidance"
          /\ \A i \in a + 1..n : IsSkip(m[k + i + 1], i)
    BY <1>7 DEF Guided
  <2>3. a \in 1..n + 1 /\ l + 1 = k + (n + 1) + 1
    BY <1>3, <2>1
  <2>4. \A i \in 1..a : IsRun(p[k + i], i)
    <3> SUFFICES ASSUME NEW i \in 1..a PROVE IsRun(p[k + i], i)
      OBVIOUS
    <3>1. k + i \in 1..l
      BY <1>3, <2>1
    <3> QED
      BY <1>3, <2>2, <3>1
  <2>5. p[k + a + 1].kind = "guidance"
    <3>1. k + a + 1 \in 1..l
      BY <1>3, <2>1
    <3> QED
      BY <1>3, <2>2, <3>1
  <2>6. \A i \in a + 1..n + 1 : IsSkip(p[k + i + 1], i)
    <3> SUFFICES ASSUME NEW i \in a + 1..n + 1 PROVE IsSkip(p[k + i + 1], i)
      OBVIOUS
    <3>1. CASE i = n + 1
      <4>1. k + i + 1 = l + 1
        BY <1>3, <2>1, <3>1
      <4> QED
        BY <1>3, <1>7, <3>1, <4>1
    <3>2. CASE i # n + 1
      <4>1. i \in a + 1..n /\ k + i + 1 \in 1..l
        BY <1>3, <2>1, <3>2
      <4> QED
        BY <1>3, <2>2, <4>1
    <3> QED
      BY <3>1, <3>2
  <2> QED
    BY <2>3, <2>4, <2>5, <2>6 DEF Guided
<1>8. ASSUME Ran(m, k, l, 0), x.kind = "repair" PROVE Repaired(p, k, l + 1, 0)
  BY <1>3, <1>8 DEF Ran, Repaired
<1> QED
  BY <1>1, <1>2, <1>5, <1>6, <1>7, <1>8

\* The state of a run between a reply and the next request.
Midway(k, n) ==
  LET m == session.messages
      l == Len(session.messages)
  IN  /\ k \in RepliesOf(m) /\ n \in Nat
      /\ Blocks(m, 0..run.start \cup {k}) /\ n <= m[k].calls
      /\ pc = "judge" => Ran(m, k, l, n) /\ n = 0
      /\ pc = "call" => Ran(m, k, l, n) /\ run.next = n + 1
      /\ pc = "result" => Ran(m, k, l, n) /\ run.next = n /\ n > 0
      /\ pc = "skip" => Guided(m, k, l, n) /\ run.next = n + 1

LEMMA LoopIsMidway ==
  ASSUME LoopInv, pc \in {"judge", "call", "result", "skip"}
  PROVE  \E k, n \in Nat : Midway(k, n)
<1>1. PICK k \in RepliesOf(session.messages), n \in Nat : Midway(k, n)
  BY DEF LoopInv, BlocksInv, Midway
<1>2. k \in Nat
  <2>1. session.messages \in Seq(Message)
    BY DEF LoopInv, Sound
  <2> QED
    BY <2>1 DEF RepliesOf
<1> QED
  BY <1>1, <1>2

\* On the way from one such state to the next.
LEMMA MidwayKeeps ==
  ASSUME LoopInv, pc' \in {"judge", "call", "result", "skip"},
         processes' = processes, session' \in SessionRecord,
         run' \in [start : Nat, before : Seq(Message), planning : BOOLEAN,
                   executing : BOOLEAN, next : Nat],
         Sound(session'.messages), Blocks(session'.messages, Nat),
         session'.plan \notin {"plan", "repair"}, pc' # "judge",
         NEW k, NEW n, Midway(k, n)'
  PROVE  LoopInv'
<1>1. RunTypes'
  BY DEF LoopInv, RunTypes
<1>2. BlocksInv'
  BY DEF BlocksInv, Midway
<1>3. RepairInv' /\ CutIsLeast' /\ RepairIsRecognised'
  BY DEF RepairInv, CutIsLeast, RepairIsRecognised
<1> QED
  BY <1>1, <1>2, <1>3 DEF LoopInv

\* A message that follows the last reply.
LEMMA Follows ==
  ASSUME NEW m, Sound(m), NEW x \in Message, InBounds(x), x.kind # "reply",
         NEW open, NEW k \in RepliesOf(m), Blocks(m, open \cup {k}), Blocks(m, Nat),
         NEW n \in Nat, NEW c \in Nat, c <= m[k].calls, Shape(m, k, Len(m), n),
         \/ Ran(Append(m, x), k, Len(m) + 1, c)
         \/ Guided(Append(m, x), k, Len(m) + 1, c)
         \/ Repaired(Append(m, x), k, Len(m) + 1, c)
  PROVE  LET p == Append(m, x) IN
           /\ Sound(p) /\ p \in Seq(Message) /\ Len(p) = Len(m) + 1
           /\ k \in RepliesOf(p) /\ p[k] = m[k]
           /\ Blocks(p, open \cup {k}) /\ Blocks(p, Nat)
           /\ Shape(p, k, Len(p), c) /\ Last(p) = x /\ p # <<>>
<1>1. PICK l \in Nat : l = Len(m)
  BY DEF Sound
<1>2. PICK p : p = Append(m, x)
  OBVIOUS
<1>3. m \in Seq(Message) /\ k \in 1..l /\ m[k].kind = "reply"
  BY <1>1 DEF Sound, RepliesOf
<1>4. /\ p \in Seq(Message) /\ Len(p) = l + 1 /\ p[l + 1] = x
      /\ \A i \in 1..l : p[i] = m[i]
  BY <1>1, <1>2, <1>3
<1>5. k \in RepliesOf(p) /\ p[k] = m[k] /\ p # <<>> /\ Last(p) = x
  BY <1>3, <1>4 DEF RepliesOf, Last
<1>6. Shape(p, k, l + 1, c)
  BY <1>1, <1>2, <1>5 DEF Shape
<1>7. Sound(p)
  BY <1>2, SoundAppend
<1>8. Blocks(p, open \cup {k})
  BY <1>1, <1>2, <1>3, <1>6, GrowBlock
<1>9. Blocks(p, Nat)
  <2>1. k \in Nat
    BY <1>3
  <2> QED
    BY <1>1, <1>2, <1>3, <1>6, <2>1, GrowBlock
<1> QED
  BY <1>1, <1>2, <1>4, <1>5, <1>6, <1>7, <1>8, <1>9

LEMMA MidwayFacts ==
  ASSUME LoopInv, pc \in {"judge", "call", "result", "skip"},
         NEW k \in Nat, NEW n \in Nat, Midway(k, n),
         NEW m, m = session.messages
  PROVE  /\ Sound(m) /\ m \in Seq(Message) /\ m # <<>>
         /\ k \in RepliesOf(m) /\ Blocks(m, Nat) /\ Blocks(m, 0..run.start \cup {k})
         /\ Shape(m, k, Len(m), n) /\ n <= m[k].calls /\ m[k].calls \in Nat
         /\ Last(m).kind # "repair" /\ Calls = m[k].calls
         /\ pc = "judge" => TheReply = m[k]
<1>1. PICK l \in Nat : l = Len(m)
  BY DEF LoopInv, Sound
<1>2. /\ Sound(m) /\ m \in Seq(Message) /\ Blocks(m, Nat)
      /\ k \in RepliesOf(m) /\ Blocks(m, 0..run.start \cup {k}) /\ n <= m[k].calls
  BY DEF LoopInv, Sound, BlocksInv, Midway
<1>3. k \in 1..l /\ m[k].kind = "reply" /\ m[k] \in Message
  BY <1>1, <1>2 DEF RepliesOf
<1>4. Ran(m, k, l, n) \/ Guided(m, k, l, n)
  BY <1>1 DEF Midway
<1>5. Shape(m, k, l, n)
  BY <1>2, <1>4 DEF Shape
<1>6. Calls = m[k].calls
  BY <1>1, <1>2, <1>4, CallsOfBlock
<1>7. Last(m) = m[l] /\ m # <<>> /\ l \in 1..l
  BY <1>1, <1>3 DEF Last
<1>8. m[l].kind # "repair"
  <2>1. CASE Ran(m, k, l, n)
    <3>1. CASE n = 0
      <4>1. l = k
        BY <1>3, <2>1, <3>1 DEF Ran
      <4> QED
        BY <1>3, <4>1
    <3>2. CASE n # 0
      <4>1. n \in 1..n /\ l = k + n
        BY <2>1, <3>2 DEF Ran
      <4> QED
        BY <2>1, <4>1 DEF Ran, IsRun
    <3> QED
      BY <3>1, <3>2
  <2>2. CASE Guided(m, k, l, n)
    <3>1. l = k + n + 1
      BY <2>2 DEF Guided
    <3>2. PICK a \in 1..n :
            /\ m[k + a + 1].kind = "guidance"
            /\ \A i \in a + 1..n : IsSkip(m[k + i + 1], i)
      BY <2>2 DEF Guided
    <3>3. CASE a = n
      BY <3>1, <3>2, <3>3
    <3>4. CASE a # n
      <4>1. n \in a + 1..n
        BY <3>4
      <4> QED
        BY <3>1, <3>2, <4>1 DEF IsSkip
    <3> QED
      BY <3>3, <3>4
  <2> QED
    BY <1>4, <2>1, <2>2
<1>9. ASSUME pc = "judge" PROVE TheReply = m[k]
  <2>1. l = k
    BY <1>1, <1>3, <1>9 DEF Midway, Ran
  <2> QED
    BY <1>7, <2>1 DEF TheReply
<1> QED
  BY <1>1, <1>2, <1>3, <1>5, <1>6, <1>7, <1>8, <1>9 DEF Message

\* When all calls of the reply are answered the model may be asked again.
LEMMA AllAnswered ==
  ASSUME LoopInv, pc \in {"judge", "call", "result", "skip"},
         NEW k \in Nat, NEW n \in Nat, Midway(k, n), n = session.messages[k].calls
  PROVE  Blocks(session.messages, 0..run.start)
<1>1. PICK m : m = session.messages
  OBVIOUS
<1>2. /\ m \in Seq(Message) /\ k \in RepliesOf(m)
      /\ Blocks(m, 0..run.start \cup {k}) /\ Shape(m, k, Len(m), n)
  BY <1>1, MidwayFacts
<1> QED
  BY <1>1, <1>2, CloseBlock

LEMMA AcceptPlanKeeps ==
  ASSUME LoopInv, AcceptPlan
  PROVE  LoopInv'
<1>1. /\ pc = "judge" /\ TheReply.calls = 0 /\ pc' = "turn"
      /\ session' = [session EXCEPT !.plan = "active"]
      /\ UNCHANGED <<run, processes>>
  BY DEF AcceptPlan
<1>2. PICK k \in Nat, n \in Nat : Midway(k, n)
  BY <1>1, LoopIsMidway
<1>3. PICK m : m = session.messages
  OBVIOUS
<1>4. /\ TheReply = m[k] /\ m # <<>> /\ Last(m).kind # "repair"
  BY <1>1, <1>2, <1>3, MidwayFacts
<1>5. n = 0
  BY <1>1, <1>2 DEF Midway
<1>6. Blocks(m, 0..run.start)
  BY <1>1, <1>2, <1>3, <1>4, <1>5, AllAnswered
<1>7. session \in SessionRecord /\ "active" \in PlanStates
  BY DEF LoopInv, RunTypes, PlanStates
<1>8. PICK x : x \in Message
  <2>1. Plain("user", 1) \in Message
    BY PlainFields
  <2> QED
    BY <2>1
<1>9. /\ session' \in SessionRecord /\ session'.messages = m
      /\ session'.plan = "active"
  BY <1>1, <1>3, <1>7, <1>8, SessionChanges
<1>10. run \in [start : Nat, before : Seq(Message), planning : BOOLEAN,
                executing : BOOLEAN, next : Nat]
  BY DEF LoopInv, RunTypes
<1> QED
  BY <1>1, <1>3, <1>4, <1>6, <1>9, <1>10, TurnKeeps

LEMMA RequestRepairKeeps ==
  ASSUME LoopInv, RequestRepair
  PROVE  LoopInv'
<1>1. PICK x : x = Plain("repair", 1)
  OBVIOUS
<1>2. /\ pc = "judge" /\ pc' \in {"turn", "save"} /\ UNCHANGED <<run, processes>>
      /\ session' = [Pushed(x) EXCEPT !.plan = "repair"]
  BY <1>1 DEF RequestRepair, EndRun
<1>3. PICK k \in Nat, n \in Nat : Midway(k, n)
  BY <1>2, LoopIsMidway
<1>4. PICK m : m = session.messages
  OBVIOUS
<1>5. PICK p : p = Append(m, x)
  OBVIOUS
<1>6. /\ x \in Message /\ x.kind = "repair" /\ ~x.dropped /\ InBounds(x)
  BY <1>1, PlainFields
<1>7. /\ Sound(m) /\ m \in Seq(Message) /\ k \in RepliesOf(m)
      /\ Blocks(m, Nat) /\ Blocks(m, 0..run.start \cup {k})
      /\ Shape(m, k, Len(m), n)
  BY <1>2, <1>3, <1>4, MidwayFacts
<1>8. n = 0 /\ Ran(m, k, Len(m), 0) /\ 0 <= m[k].calls
  BY <1>2, <1>3, <1>4 DEF Midway
<1>9. Repaired(p, k, Len(m) + 1, 0)
  BY <1>5, <1>6, <1>7, <1>8, GrowsTo
<1>10. /\ Sound(p) /\ p \in Seq(Message) /\ k \in RepliesOf(p)
       /\ Blocks(p, 0..run.start \cup {k}) /\ Blocks(p, Nat)
       /\ Shape(p, k, Len(p), 0) /\ Last(p) = x /\ p # <<>>
  <2>1. PICK c \in Nat : c = 0
    OBVIOUS
  <2>2. c <= m[k].calls /\ Repaired(Append(m, x), k, Len(m) + 1, c)
    BY <1>5, <1>8, <1>9, <2>1
  <2>3. x.kind # "reply"
    BY <1>6
  <2> QED
    BY <1>5, <1>6, <1>7, <2>1, <2>2, <2>3, Follows
<1>11. Blocks(p, 0..run.start)
  <2>1. p[Len(p)].kind = "repair"
    BY <1>6, <1>10 DEF Last
  <2>2. 0 \in Nat
    OBVIOUS
  <2> QED
    BY <1>10, <2>1, <2>2, CloseBlock
<1>12. session \in SessionRecord /\ "repair" \in PlanStates
  BY DEF LoopInv, RunTypes, PlanStates
<1>13. /\ session' \in SessionRecord /\ session'.messages = p
       /\ session'.plan = "repair"
  <2>1. PICK plan \in PlanStates : plan = "repair"
    BY <1>12
  <2>2. /\ [Pushed(x) EXCEPT !.plan = plan] \in SessionRecord
        /\ [Pushed(x) EXCEPT !.plan = plan].messages = Append(session.messages, x)
        /\ [Pushed(x) EXCEPT !.plan = plan].plan = plan
    BY <1>3, <1>6, <1>12, SessionChanges
  <2> QED
    BY <1>2, <1>4, <1>5, <2>1, <2>2
<1>14. RunTypes'
  BY <1>2, <1>13 DEF LoopInv, RunTypes
<1>15. BlocksInv'
  BY <1>2, <1>10, <1>11, <1>13 DEF BlocksInv
<1>16. RepairInv'
  BY <1>2, <1>6, <1>10, <1>13 DEF RepairInv, IsRepairPrompt
<1>17. CutIsLeast' /\ RepairIsRecognised'
  BY <1>2 DEF CutIsLeast, RepairIsRecognised
<1> QED
  BY <1>10, <1>13, <1>14, <1>15, <1>16, <1>17 DEF LoopInv

\* The end of a reply, with or without tools, in a run of a plan or not.
LEMMA StepEnds ==
  ASSUME LoopInv, pc \in {"judge", "call", "skip"},
         NEW k \in Nat, NEW n \in Nat, Midway(k, n), n = session.messages[k].calls,
         session.plan \notin {"plan", "repair"},
         \/ CompleteStep
         \/ EndRun /\ UNCHANGED session
         \/ pc' = "turn" /\ UNCHANGED session,
         run' \in [start : Nat, before : Seq(Message), planning : BOOLEAN,
                   executing : BOOLEAN, next : Nat],
         run'.start = run.start, processes' = processes
  PROVE  LoopInv'
<1>1. session \in SessionRecord /\ "over" \in PlanStates
  BY DEF LoopInv, RunTypes, PlanStates
<1>2. CASE pc' = "turn" /\ UNCHANGED session
  <2>1. Blocks(session.messages, 0..run.start)
    BY AllAnswered
  <2>2. session.messages # <<>> /\ Last(session.messages).kind # "repair"
    BY MidwayFacts
  <2> QED
    BY <1>1, <1>2, <2>1, <2>2, TurnKeeps
<1>3. CASE EndRun /\ UNCHANGED session
  BY <1>1, <1>3, EndKeeps DEF EndRun
<1>4. CASE EndRun /\ session' = [session EXCEPT !.plan = "over"]
  <2>1. PICK x : x \in Message
    <3>1. Plain("user", 1) \in Message
      BY PlainFields
    <3> QED
      BY <3>1
  <2>2. session' \in SessionRecord /\ session'.messages = session.messages
    BY <1>1, <1>4, <2>1, SessionChanges
  <2> QED
    BY <1>4, <2>2, EndKeeps DEF EndRun
<1> QED
  BY <1>2, <1>3, <1>4 DEF CompleteStep

LEMMA ReplyWithoutToolsKeeps ==
  ASSUME LoopInv, ReplyWithoutTools
  PROVE  LoopInv'
<1>1. /\ pc = "judge" /\ ~run.planning /\ TheReply.calls = 0
      /\ UNCHANGED <<run, processes>>
      /\ CompleteStep \/ (EndRun /\ UNCHANGED session)
  BY DEF ReplyWithoutTools
<1>2. PICK k \in Nat, n \in Nat : Midway(k, n)
  BY <1>1, LoopIsMidway
<1>3. TheReply = session.messages[k] /\ n = 0
  BY <1>1, <1>2, MidwayFacts DEF Midway
<1>4. session.plan \notin {"plan", "repair"}
  BY <1>1 DEF LoopInv, RepairInv
<1>5. run' \in [start : Nat, before : Seq(Message), planning : BOOLEAN,
                executing : BOOLEAN, next : Nat]
  BY <1>1 DEF LoopInv, RunTypes
<1> QED
  BY <1>1, <1>2, <1>3, <1>4, <1>5, StepEnds

LEMMA EndsKeep ==
  ASSUME LoopInv, EndSkips \/ EndCalls
  PROVE  LoopInv'
<1>1. /\ pc \in {"call", "skip"} /\ run.next > Calls
      /\ run' = [run EXCEPT !.next = 0] /\ processes' = processes
      /\ CompleteStep \/ (pc' = "turn" /\ UNCHANGED session)
  BY DEF EndSkips, EndCalls
<1>2. PICK k \in Nat, n \in Nat : Midway(k, n)
  BY <1>1, LoopIsMidway
<1>3. /\ Calls = session.messages[k].calls /\ n <= session.messages[k].calls
      /\ session.messages[k].calls \in Nat
  BY <1>1, <1>2, MidwayFacts
<1>4. run.next = n + 1
  BY <1>1, <1>2 DEF Midway
<1>5. n = session.messages[k].calls
  BY <1>1, <1>3, <1>4
<1>6. session.plan \notin {"plan", "repair"}
  BY <1>1 DEF LoopInv, RepairInv
<1>7. /\ run' \in [start : Nat, before : Seq(Message), planning : BOOLEAN,
                   executing : BOOLEAN, next : Nat]
      /\ run'.start = run.start
  <2>1. 0 \in Nat
    OBVIOUS
  <2> QED
    BY <1>1, <2>1, RunChanges
<1> QED
  BY <1>1, <1>2, <1>5, <1>6, <1>7, StepEnds

LEMMA BeginCallsKeeps ==
  ASSUME LoopInv, BeginCalls
  PROVE  LoopInv'
<1>1. /\ pc = "judge" /\ ~run.planning /\ pc' = "call" /\ processes' = processes
      /\ TheReply.calls \in 1..MaxToolCallsPerTurn
      /\ session' = [session EXCEPT !.total = @ + TheReply.calls]
      /\ run' = [run EXCEPT !.next = 1]
  BY DEF BeginCalls, WithCalls
<1>2. PICK k \in Nat, n \in Nat : Midway(k, n)
  BY <1>1, LoopIsMidway
<1>3. PICK m : m = session.messages
  OBVIOUS
<1>4. /\ Sound(m) /\ Blocks(m, Nat) /\ k \in RepliesOf(m)
      /\ Blocks(m, 0..run.start \cup {k}) /\ n <= m[k].calls
  BY <1>1, <1>2, <1>3, MidwayFacts
<1>5. n = 0 /\ Ran(m, k, Len(m), n)
  BY <1>1, <1>2, <1>3 DEF Midway
<1>6. session.plan \notin {"plan", "repair"}
  BY <1>1 DEF LoopInv, RepairInv
<1>7. /\ session' \in SessionRecord /\ session'.messages = m
      /\ session'.plan = session.plan
  <2>1. PICK c \in Nat : c = TheReply.calls
    <3>1. TheReply.calls \in Nat
      BY <1>1, LimitsAssumption
    <3> QED
      BY <3>1
  <2>2. PICK x : x \in Message
    <3>1. Plain("user", 1) \in Message
      BY PlainFields
    <3> QED
      BY <3>1
  <2>3. session \in SessionRecord /\ "over" \in PlanStates
    BY DEF LoopInv, RunTypes, PlanStates
  <2>4. session' = [session EXCEPT !.total = @ + c]
    BY <1>1, <2>1
  <2> QED
    BY <1>3, <2>1, <2>2, <2>3, <2>4, SessionChanges
<1>8. /\ run' \in [start : Nat, before : Seq(Message), planning : BOOLEAN,
                   executing : BOOLEAN, next : Nat]
      /\ run'.start = run.start /\ run'.next = 1
  <2>1. 1 \in Nat
    OBVIOUS
  <2> QED
    BY <1>1, <2>1, RunChanges
<1>9. Midway(k, n)'
  BY <1>1, <1>2, <1>4, <1>5, <1>7, <1>8 DEF Midway
<1> QED
  BY <1>1, <1>4, <1>6, <1>7, <1>8, <1>9, MidwayKeeps

LEMMA RunToolKeeps ==
  ASSUME LoopInv, RunTool
  PROVE  LoopInv'
<1>1. /\ pc = "call" /\ pc' = "result" /\ run.next <= Calls
      /\ UNCHANGED <<run, processes>>
  BY DEF RunTool
<1>2. PICK length \in OutputLengths :
        session' = Pushed(Answer(run.next, TruncateToolOutput(length)))
  BY DEF RunTool
<1>3. PICK k \in Nat, n \in Nat : Midway(k, n)
  BY <1>1, LoopIsMidway
<1>4. PICK m : m = session.messages
  OBVIOUS
<1>5. PICK c : c = n + 1
  OBVIOUS
<1>6. PICK x : x = Answer(c, TruncateToolOutput(length))
  OBVIOUS
<1>7. PICK p : p = Append(m, x)
  OBVIOUS
<1>8. c \in Nat /\ run.next = c /\ Ran(m, k, Len(m), n)
  BY <1>1, <1>3, <1>4, <1>5 DEF Midway
<1>9. /\ x \in Message /\ IsRun(x, c) /\ InBounds(x) /\ x.kind # "reply"
  <2>1. PICK d : d = TruncateToolOutput(length)
    OBVIOUS
  <2>2. d \in Nat /\ d # 0 /\ d <= MaxToolOutput + 1
    BY <2>1, TruncatedIsBounded
  <2>3. x \in Message /\ IsRun(x, c) /\ InBounds(x)
    BY <1>6, <1>8, <2>1, <2>2, AnswerFields
  <2> QED
    BY <2>3 DEF IsRun
<1>10. /\ Sound(m) /\ m \in Seq(Message) /\ k \in RepliesOf(m) /\ Blocks(m, Nat)
       /\ Blocks(m, 0..run.start \cup {k}) /\ Shape(m, k, Len(m), n)
       /\ c <= m[k].calls
  <2>1. /\ Sound(m) /\ m \in Seq(Message) /\ k \in RepliesOf(m) /\ Blocks(m, Nat)
        /\ Blocks(m, 0..run.start \cup {k}) /\ Shape(m, k, Len(m), n)
        /\ Calls = m[k].calls
    BY <1>1, <1>3, <1>4, MidwayFacts
  <2> QED
    BY <1>1, <1>8, <2>1
<1>11. Ran(p, k, Len(m) + 1, c)
  BY <1>5, <1>7, <1>8, <1>9, <1>10, GrowsTo
<1>12. /\ Sound(p) /\ Len(p) = Len(m) + 1 /\ k \in RepliesOf(p) /\ p[k] = m[k]
       /\ Blocks(p, 0..run.start \cup {k}) /\ Blocks(p, Nat)
  BY <1>7, <1>8, <1>9, <1>10, <1>11, Follows
<1>13. session.plan \notin {"plan", "repair"} /\ session \in SessionRecord
  BY <1>1 DEF LoopInv, RunTypes, RepairInv
<1>14. /\ session' \in SessionRecord /\ session'.messages = p
       /\ session'.plan = session.plan
  <2>1. session' = Pushed(x) /\ "over" \in PlanStates
    BY <1>2, <1>6, <1>8 DEF PlanStates
  <2> QED
    BY <1>3, <1>4, <1>7, <1>9, <1>13, <2>1, SessionChanges
<1>15. run' \in [start : Nat, before : Seq(Message), planning : BOOLEAN,
                 executing : BOOLEAN, next : Nat]
  BY <1>1 DEF LoopInv, RunTypes
<1>16. Midway(k, c)'
  <2>1. c > 0 /\ run'.next = c /\ run'.start = run.start
    BY <1>1, <1>3, <1>5, <1>8
  <2> QED
    BY <1>1, <1>8, <1>10, <1>11, <1>12, <1>14, <2>1 DEF Midway
<1> QED
  BY <1>1, <1>12, <1>13, <1>14, <1>15, <1>16, MidwayKeeps

LEMMA ToolSucceedsKeeps ==
  ASSUME LoopInv, ToolSucceeds
  PROVE  LoopInv'
<1>1. /\ pc = "result" /\ pc' = "call" /\ UNCHANGED <<session, processes>>
      /\ run' = [run EXCEPT !.next = @ + 1]
  BY DEF ToolSucceeds
<1>2. PICK k \in Nat, n \in Nat : Midway(k, n)
  BY <1>1, LoopIsMidway
<1>3. Sound(session.messages) /\ Blocks(session.messages, Nat)
  BY <1>1, <1>2, MidwayFacts
<1>4. /\ session.plan \notin {"plan", "repair"} /\ session \in SessionRecord
  BY <1>1 DEF LoopInv, RunTypes, RepairInv
<1>5. /\ run' \in [start : Nat, before : Seq(Message), planning : BOOLEAN,
                   executing : BOOLEAN, next : Nat]
      /\ run'.start = run.start /\ run'.next = n + 1
  <2>1. run.next = n /\ n + 1 \in Nat
    BY <1>1, <1>2 DEF Midway
  <2>2. run' = [run EXCEPT !.next = n + 1]
    BY <1>1, <2>1
  <2> QED
    BY <2>1, <2>2, RunChanges
<1>6. Midway(k, n)'
  BY <1>1, <1>2, <1>5 DEF Midway
<1> QED
  BY <1>1, <1>3, <1>4, <1>5, <1>6, MidwayKeeps

LEMMA GuideKeeps ==
  ASSUME LoopInv, Guide
  PROVE  LoopInv'
<1>1. PICK x : x = Plain("guidance", 1)
  OBVIOUS
<1>2. /\ pc = "result" /\ pc' = "skip" /\ processes' = processes
      /\ session' = Pushed(x) /\ run' = [run EXCEPT !.next = @ + 1]
  BY <1>1 DEF Guide
<1>3. PICK k \in Nat, n \in Nat : Midway(k, n)
  BY <1>2, LoopIsMidway
<1>4. PICK m : m = session.messages
  OBVIOUS
<1>5. PICK p : p = Append(m, x)
  OBVIOUS
<1>6. run.next = n /\ n > 0 /\ Ran(m, k, Len(m), n)
  BY <1>2, <1>3, <1>4 DEF Midway
<1>7. x \in Message /\ x.kind = "guidance" /\ InBounds(x) /\ x.kind # "reply"
  BY <1>1, PlainFields
<1>8. /\ Sound(m) /\ m \in Seq(Message) /\ k \in RepliesOf(m) /\ Blocks(m, Nat)
      /\ Blocks(m, 0..run.start \cup {k}) /\ Shape(m, k, Len(m), n)
      /\ n <= m[k].calls
  BY <1>2, <1>3, <1>4, MidwayFacts
<1>9. Guided(p, k, Len(m) + 1, n)
  BY <1>5, <1>6, <1>7, <1>8, GrowsTo
<1>10. /\ Sound(p) /\ Len(p) = Len(m) + 1 /\ k \in RepliesOf(p) /\ p[k] = m[k]
       /\ Blocks(p, 0..run.start \cup {k}) /\ Blocks(p, Nat)
  BY <1>5, <1>7, <1>8, <1>9, Follows
<1>11. session.plan \notin {"plan", "repair"} /\ session \in SessionRecord
  BY <1>2 DEF LoopInv, RunTypes, RepairInv
<1>12. /\ session' \in SessionRecord /\ session'.messages = p
       /\ session'.plan = session.plan
  <2>1. "over" \in PlanStates
    BY DEF PlanStates
  <2> QED
    BY <1>2, <1>3, <1>4, <1>5, <1>7, <1>11, <2>1, SessionChanges
<1>13. /\ run' \in [start : Nat, before : Seq(Message), planning : BOOLEAN,
                    executing : BOOLEAN, next : Nat]
       /\ run'.start = run.start /\ run'.next = n + 1
  <2>1. n + 1 \in Nat /\ run' = [run EXCEPT !.next = n + 1]
    BY <1>2, <1>6
  <2> QED
    BY <2>1, RunChanges
<1>14. Midway(k, n)'
  BY <1>2, <1>8, <1>9, <1>10, <1>12, <1>13 DEF Midway
<1> QED
  BY <1>2, <1>10, <1>11, <1>12, <1>13, <1>14, MidwayKeeps

LEMMA SkipKeeps ==
  ASSUME LoopInv, Skip
  PROVE  LoopInv'
<1>1. /\ pc = "skip" /\ pc' = "skip" /\ run.next <= Calls
      /\ processes' = processes
      /\ session' = Pushed(SkippedAnswer(run.next))
      /\ run' = [run EXCEPT !.next = @ + 1]
  BY DEF Skip
<1>2. PICK k \in Nat, n \in Nat : Midway(k, n)
  BY <1>1, LoopIsMidway
<1>3. PICK m : m = session.messages
  OBVIOUS
<1>4. PICK c : c = n + 1
  OBVIOUS
<1>5. PICK x : x = SkippedAnswer(c)
  OBVIOUS
<1>6. PICK p : p = Append(m, x)
  OBVIOUS
<1>7. c \in Nat /\ run.next = c /\ Guided(m, k, Len(m), n)
  BY <1>1, <1>2, <1>3, <1>4 DEF Midway
<1>8. x \in Message /\ IsSkip(x, c) /\ InBounds(x) /\ x.kind # "reply"
  <2>1. x \in Message /\ IsSkip(x, c) /\ InBounds(x)
    BY <1>5, <1>7, SkippedFields
  <2> QED
    BY <2>1 DEF IsSkip
<1>9. /\ Sound(m) /\ m \in Seq(Message) /\ k \in RepliesOf(m) /\ Blocks(m, Nat)
      /\ Blocks(m, 0..run.start \cup {k}) /\ Shape(m, k, Len(m), n)
      /\ c <= m[k].calls
  <2>1. /\ Sound(m) /\ m \in Seq(Message) /\ k \in RepliesOf(m) /\ Blocks(m, Nat)
        /\ Blocks(m, 0..run.start \cup {k}) /\ Shape(m, k, Len(m), n)
        /\ Calls = m[k].calls
    BY <1>1, <1>2, <1>3, MidwayFacts
  <2> QED
    BY <1>1, <1>7, <2>1
<1>10. Guided(p, k, Len(m) + 1, c)
  BY <1>4, <1>6, <1>7, <1>8, <1>9, GrowsTo
<1>11. /\ Sound(p) /\ Len(p) = Len(m) + 1 /\ k \in RepliesOf(p) /\ p[k] = m[k]
       /\ Blocks(p, 0..run.start \cup {k}) /\ Blocks(p, Nat)
  BY <1>6, <1>7, <1>8, <1>9, <1>10, Follows
<1>12. session.plan \notin {"plan", "repair"} /\ session \in SessionRecord
  BY <1>1 DEF LoopInv, RunTypes, RepairInv
<1>13. /\ session' \in SessionRecord /\ session'.messages = p
       /\ session'.plan = session.plan
  <2>1. session' = Pushed(x) /\ "over" \in PlanStates
    BY <1>1, <1>5, <1>7 DEF PlanStates
  <2> QED
    BY <1>2, <1>3, <1>6, <1>8, <1>12, <2>1, SessionChanges
<1>14. /\ run' \in [start : Nat, before : Seq(Message), planning : BOOLEAN,
                    executing : BOOLEAN, next : Nat]
       /\ run'.start = run.start /\ run'.next = c + 1
  <2>1. c + 1 \in Nat /\ run' = [run EXCEPT !.next = c + 1]
    BY <1>1, <1>7
  <2> QED
    BY <2>1, RunChanges
<1>15. Midway(k, c)'
  BY <1>1, <1>7, <1>9, <1>10, <1>11, <1>13, <1>14 DEF Midway
<1> QED
  BY <1>1, <1>11, <1>12, <1>13, <1>14, <1>15, MidwayKeeps

LEMMA SaveKeeps ==
  ASSUME LoopInv, GoOnSaving
  PROVE  LoopInv'
<1>1. pc = "saving" /\ processes' = processes
  BY DEF GoOnSaving
<1>2. CASE at' = "idle"
  <2>1. Off
    BY <1>2 DEF GoOnSaving
  <2> QED
    BY <1>1, <2>1, OffKeeps
<1>3. CASE at' # "idle"
  <2>1. UNCHANGED <<session, run, pc>>
    BY <1>3 DEF GoOnSaving
  <2>2. processes' \in 0..MaxProcesses
    BY <1>1 DEF LoopInv, RunTypes
  <2> QED
    BY <2>1, <2>2, StaysSo
<1> QED
  BY <1>2, <1>3

LEMMA NextKeepsLoop ==
  ASSUME ConversationInv, [Next]_vars
  PROVE  LoopInv'
<1>1. LoopInv
  BY DEF ConversationInv
<1>2. CASE Boot \/ BootFails
  BY <1>2, BootKeeps
<1>3. CASE StartTurn \/ ReceiveReply
  BY <1>1, <1>3, StartTurnKeeps, ReceiveReplyKeeps
<1>4. CASE \/ ExceedTurns \/ LlmFails \/ RepairNotSent \/ RejectRepair
           \/ BlockReentry \/ TooManyCalls \/ TooManyCallsInTotal
           \/ ToolStopsRun \/ Abort \/ SaveSession
  BY <1>1, <1>4, StopsKeep
<1>5. CASE AcceptPlan \/ RequestRepair \/ ReplyWithoutTools
  BY <1>1, <1>5, AcceptPlanKeeps, RequestRepairKeeps, ReplyWithoutToolsKeeps
<1>6. CASE BeginCalls \/ RunTool \/ ToolSucceeds
  BY <1>1, <1>6, BeginCallsKeeps, RunToolKeeps, ToolSucceedsKeeps
<1>7. CASE Guide \/ Skip \/ EndSkips \/ EndCalls
  BY <1>1, <1>7, GuideKeeps, SkipKeeps, EndsKeep
<1>8. CASE GoOnSaving
  BY <1>1, <1>8, SaveKeeps
<1>9. CASE Crash
  <2>1. Off /\ processes' = processes
    BY <1>9 DEF Crash
  <2> QED
    BY <1>1, <2>1, OffKeeps
<1>10. CASE UNCHANGED vars
  <2>1. UNCHANGED <<session, run, pc>> /\ processes' \in 0..MaxProcesses
    BY <1>1, <1>10 DEF vars, LoopInv, RunTypes
  <2> QED
    BY <1>1, <2>1, StaysSo
<1> QED
  BY <1>2, <1>3, <1>4, <1>5, <1>6, <1>7, <1>8, <1>9, <1>10 DEF Next

-----------------------------------------------------------------------------
(* The conversation in its file *)

\* Every step of the process is a step of the file or leaves it alone.
LEMMA NextIsFileStep ==
  ASSUME SessionRecord \subseteq Sessions, session \in SessionRecord, [Next]_vars
  PROVE  [FileNext]_fileVars
<1>1. CASE \/ Boot \/ BootFails \/ ExceedTurns \/ StartTurn \/ LlmFails
           \/ ReceiveReply \/ AcceptPlan \/ RequestRepair \/ RepairNotSent
           \/ RejectRepair \/ BlockReentry \/ ReplyWithoutTools \/ TooManyCalls
           \/ TooManyCallsInTotal \/ BeginCalls \/ RunTool \/ ToolSucceeds
           \/ ToolStopsRun \/ Guide \/ Skip \/ EndSkips \/ EndCalls \/ Abort
           \/ UNCHANGED vars
  <2>1. UNCHANGED fileVars
    BY <1>1
       DEF Boot, BootFails, ExceedTurns, StartTurn, LlmFails, ReceiveReply,
           AcceptPlan, RequestRepair, RepairNotSent, RejectRepair, BlockReentry,
           ReplyWithoutTools, TooManyCalls, TooManyCallsInTotal, BeginCalls,
           RunTool, ToolSucceeds, ToolStopsRun, Guide, Skip, EndSkips, EndCalls,
           Abort, vars
  <2> QED
    BY <2>1
<1>2. CASE SaveSession
  BY <1>2 DEF SaveSession, FileNext
<1>3. CASE GoOnSaving
  BY <1>3 DEF GoOnSaving, FileNext
<1>4. CASE Crash
  BY <1>4 DEF Crash, FileNext
<1> QED
  BY <1>1, <1>2, <1>3, <1>4 DEF Next

\* What is kept, and what is about to be, may be taken up by another process.
LEMMA NextKeepsKept ==
  ASSUME SessionRecord \subseteq Sessions, ConversationInv, [Next]_vars
  PROVE  KeptInv'
<1>1. /\ FileInv /\ LoopInv
      /\ temp \in Text \cup {NoFile} /\ answer \in {"none", "saved", "refused"}
      /\ file # NoFile => Storable(file[1])
      /\ saving # NoSession => Storable(saving)
  BY DEF ConversationInv, KeptInv
<1>2. session \in SessionRecord /\ Storable(session)
  BY <1>1 DEF LoopInv, RunTypes, BlocksInv, Storable
<1>3. CASE UNCHANGED fileVars
  BY <1>1, <1>3 DEF fileVars, KeptInv, Storable, Sound, Text
<1>4. CASE SaveSession
  <2>1. saving' = session /\ answer' = "none" /\ UNCHANGED <<file, temp>>
    BY <1>4 DEF SaveSession, BeginSave
  <2> QED
    BY <1>1, <1>2, <2>1 DEF KeptInv
<1>5. CASE GoOnSaving
  <2>1. SaveStep
    BY <1>5 DEF GoOnSaving
  <2>2. CASE RefuseSave \/ OpenFails \/ WriteFails \/ RenameFails
    <3>1. /\ saving' = NoSession /\ answer' = "refused" /\ file' = file
          /\ temp' \in {temp, NoFile}
      BY <2>2 DEF RefuseSave, OpenFails, WriteFails, RenameFails, Return, Discard
    <3> QED
      BY <1>1, <3>1 DEF KeptInv
  <2>3. CASE OpenTemp
    <3>1. saving' = saving /\ answer' = answer /\ file' = file /\ temp' = Empty
      BY <2>3 DEF OpenTemp
    <3>2. Empty \in Text
      BY DEF Empty, Text
    <3> QED
      BY <1>1, <3>1, <3>2 DEF KeptInv
  <2>4. CASE WritePiece
    <3>1. /\ saving' = saving /\ answer' = answer /\ file' = file
          /\ temp' = [temp EXCEPT ![written + 1] = saving]
          /\ at = "write"
      BY <2>4 DEF WritePiece
    <3>2. saving \in Sessions /\ temp \in Text
      BY <1>1, <3>1 DEF FileInv, Whereabouts, Progress
    <3>3. temp' \in Text
      BY <3>1, <3>2 DEF Text
    <3> QED
      BY <1>1, <3>1, <3>3 DEF KeptInv
  <2>5. CASE Rename
    <3>1. /\ saving' = NoSession /\ answer' = "saved" /\ temp' = NoFile
          /\ file' = temp /\ at = "write" /\ written = NPieces
      BY <2>5 DEF Rename, Return
    <3>2. saving \in Sessions /\ temp = Whole(saving)
      BY <1>1, <3>1, WrittenIsWhole
    <3>3. file'[1] = saving /\ saving # NoSession
      BY <3>1, <3>2, WholeTextIsWhole, SessionsAssumption
    <3> QED
      BY <1>1, <3>1, <3>3 DEF KeptInv
  <2> QED
    BY <2>1, <2>2, <2>3, <2>4, <2>5 DEF SaveStep
<1>6. CASE Crash
  <2>1. saving' = NoSession /\ UNCHANGED <<file, temp, answer>>
    BY <1>6 DEF Crash, Die
  <2> QED
    BY <1>1, <2>1 DEF KeptInv
<1>7. \/ UNCHANGED fileVars \/ SaveSession \/ GoOnSaving \/ Crash
  BY DEF Next, Boot, BootFails, ExceedTurns, StartTurn, LlmFails, ReceiveReply,
         AcceptPlan, RequestRepair, RepairNotSent, RejectRepair, BlockReentry,
         ReplyWithoutTools, TooManyCalls, TooManyCallsInTotal, BeginCalls,
         RunTool, ToolSucceeds, ToolStopsRun, Guide, Skip, EndSkips, EndCalls,
         Abort, vars
<1> QED
  BY <1>3, <1>4, <1>5, <1>6, <1>7

LEMMA InitConversationInv == Init => ConversationInv
<1> SUFFICES ASSUME Init PROVE ConversationInv
  OBVIOUS
<1>1. /\ FileInit /\ session = NewSession /\ run = NoRun /\ pc = "off"
      /\ processes = 0
  BY DEF Init
<1>2. FileInv
  BY <1>1, InvHoldsInitially
<1>3. KeptInv
  BY <1>1 DEF FileInit, KeptInv
<1>4. NewSession \in SessionRecord /\ NewSession.messages = <<>>
  BY DEF NewSession, SessionRecord, PlanStates
<1>5. RunTypes
  BY <1>1, <1>4, LimitsAssumption DEF NoRun, RunTypes
<1>6. Sound(<<>>) /\ RepliesOf(<<>>) = {}
  BY DEF Sound, RepliesOf
<1>7. Sound(session.messages) /\ BlocksInv
  BY <1>1, <1>4, <1>6, NoBlocks DEF BlocksInv
<1>8. RepairInv /\ CutIsLeast /\ RepairIsRecognised
  BY <1>1 DEF RepairInv, CutIsLeast, RepairIsRecognised
<1> QED
  BY <1>2, <1>3, <1>5, <1>7, <1>8 DEF ConversationInv, LoopInv

\* Inductive, and what each property follows from.
LEMMA NextConversationInv ==
  SessionRecord \subseteq Sessions =>
    (ConversationInv /\ [Next]_vars => ConversationInv')
<1> SUFFICES ASSUME SessionRecord \subseteq Sessions, ConversationInv, [Next]_vars
             PROVE  ConversationInv'
  OBVIOUS
<1>1. session \in SessionRecord
  BY DEF ConversationInv, LoopInv, RunTypes
<1>2. FileInv'
  BY <1>1, NextIsFileStep, StepKeepsInv DEF ConversationInv
<1> QED
  BY <1>2, NextKeepsKept, NextKeepsLoop DEF ConversationInv

LEMMA InvGivesTypes == ConversationInv => TypeOK
<1> SUFFICES ASSUME ConversationInv PROVE TypeOK
  OBVIOUS
<1>1. FileTypeOK
  <2>1. ASSUME NEW s \in Sessions PROVE Whole(s) \in Text
    BY WholeTextIsWhole
  <2>2. written \in 0..NPieces
    BY PiecesAssumption DEF ConversationInv, FileInv, Whereabouts, Progress
  <2> QED
    BY <2>1, <2>2
       DEF ConversationInv, KeptInv, FileInv, Whereabouts, WholeTexts, FileTypeOK
<1>2. \A i \in DOMAIN session.messages :
        LET message == session.messages[i] IN
          message.length <= IF message.dropped THEN Placeholder
                            ELSE IF message.kind = "answer" THEN MaxToolOutput + 1
                            ELSE message.length
  <2> SUFFICES ASSUME NEW i \in DOMAIN session.messages,
                      NEW x, x = session.messages[i]
               PROVE  x.length <= IF x.dropped THEN Placeholder
                                  ELSE IF x.kind = "answer" THEN MaxToolOutput + 1
                                  ELSE x.length
    OBVIOUS
  <2>1. x \in Message /\ InBounds(x)
    BY DEF ConversationInv, LoopInv, Sound
  <2> QED
    BY <2>1 DEF InBounds, Message
<1> QED
  BY <1>1, <1>2 DEF ConversationInv, LoopInv, RunTypes, TypeOK

LEMMA InvGivesAnswers == ConversationInv => AnswersBelong
<1> SUFFICES ASSUME ConversationInv PROVE AnswersBelong
  OBVIOUS
<1>1. /\ session.messages \in Seq(Message) /\ Blocks(session.messages, Nat)
      /\ run.start \in Nat
      /\ pc = "llm" => Blocks(session.messages, 0..run.start)
  BY DEF ConversationInv, LoopInv, RunTypes, Sound, BlocksInv
<1>2. CASE pc = "llm"
  BY <1>1, <1>2, BlocksBelong
<1>3. CASE pc # "llm"
  BY <1>1, <1>3, BlocksBelong
<1> QED
  BY <1>2, <1>3

\* The types of the conversation, and the bound of every tool output that is
\* kept: agent_run, its sessions and their file, for any limits, outputs and
\* texts.
THEOREM ConversationTypes ==
  ASSUME SessionRecord \subseteq Sessions
  PROVE  Spec => []TypeOK
BY InitConversationInv, NextConversationInv, InvGivesTypes, PTL DEF Spec

\* enforce_context_limits sends what there was with the fewest contents taken
\* out, for any messages and any limit.
THEOREM CutsAreLeast ==
  ASSUME SessionRecord \subseteq Sessions
  PROVE  Spec => []CutIsLeast
<1>1. ConversationInv => CutIsLeast
  BY DEF ConversationInv, LoopInv
<1> QED
  BY <1>1, InitConversationInv, NextConversationInv, PTL DEF Spec

\* Every tool message belongs to the reply before it, over any number of runs,
\* repairs, failures, saves and crashes.
THEOREM AnswersAlwaysBelong ==
  ASSUME SessionRecord \subseteq Sessions
  PROVE  Spec => []AnswersBelong
BY InitConversationInv, NextConversationInv, InvGivesAnswers, PTL DEF Spec

\* The LLM layer takes a request for one for a repair when the plan is being
\* repaired, but for the two cases that RepairIsRecognised names.
THEOREM RepairsAreRecognised ==
  ASSUME SessionRecord \subseteq Sessions
  PROVE  Spec => []RepairIsRecognised
<1>1. ConversationInv => RepairIsRecognised
  BY DEF ConversationInv, LoopInv
<1> QED
  BY <1>1, InitConversationInv, NextConversationInv, PTL DEF Spec

\* The session file stays a register under the processes that use it.
THEOREM ConversationKeepsRegister ==
  ASSUME SessionRecord \subseteq Sessions
  PROVE  Spec => KeepsRegister
<1>1. Init => FileInit
  BY DEF Init
<1>2. ConversationInv /\ [Next]_vars => [FileNext]_fileVars
  BY NextIsFileStep DEF ConversationInv, LoopInv, RunTypes
<1> QED
  BY <1>1, <1>2, InitConversationInv, NextConversationInv,
     SessionFileIsARegister, PTL DEF Spec, FileSpec
=============================================================================
