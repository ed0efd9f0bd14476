------------------------------ MODULE SessionFile ------------------------------
(***************************************************************************)
(* JsonFileStateStore: a session is written to a temporary file beside the *)
(* session file, piece by piece, and renamed over it.  Processes use the   *)
(* file one after the other; one that dies leaves the temporary file as it *)
(* is.  What was written to a file stays there when the process dies (the  *)
(* machine does not: nothing is synchronised with the disk).               *)
(***************************************************************************)
EXTENDS Naturals

CONSTANTS
  Sessions,    \* the sessions that can be saved
  NoSession,   \* what a process that saves nothing saves
  NoFile,      \* in place of the pieces of a file that is not there
  Gap,         \* a piece of a file that was not written
  NPieces,     \* bound: the pieces a session is written in
  FileFaults   \* which system calls may fail, see FileFault

FileFault == {"refuse", "open", "write", "rename", "remove", "read", "crash"}

ASSUME PiecesAssumption == NPieces \in Nat \ {0}

ASSUME SessionsAssumption ==
  /\ NoSession \notin Sessions /\ Gap \notin Sessions
  /\ NoFile \notin [1..NPieces -> Sessions \cup {Gap}]

ASSUME FileFaultsAssumption == FileFaults \subseteq FileFault

VARIABLES
  file,     \* the session file: its pieces, or NoFile
  temp,     \* the temporary file
  saving,   \* the session save() was called with, or NoSession
  at,       \* where save() is: "idle", "ready", "write"
  written,  \* the pieces written so far
  answer    \* what save() returned last: "none", "saved", "refused"

fileVars == <<file, temp, saving, at, written, answer>>

Pieces == 1..NPieces

Text == [Pieces -> Sessions \cup {Gap}]

\* The text of a session, and the session a text is parsed into.  A text that
\* was not written to its end is no JSON.
Whole(s) == [i \in Pieces |-> s]

IsWhole(t) == t[1] \in Sessions /\ t = Whole(t[1])

Empty == [i \in Pieces |-> Gap]

FileInit ==
  /\ file = NoFile /\ temp = NoFile
  /\ saving = NoSession /\ at = "idle" /\ written = 0 /\ answer = "none"

-----------------------------------------------------------------------------
(* load *)

\* What load() can return: a file that cannot be read or parsed is an error,
\* never taken for a missing one.
Missing == file = NoFile

Loadable == file # NoFile /\ IsWhole(file)

LoadFails == file # NoFile /\ (~IsWhole(file) \/ "read" \in FileFaults)

-----------------------------------------------------------------------------
(* save *)

Return(reply) ==
  /\ saving' = NoSession /\ at' = "idle" /\ written' = 0
  /\ answer' = reply

BeginSave(s) ==
  /\ at = "idle"
  /\ saving' = s /\ at' = "ready" /\ answer' = "none"
  /\ UNCHANGED <<file, temp, written>>

\* The session is not valid or cannot be serialised, or its directory cannot
\* be made: nothing was touched.
RefuseSave ==
  /\ at = "ready" /\ "refuse" \in FileFaults
  /\ Return("refused")
  /\ UNCHANGED <<file, temp>>

\* Mutant: the temporary file of a process that died is continued.
OpenWithoutTruncation ==
  /\ at = "ready"
  /\ temp' = IF temp = NoFile THEN Empty ELSE temp
  /\ written' = IF temp = NoFile THEN 0
                ELSE CHOOSE n \in 0..NPieces :
                       /\ \A i \in 1..n : temp[i] # Gap
                       /\ n < NPieces => temp[n + 1] = Gap
  /\ at' = "write"
  /\ UNCHANGED <<file, saving, answer>>

OpenTemp ==
  /\ at = "ready"
  /\ temp' = Empty /\ at' = "write"
  /\ UNCHANGED <<file, saving, written, answer>>

OpenFails ==
  /\ at = "ready" /\ "open" \in FileFaults
  /\ Return("refused")
  /\ UNCHANGED <<file, temp>>

WritePiece ==
  /\ at = "write" /\ written < NPieces
  /\ written' = written + 1
  /\ temp' = [temp EXCEPT ![written + 1] = saving]
  /\ UNCHANGED <<file, saving, at, answer>>

\* The temporary file is removed, if that works.
Discard ==
  \/ temp' = NoFile
  \/ "remove" \in FileFaults /\ temp' = temp

WriteFails ==
  /\ at = "write" /\ written < NPieces /\ "write" \in FileFaults
  /\ Discard
  /\ Return("refused")
  /\ UNCHANGED file

Rename ==
  /\ at = "write" /\ written = NPieces
  /\ file' = temp /\ temp' = NoFile
  /\ Return("saved")

RenameFails ==
  /\ at = "write" /\ written = NPieces /\ "rename" \in FileFaults
  /\ Discard
  /\ Return("refused")
  /\ UNCHANGED file

SaveStep ==
  \/ RefuseSave \/ OpenTemp \/ OpenFails \/ WritePiece \/ WriteFails
  \/ Rename \/ RenameFails

\* The process dies: what it was doing ends here, the files stay.
Die ==
  /\ saving' = NoSession /\ at' = "idle" /\ written' = 0
  /\ UNCHANGED <<file, temp, answer>>

FileNext ==
  \/ \E s \in Sessions : BeginSave(s)
  \/ SaveStep
  \/ "crash" \in FileFaults /\ Die

FileSpec == FileInit /\ [][FileNext]_fileVars

-----------------------------------------------------------------------------
(* Properties *)

FileTypeOK ==
  /\ file \in Text \cup {NoFile} /\ temp \in Text \cup {NoFile}
  /\ saving \in Sessions \cup {NoSession}
  /\ at \in {"idle", "ready", "write"}
  /\ written \in 0..NPieces
  /\ answer \in {"none", "saved", "refused"}

\* The session a load would find; a file that is not the text of a session is
\* none that the register could hold.
Kept ==
  IF file = NoFile THEN NoSession
  ELSE IF IsWhole(file) THEN file[1]
  ELSE Gap

Register ==
  INSTANCE SessionRegister WITH kept <- Kept, asked <- saving, told <- answer

\* save() replaces the session in the file whole and says so, or leaves it as
\* it was and says so, whatever fails and wherever a process dies, also when
\* an earlier process left a temporary file.  This is what lets AgentLoop take
\* a save for one step.
KeepsRegister == Register!Spec
=============================================================================
