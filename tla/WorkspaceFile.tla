---------------------------- MODULE WorkspaceFile ----------------------------
(***************************************************************************)
(* One file of the workspace under the file tools: read_file_safe,         *)
(* write_file_safe and apply_patch, called one after the other.            *)
(*                                                                         *)
(* A call reads and writes in pieces of any size.  Others (an editor, a    *)
(* process that a command left behind) may change the file in place at any *)
(* moment, and remove it while the tools do not hold it open.  The checks  *)
(* of the path are one free choice: the path is accepted or refused.       *)
(***************************************************************************)
EXTENDS SequencesExt, ToolFailure

CONSTANTS
  Chars,         \* the characters of a text
  Nul,           \* the one that makes a text binary
  Files,         \* texts the file may hold at the start
  OldTexts,      \* texts a patch may look for
  NewTexts,      \* texts a patch or a write may bring
  MaxRead,       \* limit of a read for a patch (max_read_bytes)
  MaxShown,      \* limit of a read for the model (kMaxReadBytes or less)
  MaxWrite,      \* limit of a write (kMaxWriteBytes)
  Faults,        \* what may fail: "path", "read", "probe", "write"
  MaxEntries,    \* bound: entries of a batch
  MaxCalls,      \* bound: calls of a behaviour
  MaxOutside     \* bound: changes by others

ASSUME WorkspaceAssumption ==
  /\ Nul \in Chars
  /\ Files \cup OldTexts \cup NewTexts \subseteq Seq(Chars)
  /\ MaxRead \in Nat \ {0} /\ MaxShown \in Nat \ {0} /\ MaxWrite \in Nat
  /\ Faults \subseteq {"path", "read", "probe", "write"}
  /\ MaxEntries \in Nat /\ MaxCalls \in Nat /\ MaxOutside \in Nat

VARIABLES
  file,       \* the file: is it there, and its text
  approved,   \* allow_mutating_tools
  call,       \* the call that is carried out
  pc,         \* where it is
  seen,       \* accumulated: what has been read
  truncated,  \* there was more to read than the limit
  text,       \* what is to be written
  written,    \* how much of it has been
  result,     \* the result of the call
  calls,      \* number of calls so far
  base,       \* history: the file as the call found it or others left it
  outside     \* history: changes by others, all and since the call began, and
              \* whether a probing read of the call failed

vars == <<file, approved, call, pc, seen, truncated, text, written, result,
          calls, base, outside>>

-----------------------------------------------------------------------------
(* Calls and results *)

Missing == [exists |-> FALSE, text |-> <<>>]

Holding(t) == [exists |-> TRUE, text |-> t]

PatchEntry == [old : OldTexts, new : NewTexts]

\* The arguments of a call; "refused" is what the tool itself rejects: a field
\* that is missing, unknown or of a wrong type, both modes at once, no entry.
Refused == [tool : {"read_file_safe", "write_file_safe", "apply_patch"},
            mode : {"refused"}, content : {<<>>}, entries : {<<>>}]

Reads == [tool : {"read_file_safe"}, mode : {"whole"}, content : {<<>>},
          entries : {<<>>}]

Writes == [tool : {"write_file_safe"}, mode : {"whole"}, content : NewTexts,
           entries : {<<>>}]

Singles == [tool : {"apply_patch"}, mode : {"single"}, content : {<<>>},
            entries : {<<e>> : e \in PatchEntry}]

Batches == [tool : {"apply_patch"}, mode : {"batch"}, content : {<<>>},
            entries : UNION {[1..n -> PatchEntry] : n \in 1..MaxEntries}]

Calls == Refused \cup Reads \cup Writes \cup Singles \cup Batches

NoCall == [tool |-> "none", mode |-> "none", content |-> <<>>,
           entries |-> <<>>]

\* A result as the loop judges it, with what else it tells the model.
Failed(reject, matches, index) ==
  [tool |-> call.tool, args |-> "", parsed |-> TRUE, ok |-> FALSE,
   timedOut |-> FALSE, status |-> "", reject |-> reject, detail |-> "",
   matches |-> matches, index |-> index, content |-> <<>>,
   truncated |-> FALSE]

Succeeded(matches) ==
  [Failed("none", matches, -1) EXCEPT !.ok = TRUE]

NoResult ==
  [tool |-> "none", args |-> "", parsed |-> TRUE, ok |-> FALSE,
   timedOut |-> FALSE, status |-> "", reject |-> "", detail |-> "",
   matches |-> 0, index |-> -1, content |-> <<>>, truncated |-> FALSE]

Answer(r) == pc' = "returned" /\ result' = r

IsPatch == call.tool = "apply_patch"

ReadLimit == IF IsPatch THEN MaxRead ELSE MaxShown

-----------------------------------------------------------------------------
(* The algorithm of a patch on the text in memory *)

\* std::string::find: the first place at or after "from", or 0.
Find(haystack, needle, from) ==
  LET starts == {i \in from..Len(haystack) - Len(needle) + 1 :
                   SubSeq(haystack, i, i + Len(needle) - 1) = needle}
  IN  IF starts = {} THEN 0 ELSE CHOOSE i \in starts : \A j \in starts : i <= j

\* Mutant: the search goes on behind the hit.
CountWithoutOverlap(haystack, needle) ==
  LET from[pos \in 1..Len(haystack) + Len(needle) + 1] ==
        LET hit == Find(haystack, needle, pos)
        IN  IF hit = 0 THEN 0 ELSE 1 + from[hit + Len(needle)]
  IN  IF needle = <<>> THEN 0 ELSE from[1]

\* count_occurrences_with_overlap: the search goes on one behind each hit.
Count(haystack, needle) ==
  LET from[pos \in 1..Len(haystack) + 1] ==
        LET hit == Find(haystack, needle, pos)
        IN  IF hit = 0 THEN 0 ELSE 1 + from[hit + 1]
  IN  IF needle = <<>> THEN 0 ELSE from[1]

\* validate_single_on_content
Reject(content, entry) ==
  CASE entry.old = <<>> -> "empty_old_text"
    [] entry.old # <<>> /\ Count(content, entry.old) = 0 -> "no_match"
    [] Count(content, entry.old) > 1 -> "multiple_matches"
    [] OTHER -> "none"

Replaced(content, entry) ==
  LET hit == Find(content, entry.old, 1)
  IN  SubSeq(content, 1, hit - 1) \o entry.new
        \o SubSeq(content, hit + Len(entry.old), Len(content))

Try(done, entry) ==
  CASE done.reject # "none" -> done
    [] done.reject = "none" /\ Reject(done.content, entry) # "none" ->
         [done EXCEPT !.reject = Reject(done.content, entry),
                      !.matches = Count(done.content, entry.old)]
    [] OTHER -> [done EXCEPT !.content = Replaced(done.content, entry),
                             !.applied = @ + 1, !.matches = 1]

\* Each entry works on the result of the one before; entries behind the first
\* that is rejected are not looked at.
Patched(content, entries) ==
  LET start == [content |-> content, applied |-> 0, matches |-> 0,
                reject |-> "none"]
      after[n \in 0..Len(entries)] ==
        IF n = 0 THEN start ELSE Try(after[n - 1], entries[n])
  IN  after[Len(entries)]

-----------------------------------------------------------------------------
(* Calls, and reading *)

Init ==
  /\ file \in {Missing} \cup {Holding(t) : t \in Files}
  /\ approved \in BOOLEAN
  /\ call = NoCall /\ pc = "returned" /\ seen = <<>> /\ truncated = FALSE
  /\ text = <<>> /\ written = 0 /\ result = NoResult /\ calls = 0
  /\ base = file /\ outside = [all |-> 0, now |-> 0, blind |-> FALSE]

Call ==
  /\ pc = "returned" /\ calls < MaxCalls
  /\ call' \in Calls
  /\ calls' = calls + 1 /\ pc' = "called"
  /\ seen' = <<>> /\ truncated' = FALSE /\ text' = <<>> /\ written' = 0
  /\ result' = NoResult /\ base' = file
  /\ outside' = [outside EXCEPT !.now = 0, !.blind = FALSE]
  /\ UNCHANGED <<file, approved>>

Blocked == call.tool \in {"write_file_safe", "apply_patch"} /\ ~approved

\* ToolRegistry::execute: a tool that changes files needs approval.
BlockCall ==
  /\ pc = "called" /\ Blocked
  /\ Answer([Failed("", 0, -1) EXCEPT !.status = "blocked"])
  /\ UNCHANGED <<file, approved, call, seen, truncated, text, written, calls,
                 base, outside>>

\* What the lambda of apply_patch returns has no status and no reject code;
\* what another tool throws for its arguments comes back as "failed".
RefuseArguments ==
  /\ pc = "called" /\ ~Blocked /\ call.mode = "refused"
  /\ Answer(IF IsPatch THEN Failed("", 0, -1)
            ELSE [Failed("", 0, -1) EXCEPT !.status = "failed"])
  /\ UNCHANGED <<file, approved, call, seen, truncated, text, written, calls,
                 base, outside>>

ReadFailed == IF IsPatch THEN Failed("file_read_failure", 0, -1)
              ELSE Failed("", 0, -1)

OpensToRead ==
  pc = "called" /\ ~Blocked /\ call.mode # "refused"
    /\ call.tool # "write_file_safe"

OpenToRead ==
  /\ OpensToRead /\ file.exists
  /\ pc' = "reading"
  /\ UNCHANGED <<file, approved, call, seen, truncated, text, written, result,
                 calls, base, outside>>

ReadRefused ==
  /\ OpensToRead /\ (~file.exists \/ "path" \in Faults)
  /\ Answer(ReadFailed)
  /\ UNCHANGED <<file, approved, call, seen, truncated, text, written, calls,
                 base, outside>>

\* One read(); the limit is met exactly, for a read never asks for more.
ReadPiece ==
  /\ pc = "reading" /\ Len(seen) < ReadLimit
  /\ \E n \in Len(seen) + 1..Len(file.text) :
       /\ n <= ReadLimit
       /\ seen' = seen \o SubSeq(file.text, Len(seen) + 1, n)
       /\ pc' = IF n = ReadLimit THEN "probing" ELSE "reading"
  /\ UNCHANGED <<file, approved, call, truncated, text, written, result,
                 calls, base, outside>>

ReadEnd ==
  /\ pc = "reading" /\ Len(file.text) <= Len(seen)
  /\ pc' = "read"
  /\ UNCHANGED <<file, approved, call, seen, truncated, text, written, result,
                 calls, base, outside>>

ReadFails ==
  /\ pc = "reading" /\ "read" \in Faults
  /\ Answer(ReadFailed)
  /\ UNCHANGED <<file, approved, call, seen, truncated, text, written, calls,
                 base, outside>>

\* Mutant: a file that fills the limit is taken to end there.
ProbeNothing ==
  /\ pc = "probing"
  /\ truncated' = FALSE
  /\ pc' = "read"
  /\ UNCHANGED <<file, approved, call, seen, text, written, result, calls,
                 base, outside>>

\* One byte more shows that the file goes on.  A probe that fails reads none.
Probe ==
  /\ pc = "probing"
  /\ \/ truncated' = (Len(file.text) > ReadLimit) /\ UNCHANGED outside
     \/ /\ "probe" \in Faults
        /\ truncated' = FALSE
        /\ outside' = [outside EXCEPT !.blind = TRUE]
  /\ pc' = "read"
  /\ UNCHANGED <<file, approved, call, seen, text, written, result, calls,
                 base>>

IsBinary == Contains(seen, Nul)

\* The read_file_safe tool returns what it has, and says when that is a part.
ShowFile ==
  /\ pc = "read" /\ ~IsPatch
  /\ Answer(IF IsBinary THEN [ReadFailed EXCEPT !.truncated = truncated]
            ELSE [Succeeded(0) EXCEPT !.content = seen,
                                      !.truncated = truncated])
  /\ UNCHANGED <<file, approved, call, seen, truncated, text, written, calls,
                 base, outside>>

-----------------------------------------------------------------------------
(* Patching and writing *)

\* Mutant: what was cut off by the limit is patched all the same.
UnpatchableIfBinary == IsBinary

Unpatchable == IsBinary \/ truncated

RejectFile ==
  /\ pc = "read" /\ IsPatch /\ Unpatchable
  /\ Answer(Failed(IF IsBinary THEN "binary_file" ELSE "truncated_file", 0, -1))
  /\ UNCHANGED <<file, approved, call, seen, truncated, text, written, calls,
                 base, outside>>

RejectEntry ==
  /\ pc = "read" /\ IsPatch /\ ~Unpatchable
  /\ LET done == Patched(seen, call.entries)
     IN  /\ done.reject # "none"
         /\ Answer(IF call.mode = "single"
                   THEN Failed(done.reject, done.matches, -1)
                   ELSE Failed(IF done.reject = "empty_old_text"
                               THEN "invalid_batch_entry" ELSE done.reject,
                               done.applied, done.applied))
  /\ UNCHANGED <<file, approved, call, seen, truncated, text, written, calls,
                 base, outside>>

AcceptPatch ==
  /\ pc = "read" /\ IsPatch /\ ~Unpatchable
  /\ LET done == Patched(seen, call.entries)
     IN  done.reject = "none" /\ text' = done.content
  /\ pc' = "accepted"
  /\ UNCHANGED <<file, approved, call, seen, truncated, written, result, calls,
                 base, outside>>

AcceptWrite ==
  /\ pc = "called" /\ ~Blocked /\ call.mode = "whole"
  /\ call.tool = "write_file_safe"
  /\ text' = call.content
  /\ pc' = "accepted"
  /\ UNCHANGED <<file, approved, call, seen, truncated, written, result, calls,
                 base, outside>>

Applied == IF IsPatch THEN Len(call.entries) ELSE 0

\* Mutant: a failed write of a patch is told as a failed read.
WriteFailedAsRead ==
  IF IsPatch THEN Failed("file_read_failure", Applied, -1)
  ELSE Failed("", 0, -1)

WriteFailed == IF IsPatch THEN Failed("writeback_failure", Applied, -1)
               ELSE Failed("", 0, -1)

\* The size is looked at before the file is opened.
WriteRefused ==
  /\ pc = "accepted" /\ (Len(text) > MaxWrite \/ "path" \in Faults)
  /\ Answer(WriteFailed)
  /\ UNCHANGED <<file, approved, call, seen, truncated, text, written, calls,
                 base, outside>>

\* O_CREAT and O_TRUNC: the file is there, and empty.
OpenToWrite ==
  /\ pc = "accepted" /\ Len(text) <= MaxWrite
  /\ file' = Holding(<<>>)
  /\ pc' = "writing"
  /\ UNCHANGED <<approved, call, seen, truncated, text, written, result, calls,
                 base, outside>>

\* What a write at a place leaves of a text that others may have changed: a
\* gap is filled with NUL, and what lies behind stays.
Overwritten(t, at, piece) ==
  [i \in 1..(IF Len(t) > at + Len(piece) THEN Len(t) ELSE at + Len(piece)) |->
     CASE i \in at + 1..at + Len(piece) -> piece[i - at]
       [] i \notin at + 1..at + Len(piece) /\ i <= Len(t) -> t[i]
       [] OTHER -> Nul]

WritePiece ==
  /\ pc = "writing"
  /\ \E n \in written + 1..Len(text) :
       /\ file' = Holding(Overwritten(file.text, written,
                                      SubSeq(text, written + 1, n)))
       /\ written' = n
  /\ UNCHANGED <<approved, call, pc, seen, truncated, text, result, calls,
                 base, outside>>

WriteFails ==
  /\ pc = "writing" /\ written < Len(text) /\ "write" \in Faults
  /\ Answer(WriteFailed)
  /\ UNCHANGED <<file, approved, call, seen, truncated, text, written, calls,
                 base, outside>>

WriteDone ==
  /\ pc = "writing" /\ written = Len(text)
  /\ Answer(Succeeded(Applied))
  /\ UNCHANGED <<file, approved, call, seen, truncated, text, written, calls,
                 base, outside>>

-----------------------------------------------------------------------------
(* Others *)

HeldOpen == pc \in {"reading", "probing", "writing"}

Others ==
  /\ outside.all < MaxOutside
  /\ outside' = [outside EXCEPT !.all = @ + 1, !.now = @ + 1]
  /\ \/ \E t \in Files : file' = Holding(t)
     \/ ~HeldOpen /\ file' = Missing
  /\ base' = file'
  /\ UNCHANGED <<approved, call, pc, seen, truncated, text, written, result,
                 calls>>

Rest == pc = "returned" /\ calls = MaxCalls /\ UNCHANGED vars

Next ==
  \/ Call \/ BlockCall \/ RefuseArguments
  \/ OpenToRead \/ ReadRefused \/ ReadPiece \/ ReadEnd \/ ReadFails \/ Probe
  \/ ShowFile \/ RejectFile \/ RejectEntry \/ AcceptPatch \/ AcceptWrite
  \/ WriteRefused \/ OpenToWrite \/ WritePiece \/ WriteFails \/ WriteDone
  \/ Others \/ Rest

Spec == Init /\ [][Next]_vars

-----------------------------------------------------------------------------
(* Properties *)

Returned == pc = "returned" /\ result # NoResult

\* What the agent loop lets the model try again has changed nothing: after a
\* result that it takes to be recoverable (a blocked call, a rejected patch)
\* the file is as the call found it, or as others have left it since.
RecoverableIsUntouched ==
  Returned /\ IsRecoverable(result) => file = base

\* Where the old text of an entry stands in a text: the lengths of what may
\* come before it.
Sites(t, entry) ==
  {i \in 0..Len(t) - Len(entry.old) :
     entry.old # <<>> /\ IsPrefix(entry.old, SubSeq(t, i + 1, Len(t)))}

\* What a sequence of entries means for a text: the one text that comes of it,
\* or none when an entry does not fit at exactly one place.
Meaning(t, entries) ==
  LET Fitted(entry, u) ==
        {SubSeq(u, 1, i) \o entry.new
           \o SubSeq(u, i + Len(entry.old) + 1, Len(u)) : i \in Sites(u, entry)}
      after[n \in 0..Len(entries)] ==
        IF n = 0 THEN {t}
        ELSE UNION {Fitted(entries[n], u) :
                      u \in {v \in after[n - 1] :
                               Cardinality(Sites(v, entries[n])) = 1}}
  IN  after[Len(entries)]

Undisturbed == outside.now = 0

\* What there is of the file for a call: when the limit is reached and the one
\* byte more cannot be read, the file ends there.
Visible == IF outside.blind THEN SubSeq(base.text, 1, ReadLimit) ELSE base.text

\* apply_patch does what its entries mean, all of them in their order or none,
\* and a rejection is due to the file or to the entry it names: the entries
\* before that one fit, and with it they do not.  With one exception: after a
\* probe that failed, the patched start of a longer file is all that is left of
\* it, although apply_patch.hpp promises to refuse such a file.
PatchIsExact ==
  Returned /\ IsPatch /\ Undisturbed =>
    /\ result.ok =>
         /\ base.exists /\ ~Contains(Visible, Nul)
         /\ Meaning(Visible, call.entries) = {file.text}
    /\ result.reject \in {"no_match", "multiple_matches", "empty_old_text",
                          "invalid_batch_entry"} =>
         LET before == IF call.mode = "batch" THEN result.index ELSE 0
         IN  /\ Meaning(Visible, SubSeq(call.entries, 1, before)) # {}
             /\ Meaning(Visible, SubSeq(call.entries, 1, before + 1)) = {}
    /\ result.reject = "binary_file" => Contains(Visible, Nul)
    /\ result.reject = "truncated_file" => Len(base.text) > MaxRead

\* The read tool shows the whole file unless it says that it shows a part, and
\* a part is as long as it may be.  Only when the probe failed is the start of
\* a longer file shown as the whole.
ReadIsHonest ==
  Returned /\ result.tool = "read_file_safe" /\ result.ok /\ Undisturbed =>
    /\ ~result.truncated => result.content = Visible
    /\ result.truncated =>
         /\ IsStrictPrefix(result.content, base.text)
         /\ Len(result.content) = MaxShown

=============================================================================
