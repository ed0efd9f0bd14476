------------------------- MODULE WorkspaceFileProofs -------------------------
(***************************************************************************)
(* Theorems about the file tools, for all texts, limits and faults.        *)
(*                                                                         *)
(* A rejection leaves the file alone: UntouchedInv, on the state alone.    *)
(*                                                                         *)
(* A patch does what its entries mean, and a read shows what is there:     *)
(* FileInv, which says how far the text read and the text written agree    *)
(* with the text the call found.  It rests on lemmas about the operators   *)
(* the tools are made of (Find, Hits, Sites, Meaning, Patched, Overwritten *)
(* of WorkspaceFile), whose recursive functions are shown to exist and to  *)
(* agree by induction over a set of numbers.                               *)
(***************************************************************************)
EXTENDS WorkspaceFile, WellFoundedInduction, FiniteSetTheorems,
        SequenceTheorems, TLAPS

(* Until the file is opened for writing it is as the call found it, or as  *)
(* others have left it; what is answered after that is not recoverable.    *)
UntouchedInv ==
  /\ pc # "returned" => call \in Calls
  /\ pc \in {"called", "reading", "probing", "read", "accepted"} => file = base
  /\ pc = "returned" /\ IsRecoverable(result) => file = base

(* A result of a file tool without the code of an inspectable rejection.   *)
WorkedOrFatal(r) ==
  /\ r.tool \in {"read_file_safe", "write_file_safe", "apply_patch"}
  /\ r.parsed /\ ~r.timedOut /\ r.status = ""
  /\ ~r.ok /\ r.tool = "apply_patch" => r.reject = "writeback_failure"

\* The loop does not recover from such a result: it worked, or it is fatal.
LEMMA FatalResult ==
  ASSUME NEW r, WorkedOrFatal(r)
  PROVE  ~IsRecoverable(r)
<1>1. CASE r.tool = "apply_patch"
  <2>1. Classify(r) = ApplyPatchClass(r)
    BY <1>1 DEF WorkedOrFatal, Classify, BuildTestTools
  <2>2. r.ok \/ r.reject \notin InspectableRejects
    BY <1>1 DEF WorkedOrFatal, InspectableRejects
  <2>3. ApplyPatchClass(r) \in {"none", "fatal"}
    BY <2>2 DEF ApplyPatchClass
  <2>4. QED
    BY <2>1, <2>3 DEF IsRecoverable
<1>2. CASE r.tool # "apply_patch"
  <2>1. r.tool \notin BuildTestTools
    BY <1>2 DEF WorkedOrFatal, BuildTestTools
  <2>2. Classify(r) = GenericClass(r)
    BY <1>2, <2>1 DEF WorkedOrFatal, Classify
  <2>3. GenericClass(r) \in {"none", "fatal"}
    BY DEF GenericClass
  <2>4. QED
    BY <2>2, <2>3 DEF IsRecoverable
<1>3. QED
  BY <1>1, <1>2

\* So the results of a write are not recoverable.
LEMMA WriteResults ==
  ASSUME call \in Calls
  PROVE  ~IsRecoverable(WriteFailed) /\ ~IsRecoverable(Succeeded(Applied))
<1>1. call.tool \in {"read_file_safe", "write_file_safe", "apply_patch"}
  BY DEF Calls, Refused, Reads, Writes, Singles, Batches
<1>2. WorkedOrFatal(WriteFailed)
  BY <1>1 DEF WorkedOrFatal, WriteFailed, Failed, IsPatch
<1>3. WorkedOrFatal(Succeeded(Applied))
  BY <1>1 DEF WorkedOrFatal, Succeeded, Failed
<1>4. QED
  BY <1>2, <1>3, FatalResult

LEMMA UntouchedInit == Init => UntouchedInv
BY DEF Init, UntouchedInv

LEMMA UntouchedStep == UntouchedInv /\ [Next]_vars => UntouchedInv'
<1> SUFFICES ASSUME UntouchedInv, [Next]_vars
             PROVE  UntouchedInv'
  OBVIOUS
<1>1. CASE Call
  BY <1>1 DEF UntouchedInv, Call
<1>2. CASE BlockCall \/ RefuseArguments \/ ReadRefused \/ ReadFails
           \/ ShowFile \/ RejectFile \/ RejectEntry \/ WriteRefused
  <2>1. file = base /\ UNCHANGED <<file, base>> /\ pc' = "returned"
    BY <1>2 DEF UntouchedInv, Answer, BlockCall, RefuseArguments, OpensToRead,
      ReadRefused, ReadFails, ShowFile, RejectFile, RejectEntry, WriteRefused
  <2>2. QED
    BY <2>1 DEF UntouchedInv
<1>3. CASE OpenToRead \/ ReadPiece \/ ReadEnd \/ Probe \/ AcceptPatch
           \/ AcceptWrite
  BY <1>3 DEF UntouchedInv, OpensToRead, OpenToRead, ReadPiece, ReadEnd, Probe,
    AcceptPatch, AcceptWrite
<1>4. CASE OpenToWrite \/ WritePiece
  BY <1>4 DEF UntouchedInv, OpenToWrite, WritePiece
<1>5. CASE WriteFails \/ WriteDone
  <2>1. pc = "writing" /\ pc' = "returned" /\ call \in Calls
    BY <1>5 DEF UntouchedInv, WriteFails, WriteDone, Answer
  <2>2. ~IsRecoverable(result')
    <3>1. CASE WriteFails
      BY <3>1, <2>1, WriteResults DEF WriteFails, Answer
    <3>2. CASE WriteDone
      BY <3>2, <2>1, WriteResults DEF WriteDone, Answer
    <3>3. QED
      BY <1>5, <3>1, <3>2
  <2>3. QED
    BY <2>1, <2>2 DEF UntouchedInv, IsRecoverable, Classify, ApplyPatchClass,
      BuildTestClass, GenericClass
<1>6. CASE Others
  BY <1>6 DEF UntouchedInv, Others
<1>7. CASE Rest \/ UNCHANGED vars
  BY <1>7 DEF UntouchedInv, Rest, vars
<1>8. QED
  BY <1>1, <1>2, <1>3, <1>4, <1>5, <1>6, <1>7 DEF Next

\* Whatever the file tools are asked to do, and whatever fails or is changed by
\* others meanwhile: after a result the loop may recover from, the file is as
\* it was found (apply_patch_single, apply_patch_batch, ToolRegistry::execute).
THEOREM RejectionChangesNothing == Spec => []RecoverableIsUntouched
<1>1. UntouchedInv => RecoverableIsUntouched
  BY DEF UntouchedInv, RecoverableIsUntouched, Returned
<1>2. QED
  BY <1>1, UntouchedInit, UntouchedStep, PTL DEF Spec

-----------------------------------------------------------------------------
(* Induction over the numbers, for a set given as one *)

Less == {p \in Nat \X Nat : p[1] < p[2]}

LEMMA LessIsWellFounded == IsWellFoundedOn(Less, Nat)
<1>1. OpToRel(<, Nat) = Less
  BY DEF OpToRel, Less
<1> QED
  BY <1>1, NatLessThanWellFounded

\* A set of numbers that is not empty has a least one.
LEMMA Least ==
  ASSUME NEW S \in SUBSET Nat, S # {}
  PROVE  \E i \in S : \A j \in S : i <= j
<1>1. PICK i \in S : \A j \in S : ~(<<j, i>> \in Less)
  BY LessIsWellFounded, WFMin
<1>2. ASSUME NEW j \in S PROVE i <= j
  <2>1. i \in Nat /\ j \in Nat /\ ~(<<j, i>> \in Less)
    BY <1>1
  <2> QED
    BY <2>1 DEF Less
<1> QED
  BY <1>2

\* A set that has n when it has everything below n has every number.
LEMMA SetInduction ==
  ASSUME NEW S, \A n \in Nat : (\A m \in 0..n - 1 : m \in S) => n \in S
  PROVE  Nat \subseteq S
<1> DEFINE T == Nat \ S
<1> SUFFICES ASSUME T # {} PROVE FALSE
  OBVIOUS
<1>1. PICK x \in T : \A y \in T : x <= y
  BY Least
<1>2. x \in Nat /\ x \notin S /\ \A y \in Nat : y < x => y \in S
  BY <1>1
<1>3. \A m \in 0..x - 1 : m \in Nat /\ m < x
  BY <1>2
<1> QED
  BY <1>2, <1>3

-----------------------------------------------------------------------------
(* What is found in a text *)

\* The places at which a text has another.
Hits(t, needle) ==
  {i \in 1..Len(t) - Len(needle) + 1 : SubSeq(t, i, i + Len(needle) - 1) = needle}

LEMMA FindIsLeast ==
  ASSUME NEW t \in Seq(Chars), NEW needle \in Seq(Chars), needle # <<>>,
         NEW from \in 1..Len(t) + 1
  PROVE  /\ Find(t, needle, from) = 0 =>
              \A i \in Hits(t, needle) : i < from
         /\ Find(t, needle, from) # 0 =>
              /\ Find(t, needle, from) \in Hits(t, needle)
              /\ Find(t, needle, from) >= from
              /\ Find(t, needle, from) <= Len(t)
              /\ \A i \in Hits(t, needle) :
                   i >= from => Find(t, needle, from) <= i
<1> DEFINE starts == {i \in from..Len(t) - Len(needle) + 1 :
                        SubSeq(t, i, i + Len(needle) - 1) = needle}
<1>1. Len(t) \in Nat /\ Len(needle) \in Nat /\ Len(needle) > 0 /\ from > 0
      /\ from \in Nat
  OBVIOUS
<1>2. Find(t, needle, from) =
        IF starts = {} THEN 0
        ELSE CHOOSE i \in starts : \A j \in starts : i <= j
  BY DEF Find
<1>3. \A i \in starts : i \in Hits(t, needle) /\ i >= from /\ i <= Len(t)
                        /\ i \in Nat /\ i # 0
  BY <1>1 DEF Hits
<1>4. \A i \in Hits(t, needle) : i \in starts \/ i < from
  BY <1>1 DEF Hits
<1> HIDE DEF starts
<1>5. CASE starts = {}
  BY <1>2, <1>4, <1>5
<1>6. CASE starts # {}
  <2>1. \E i \in starts : \A j \in starts : i <= j
    BY <1>3, <1>6, Least
  <2>2. Find(t, needle, from) \in starts
        /\ \A j \in starts : Find(t, needle, from) <= j
    BY <1>2, <1>6, <2>1
  <2>3. \A i \in Hits(t, needle) : i \in Nat
    BY <1>1 DEF Hits
  <2> QED
    BY <1>1, <1>3, <1>4, <2>2, <2>3
<1> QED
  BY <1>5, <1>6

\* f counts from each of the last k places of a text, and from behind it.
Counts(f, t, needle, k) ==
  f = [pos \in Len(t) + 1 - k..Len(t) + 1 |->
         IF Find(t, needle, pos) = 0 THEN 0
         ELSE 1 + f[Find(t, needle, pos) + 1]]

LEMMA SomethingCounts ==
  ASSUME NEW t \in Seq(Chars), NEW needle \in Seq(Chars), needle # <<>>
  PROVE  \A k \in 0..Len(t) : \E f : Counts(f, t, needle, k)
<1> DEFINE L == Len(t)
           F(pos) == Find(t, needle, pos)
           S == {k \in Nat : k <= L => \E f : Counts(f, t, needle, k)}
<1>0. L \in Nat
  OBVIOUS
<1>1. \A pos \in 1..L + 1 : F(pos) # 0 => F(pos) + 1 \in pos + 1..L + 1
  <2> SUFFICES ASSUME NEW pos \in 1..L + 1, F(pos) # 0
               PROVE  F(pos) + 1 \in pos + 1..L + 1
    OBVIOUS
  <2>1. F(pos) \in Hits(t, needle) /\ F(pos) >= pos /\ F(pos) <= L
    BY FindIsLeast
  <2>2. \A i \in Hits(t, needle) : i \in Int
    BY DEF Hits
  <2> HIDE DEF F
  <2> QED
    BY <1>0, <2>1, <2>2
<1>2. F(L + 1) = 0
  <2>1. L + 1 \in 1..L + 1
    BY <1>0
  <2> QED
    BY <1>0, <1>1, <2>1
<1> HIDE DEF F
<1>3. ASSUME NEW n \in Nat, \A m \in 0..n - 1 : m \in S
      PROVE  n \in S
  <2> SUFFICES ASSUME n <= L PROVE \E f : Counts(f, t, needle, n)
    OBVIOUS
  <2>1. CASE n = 0
    <3> DEFINE f == [pos \in L + 1..L + 1 |-> 0]
    <3>1. f = [pos \in L + 1..L + 1 |->
                 IF F(pos) = 0 THEN 0 ELSE 1 + f[F(pos) + 1]]
      BY <1>0, <1>2
    <3>2. L + 1 - 0 = L + 1
      BY <1>0
    <3>3. Counts(f, t, needle, 0)
      BY <3>1, <3>2 DEF Counts, F
    <3> QED
      BY <2>1, <3>3
  <2>2. CASE n # 0
    <3>1. n - 1 \in 0..n - 1 /\ n - 1 <= L /\ n - 1 \in Nat
      BY <1>0, <2>2
    <3>2. PICK f : Counts(f, t, needle, n - 1)
      BY <1>3, <3>1
    <3> DEFINE p == L + 1 - n
               g == [pos \in p..L + 1 |->
                       IF pos = p THEN IF F(p) = 0 THEN 0 ELSE 1 + f[F(p) + 1]
                       ELSE f[pos]]
    <3>3. p \in 1..L + 1 /\ L + 1 - (n - 1) = p + 1 /\ p \in Nat
      BY <1>0, <2>2
    <3>4. \A pos \in p + 1..L + 1 :
            f[pos] = IF F(pos) = 0 THEN 0 ELSE 1 + f[F(pos) + 1]
      BY <3>2, <3>3 DEF Counts, F
    <3> HIDE DEF p
    <3>5. /\ g[p] = IF F(p) = 0 THEN 0 ELSE 1 + f[F(p) + 1]
          /\ \A pos \in p + 1..L + 1 : g[pos] = f[pos]
          /\ g = [pos \in p..L + 1 |-> g[pos]]
      BY <1>0, <3>3
    <3> HIDE DEF g
    <3>6. ASSUME NEW pos \in p..L + 1
          PROVE  g[pos] = IF F(pos) = 0 THEN 0 ELSE 1 + g[F(pos) + 1]
      <4>1. pos \in 1..L + 1
        BY <1>0, <3>3
      <4>2. F(pos) # 0 => F(pos) + 1 \in p + 1..L + 1
        BY <1>0, <1>1, <3>3, <4>1
      <4>3. F(pos) # 0 => g[F(pos) + 1] = f[F(pos) + 1]
        BY <3>5, <4>2
      <4>4. CASE pos = p
        BY <3>5, <4>3, <4>4
      <4>5. CASE pos # p
        <5>1. pos \in p + 1..L + 1
          BY <1>0, <3>3, <4>5
        <5> QED
          BY <3>4, <3>5, <4>3, <5>1
      <4> QED
        BY <4>4, <4>5
    <3>7. Counts(g, t, needle, n)
      <4>1. g = [pos \in p..L + 1 |->
                   IF F(pos) = 0 THEN 0 ELSE 1 + g[F(pos) + 1]]
        BY <3>5, <3>6
      <4> QED
        BY <4>1 DEF Counts, F, p
    <3> QED
      BY <3>7
  <2> QED
    BY <2>1, <2>2
<1>4. Nat \subseteq S
  <2> HIDE DEF S
  <2> QED
    BY <1>3, SetInduction
<1> QED
  BY <1>0, <1>4

\* The count is 0 when there is no hit, and 1 when there is a single one.
LEMMA CountIsHits ==
  ASSUME NEW t \in Seq(Chars), NEW needle \in Seq(Chars), needle # <<>>
  PROVE  /\ Count(t, needle) \in Nat
         /\ Count(t, needle) = 0 <=> Hits(t, needle) = {}
         /\ Count(t, needle) = 1 <=> Hits(t, needle) = {Find(t, needle, 1)}
         /\ Count(t, needle) = 1 => Find(t, needle, 1) \in 1..Len(t)
<1> DEFINE L == Len(t)
           F(pos) == Find(t, needle, pos)
           f == CHOOSE f : Counts(f, t, needle, L)
<1>0. L \in Nat /\ L + 1 - L = 1
  OBVIOUS
<1>1. Counts(f, t, needle, L)
  BY <1>0, SomethingCounts
<1>2. Count(t, needle) = f[1]
  BY <1>0 DEF Count, Counts
<1> HIDE DEF f
<1>3. \A pos \in 1..L + 1 : f[pos] = IF F(pos) = 0 THEN 0 ELSE 1 + f[F(pos) + 1]
  BY <1>0, <1>1 DEF Counts
<1>4. \A pos \in 1..L + 1 : F(pos) # 0 =>
        /\ F(pos) \in pos..L /\ F(pos) + 1 \in pos + 1..L + 1
        /\ F(pos) \in Hits(t, needle)
        /\ \A i \in Hits(t, needle) : i >= pos => F(pos) <= i
  <2> SUFFICES ASSUME NEW pos \in 1..L + 1, F(pos) # 0
               PROVE  /\ F(pos) \in pos..L /\ F(pos) + 1 \in pos + 1..L + 1
                      /\ F(pos) \in Hits(t, needle)
                      /\ \A i \in Hits(t, needle) : i >= pos => F(pos) <= i
    OBVIOUS
  <2>1. /\ F(pos) \in Hits(t, needle) /\ F(pos) >= pos /\ F(pos) <= L
        /\ \A i \in Hits(t, needle) : i >= pos => F(pos) <= i
    BY FindIsLeast
  <2>2. \A i \in Hits(t, needle) : i \in Int
    BY DEF Hits
  <2> HIDE DEF F
  <2> QED
    BY <1>0, <2>1, <2>2
<1>5. \A pos \in 1..L + 1 : F(pos) = 0 => \A i \in Hits(t, needle) : i < pos
  BY FindIsLeast
<1>6. \A i \in Hits(t, needle) : i \in Nat /\ i >= 1
  BY DEF Hits
<1> HIDE DEF F
<1>7. \A pos \in 1..L + 1 : f[pos] \in Nat
  <2> DEFINE S == {k \in Nat : k <= L => f[L + 1 - k] \in Nat}
  <2>1. ASSUME NEW n \in Nat, \A m \in 0..n - 1 : m \in S
        PROVE  n \in S
    <3> SUFFICES ASSUME n <= L PROVE f[L + 1 - n] \in Nat
      OBVIOUS
    <3>0. L + 1 - n \in 1..L + 1
      BY <1>0
    <3>1. PICK pos \in 1..L + 1 : pos = L + 1 - n
      BY <3>0
    <3>2. CASE F(pos) = 0
      BY <1>3, <3>1, <3>2
    <3>3. CASE F(pos) # 0
      <4>1. PICK q \in pos + 1..L + 1 : q = F(pos) + 1
        BY <1>4, <3>3
      <4>2. L + 1 - q \in 0..n - 1 /\ L + 1 - (L + 1 - q) = q
            /\ L + 1 - q <= L
        BY <1>0, <3>1, <4>1
      <4>3. f[q] \in Nat
        <5>1. L + 1 - q \in S
          BY <2>1, <4>2
        <5> QED
          BY <4>2, <5>1
      <4> QED
        BY <1>3, <3>1, <3>3, <4>1, <4>3
    <3> QED
      BY <3>2, <3>3
  <2>2. Nat \subseteq S
    <3> HIDE DEF S
    <3> QED
      BY <2>1, SetInduction
  <2> SUFFICES ASSUME NEW pos \in 1..L + 1 PROVE f[pos] \in Nat
    OBVIOUS
  <2>3. L + 1 - pos \in Nat /\ L + 1 - pos <= L /\ L + 1 - (L + 1 - pos) = pos
    BY <1>0
  <2> QED
    BY <2>2, <2>3
<1>8. 1 \in 1..L + 1
  BY <1>0
<1>9. CASE F(1) = 0
  <2>1. f[1] = 0 /\ Hits(t, needle) = {}
    BY <1>3, <1>5, <1>6, <1>8, <1>9
  <2> QED
    BY <1>2, <1>9, <2>1 DEF F
<1>10. CASE F(1) # 0
  <2>1. PICK h : h = F(1)
    OBVIOUS
  <2>2. /\ h \in 1..L /\ h + 1 \in 1..L + 1 /\ h \in Hits(t, needle)
        /\ \A i \in Hits(t, needle) : h <= i
    BY <1>4, <1>6, <1>8, <1>10, <2>1
  <2>3. f[1] = 1 + f[h + 1] /\ f[h + 1] \in Nat
    BY <1>3, <1>7, <1>8, <1>10, <2>1, <2>2
  <2>4. CASE F(h + 1) = 0
    <3>1. f[h + 1] = 0
      BY <1>3, <2>2, <2>4
    <3>2. \A i \in Hits(t, needle) : i < h + 1
      BY <1>5, <2>2, <2>4
    <3>3. Hits(t, needle) = {h}
      <4>1. ASSUME NEW i \in Hits(t, needle) PROVE i = h
        BY <1>0, <1>6, <2>2, <3>2
      <4> QED
        BY <2>2, <4>1
    <3> QED
      BY <1>2, <2>1, <2>2, <2>3, <3>1, <3>3 DEF F
  <2>5. CASE F(h + 1) # 0
    <3>1. /\ F(h + 1) \in Hits(t, needle) /\ F(h + 1) >= h + 1
          /\ F(h + 1) + 1 \in 1..L + 1
      BY <1>4, <2>2, <2>5
    <3>2. f[h + 1] = 1 + f[F(h + 1) + 1] /\ f[F(h + 1) + 1] \in Nat
      BY <1>3, <1>7, <2>2, <2>5, <3>1
    <3>3. Hits(t, needle) # {h} /\ Hits(t, needle) # {}
      BY <2>2, <3>1
    <3> QED
      BY <1>2, <2>1, <2>2, <2>3, <3>2, <3>3 DEF F
  <2> QED
    BY <2>4, <2>5
<1> QED
  BY <1>9, <1>10

-----------------------------------------------------------------------------
(* One entry of a patch *)

Entry == [old : Seq(Chars), new : Seq(Chars)]

LEMMA SitesAreHits ==
  ASSUME NEW t \in Seq(Chars), NEW e \in Entry, e.old # <<>>
  PROVE  Sites(t, e) = {i \in 0..Len(t) - Len(e.old) : i + 1 \in Hits(t, e.old)}
<1>1. PICK needle \in Seq(Chars) : needle = e.old
  BY DEF Entry
<1> DEFINE L == Len(t)
           N == Len(needle)
<1>2. L \in Nat /\ N \in Nat /\ N > 0
  BY <1>1
<1>3. ASSUME NEW i \in 0..L - N
      PROVE  IsPrefix(needle, SubSeq(t, i + 1, L))
               <=> SubSeq(t, i + 1, i + 1 + N - 1) = needle
  <2>1. PICK rest : rest = SubSeq(t, i + 1, L)
    OBVIOUS
  <2>2. /\ rest \in Seq(Chars) /\ Len(rest) = L - i
        /\ \A k \in 1..L - i : rest[k] = t[i + k]
    BY <1>2, <2>1
  <2>3. PICK piece : piece = SubSeq(t, i + 1, i + 1 + N - 1)
    OBVIOUS
  <2>4. /\ piece \in Seq(Chars) /\ Len(piece) = N
        /\ \A k \in 1..N : piece[k] = t[i + k]
    BY <1>2, <2>3
  <2>5. PICK start : start = SubSeq(rest, 1, N)
    OBVIOUS
  <2>6. /\ start \in Seq(Chars) /\ Len(start) = N
        /\ \A k \in 1..N : start[k] = rest[k]
    BY <1>2, <2>2, <2>5
  <2>7. start = piece
    <3>1. \A k \in 1..N : k \in 1..L - i
      BY <1>2
    <3>2. \A k \in 1..N : start[k] = piece[k]
      BY <2>2, <2>4, <2>6, <3>1
    <3> QED
      BY <2>4, <2>6, <3>2, SeqEqual
  <2>8. SubSeq(needle, 1, N) = needle
    BY <1>2
  <2>9. N <= L - i
    BY <1>2
  <2> QED
    BY <2>1, <2>2, <2>3, <2>5, <2>7, <2>8, <2>9 DEF IsPrefix
<1>4. \A i \in 0..L - N : i + 1 \in 1..L - N + 1
  BY <1>2
<1> QED
  BY <1>1, <1>3, <1>4 DEF Sites, Hits

\* An entry has a single site exactly where the tool does not reject it.
LEMMA RejectIsExact ==
  ASSUME NEW t \in Seq(Chars), NEW e \in Entry
  PROVE  /\ Reject(t, e) \in {"none", "empty_old_text", "no_match",
                              "multiple_matches"}
         /\ Cardinality(Sites(t, e)) = 1 <=> Reject(t, e) = "none"
         /\ Reject(t, e) = "none" =>
              /\ Find(t, e.old, 1) \in 1..Len(t) - Len(e.old) + 1
              /\ e.old # <<>>
              /\ Sites(t, e) = {Find(t, e.old, 1) - 1}
<1> DEFINE S == Sites(t, e)
<1>1. e.old \in Seq(Chars) /\ Len(t) \in Nat /\ Len(e.old) \in Nat
  BY DEF Entry
<1>2. IsFiniteSet(S)
  <2>0. Len(t) - Len(e.old) \in Int
    BY <1>1
  <2>1. PICK b \in Int : b = Len(t) - Len(e.old)
    BY <2>0
  <2>2. IsFiniteSet(0..b)
    BY FS_Interval
  <2>3. S \subseteq 0..b
    BY <2>1 DEF Sites
  <2> HIDE DEF S
  <2> QED
    BY <2>2, <2>3, FS_Subset
<1>3. Cardinality(S) = 1 <=> \E x : S = {x}
  BY <1>2, FS_Singleton
<1>4. CASE e.old = <<>>
  <2>1. S = {}
    BY <1>4 DEF Sites
  <2>2. Count(t, e.old) = 0
    BY <1>4 DEF Count
  <2>3. Reject(t, e) = "empty_old_text"
    BY <1>4, <2>2 DEF Reject
  <2> QED
    BY <1>3, <2>1, <2>3
<1>5. CASE e.old # <<>>
  <2>1. PICK hits : hits = Hits(t, e.old)
    OBVIOUS
  <2>2. \A i \in hits : i \in 1..Len(t) - Len(e.old) + 1
    BY <2>1 DEF Hits
  <2>3. S = {i \in 0..Len(t) - Len(e.old) : i + 1 \in hits}
    BY <1>5, <2>1, SitesAreHits
  <2>4. ASSUME NEW i \in hits PROVE i - 1 \in S /\ i \in Int
    <3>1. i \in 1..Len(t) - Len(e.old) + 1
      BY <2>2
    <3>2. i - 1 \in 0..Len(t) - Len(e.old) /\ i - 1 + 1 = i
      BY <1>1, <3>1
    <3> QED
      BY <1>1, <2>3, <3>1, <3>2
  <2>5. \A i \in S : i + 1 \in hits /\ i \in Int
    BY <1>1, <2>3
  <2> HIDE DEF S
  <2>6. PICK n, h : n = Count(t, e.old) /\ h = Find(t, e.old, 1)
    OBVIOUS
  <2>7. n \in Nat /\ (n = 0 <=> hits = {}) /\ (n = 1 <=> hits = {h})
    BY <1>1, <1>5, <2>1, <2>6, CountIsHits
  <2>8. Reject(t, e) = IF n = 0 THEN "no_match"
                       ELSE IF n > 1 THEN "multiple_matches" ELSE "none"
    BY <1>5, <2>6, <2>7 DEF Reject
  <2>9. CASE n = 1
    <3>1. hits = {h} /\ h \in 1..Len(t) - Len(e.old) + 1
      BY <2>2, <2>7, <2>9
    <3>2. \A i \in S : i = h - 1
      BY <2>5, <3>1
    <3>3. S = {h - 1}
      BY <2>4, <3>1, <3>2
    <3>4. Reject(t, e) = "none"
      BY <2>8, <2>9
    <3>5. Cardinality(S) = 1
      BY <1>3, <3>3
    <3> QED
      BY <1>5, <2>6, <3>1, <3>3, <3>4, <3>5 DEF S
  <2>10. CASE n # 1
    <3>1. ASSUME NEW x, S = {x} PROVE FALSE
      <4>1. x + 1 \in hits /\ x \in Int
        BY <2>5, <3>1
      <4>2. ASSUME NEW i \in hits PROVE i = x + 1
        <5>1. i - 1 = x /\ i \in Int
          BY <2>4, <3>1
        <5> QED
          BY <4>1, <5>1
      <4>3. hits = {x + 1}
        BY <4>1, <4>2
      <4>4. h = x + 1
        <5>1. 1 \in 1..Len(t) + 1
          BY <1>1
        <5>2. ASSUME NEW i \in hits PROVE i >= 1
          <6>1. i \in 1..Len(t) - Len(e.old) + 1
            BY <2>2
          <6> QED
            BY <1>1, <6>1
        <5>3. h # 0
          BY <1>1, <1>5, <2>1, <2>6, <4>1, <5>1, <5>2, FindIsLeast
        <5>4. h \in hits
          BY <1>1, <1>5, <2>1, <2>6, <5>1, <5>3, FindIsLeast
        <5> QED
          BY <4>3, <5>4
      <4> QED
        BY <2>7, <2>10, <4>3, <4>4
    <3>2. Reject(t, e) \in {"no_match", "multiple_matches"}
      BY <2>7, <2>8, <2>10
    <3> QED
      BY <1>3, <3>1, <3>2 DEF S
  <2> QED
    BY <2>9, <2>10
<1> QED
  BY <1>4, <1>5

\* What an entry makes of a text, for each of its sites, and of a set of texts.
Fit(e, u) ==
  {SubSeq(u, 1, i) \o e.new
     \o SubSeq(u, i + Len(e.old) + 1, Len(u)) : i \in Sites(u, e)}

Applies(T, e) ==
  UNION {Fit(e, u) : u \in {v \in T : Cardinality(Sites(v, e)) = 1}}

LEMMA AppliesToOne ==
  ASSUME NEW t \in Seq(Chars), NEW e \in Entry
  PROVE  /\ Reject(t, e) = "none" => /\ Applies({t}, e) = {Replaced(t, e)}
                                     /\ Replaced(t, e) \in Seq(Chars)
         /\ Reject(t, e) # "none" => Applies({t}, e) = {}
<1>1. CASE Reject(t, e) = "none"
  <2>1. PICK h : h = Find(t, e.old, 1)
    OBVIOUS
  <2>2. /\ Cardinality(Sites(t, e)) = 1 /\ Sites(t, e) = {h - 1}
        /\ h \in 1..Len(t) - Len(e.old) + 1
    BY <1>1, <2>1, RejectIsExact
  <2>3. Len(t) \in Nat /\ Len(e.old) \in Nat /\ e.new \in Seq(Chars)
    BY DEF Entry
  <2>4. h - 1 + Len(e.old) + 1 = h + Len(e.old)
    BY <2>2, <2>3
  <2>5. Fit(e, t) = {Replaced(t, e)}
    BY <2>1, <2>2, <2>4 DEF Fit, Replaced
  <2>6. Applies({t}, e) = Fit(e, t)
    BY <2>2 DEF Applies
  <2>7. Replaced(t, e) \in Seq(Chars)
    <3>1. SubSeq(t, 1, h - 1) \in Seq(Chars)
      BY <2>2, <2>3
    <3>2. SubSeq(t, h + Len(e.old), Len(t)) \in Seq(Chars)
      BY <2>2, <2>3
    <3> QED
      BY <2>1, <2>3, <3>1, <3>2 DEF Replaced
  <2> QED
    BY <1>1, <2>5, <2>6, <2>7
<1>2. CASE Reject(t, e) # "none"
  BY <1>2, RejectIsExact DEF Applies
<1> QED
  BY <1>1, <1>2

-----------------------------------------------------------------------------
(* A sequence of entries *)

\* f gives what the first entries mean, up to k of them.
Means(f, t, es, k) ==
  f = [n \in 0..k |-> IF n = 0 THEN {t} ELSE Applies(f[n - 1], es[n])]

LEMMA SomethingMeans ==
  ASSUME NEW t, NEW es
  PROVE  \A k \in Nat : \E f : Means(f, t, es, k)
<1> DEFINE S == {k \in Nat : \E f : Means(f, t, es, k)}
<1>1. ASSUME NEW n \in Nat, \A m \in 0..n - 1 : m \in S
      PROVE  n \in S
  <2>1. CASE n = 0
    <3> DEFINE f == [i \in 0..0 |-> {t}]
    <3>1. Means(f, t, es, 0)
      BY DEF Means
    <3> QED
      BY <2>1, <3>1
  <2>2. CASE n # 0
    <3>1. n - 1 \in 0..n - 1
      BY <2>2
    <3>2. PICK f : Means(f, t, es, n - 1)
      BY <1>1, <3>1
    <3> DEFINE g == [i \in 0..n |-> IF i = n THEN Applies(f[n - 1], es[n])
                                    ELSE f[i]]
    <3>3. /\ g[n] = Applies(f[n - 1], es[n])
          /\ \A i \in 0..n - 1 : g[i] = f[i]
          /\ g = [i \in 0..n |-> g[i]]
      OBVIOUS
    <3> HIDE DEF g
    <3>4. \A i \in 0..n - 1 :
            f[i] = IF i = 0 THEN {t} ELSE Applies(f[i - 1], es[i])
      BY <3>2 DEF Means
    <3>5. ASSUME NEW i \in 0..n
          PROVE  g[i] = IF i = 0 THEN {t} ELSE Applies(g[i - 1], es[i])
      <4>1. CASE i = n
        BY <2>2, <3>1, <3>3, <4>1
      <4>2. CASE i # n
        <5>1. i \in 0..n - 1 /\ (i # 0 => i - 1 \in 0..n - 1)
          BY <4>2
        <5> QED
          BY <3>3, <3>4, <5>1
      <4> QED
        BY <4>1, <4>2
    <3>6. Means(g, t, es, n)
      BY <3>3, <3>5 DEF Means
    <3> QED
      BY <3>6
  <2> QED
    BY <2>1, <2>2
<1>2. Nat \subseteq S
  <2> HIDE DEF S
  <2> QED
    BY <1>1, SetInduction
<1> QED
  BY <1>2

\* The meaning of the first entries does not depend on those behind them.
LEMMA MeaningOfFirst ==
  ASSUME NEW t, NEW es \in Seq(Entry), NEW f, Means(f, t, es, Len(es)),
         NEW n \in 0..Len(es)
  PROVE  Meaning(t, SubSeq(es, 1, n)) = f[n]
<1>1. PICK p : p = SubSeq(es, 1, n)
  OBVIOUS
<1>2. /\ Len(p) = n /\ n \in Nat
      /\ \A i \in 1..n : p[i] = es[i]
  BY <1>1
<1> DEFINE g == CHOOSE g : Means(g, t, p, n)
<1>3. Means(g, t, p, n)
  BY <1>2, SomethingMeans
<1>4. Meaning(t, p) = g[n]
  BY <1>2 DEF Meaning, Means, Applies, Fit
<1> HIDE DEF g
<1>5. /\ \A i \in 0..n : g[i] = IF i = 0 THEN {t} ELSE Applies(g[i - 1], p[i])
      /\ \A i \in 0..n : f[i] = IF i = 0 THEN {t} ELSE Applies(f[i - 1], es[i])
  <2>1. \A i \in 0..n : g[i] = IF i = 0 THEN {t} ELSE Applies(g[i - 1], p[i])
    BY <1>3 DEF Means
  <2>2. \A i \in 0..Len(es) :
          f[i] = IF i = 0 THEN {t} ELSE Applies(f[i - 1], es[i])
    BY DEF Means
  <2>3. \A i \in 0..n : i \in 0..Len(es)
    BY <1>2
  <2> QED
    BY <2>1, <2>2, <2>3
<1> DEFINE S == {i \in Nat : i <= n => g[i] = f[i]}
<1>6. ASSUME NEW i \in Nat, \A m \in 0..i - 1 : m \in S
      PROVE  i \in S
  <2> SUFFICES ASSUME i <= n PROVE g[i] = f[i]
    OBVIOUS
  <2>1. CASE i = 0
    <3>1. 0 \in 0..n
      BY <1>2
    <3>2. g[0] = {t} /\ f[0] = {t}
      BY <1>5, <3>1
    <3> QED
      BY <2>1, <3>2
  <2>2. CASE i # 0
    <3>1. i - 1 \in 0..i - 1 /\ i - 1 <= n /\ i \in 0..n /\ i \in 1..n
      BY <1>2, <2>2
    <3>2. g[i - 1] = f[i - 1]
      <4>1. i - 1 \in S
        BY <1>6, <3>1
      <4> QED
        BY <3>1, <4>1
    <3> QED
      BY <1>2, <1>5, <2>2, <3>1, <3>2
  <2> QED
    BY <2>1, <2>2
<1>7. Nat \subseteq S
  <2> HIDE DEF S
  <2> QED
    BY <1>6, SetInduction
<1> QED
  BY <1>1, <1>2, <1>4, <1>7

\* What the tool has before it tries the first entry.
Start(t) == [content |-> t, applied |-> 0, matches |-> 0, reject |-> "none"]

\* f gives what the tool has after the first entries, up to k of them.
Tries(f, t, es, k) ==
  f = [n \in 0..k |-> IF n = 0 THEN Start(t) ELSE Try(f[n - 1], es[n])]

LEMMA SomethingTries ==
  ASSUME NEW t, NEW es
  PROVE  \A k \in Nat : \E f : Tries(f, t, es, k)
<1> DEFINE S == {k \in Nat : \E f : Tries(f, t, es, k)}
<1>1. ASSUME NEW n \in Nat, \A m \in 0..n - 1 : m \in S
      PROVE  n \in S
  <2>1. CASE n = 0
    <3> DEFINE f == [i \in 0..0 |-> Start(t)]
    <3>1. Tries(f, t, es, 0)
      BY DEF Tries
    <3> QED
      BY <2>1, <3>1
  <2>2. CASE n # 0
    <3>1. n - 1 \in 0..n - 1
      BY <2>2
    <3>2. PICK f : Tries(f, t, es, n - 1)
      BY <1>1, <3>1
    <3> DEFINE g == [i \in 0..n |-> IF i = n THEN Try(f[n - 1], es[n])
                                    ELSE f[i]]
    <3>3. /\ g[n] = Try(f[n - 1], es[n])
          /\ \A i \in 0..n - 1 : g[i] = f[i]
          /\ g = [i \in 0..n |-> g[i]]
      OBVIOUS
    <3> HIDE DEF g
    <3>4. \A i \in 0..n - 1 :
            f[i] = IF i = 0 THEN Start(t) ELSE Try(f[i - 1], es[i])
      BY <3>2 DEF Tries
    <3>5. ASSUME NEW i \in 0..n
          PROVE  g[i] = IF i = 0 THEN Start(t) ELSE Try(g[i - 1], es[i])
      <4>1. CASE i = n
        BY <2>2, <3>1, <3>3, <4>1
      <4>2. CASE i # n
        <5>1. i \in 0..n - 1 /\ (i # 0 => i - 1 \in 0..n - 1)
          BY <4>2
        <5> QED
          BY <3>3, <3>4, <5>1
      <4> QED
        BY <4>1, <4>2
    <3>6. Tries(g, t, es, n)
      BY <3>3, <3>5 DEF Tries
    <3> QED
      BY <3>6
  <2> QED
    BY <2>1, <2>2
<1>2. Nat \subseteq S
  <2> HIDE DEF S
  <2> QED
    BY <1>1, SetInduction
<1> QED
  BY <1>2

\* d is what the tool has after n entries, of which the first i mean M[i].
IsMeant(d, M, n) ==
  /\ d = [content |-> d.content, applied |-> d.applied, matches |-> d.matches,
          reject |-> d.reject]
  /\ d.reject = "none" => /\ d.applied = n /\ d.content \in Seq(Chars)
                          /\ M[n] = {d.content}
  /\ d.reject # "none" =>
       /\ d.reject \in {"empty_old_text", "no_match", "multiple_matches"}
       /\ d.applied \in 0..n - 1
       /\ M[d.applied] # {} /\ M[d.applied + 1] = {}

LEMMA TryIsMeant ==
  ASSUME NEW d, NEW M, NEW n \in Nat, IsMeant(d, M, n), NEW e \in Entry,
         M[n + 1] = Applies(M[n], e)
  PROVE  IsMeant(Try(d, e), M, n + 1)
<1>1. CASE d.reject # "none"
  <2>1. Try(d, e) = d
    BY <1>1 DEF Try
  <2>2. d.applied \in 0..n + 1 - 1
    BY <1>1 DEF IsMeant
  <2> QED
    BY <1>1, <2>1, <2>2 DEF IsMeant
<1>2. CASE d.reject = "none" /\ Reject(d.content, e) # "none"
  <2>1. Try(d, e) = [d EXCEPT !.reject = Reject(d.content, e),
                              !.matches = Count(d.content, e.old)]
    BY <1>2 DEF Try
  <2>2. /\ d.applied = n /\ M[n] = {d.content} /\ d.content \in Seq(Chars)
        /\ d = [content |-> d.content, applied |-> d.applied,
                matches |-> d.matches, reject |-> d.reject]
    BY <1>2 DEF IsMeant
  <2>3. M[n + 1] = {}
    BY <1>2, <2>2, AppliesToOne
  <2>4. /\ Try(d, e).reject = Reject(d.content, e)
        /\ Try(d, e).applied = n
        /\ Try(d, e) = [content |-> Try(d, e).content,
                        applied |-> Try(d, e).applied,
                        matches |-> Try(d, e).matches,
                        reject |-> Try(d, e).reject]
    BY <2>1, <2>2
  <2>5. n \in 0..n + 1 - 1
    OBVIOUS
  <2>6. M[n] # {}
    BY <2>2
  <2>7. /\ Try(d, e).reject # "none"
        /\ Try(d, e).reject \in {"empty_old_text", "no_match", "multiple_matches"}
    BY <1>2, <2>2, <2>4, RejectIsExact
  <2> QED
    BY <2>3, <2>4, <2>5, <2>6, <2>7 DEF IsMeant
<1>3. CASE d.reject = "none" /\ Reject(d.content, e) = "none"
  <2>1. Try(d, e) = [d EXCEPT !.content = Replaced(d.content, e),
                              !.applied = d.applied + 1, !.matches = 1]
    BY <1>3 DEF Try
  <2>2. /\ d.applied = n /\ M[n] = {d.content} /\ d.content \in Seq(Chars)
        /\ d = [content |-> d.content, applied |-> d.applied,
                matches |-> d.matches, reject |-> d.reject]
    BY <1>3 DEF IsMeant
  <2>3. /\ M[n + 1] = {Replaced(d.content, e)}
        /\ Replaced(d.content, e) \in Seq(Chars)
    BY <1>3, <2>2, AppliesToOne
  <2>4. /\ Try(d, e).reject = "none" /\ Try(d, e).applied = n + 1
        /\ Try(d, e).content = Replaced(d.content, e)
        /\ Try(d, e) = [content |-> Try(d, e).content,
                        applied |-> Try(d, e).applied,
                        matches |-> Try(d, e).matches,
                        reject |-> Try(d, e).reject]
    BY <1>3, <2>1, <2>2
  <2> QED
    BY <2>3, <2>4 DEF IsMeant
<1> QED
  BY <1>1, <1>2, <1>3

\* The tool does what the entries mean, or names the first that means nothing.
LEMMA PatchedIsMeant ==
  ASSUME NEW t \in Seq(Chars), NEW es \in Seq(Entry)
  PROVE  /\ Patched(t, es).reject = "none" =>
              /\ Patched(t, es).content \in Seq(Chars)
              /\ Meaning(t, es) = {Patched(t, es).content}
         /\ Patched(t, es).reject # "none" =>
              /\ Patched(t, es).reject \in {"empty_old_text", "no_match",
                                            "multiple_matches"}
              /\ Patched(t, es).applied \in 0..Len(es) - 1
              /\ Meaning(t, SubSeq(es, 1, Patched(t, es).applied)) # {}
              /\ Meaning(t, SubSeq(es, 1, Patched(t, es).applied + 1)) = {}
<1>1. PICK k \in Nat : k = Len(es)
  OBVIOUS
<1>2. PICK M : Means(M, t, es, k)
  BY SomethingMeans
<1> DEFINE D == CHOOSE D : Tries(D, t, es, k)
<1>3. Tries(D, t, es, k)
  BY SomethingTries
<1>4. Patched(t, es) = D[k]
  BY <1>1 DEF Patched, Tries, Start
<1> HIDE DEF D
<1>5. /\ \A i \in 0..k : M[i] = IF i = 0 THEN {t} ELSE Applies(M[i - 1], es[i])
      /\ \A i \in 0..k : D[i] = IF i = 0 THEN Start(t) ELSE Try(D[i - 1], es[i])
  BY <1>2, <1>3 DEF Means, Tries
<1> DEFINE S == {i \in Nat : i <= k => IsMeant(D[i], M, i)}
<1>6. ASSUME NEW i \in Nat, \A m \in 0..i - 1 : m \in S
      PROVE  i \in S
  <2> SUFFICES ASSUME i <= k PROVE IsMeant(D[i], M, i)
    OBVIOUS
  <2>1. CASE i = 0
    <3>1. D[0] = Start(t) /\ M[0] = {t}
      BY <1>1, <1>5
    <3> QED
      BY <2>1, <3>1 DEF Start, IsMeant
  <2>2. CASE i # 0
    <3>1. i - 1 \in 0..i - 1 /\ i - 1 <= k /\ i \in 0..k /\ i \in 1..k
          /\ i - 1 \in Nat /\ i - 1 + 1 = i
      BY <2>2
    <3>2. IsMeant(D[i - 1], M, i - 1)
      <4>1. i - 1 \in S
        BY <1>6, <3>1
      <4> QED
        BY <3>1, <4>1
    <3>3. es[i] \in Entry
      BY <1>1, <3>1
    <3>4. M[i] = Applies(M[i - 1], es[i]) /\ D[i] = Try(D[i - 1], es[i])
      BY <1>5, <2>2, <3>1
    <3>5. PICK n \in Nat : n = i - 1
      BY <3>1
    <3>6. IsMeant(Try(D[n], es[i]), M, n + 1)
      BY <3>1, <3>2, <3>3, <3>4, <3>5, TryIsMeant
    <3> QED
      BY <3>1, <3>4, <3>5, <3>6
  <2> QED
    BY <2>1, <2>2
<1>7. Nat \subseteq S
  <2> HIDE DEF S
  <2> QED
    BY <1>6, SetInduction
<1>8. IsMeant(D[k], M, k)
  BY <1>7
<1>9. \A n \in 0..k : Meaning(t, SubSeq(es, 1, n)) = M[n]
  BY <1>1, <1>2, MeaningOfFirst
<1>10. SubSeq(es, 1, k) = es /\ k \in 0..k
  BY <1>1
<1>11. CASE D[k].reject = "none"
  BY <1>4, <1>8, <1>9, <1>10, <1>11 DEF IsMeant
<1>12. CASE D[k].reject # "none"
  <2>1. PICK a : a = D[k].applied
    OBVIOUS
  <2>2. /\ a \in 0..k - 1 /\ M[a] # {} /\ M[a + 1] = {}
        /\ D[k].reject \in {"empty_old_text", "no_match", "multiple_matches"}
    BY <1>8, <1>12, <2>1 DEF IsMeant
  <2>3. a \in 0..k /\ a + 1 \in 0..k
    BY <2>2
  <2> QED
    BY <1>1, <1>4, <1>9, <1>12, <2>1, <2>2, <2>3
<1> QED
  BY <1>11, <1>12

-----------------------------------------------------------------------------
(* Reading and writing in pieces *)

\* s is how t starts.
Starts(s, t) ==
  Len(s) <= Len(t) /\ \A i \in 1..Len(s) : s[i] = t[i]

LEMMA StartsAll ==
  ASSUME NEW s \in Seq(Chars), NEW t \in Seq(Chars), Starts(s, t),
         Len(t) <= Len(s)
  PROVE  s = t
<1>1. Len(s) = Len(t)
  BY DEF Starts
<1> QED
  BY <1>1, SeqEqual DEF Starts

LEMMA StartsIsPrefix ==
  ASSUME NEW s \in Seq(Chars), NEW t \in Seq(Chars), Starts(s, t)
  PROVE  IsPrefix(s, t)
<1>1. PICK p : p = SubSeq(t, 1, Len(s))
  OBVIOUS
<1>2. /\ p \in Seq(Chars) /\ Len(p) = Len(s)
      /\ \A i \in 1..Len(s) : p[i] = t[i]
  BY <1>1 DEF Starts
<1>3. \A i \in 1..Len(s) : p[i] = s[i]
  BY <1>2 DEF Starts
<1>4. p = s
  BY <1>2, <1>3, SeqEqual
<1>5. SubSeq(s, 1, Len(s)) = s
  OBVIOUS
<1> QED
  BY <1>1, <1>4, <1>5 DEF Starts, IsPrefix

\* A piece that is read goes on where the last one ended.
LEMMA PieceGoesOn ==
  ASSUME NEW s \in Seq(Chars), NEW t \in Seq(Chars),
         NEW n \in Len(s) + 1..Len(t)
  PROVE  /\ s \o SubSeq(t, Len(s) + 1, n) \in Seq(Chars)
         /\ Len(s \o SubSeq(t, Len(s) + 1, n)) = n
         /\ Starts(s, t) => Starts(s \o SubSeq(t, Len(s) + 1, n), t)
<1>1. PICK k, m : k = Len(s) /\ m = Len(t)
  OBVIOUS
<1>2. k \in Nat /\ m \in Nat /\ n \in k + 1..m /\ n \in Nat /\ k < n /\ n <= m
  BY <1>1
<1>3. PICK p : p = SubSeq(t, k + 1, n)
  OBVIOUS
<1>4. /\ p \in Seq(Chars) /\ Len(p) = n - k
      /\ \A i \in 1..n - k : p[i] = t[k + i]
  BY <1>1, <1>2, <1>3
<1>5. PICK q : q = s \o p
  OBVIOUS
<1>6. /\ q \in Seq(Chars) /\ Len(q) = n
      /\ \A i \in 1..k : q[i] = s[i]
      /\ \A i \in k + 1..n : q[i] = p[i - k]
  BY <1>1, <1>2, <1>4, <1>5
<1>7. ASSUME Starts(s, t) PROVE Starts(q, t)
  <2>1. ASSUME NEW i \in 1..n PROVE q[i] = t[i]
    <3>1. CASE i <= k
      BY <1>1, <1>2, <1>6, <1>7, <3>1 DEF Starts
    <3>2. CASE i > k
      <4>1. i \in k + 1..n /\ i - k \in 1..n - k /\ k + (i - k) = i
        BY <1>2, <3>2
      <4> QED
        BY <1>4, <1>6, <4>1
    <3> QED
      BY <1>2, <3>1, <3>2
  <2> QED
    BY <1>1, <1>2, <1>6, <2>1 DEF Starts
<1> QED
  BY <1>1, <1>3, <1>5, <1>6, <1>7

\* A piece that is written leaves a text, and at its end makes it longer.
LEMMA OverwrittenIsText ==
  ASSUME NEW t \in Seq(Chars), NEW at \in Nat, NEW piece \in Seq(Chars)
  PROVE  /\ Overwritten(t, at, piece) \in Seq(Chars)
         /\ at = Len(t) =>
              /\ Len(Overwritten(t, at, piece)) = at + Len(piece)
              /\ \A i \in 1..at : Overwritten(t, at, piece)[i] = t[i]
              /\ \A i \in at + 1..at + Len(piece) :
                   Overwritten(t, at, piece)[i] = piece[i - at]
<1>1. PICK k \in Nat, l \in Nat : k = Len(piece) /\ l = Len(t)
  OBVIOUS
<1> DEFINE N == IF l > at + k THEN l ELSE at + k
           C(i) == CASE i \in at + 1..at + k -> piece[i - at]
                     [] i \notin at + 1..at + k /\ i <= l -> t[i]
                     [] OTHER -> Nul
<1>2. Overwritten(t, at, piece) = [i \in 1..N |-> C(i)]
  BY <1>1 DEF Overwritten
<1>3. N \in Nat
  BY <1>1
<1>4. ASSUME NEW i \in 1..N PROVE C(i) \in Chars
  <2>1. CASE i \in at + 1..at + k
    <3>1. i - at \in 1..Len(piece)
      BY <1>1, <2>1
    <3> QED
      BY <2>1, <3>1
  <2>2. CASE i \notin at + 1..at + k /\ i <= l
    <3>1. i \in 1..Len(t)
      BY <1>1, <1>3, <2>2
    <3> QED
      BY <2>2, <3>1
  <2>3. CASE i \notin at + 1..at + k /\ ~(i <= l)
    BY <2>3, WorkspaceAssumption DEF WorkspaceAssumption
  <2> QED
    BY <2>1, <2>2, <2>3
<1>5. ASSUME at = l
      PROVE  /\ N = at + k
             /\ \A i \in 1..at : C(i) = t[i]
             /\ \A i \in at + 1..at + k : C(i) = piece[i - at]
  BY <1>1, <1>5
<1> HIDE DEF N, C
<1>6. PICK f : f = [i \in 1..N |-> C(i)]
  OBVIOUS
<1>7. f \in Seq(Chars) /\ Len(f) = N /\ \A i \in 1..N : f[i] = C(i)
  BY <1>3, <1>4, <1>6
<1>8. ASSUME at = l
      PROVE  /\ Len(f) = at + k
             /\ \A i \in 1..at : f[i] = t[i]
             /\ \A i \in at + 1..at + k : f[i] = piece[i - at]
  <2>1. \A i \in 1..at : i \in 1..N
    BY <1>1, <1>5, <1>8
  <2>2. \A i \in at + 1..at + k : i \in 1..N
    BY <1>1, <1>5, <1>8
  <2> QED
    BY <1>5, <1>7, <1>8, <2>1, <2>2
<1> QED
  BY <1>1, <1>2, <1>6, <1>7, <1>8

-----------------------------------------------------------------------------
(* Calls and results *)

LEMMA CallFacts ==
  ASSUME NEW c \in Calls
  PROVE  /\ c.tool \in {"read_file_safe", "write_file_safe", "apply_patch"}
         /\ c.content \in Seq(Chars)
         /\ c.tool = "apply_patch" /\ c.mode # "refused" =>
              /\ c.entries \in Seq(Entry) /\ Len(c.entries) > 0
              /\ c.mode \in {"single", "batch"}
              /\ c.mode = "single" => Len(c.entries) = 1
<1>1. PatchEntry \subseteq Entry /\ NewTexts \subseteq Seq(Chars)
  BY WorkspaceAssumption DEF WorkspaceAssumption, PatchEntry, Entry
<1>2. CASE c \in Refused \/ c \in Reads \/ c \in Writes
  <2>1. <<>> \in Seq(Chars)
    OBVIOUS
  <2> QED
    BY <1>1, <1>2, <2>1 DEF Refused, Reads, Writes
<1>3. CASE c \in Singles
  <2>1. PICK e \in PatchEntry : c.entries = <<e>>
    BY <1>3 DEF Singles
  <2>2. c.entries \in Seq(Entry) /\ Len(c.entries) = 1
    BY <1>1, <2>1
  <2>3. c.content = <<>> /\ <<>> \in Seq(Chars)
    BY <1>3 DEF Singles
  <2> QED
    BY <1>3, <2>2, <2>3 DEF Singles
<1>4. CASE c \in Batches
  <2>1. PICK n \in 1..MaxEntries : c.entries \in [1..n -> PatchEntry]
    BY <1>4 DEF Batches
  <2>2. c.entries \in Seq(Entry) /\ Len(c.entries) = n
    BY <1>1, <2>1
  <2>3. c.content = <<>> /\ <<>> \in Seq(Chars)
    BY <1>4 DEF Batches
  <2> QED
    BY <1>4, <2>1, <2>2, <2>3 DEF Batches
<1> QED
  BY <1>2, <1>3, <1>4 DEF Calls

Rejections == {"no_match", "multiple_matches", "empty_old_text",
               "invalid_batch_entry", "binary_file", "truncated_file"}

\* A result that is neither a success nor a rejection.
IsFailure(r) == ~r.ok /\ r.reject \notin Rejections

LEMMA Failures ==
  /\ IsFailure(Failed("", 0, -1))
  /\ IsFailure([Failed("", 0, -1) EXCEPT !.status = "blocked"])
  /\ IsFailure([Failed("", 0, -1) EXCEPT !.status = "failed"])
  /\ IsFailure(ReadFailed)
  /\ IsFailure([ReadFailed EXCEPT !.truncated = truncated])
  /\ IsFailure(WriteFailed)
<1> USE DEF IsFailure, Rejections, Failed
<1>1. IsFailure(Failed("", 0, -1))
  OBVIOUS
<1>2. IsFailure([Failed("", 0, -1) EXCEPT !.status = "blocked"])
  OBVIOUS
<1>3. IsFailure([Failed("", 0, -1) EXCEPT !.status = "failed"])
  OBVIOUS
<1>4. IsFailure(ReadFailed)
  BY DEF ReadFailed
<1>5. IsFailure([ReadFailed EXCEPT !.truncated = truncated])
  BY DEF ReadFailed
<1>6. IsFailure(WriteFailed)
  BY DEF WriteFailed
<1> QED
  BY <1>1, <1>2, <1>3, <1>4, <1>5, <1>6

LEMMA FailedFields ==
  ASSUME NEW reject, NEW matches, NEW index
  PROVE  /\ ~Failed(reject, matches, index).ok
         /\ Failed(reject, matches, index).reject = reject
         /\ Failed(reject, matches, index).index = index
BY DEF Failed

LEMMA SucceededFields ==
  ASSUME NEW matches
  PROVE  /\ Succeeded(matches).ok /\ Succeeded(matches).reject = "none"
         /\ Succeeded(matches).tool = call.tool
         /\ \A c, t : LET r == [Succeeded(matches) EXCEPT !.content = c,
                                                          !.truncated = t]
                      IN  /\ r.ok /\ r.reject = "none" /\ r.tool = call.tool
                          /\ r.content = c /\ r.truncated = t
BY DEF Succeeded, Failed

-----------------------------------------------------------------------------
(* What is read, and what is written *)

TextsInv ==
  /\ file.exists \in BOOLEAN /\ file.text \in Seq(Chars)
  /\ base.text \in Seq(Chars)
  /\ seen \in Seq(Chars) /\ text \in Seq(Chars) /\ written \in Nat
  /\ outside = [all |-> outside.all, now |-> outside.now,
                blind |-> outside.blind]
  /\ outside.now \in Nat /\ outside.blind \in BOOLEAN
  /\ pc # "returned" => call \in Calls

\* What has been read is how the file starts; when reading is over it is what
\* there is of the file for the call, or as much as may be read of a longer one.
ReadInv ==
  /\ pc \in {"called", "reading", "probing", "read", "accepted"} =>
       file = base /\ written = 0
  /\ pc = "called" => seen = <<>>
  /\ pc \in {"called", "reading", "probing"} => ~truncated /\ ~outside.blind
  /\ pc \in {"reading", "probing", "read"} =>
       call.tool # "write_file_safe" /\ call.mode # "refused"
  /\ Undisturbed =>
       /\ pc \in {"reading", "probing", "read"} =>
            base.exists /\ Starts(seen, base.text)
       /\ pc = "probing" => Len(seen) = ReadLimit
       /\ pc = "read" =>
            IF truncated
            THEN /\ ~outside.blind
                 /\ Len(seen) = ReadLimit /\ Len(base.text) > ReadLimit
            ELSE seen = Visible

\* What is written is what the entries mean, and the file is how it starts.
WriteInv ==
  /\ pc \in {"accepted", "writing"} => call.tool # "read_file_safe"
  /\ Undisturbed =>
       /\ pc \in {"accepted", "writing"} /\ IsPatch =>
            /\ base.exists /\ ~Contains(Visible, Nul)
            /\ Meaning(Visible, call.entries) = {text}
       /\ pc = "writing" => Len(file.text) = written /\ Starts(file.text, text)

FileInv ==
  TextsInv /\ ReadInv /\ WriteInv /\ PatchIsExact /\ ReadIsHonest

\* What a call sees, and how, changes with the call, the file or others only.
LEMMA ViewStays ==
  ASSUME UNCHANGED <<call, base, outside>>
  PROVE  /\ Visible' = Visible /\ Undisturbed' = Undisturbed
         /\ ReadLimit' = ReadLimit /\ IsPatch' = IsPatch
BY DEF Visible, Undisturbed, ReadLimit, IsPatch

\* A call that returns leaves the rest as it is.
LEMMA ReturnKeeps ==
  ASSUME FileInv, pc' = "returned",
         UNCHANGED <<file, call, seen, truncated, text, written, base, outside>>
  PROVE  TextsInv' /\ ReadInv' /\ WriteInv'
BY ViewStays DEF FileInv, TextsInv, ReadInv, WriteInv

\* Nothing is promised about a call that has not returned, or has failed.
LEMMA NotReturned ==
  ASSUME pc' # "returned"
  PROVE  PatchIsExact' /\ ReadIsHonest'
BY DEF PatchIsExact, ReadIsHonest, Returned

LEMMA FailureIsTrue ==
  ASSUME IsFailure(result')
  PROVE  PatchIsExact' /\ ReadIsHonest'
<1>1. ~result'.ok /\ result'.reject \notin Rejections
  BY DEF IsFailure
<1>2. PatchIsExact'
  BY <1>1 DEF PatchIsExact, Rejections
<1>3. ReadIsHonest'
  BY <1>1 DEF ReadIsHonest
<1> QED
  BY <1>2, <1>3

LEMMA InitFileInv == Init => FileInv
<1> SUFFICES ASSUME Init PROVE FileInv
  OBVIOUS
<1>1. /\ pc = "returned" /\ result = NoResult /\ seen = <<>> /\ text = <<>>
      /\ written = 0 /\ base = file
      /\ outside = [all |-> 0, now |-> 0, blind |-> FALSE]
  BY DEF Init
<1>2. file.exists \in BOOLEAN /\ file.text \in Seq(Chars)
  <2>1. Files \subseteq Seq(Chars)
    BY WorkspaceAssumption DEF WorkspaceAssumption
  <2>2. CASE file = Missing
    BY <2>2 DEF Missing
  <2>3. CASE file \in {Holding(t) : t \in Files}
    <3>1. PICK t \in Files : file = Holding(t)
      BY <2>3
    <3> QED
      BY <2>1, <3>1 DEF Holding
  <2> QED
    BY <2>2, <2>3 DEF Init
<1>3. <<>> \in Seq(Chars)
  OBVIOUS
<1>4. TextsInv
  BY <1>1, <1>2, <1>3 DEF TextsInv
<1>5. ReadInv /\ WriteInv
  BY <1>1 DEF ReadInv, WriteInv
<1>6. PatchIsExact /\ ReadIsHonest
  BY <1>1 DEF PatchIsExact, ReadIsHonest, Returned
<1> QED
  BY <1>4, <1>5, <1>6 DEF FileInv

LEMMA CallKeeps ==
  ASSUME FileInv, Call
  PROVE  FileInv'
<1>1. /\ call' \in Calls /\ pc' = "called"
      /\ seen' = <<>> /\ truncated' = FALSE /\ text' = <<>> /\ written' = 0
      /\ base' = file /\ file' = file
      /\ outside' = [outside EXCEPT !.now = 0, !.blind = FALSE]
  BY DEF Call
<1>2. /\ outside' = [all |-> outside'.all, now |-> outside'.now,
                    blind |-> outside'.blind]
      /\ outside'.now = 0 /\ ~outside'.blind /\ outside'.blind \in BOOLEAN
  BY <1>1 DEF FileInv, TextsInv
<1>3. <<>> \in Seq(Chars)
  OBVIOUS
<1>4. TextsInv'
  BY <1>1, <1>2, <1>3 DEF FileInv, TextsInv
<1>5. ReadInv' /\ WriteInv'
  BY <1>1 DEF ReadInv, WriteInv
<1> QED
  BY <1>1, <1>4, <1>5, NotReturned DEF FileInv

\* A call that is refused, or fails: BlockCall and the like.
LEMMA FailureKeeps ==
  ASSUME FileInv,
         BlockCall \/ RefuseArguments \/ ReadRefused \/ ReadFails
           \/ WriteRefused \/ WriteFails
  PROVE  FileInv'
<1>1. /\ pc' = "returned"
      /\ UNCHANGED <<file, call, seen, truncated, text, written, base, outside>>
  BY DEF BlockCall, RefuseArguments, ReadRefused, ReadFails, WriteRefused,
         WriteFails, Answer
<1>2. result' \in {[Failed("", 0, -1) EXCEPT !.status = "blocked"],
                   [Failed("", 0, -1) EXCEPT !.status = "failed"],
                   Failed("", 0, -1), ReadFailed, WriteFailed}
  BY DEF BlockCall, RefuseArguments, ReadRefused, ReadFails, WriteRefused,
         WriteFails, Answer
<1>3. IsFailure(result')
  BY <1>2, Failures
<1> QED
  BY <1>1, <1>3, ReturnKeeps, FailureIsTrue DEF FileInv

LEMMA OpenToReadKeeps ==
  ASSUME FileInv, OpenToRead
  PROVE  FileInv'
<1>1. /\ pc = "called" /\ pc' = "reading" /\ file.exists
      /\ call.mode # "refused" /\ call.tool # "write_file_safe"
      /\ UNCHANGED <<file, call, seen, truncated, text, written, base, outside>>
  BY DEF OpenToRead, OpensToRead
<1>2. file = base /\ seen = <<>> /\ ~truncated /\ ~outside.blind /\ written = 0
      /\ Len(base.text) \in Nat
  BY <1>1 DEF FileInv, ReadInv, TextsInv
<1>3. TextsInv'
  BY <1>1 DEF FileInv, TextsInv
<1>4. Starts(<<>>, base.text)
  BY <1>2 DEF Starts
<1>5. ReadInv'
  BY <1>1, <1>2, <1>4 DEF ReadInv, Starts
<1>6. WriteInv'
  BY <1>1 DEF WriteInv
<1> QED
  BY <1>1, <1>3, <1>5, <1>6, NotReturned DEF FileInv

LEMMA ReadPieceKeeps ==
  ASSUME FileInv, ReadPiece
  PROVE  FileInv'
<1>1. PICK n \in Len(seen) + 1..Len(file.text) :
        /\ n <= ReadLimit
        /\ seen' = seen \o SubSeq(file.text, Len(seen) + 1, n)
        /\ pc' = IF n = ReadLimit THEN "probing" ELSE "reading"
  BY DEF ReadPiece
<1>2. /\ pc = "reading"
      /\ UNCHANGED <<file, call, truncated, text, written, base, outside>>
  BY DEF ReadPiece
<1>3. /\ file = base /\ seen \in Seq(Chars) /\ file.text \in Seq(Chars)
      /\ ~truncated /\ ~outside.blind /\ written = 0
      /\ call.tool # "write_file_safe" /\ call.mode # "refused"
  BY <1>2 DEF FileInv, TextsInv, ReadInv
<1>4. /\ seen' \in Seq(Chars) /\ Len(seen') = n
      /\ Starts(seen, file.text) => Starts(seen', file.text)
  BY <1>1, <1>3, PieceGoesOn
<1>5. TextsInv'
  BY <1>1, <1>2, <1>4 DEF FileInv, TextsInv
<1>6. ReadInv'
  <2>1. Undisturbed => base.exists /\ Starts(seen', base.text)
    BY <1>2, <1>3, <1>4 DEF FileInv, ReadInv
  <2>2. ReadLimit' = ReadLimit /\ Undisturbed' = Undisturbed
    BY <1>2 DEF ReadLimit, IsPatch, Undisturbed
  <2>3. pc' = "probing" => Len(seen') = ReadLimit
    BY <1>1, <1>4
  <2>4. pc' \in {"probing", "reading"}
    BY <1>1
  <2>5. Starts(seen, base.text)' <=> Starts(seen', base.text)
    BY <1>2 DEF Starts
  <2> QED
    BY <1>2, <1>3, <2>1, <2>2, <2>3, <2>4, <2>5 DEF ReadInv
<1>7. WriteInv'
  BY <1>1 DEF WriteInv
<1> QED
  BY <1>1, <1>5, <1>6, <1>7, NotReturned DEF FileInv

LEMMA ReadEndKeeps ==
  ASSUME FileInv, ReadEnd
  PROVE  FileInv'
<1>1. /\ pc = "reading" /\ pc' = "read" /\ Len(file.text) <= Len(seen)
      /\ UNCHANGED <<file, call, seen, truncated, text, written, base, outside>>
  BY DEF ReadEnd
<1>2. /\ file = base /\ seen \in Seq(Chars) /\ base.text \in Seq(Chars)
      /\ Undisturbed => base.exists /\ Starts(seen, base.text)
      /\ ~truncated /\ ~outside.blind /\ written = 0
      /\ call.tool # "write_file_safe" /\ call.mode # "refused"
  BY <1>1 DEF FileInv, TextsInv, ReadInv
<1>3. Undisturbed => seen = Visible
  BY <1>1, <1>2, StartsAll DEF Visible
<1>4. TextsInv'
  BY <1>1 DEF FileInv, TextsInv
<1>5. ReadInv' /\ WriteInv'
  BY <1>1, <1>2, <1>3, ViewStays DEF ReadInv, WriteInv, Starts
<1> QED
  BY <1>1, <1>4, <1>5, NotReturned DEF FileInv

\* The byte more that shows that the file goes on; one that cannot be read
\* makes the limit the end of the file.
LEMMA ProbeKeeps ==
  ASSUME FileInv, Probe
  PROVE  FileInv'
<1>1. /\ pc = "probing" /\ pc' = "read"
      /\ UNCHANGED <<file, call, seen, text, written, base>>
  BY DEF Probe
<1>2. /\ file = base /\ seen \in Seq(Chars) /\ base.text \in Seq(Chars)
      /\ Undisturbed => /\ base.exists /\ Starts(seen, base.text)
                        /\ Len(seen) = ReadLimit
      /\ written = 0 /\ ~outside.blind
      /\ call.tool # "write_file_safe" /\ call.mode # "refused"
  BY <1>1 DEF FileInv, TextsInv, ReadInv
<1>3. /\ outside' = [all |-> outside'.all, now |-> outside'.now,
                    blind |-> outside'.blind]
      /\ outside'.now = outside.now /\ outside'.now \in Nat
      /\ outside'.blind \in BOOLEAN
  BY DEF Probe, FileInv, TextsInv
<1>4. TextsInv'
  BY <1>1, <1>3 DEF FileInv, TextsInv
<1>5. /\ ReadLimit' = ReadLimit /\ Undisturbed' = Undisturbed
      /\ Starts(seen, base.text)' <=> Starts(seen, base.text)
  BY <1>1, <1>3 DEF ReadLimit, IsPatch, Undisturbed, Starts
<1>6. ASSUME Undisturbed
      PROVE  IF truncated'
             THEN ~outside'.blind /\ Len(seen) = ReadLimit
                    /\ Len(base.text) > ReadLimit
             ELSE seen = Visible'
  <2>1. CASE truncated' = (Len(file.text) > ReadLimit) /\ UNCHANGED outside
    <3>1. CASE truncated'
      BY <1>2, <1>6, <2>1, <3>1
    <3>2. CASE ~truncated'
      <4>1. Len(base.text) \in Nat /\ Len(seen) \in Nat
        BY <1>2
      <4>2. Len(base.text) <= Len(seen)
        <5>1. ~(Len(file.text) > ReadLimit)
          BY <2>1, <3>2
        <5> QED
          BY <1>2, <1>6, <4>1, <5>1
      <4>3. seen = base.text
        BY <1>2, <1>6, <4>2, StartsAll
      <4> QED
        BY <1>1, <1>2, <2>1, <3>2, <4>3 DEF Visible
    <3> QED
      BY <3>1, <3>2
  <2>2. CASE truncated' = FALSE /\ outside' = [outside EXCEPT !.blind = TRUE]
    <3>1. Visible' = SubSeq(base.text, 1, ReadLimit)
      BY <1>1, <1>5, <2>2 DEF FileInv, TextsInv, Visible
    <3>2. seen = SubSeq(base.text, 1, Len(seen))
      BY <1>2, <1>6, StartsIsPrefix DEF IsPrefix
    <3> QED
      BY <1>2, <1>6, <2>2, <3>1, <3>2
  <2> QED
    BY <2>1, <2>2 DEF Probe
<1>7. ReadInv'
  BY <1>1, <1>2, <1>5, <1>6 DEF ReadInv
<1>8. WriteInv'
  BY <1>1 DEF WriteInv
<1> QED
  BY <1>1, <1>4, <1>7, <1>8, NotReturned DEF FileInv

LEMMA ShowFileKeeps ==
  ASSUME FileInv, ShowFile
  PROVE  FileInv'
<1>1. /\ pc = "read" /\ ~IsPatch /\ pc' = "returned"
      /\ UNCHANGED <<file, call, seen, truncated, text, written, base, outside>>
  BY DEF ShowFile, Answer
<1>2. TextsInv' /\ ReadInv' /\ WriteInv'
  BY <1>1, ReturnKeeps
<1>3. PatchIsExact'
  BY <1>1 DEF PatchIsExact, IsPatch
<1>4. ReadIsHonest'
  <2>1. CASE IsBinary
    <3>1. result' = [ReadFailed EXCEPT !.truncated = truncated]
      BY <2>1 DEF ShowFile, Answer
    <3> QED
      BY <3>1, Failures, FailureIsTrue
  <2>2. CASE ~IsBinary
    <3>1. result' = [Succeeded(0) EXCEPT !.content = seen,
                                         !.truncated = truncated]
      BY <2>2 DEF ShowFile, Answer
    <3>2. result'.content = seen /\ result'.truncated = truncated
      BY <3>1, SucceededFields
    <3>3. ReadLimit = MaxShown
      BY <1>1 DEF ReadLimit
    <3>4. /\ seen \in Seq(Chars) /\ base.text \in Seq(Chars)
          /\ Undisturbed =>
               /\ Starts(seen, base.text)
               /\ IF truncated THEN Len(seen) = MaxShown /\ Len(base.text) > MaxShown
                  ELSE seen = Visible
      BY <1>1, <3>3 DEF FileInv, TextsInv, ReadInv
    <3>5. Undisturbed /\ truncated => IsStrictPrefix(seen, base.text)
                                        /\ Len(seen) = MaxShown
      <4> SUFFICES ASSUME Undisturbed, truncated
                   PROVE  IsStrictPrefix(seen, base.text) /\ Len(seen) = MaxShown
        OBVIOUS
      <4>1. IsPrefix(seen, base.text)
        BY <3>4, StartsIsPrefix
      <4>2. Len(seen) = MaxShown /\ Len(base.text) > MaxShown
        BY <3>4
      <4>3. MaxShown \in Nat
        BY WorkspaceAssumption DEF WorkspaceAssumption
      <4>4. seen # base.text
        BY <3>4, <4>2, <4>3
      <4> QED
        BY <4>1, <4>2, <4>4 DEF IsStrictPrefix
    <3> QED
      BY <1>1, <3>2, <3>4, <3>5, ViewStays
         DEF ReadIsHonest, IsStrictPrefix, IsPrefix
  <2> QED
    BY <2>1, <2>2
<1> QED
  BY <1>2, <1>3, <1>4 DEF FileInv

\* A file that holds NUL, or is longer than a patch may read.
LEMMA RejectFileKeeps ==
  ASSUME FileInv, RejectFile
  PROVE  FileInv'
<1>1. /\ pc' = "returned"
      /\ UNCHANGED <<file, call, seen, truncated, text, written, base, outside>>
  BY DEF RejectFile, Answer
<1>2. TextsInv' /\ ReadInv' /\ WriteInv'
  BY <1>1, ReturnKeeps
<1>3. /\ ~result'.ok
      /\ result'.reject = IF IsBinary THEN "binary_file" ELSE "truncated_file"
  BY FailedFields DEF RejectFile, Answer
<1>4. pc = "read" /\ IsPatch /\ (IsBinary \/ truncated)
      /\ UNCHANGED <<base, outside, call>>
  BY DEF RejectFile, Unpatchable
<1>5. ReadLimit = MaxRead
  BY <1>4 DEF ReadLimit
<1>6. /\ seen \in Seq(Chars) /\ base.text \in Seq(Chars)
      /\ Undisturbed =>
           /\ Starts(seen, base.text)
           /\ truncated => ~outside.blind /\ Len(base.text) > MaxRead
           /\ ~truncated => seen = Visible
  BY <1>4, <1>5 DEF FileInv, TextsInv, ReadInv
<1>7. Undisturbed /\ IsBinary => Contains(Visible, Nul)
  <2> SUFFICES ASSUME Undisturbed, IsBinary PROVE Contains(Visible, Nul)
    OBVIOUS
  <2>1. CASE ~truncated
    BY <1>6, <2>1 DEF IsBinary
  <2>2. CASE truncated
    <3>1. PICK i \in 1..Len(seen) : seen[i] = Nul
      BY DEF IsBinary, Contains
    <3>2. i \in 1..Len(base.text) /\ base.text[i] = Nul
      BY <1>6, <3>1 DEF Starts
    <3>3. Visible = base.text
      BY <1>6, <2>2 DEF Visible
    <3> QED
      BY <3>2, <3>3 DEF Contains
  <2> QED
    BY <2>1, <2>2
<1>8. PatchIsExact'
  <2>1. Undisturbed' = Undisturbed /\ base' = base /\ Visible' = Visible
    BY <1>4, ViewStays
  <2>2. Undisturbed /\ result'.reject = "binary_file" => Contains(Visible, Nul)
    BY <1>3, <1>7
  <2>3. Undisturbed /\ result'.reject = "truncated_file" => Len(base.text) > MaxRead
    BY <1>3, <1>4, <1>6
  <2>4. result'.reject \notin {"no_match", "multiple_matches", "empty_old_text",
                               "invalid_batch_entry"}
    BY <1>3
  <2> QED
    BY <1>3, <2>1, <2>2, <2>3, <2>4 DEF PatchIsExact, Contains
<1>9. ReadIsHonest'
  BY <1>3 DEF ReadIsHonest
<1> QED
  BY <1>2, <1>8, <1>9 DEF FileInv

\* What a patch is tried on, when nobody else has changed the file.
LEMMA TriedText ==
  ASSUME FileInv, pc = "read", IsPatch, ~Unpatchable
  PROVE  /\ seen \in Seq(Chars)
         /\ call.entries \in Seq(Entry) /\ Len(call.entries) > 0
         /\ call.mode \in {"single", "batch"}
         /\ call.mode = "single" => Len(call.entries) = 1
         /\ Undisturbed => /\ base.exists /\ ~Contains(Visible, Nul)
                           /\ seen = Visible
<1>1. call \in Calls /\ call.mode # "refused" /\ seen \in Seq(Chars)
  BY DEF FileInv, TextsInv, ReadInv
<1>2. ~truncated /\ ~Contains(seen, Nul)
  BY DEF Unpatchable, IsBinary
<1>3. Undisturbed => base.exists /\ seen = Visible
  BY <1>2 DEF FileInv, ReadInv
<1> QED
  BY <1>1, <1>2, <1>3, CallFacts DEF IsPatch

\* The entry that is named is the first that means nothing.
LEMMA RejectEntryKeeps ==
  ASSUME FileInv, RejectEntry
  PROVE  FileInv'
<1>1. /\ pc = "read" /\ IsPatch /\ ~Unpatchable /\ pc' = "returned"
      /\ UNCHANGED <<file, call, seen, truncated, text, written, base, outside>>
  BY DEF RejectEntry, Answer
<1>2. TextsInv' /\ ReadInv' /\ WriteInv'
  BY <1>1, ReturnKeeps
<1>3. PICK done : done = Patched(seen, call.entries)
  OBVIOUS
<1>4. /\ done.reject # "none"
      /\ result' = IF call.mode = "single"
                   THEN Failed(done.reject, done.matches, -1)
                   ELSE Failed(IF done.reject = "empty_old_text"
                               THEN "invalid_batch_entry" ELSE done.reject,
                               done.applied, done.applied)
  BY <1>3 DEF RejectEntry, Answer
<1>5. /\ seen \in Seq(Chars) /\ call.entries \in Seq(Entry)
      /\ call.mode \in {"single", "batch"}
      /\ call.mode = "single" => Len(call.entries) = 1
      /\ Undisturbed => seen = Visible
  BY <1>1, TriedText
<1>6. /\ done.applied \in 0..Len(call.entries) - 1
      /\ Meaning(seen, SubSeq(call.entries, 1, done.applied)) # {}
      /\ Meaning(seen, SubSeq(call.entries, 1, done.applied + 1)) = {}
  BY <1>3, <1>4, <1>5, PatchedIsMeant
<1>7. done.reject \in {"empty_old_text", "no_match", "multiple_matches"}
  BY <1>3, <1>4, <1>5, PatchedIsMeant
<1>8. /\ ~result'.ok
      /\ result'.reject \notin {"binary_file", "truncated_file"}
      /\ call.mode = "batch" => result'.index = done.applied
  BY <1>4, <1>5, <1>7, FailedFields
<1>9. PICK before : before = IF call.mode = "batch" THEN result'.index ELSE 0
  OBVIOUS
<1>10. before = done.applied
  <2>1. CASE call.mode = "batch"
    BY <1>8, <1>9, <2>1
  <2>2. CASE call.mode = "single"
    <3>1. Len(call.entries) = 1
      BY <1>5, <2>2
    <3>2. done.applied = 0
      BY <1>6, <3>1
    <3>3. before = 0
      BY <1>9, <2>2
    <3> QED
      BY <3>2, <3>3
  <2> QED
    BY <1>5, <2>1, <2>2
<1>11. PatchIsExact'
  <2>1. Undisturbed' = Undisturbed /\ Visible' = Visible /\ call' = call
    BY <1>1, ViewStays
  <2>2. Undisturbed =>
          /\ Meaning(Visible, SubSeq(call.entries, 1, before)) # {}
          /\ Meaning(Visible, SubSeq(call.entries, 1, before + 1)) = {}
    BY <1>5, <1>6, <1>10
  <2> QED
    BY <1>8, <1>9, <2>1, <2>2 DEF PatchIsExact
<1>12. ReadIsHonest'
  BY <1>8 DEF ReadIsHonest
<1> QED
  BY <1>2, <1>11, <1>12 DEF FileInv

LEMMA AcceptPatchKeeps ==
  ASSUME FileInv, AcceptPatch
  PROVE  FileInv'
<1>1. /\ pc = "read" /\ IsPatch /\ ~Unpatchable /\ pc' = "accepted"
      /\ UNCHANGED <<file, call, seen, truncated, written, base, outside>>
      /\ Patched(seen, call.entries).reject = "none"
      /\ text' = Patched(seen, call.entries).content
  BY DEF AcceptPatch
<1>2. /\ seen \in Seq(Chars) /\ call.entries \in Seq(Entry)
      /\ Undisturbed => /\ base.exists /\ ~Contains(Visible, Nul)
                        /\ seen = Visible
  BY <1>1, TriedText
<1>3. text' \in Seq(Chars) /\ Meaning(seen, call.entries) = {text'}
  BY <1>1, <1>2, PatchedIsMeant
<1>4. TextsInv'
  BY <1>1, <1>3 DEF FileInv, TextsInv
<1>5. ReadInv'
  BY <1>1 DEF FileInv, ReadInv
<1>6. WriteInv'
  <2>1. /\ Undisturbed' = Undisturbed /\ base' = base /\ call' = call
        /\ IsPatch' = IsPatch /\ Visible' = Visible
    BY <1>1, ViewStays
  <2>2. Undisturbed =>
          /\ base.exists /\ ~Contains(Visible, Nul)
          /\ Meaning(Visible, call.entries) = {text'}
    BY <1>2, <1>3
  <2>3. call.tool # "read_file_safe"
    BY <1>1 DEF IsPatch
  <2> QED
    BY <1>1, <2>1, <2>2, <2>3 DEF WriteInv
<1> QED
  BY <1>1, <1>4, <1>5, <1>6, NotReturned DEF FileInv

LEMMA AcceptWriteKeeps ==
  ASSUME FileInv, AcceptWrite
  PROVE  FileInv'
<1>1. /\ pc = "called" /\ call.tool = "write_file_safe" /\ pc' = "accepted"
      /\ UNCHANGED <<file, call, seen, truncated, written, base, outside>>
      /\ text' = call.content
  BY DEF AcceptWrite
<1>2. text' \in Seq(Chars)
  BY <1>1, CallFacts DEF FileInv, TextsInv
<1>3. TextsInv'
  BY <1>1, <1>2 DEF FileInv, TextsInv
<1>4. ReadInv' /\ WriteInv'
  BY <1>1 DEF FileInv, ReadInv, WriteInv, IsPatch
<1> QED
  BY <1>1, <1>3, <1>4, NotReturned DEF FileInv

LEMMA OpenToWriteKeeps ==
  ASSUME FileInv, OpenToWrite
  PROVE  FileInv'
<1>1. /\ pc = "accepted" /\ pc' = "writing" /\ file' = Holding(<<>>)
      /\ UNCHANGED <<call, seen, truncated, text, written, base, outside>>
  BY DEF OpenToWrite
<1>2. /\ file'.exists /\ file'.text = <<>> /\ file'.exists \in BOOLEAN
      /\ written = 0 /\ text \in Seq(Chars) /\ Len(text) \in Nat
  BY <1>1 DEF Holding, FileInv, ReadInv, TextsInv
<1>3. TextsInv'
  <2>1. file'.text \in Seq(Chars)
    BY <1>2
  <2> QED
    BY <1>1, <1>2, <2>1 DEF FileInv, TextsInv
<1>4. Starts(<<>>, text)
  BY <1>2 DEF Starts
<1>5. WriteInv'
  BY <1>1, <1>2, <1>4, ViewStays DEF FileInv, WriteInv, Starts
<1>6. ReadInv'
  BY <1>1 DEF ReadInv
<1> QED
  BY <1>1, <1>3, <1>5, <1>6, NotReturned DEF FileInv

LEMMA WritePieceKeeps ==
  ASSUME FileInv, WritePiece
  PROVE  FileInv'
<1>1. /\ pc = "writing" /\ pc' = pc
      /\ UNCHANGED <<call, seen, truncated, text, base, outside>>
  BY DEF WritePiece
<1>2. PICK n \in written + 1..Len(text) :
        /\ file' = Holding(Overwritten(file.text, written,
                                       SubSeq(text, written + 1, n)))
        /\ written' = n
  BY DEF WritePiece
<1>3. PICK l : l = Len(text)
  OBVIOUS
<1>4. /\ text \in Seq(Chars) /\ file.text \in Seq(Chars) /\ written \in Nat
      /\ l \in Nat /\ n \in Nat /\ written < n /\ n <= l
  BY <1>2, <1>3 DEF FileInv, TextsInv
<1>5. PICK piece : piece = SubSeq(text, written + 1, n)
  OBVIOUS
<1>6. /\ piece \in Seq(Chars) /\ Len(piece) = n - written
      /\ \A i \in 1..n - written : piece[i] = text[written + i]
  BY <1>3, <1>4, <1>5
<1>7. PICK new, old : /\ old = file.text
                     /\ new = Overwritten(old, written, piece)
  OBVIOUS
<1>8. /\ new \in Seq(Chars)
      /\ written = Len(old) =>
           /\ Len(new) = written + Len(piece)
           /\ \A i \in 1..written : new[i] = old[i]
           /\ \A i \in written + 1..written + Len(piece) :
                new[i] = piece[i - written]
  <2>1. old \in Seq(Chars) /\ written \in Nat /\ piece \in Seq(Chars)
    BY <1>4, <1>6, <1>7
  <2>2. new = Overwritten(old, written, piece)
    BY <1>7
  <2> QED
    BY <2>1, <2>2, OverwrittenIsText, Zenon
<1>9. file'.exists \in BOOLEAN /\ file'.text = new /\ written' = n
  BY <1>2, <1>5, <1>7 DEF Holding
<1>10. TextsInv'
  BY <1>1, <1>4, <1>8, <1>9 DEF FileInv, TextsInv
<1>11. ASSUME Len(file.text) = written, Starts(file.text, text)
       PROVE  Len(new) = n /\ Starts(new, text)
  <2>0. Len(old) = written /\ Starts(old, text)
    BY <1>7, <1>11
  <2>1. Len(new) = n
    BY <1>4, <1>6, <1>8, <2>0
  <2>2. ASSUME NEW i \in 1..n PROVE new[i] = text[i]
    <3>1. CASE i <= written
      BY <1>4, <1>8, <2>0, <3>1 DEF Starts
    <3>2. CASE i > written
      <4>1. /\ i \in written + 1..written + Len(piece)
            /\ i - written \in 1..n - written /\ written + (i - written) = i
        BY <1>4, <1>6, <3>2
      <4> QED
        BY <1>6, <1>8, <2>0, <4>1
    <3> QED
      BY <1>4, <3>1, <3>2
  <2> QED
    BY <1>3, <1>4, <2>1, <2>2 DEF Starts
<1>12. WriteInv'
  BY <1>1, <1>9, <1>11, ViewStays DEF FileInv, WriteInv, Starts
<1>13. ReadInv'
  BY <1>1 DEF ReadInv
<1> QED
  BY <1>1, <1>10, <1>12, <1>13, NotReturned DEF FileInv

LEMMA WriteDoneKeeps ==
  ASSUME FileInv, WriteDone
  PROVE  FileInv'
<1>1. /\ pc = "writing" /\ written = Len(text) /\ pc' = "returned"
      /\ result' = Succeeded(Applied)
      /\ UNCHANGED <<file, call, seen, truncated, text, written, base, outside>>
  BY DEF WriteDone, Answer
<1>2. TextsInv' /\ ReadInv' /\ WriteInv'
  BY <1>1, ReturnKeeps
<1>3. result'.ok /\ result'.reject = "none" /\ result'.tool = call.tool
  BY <1>1, SucceededFields
<1>4. ReadIsHonest'
  BY <1>1, <1>3 DEF FileInv, WriteInv, ReadIsHonest
<1>5. Undisturbed => file.text = text
  <2> SUFFICES ASSUME Undisturbed PROVE file.text = text
    OBVIOUS
  <2>1. /\ file.text \in Seq(Chars) /\ text \in Seq(Chars)
        /\ Len(file.text) = written /\ Starts(file.text, text)
    BY <1>1 DEF FileInv, TextsInv, WriteInv
  <2>2. Len(text) <= Len(file.text)
    BY <1>1, <2>1
  <2> QED
    BY <2>1, <2>2, StartsAll
<1>6. PatchIsExact'
  <2>1. /\ Undisturbed' = Undisturbed /\ base' = base /\ call' = call
        /\ IsPatch' = IsPatch /\ file' = file /\ Visible' = Visible
    BY <1>1, ViewStays
  <2>2. Undisturbed /\ IsPatch =>
          /\ base.exists /\ ~Contains(Visible, Nul)
          /\ Meaning(Visible, call.entries) = {file.text}
    BY <1>1, <1>5 DEF FileInv, WriteInv
  <2> QED
    BY <1>3, <2>1, <2>2 DEF PatchIsExact
<1> QED
  BY <1>2, <1>4, <1>6 DEF FileInv

LEMMA OthersKeep ==
  ASSUME FileInv, Others
  PROVE  FileInv'
<1>1. /\ outside' = [all |-> outside.all + 1, now |-> outside.now + 1,
                    blind |-> outside.blind]
      /\ base' = file'
      /\ UNCHANGED <<call, pc, seen, truncated, text, written, result>>
      /\ \/ \E t \in Files : file' = Holding(t)
         \/ file' = Missing
  BY DEF Others, FileInv, TextsInv
<1>2. /\ outside'.now = outside.now + 1 /\ outside.now \in Nat
      /\ outside' = [all |-> outside'.all, now |-> outside'.now,
                    blind |-> outside'.blind]
      /\ outside'.blind = outside.blind /\ outside.blind \in BOOLEAN
  BY <1>1 DEF FileInv, TextsInv
<1>3. ~Undisturbed'
  BY <1>2 DEF Undisturbed
<1>4. file'.exists \in BOOLEAN /\ file'.text \in Seq(Chars)
  <2>1. Files \subseteq Seq(Chars)
    BY WorkspaceAssumption DEF WorkspaceAssumption
  <2>2. CASE file' = Missing
    BY <2>2 DEF Missing
  <2>3. ASSUME NEW t \in Files, file' = Holding(t)
        PROVE  file'.exists \in BOOLEAN /\ file'.text \in Seq(Chars)
    BY <2>1, <2>3 DEF Holding
  <2> QED
    BY <1>1, <2>2, <2>3
<1>5. TextsInv'
  BY <1>1, <1>2, <1>4 DEF FileInv, TextsInv
<1>6. ReadInv' /\ WriteInv'
  BY <1>1, <1>3 DEF FileInv, ReadInv, WriteInv
<1>7. PatchIsExact' /\ ReadIsHonest'
  BY <1>3 DEF PatchIsExact, ReadIsHonest
<1> QED
  BY <1>5, <1>6, <1>7 DEF FileInv

LEMMA NextFileInv ==
  ASSUME FileInv, [Next]_vars
  PROVE  FileInv'
<1>1. CASE Call
  BY <1>1, CallKeeps
<1>2. CASE BlockCall \/ RefuseArguments \/ ReadRefused \/ ReadFails
           \/ WriteRefused \/ WriteFails
  BY <1>2, FailureKeeps
<1>3. CASE OpenToRead \/ ReadPiece \/ ReadEnd \/ Probe
  BY <1>3, OpenToReadKeeps, ReadPieceKeeps, ReadEndKeeps, ProbeKeeps
<1>4. CASE ShowFile \/ RejectFile \/ RejectEntry
  BY <1>4, ShowFileKeeps, RejectFileKeeps, RejectEntryKeeps
<1>5. CASE AcceptPatch \/ AcceptWrite
  BY <1>5, AcceptPatchKeeps, AcceptWriteKeeps
<1>6. CASE OpenToWrite \/ WritePiece \/ WriteDone
  BY <1>6, OpenToWriteKeeps, WritePieceKeeps, WriteDoneKeeps
<1>7. CASE Others
  BY <1>7, OthersKeep
<1>8. CASE Rest \/ UNCHANGED vars
  <2>1. UNCHANGED vars
    BY <1>8 DEF Rest
  <2>2. TextsInv' /\ ReadInv' /\ WriteInv'
    BY <2>1, ViewStays DEF vars, FileInv, TextsInv, ReadInv, WriteInv, Starts
  <2>3. PatchIsExact' /\ ReadIsHonest'
    BY <2>1, ViewStays DEF vars, FileInv, PatchIsExact, ReadIsHonest, Returned
  <2> QED
    BY <2>2, <2>3 DEF FileInv
<1> QED
  BY <1>1, <1>2, <1>3, <1>4, <1>5, <1>6, <1>7, <1>8 DEF Next

\* A successful apply_patch has made of the file the one text its entries mean,
\* in their order, and a rejection names the file or the first entry that does
\* not fit at exactly one place: for every text, every limit, every way to read
\* and write in pieces and every fault, if nobody else changes the file during
\* the call (validate_patch_batch).  Where the read of the byte behind the limit
\* fails, the call takes the file to end there (read_file_safe), and so does the
\* theorem: what stood behind is lost.
THEOREM PatchesAreExact == Spec => []PatchIsExact
<1>1. FileInv => PatchIsExact
  BY DEF FileInv
<1>2. FileInv /\ [Next]_vars => FileInv'
  BY NextFileInv
<1> QED
  BY <1>1, <1>2, InitFileInv, PTL DEF Spec

\* read_file_safe shows the whole file, or says that it shows as much of the
\* start of a longer one as may be shown; only where the read of the byte
\* behind the limit fails does it show that start as the whole.
THEOREM ReadsAreHonest == Spec => []ReadIsHonest
<1>1. FileInv => ReadIsHonest
  BY DEF FileInv
<1>2. FileInv /\ [Next]_vars => FileInv'
  BY NextFileInv
<1> QED
  BY <1>1, <1>2, InitFileInv, PTL DEF Spec
=============================================================================
