-------------------------- MODULE ReplyStreamProofs --------------------------
(***************************************************************************)
(* Theorems about the streamed reply, for every set of indices, every      *)
(* limit, any number of events and every way to cut them into chunks.      *)
(*                                                                         *)
(* The first half is about the wire: where the events are in what the      *)
(* server writes (Off), and that a text which begins with an event is read *)
(* one whole event at a time (SomethingToRead, NothingToRead, ParserReads).*)
(* The second half is about the reply: it is a function of the number of   *)
(* events that were read (MadeOf), and so does not depend on the chunks.   *)
(***************************************************************************)
EXTENDS ReplyStream, Integers, WellFoundedInduction, FiniteSetTheorems,
        SequenceTheorems, TLAPS

-----------------------------------------------------------------------------
(* Induction over the numbers, for a set given as one *)

Less == {p \in Nat \X Nat : p[1] < p[2]}

LEMMA LessIsWellFounded == IsWellFoundedOn(Less, Nat)
<1>1. OpToRel(<, Nat) = Less
  BY DEF OpToRel, Less
<1> QED
  BY <1>1, NatLessThanWellFounded

\* A set of numbers that is not empty has a least one.
LEMMA Least ==
  ASSUME NEW S \in SUBSET Nat, S # {}
  PROVE  \E i \in S : \A j \in S : i <= j
<1>1. PICK i \in S : \A j \in S : ~(<<j, i>> \in Less)
  BY LessIsWellFounded, WFMin
<1>2. ASSUME NEW j \in S PROVE i <= j
  <2>1. i \in Nat /\ j \in Nat /\ ~(<<j, i>> \in Less)
    BY <1>1
  <2> QED
    BY <2>1 DEF Less
<1> QED
  BY <1>2

\* A set that has n when it has everything below n has every number.
LEMMA SetInduction ==
  ASSUME NEW S, \A n \in Nat : (\A m \in 0..n - 1 : m \in S) => n \in S
  PROVE  Nat \subseteq S
<1> DEFINE T == Nat \ S
<1> SUFFICES ASSUME T # {} PROVE FALSE
  OBVIOUS
<1>1. PICK x \in T : \A y \in T : x <= y
  BY Least
<1>2. x \in Nat /\ x \notin S /\ \A y \in Nat : y < x => y \in S
  BY <1>1
<1>3. \A m \in 0..x - 1 : m \in Nat /\ m < x
  BY <1>2
<1> QED
  BY <1>2, <1>3

-----------------------------------------------------------------------------
(* Pieces of a text *)

Served == [event : Event, blank : BlankLine]

LEMMA PieceKinds ==
  /\ Lf # Cr /\ Lf \notin Event /\ Cr \notin Event
  /\ Event \subseteq Piece /\ Lf \in Piece /\ Cr \in Piece
BY DEF Lf, Cr, Event, Piece

LEMMA BlankLineForms ==
  ASSUME NEW blank \in BlankLine
  PROVE  /\ blank \in Seq(Piece) /\ Len(blank) \in {2, 4}
         /\ \A j \in 1..Len(blank) : blank[j] \in {Lf, Cr}
         /\ Len(blank) = 2 => blank = <<Lf, Lf>> /\ blank[1] = Lf /\ blank[2] = Lf
         /\ Len(blank) = 4 => /\ blank = <<Cr, Lf, Cr, Lf>> /\ blank[1] = Cr
                              /\ blank[2] = Lf /\ blank[3] = Cr /\ blank[4] = Lf
<1>1. Lf \in Piece /\ Cr \in Piece
  BY PieceKinds
<1>2. CASE blank = <<Lf, Lf>>
  <2>1. /\ blank \in Seq(Piece) /\ Len(blank) = 2
        /\ blank[1] = Lf /\ blank[2] = Lf
    BY <1>1, <1>2
  <2>2. \A j \in 1..2 : j = 1 \/ j = 2
    OBVIOUS
  <2> QED
    BY <1>2, <2>1, <2>2
<1>3. CASE blank = <<Cr, Lf, Cr, Lf>>
  <2>1. /\ blank \in Seq(Piece) /\ Len(blank) = 4
        /\ blank[1] = Cr /\ blank[2] = Lf /\ blank[3] = Cr /\ blank[4] = Lf
    BY <1>1, <1>3
  <2>2. \A j \in 1..4 : j = 1 \/ j = 2 \/ j = 3 \/ j = 4
    OBVIOUS
  <2> QED
    BY <1>3, <2>1, <2>2
<1> QED
  BY <1>2, <1>3 DEF BlankLine

LEMMA StartsAtIs ==
  ASSUME NEW text \in Seq(Piece), NEW p \in 1..Len(text), NEW blank \in BlankLine
  PROVE  StartsAt(text, p, blank) <=>
           /\ p + Len(blank) - 1 <= Len(text)
           /\ \A j \in 1..Len(blank) : text[p + j - 1] = blank[j]
<1>1. PICK l \in Nat : l = Len(blank)
  BY BlankLineForms
<1>2. l \in {2, 4} /\ blank \in Seq(Piece)
  BY <1>1, BlankLineForms
<1>3. SUFFICES ASSUME p + l - 1 <= Len(text)
               PROVE  SubSeq(text, p, p + l - 1) = blank <=>
                        \A j \in 1..l : text[p + j - 1] = blank[j]
  BY <1>1 DEF StartsAt
<1>4. PICK t : t = SubSeq(text, p, p + l - 1)
  OBVIOUS
<1>5. /\ t \in Seq(Piece) /\ Len(t) = l
      /\ \A j \in 1..l : t[j] = text[p + j - 1]
  <2>1. p \in Int /\ p + l - 1 \in Int /\ p <= p + l - 1 /\ p + l - 1 - p + 1 = l
    BY <1>2
  <2>2. \A i \in p..p + l - 1 : text[i] \in Piece
    BY <1>3
  <2>3. /\ t \in Seq(Piece) /\ Len(t) = p + l - 1 - p + 1
        /\ \A j \in 1..p + l - 1 - p + 1 : t[j] = text[p + j - 1]
    BY <1>4, <2>1, <2>2, SubSeqProperties
  <2> QED
    BY <2>1, <2>3
<1>6. ASSUME \A j \in 1..l : text[p + j - 1] = blank[j] PROVE t = blank
  <2>1. \A j \in 1..Len(t) : t[j] = blank[j]
    BY <1>5, <1>6
  <2> QED
    BY <1>1, <1>2, <1>5, <2>1, SeqEqual
<1> QED
  BY <1>4, <1>5, <1>6

LEMMA EndIs ==
  ASSUME NEW text \in Seq(Piece), NEW e \in Ends(text)
  PROVE  \E p \in 1..Len(text), b \in BlankLine :
           /\ e = <<p, b>> /\ e[1] = p /\ e[2] = b /\ p + Len(b) - 1 <= Len(text)
           /\ Len(b) = 2 => text[p] = Lf /\ text[p + 1] = Lf
           /\ Len(b) = 4 => text[p] = Cr
<1>1. PICK p \in 1..Len(text) : p = e[1]
  BY DEF Ends
<1>2. PICK b \in BlankLine : b = e[2]
  BY DEF Ends
<1>3. e = <<p, b>> /\ StartsAt(text, p, b)
  BY <1>1, <1>2 DEF Ends
<1>4. PICK m \in {2, 4} : m = Len(b)
  BY BlankLineForms
<1>5. p + m - 1 <= Len(text) /\ \A j \in 1..m : text[p + j - 1] = b[j]
  BY <1>3, <1>4, StartsAtIs
<1>6. text[p] = b[1] /\ text[p + 1] = b[2]
  <2>1. p + 1 - 1 = p /\ p + 2 - 1 = p + 1 /\ 1 \in 1..m /\ 2 \in 1..m
    OBVIOUS
  <2> QED
    BY <1>5, <2>1
<1>7. /\ Len(b) = 2 => b[1] = Lf /\ b[2] = Lf
      /\ Len(b) = 4 => b[1] = Cr
  BY BlankLineForms
<1>8. p + Len(b) - 1 <= Len(text)
  BY <1>4, <1>5
<1>9. /\ Len(b) = 2 => text[p] = Lf /\ text[p + 1] = Lf
      /\ Len(b) = 4 => text[p] = Cr
  BY <1>6, <1>7
<1> QED
  BY <1>1, <1>2, <1>3, <1>8, <1>9, Zenon

\* A text that begins with an event: it ends behind the event, where its blank
\* line is, if all of that is there, and nowhere otherwise.
LEMMA EndsOfText ==
  ASSUME NEW text \in Seq(Piece), NEW ev \in Event, NEW blank \in BlankLine,
         Len(text) > 0 => text[1] = ev,
         \A j \in 1..Len(blank) : 1 + j <= Len(text) => text[1 + j] = blank[j]
  PROVE  /\ Len(text) < 1 + Len(blank) => Ends(text) = {}
         /\ Len(text) >= 1 + Len(blank) =>
              Ends(text) # {} /\ FirstEnd(text) = <<2, blank>>
<1>1. PICK l \in Nat : l = Len(blank)
  BY BlankLineForms
<1>2. PICK n \in Nat : n = Len(text)
  OBVIOUS
<1>3. l \in {2, 4} /\ \A j \in 1..l : 1 + j <= n => text[1 + j] = blank[j]
  BY <1>1, <1>2, BlankLineForms
<1>4. ASSUME NEW e \in Ends(text) PROVE e[1] \in 1..n /\ e[1] >= 2
  <2>1. PICK p \in 1..n, b \in BlankLine :
          /\ e[1] = p
          /\ Len(b) = 2 => text[p] = Lf
          /\ Len(b) = 4 => text[p] = Cr
    BY <1>2, EndIs
  <2>2. text[p] \in {Lf, Cr}
    BY <2>1, BlankLineForms
  <2>3. p # 1
    BY <1>2, <2>2, PieceKinds
  <2> QED
    BY <2>1, <2>3
<1>5. ASSUME NEW e \in Ends(text), e[1] = 2, n >= 1 + l PROVE e = <<2, blank>>
  <2>1. PICK p \in 1..n, b \in BlankLine :
          /\ e = <<p, b>> /\ e[1] = p
          /\ Len(b) = 2 => text[p] = Lf
          /\ Len(b) = 4 => text[p] = Cr
    BY <1>2, EndIs
  <2>2. text[2] = blank[1]
    <3>1. 1 \in 1..l /\ 1 + 1 = 2 /\ 2 <= n
      BY <1>3, <1>5
    <3> QED
      BY <1>3, <3>1
  <2>3. PICK m \in {2, 4} : m = Len(b)
    BY BlankLineForms
  <2>5. /\ l = 2 => blank[1] = Lf /\ blank = <<Lf, Lf>>
        /\ l = 4 => blank[1] = Cr /\ blank = <<Cr, Lf, Cr, Lf>>
    BY <1>1, BlankLineForms
  <2>6. /\ m = 2 => text[2] = Lf /\ b = <<Lf, Lf>>
        /\ m = 4 => text[2] = Cr /\ b = <<Cr, Lf, Cr, Lf>>
    BY <1>5, <2>1, <2>3, BlankLineForms
  <2>4. b = blank
    <3>1. CASE l = 2
      <4>1. m = 2
        BY <2>2, <2>5, <2>6, <3>1, PieceKinds
      <4> QED
        BY <2>5, <2>6, <3>1, <4>1
    <3>2. CASE l = 4
      <4>1. m = 4
        BY <2>2, <2>5, <2>6, <3>2, PieceKinds
      <4> QED
        BY <2>5, <2>6, <3>2, <4>1
    <3> QED
      BY <1>3, <3>1, <3>2
  <2> QED
    BY <1>5, <2>1, <2>4
<1>6. ASSUME n >= 1 + l
      PROVE  Ends(text) # {} /\ FirstEnd(text) = <<2, blank>>
  <2>1. PICK e0 : e0 = <<2, blank>>
    OBVIOUS
  <2>2. e0[1] = 2 /\ e0[2] = blank
    BY <2>1
  <2>3. StartsAt(text, 2, blank)
    <3>1. 2 \in 1..n /\ 2 + l - 1 <= n
      BY <1>1, <1>6, BlankLineForms
    <3>2. \A j \in 1..l : 2 + j - 1 = 1 + j /\ 1 + j <= n
      BY <1>6
    <3> QED
      BY <1>1, <1>2, <3>1, <3>2, StartsAtIs
  <2>4. e0 \in Ends(text)
    <3>1. 2 \in 1..n
      BY <1>1, <1>6, BlankLineForms
    <3> QED
      BY <1>2, <2>1, <2>2, <2>3, <3>1 DEF Ends
  <2>5. PICK e : e = FirstEnd(text)
    OBVIOUS
  <2>6. e \in Ends(text) /\ \A f \in Ends(text) : e[1] <= f[1]
    <3>1. \A f \in Ends(text) : e0[1] <= f[1]
      BY <1>4, <2>2
    <3> QED
      BY <2>4, <2>5, <3>1 DEF FirstEnd
  <2>7. e[1] = 2
    <3>1. e[1] <= 2 /\ e[1] >= 2 /\ e[1] \in 1..n
      BY <1>4, <2>2, <2>4, <2>6
    <3> QED
      BY <3>1
  <2> QED
    BY <1>5, <1>6, <2>1, <2>4, <2>5, <2>6, <2>7
<1>7. ASSUME n < 1 + l, NEW e \in Ends(text) PROVE FALSE
  <2>1. PICK p \in 1..n, b \in BlankLine :
          /\ e[1] = p /\ p + Len(b) - 1 <= n
          /\ Len(b) = 2 => text[p] = Lf /\ text[p + 1] = Lf
    BY <1>2, EndIs
  <2>2. PICK m \in {2, 4} : m = Len(b)
    BY BlankLineForms
  <2>3. /\ p \in Nat /\ n \in Nat /\ p >= 2 /\ p + m - 1 <= n
        /\ (l = 2 \/ l = 4) /\ n < 1 + l /\ (m = 2 \/ m = 4)
    BY <1>2, <1>3, <1>4, <1>7, <2>1, <2>2
  <2>5. l = 4 /\ m = 2 /\ p \in {2, 3} /\ p + 1 <= n
    BY <2>3
  <2>6. text[p] = Lf /\ text[p + 1] = Lf
    BY <2>1, <2>2, <2>5
  <2>7. \A j \in 1..4 : 1 + j <= n => text[1 + j] = blank[j]
    BY <1>3, <2>5
  <2>8. blank[1] = Cr /\ blank[3] = Cr
    BY <1>1, <2>5, BlankLineForms
  <2>9. CASE p = 2
    <3>1. text[1 + 1] = blank[1] /\ 1 + 1 = 2
      BY <2>5, <2>7, <2>9
    <3> QED
      BY <2>6, <2>8, <2>9, <3>1, PieceKinds
  <2>10. CASE p = 3
    <3>1. text[1 + 3] = blank[3] /\ 1 + 3 = 3 + 1
      BY <2>5, <2>7, <2>10
    <3> QED
      BY <2>6, <2>8, <2>10, <3>1, PieceKinds
  <2> QED
    BY <2>5, <2>9, <2>10
<1> QED
  BY <1>1, <1>2, <1>6, <1>7

-----------------------------------------------------------------------------
(* The events on the wire *)

Writes(f, s, k) ==
  f = [n \in 0..k |->
         IF n = 0 THEN <<>> ELSE f[n - 1] \o <<s[n].event>> \o s[n].blank]

LEMMA TheyCanBeWritten ==
  ASSUME NEW s
  PROVE  \A k \in Nat : \E f : Writes(f, s, k)
<1> DEFINE S == {k \in Nat : \E f : Writes(f, s, k)}
<1>1. ASSUME NEW n \in Nat, \A m \in 0..n - 1 : m \in S
      PROVE  n \in S
  <2>1. CASE n = 0
    <3> DEFINE f == [i \in 0..0 |-> <<>>]
    <3>1. Writes(f, s, 0)
      BY DEF Writes
    <3> QED
      BY <2>1, <3>1
  <2>2. CASE n # 0
    <3>1. n - 1 \in 0..n - 1
      BY <2>2
    <3>2. PICK f : Writes(f, s, n - 1)
      BY <1>1, <3>1
    <3> DEFINE new == f[n - 1] \o <<s[n].event>> \o s[n].blank
               g == [i \in 0..n |-> IF i = n THEN new ELSE f[i]]
    <3> HIDE DEF new
    <3>3. /\ g[n] = new
          /\ \A i \in 0..n - 1 : g[i] = f[i]
          /\ g = [i \in 0..n |-> g[i]]
      OBVIOUS
    <3> HIDE DEF g
    <3>4. \A i \in 0..n - 1 :
            f[i] = IF i = 0 THEN <<>>
                   ELSE f[i - 1] \o <<s[i].event>> \o s[i].blank
      BY <3>2 DEF Writes
    <3>5. ASSUME NEW i \in 0..n
          PROVE  g[i] = IF i = 0 THEN <<>>
                        ELSE g[i - 1] \o <<s[i].event>> \o s[i].blank
      <4>1. CASE i = n
        BY <2>2, <3>1, <3>3, <4>1 DEF new
      <4>2. CASE i # n
        <5>1. i \in 0..n - 1 /\ (i # 0 => i - 1 \in 0..n - 1)
          BY <4>2
        <5> QED
          BY <3>3, <3>4, <5>1
      <4> QED
        BY <4>1, <4>2
    <3>6. Writes(g, s, n)
      BY <3>3, <3>5 DEF Writes
    <3> QED
      BY <3>6
  <2> QED
    BY <2>1, <2>2
<1>2. Nat \subseteq S
  <2> HIDE DEF S
  <2> QED
    BY <1>1, SetInduction
<1> QED
  BY <1>2

\* Whatever f satisfies the definition gives the pieces.
LEMMA PiecesAre ==
  ASSUME NEW s \in Seq(Served)
  PROVE  \E f : /\ Pieces(s) = f[Len(s)]
                /\ f[0] = <<>>
                /\ \A n \in 1..Len(s) :
                     f[n] = f[n - 1] \o <<s[n].event>> \o s[n].blank
<1>1. PICK k \in Nat : k = Len(s)
  OBVIOUS
<1> DEFINE f == CHOOSE f : Writes(f, s, k)
<1>2. Writes(f, s, k)
  BY TheyCanBeWritten
<1>3. Pieces(s) = f[Len(s)]
  BY <1>1 DEF Pieces, Writes
<1> HIDE DEF f
<1>4. \A n \in 0..k : f[n] = IF n = 0 THEN <<>>
                             ELSE f[n - 1] \o <<s[n].event>> \o s[n].blank
  BY <1>2 DEF Writes
<1>5. f[0] = <<>> /\ \A n \in 1..k : f[n] = f[n - 1] \o <<s[n].event>> \o s[n].blank
  <2>1. 0 \in 0..k /\ \A n \in 1..k : n \in 0..k /\ n # 0
    OBVIOUS
  <2> QED
    BY <1>4, <2>1, Zenon
<1> QED
  BY <1>1, <1>3, <1>5, Zenon

LEMMA PiecesOfNone == Pieces(<<>>) = <<>>
<1>1. PICK f : Pieces(<<>>) = f[Len(<<>>)] /\ f[0] = <<>>
  <2>1. <<>> \in Seq(Served)
    OBVIOUS
  <2> QED
    BY <2>1, PiecesAre
<1> QED
  BY <1>1

\* One more event: its text and its blank line follow.
LEMMA PiecesGrow ==
  ASSUME NEW s \in Seq(Served), NEW x \in Served
  PROVE  Pieces(Append(s, x)) = Pieces(s) \o <<x.event>> \o x.blank
<1>1. PICK k \in Nat : k = Len(s)
  OBVIOUS
<1>0. PICK l \in Nat : l = k + 1
  OBVIOUS
<1>2. PICK t : t = Append(s, x)
  OBVIOUS
<1>3. /\ t \in Seq(Served) /\ Len(t) = l /\ t[l] = x
      /\ \A n \in 1..k : t[n] = s[n]
  BY <1>0, <1>1, <1>2
<1>4. PICK f : /\ Pieces(s) = f[k]
               /\ f[0] = <<>>
               /\ \A n \in 1..k : f[n] = f[n - 1] \o <<s[n].event>> \o s[n].blank
  BY <1>1, PiecesAre
<1>5. PICK g : /\ Pieces(t) = g[l]
               /\ g[0] = <<>>
               /\ \A n \in 1..l :
                    g[n] = g[n - 1] \o <<t[n].event>> \o t[n].blank
  <2>1. PICK g : /\ Pieces(t) = g[Len(t)]
                 /\ g[0] = <<>>
                 /\ \A n \in 1..Len(t) :
                      g[n] = g[n - 1] \o <<t[n].event>> \o t[n].blank
    BY <1>3, PiecesAre
  <2> QED
    BY <1>3, <2>1, Zenon
<1> DEFINE S == {n \in Nat : n <= k => g[n] = f[n]}
<1>6. ASSUME NEW n \in Nat, \A m \in 0..n - 1 : m \in S, n <= k
      PROVE  g[n] = f[n]
  <2>1. CASE n = 0
    BY <1>4, <1>5, <2>1
  <2>2. CASE n # 0
    <3>1. n \in 1..k /\ n \in 1..l /\ n - 1 \in 0..n - 1 /\ n - 1 <= k
      BY <1>0, <1>6, <2>2
    <3>2. g[n - 1] = f[n - 1]
      BY <1>6, <3>1
    <3> QED
      BY <1>3, <1>4, <1>5, <3>1, <3>2
  <2> QED
    BY <2>1, <2>2
<1>7. Nat \subseteq S
  <2>1. \A n \in Nat : (\A m \in 0..n - 1 : m \in S) => n \in S
    BY <1>6
  <2> HIDE DEF S
  <2> QED
    BY <2>1, SetInduction
<1>8. g[k] = f[k]
  BY <1>7
<1>9. Pieces(t) = g[k] \o <<t[l].event>> \o t[l].blank
  <2>1. l \in 1..l /\ l - 1 = k
    BY <1>0
  <2>2. g[l] = g[l - 1] \o <<t[l].event>> \o t[l].blank
    BY <1>5, <2>1, Zenon
  <2> QED
    BY <1>5, <2>1, <2>2
<1> QED
  BY <1>2, <1>3, <1>4, <1>8, <1>9

\* The pieces of the first k events, and how many they are.
Wire(s, k) == Pieces(SubSeq(s, 1, k))

Off(s, k) == Len(Wire(s, k))

LEMMA WireEnds ==
  ASSUME NEW s \in Seq(Served)
  PROVE  Wire(s, 0) = <<>> /\ Wire(s, Len(s)) = Pieces(s)
<1>1. SubSeq(s, 1, 0) = <<>>
  BY SubSeqEmpty
<1>2. SubSeq(s, 1, Len(s)) = s
  BY SubSeqFull
<1> QED
  BY <1>1, <1>2, PiecesOfNone DEF Wire

LEMMA WireNext ==
  ASSUME NEW s \in Seq(Served), NEW k \in 1..Len(s)
  PROVE  Wire(s, k) = Wire(s, k - 1) \o <<s[k].event>> \o s[k].blank
<1>1. PICK t : t = SubSeq(s, 1, k - 1)
  OBVIOUS
<1>2. s[k] \in Served
  OBVIOUS
<1>3. t \in Seq(Served) /\ SubSeq(s, 1, k) = Append(t, s[k])
  <2>1. /\ t \in Seq(Served) /\ Len(t) = k - 1
        /\ \A i \in 1..k - 1 : t[i] = s[i]
    <3>1. 1 \in Int /\ k - 1 \in Int /\ \A i \in 1..k - 1 : s[i] \in Served
      OBVIOUS
    <3>2. /\ t \in Seq(Served)
          /\ Len(t) = IF 1 <= k - 1 THEN k - 1 - 1 + 1 ELSE 0
          /\ \A i \in 1..k - 1 - 1 + 1 : t[i] = s[1 + i - 1]
      BY <1>1, <3>1, SubSeqProperties
    <3> QED
      BY <3>2
  <2>2. PICK u : u = SubSeq(s, 1, k)
    OBVIOUS
  <2>3. /\ u \in Seq(Served) /\ Len(u) = k
        /\ \A i \in 1..k : u[i] = s[i]
    <3>1. 1 \in Int /\ k \in Int /\ \A i \in 1..k : s[i] \in Served
      OBVIOUS
    <3>2. /\ u \in Seq(Served)
          /\ Len(u) = IF 1 <= k THEN k - 1 + 1 ELSE 0
          /\ \A i \in 1..k - 1 + 1 : u[i] = s[1 + i - 1]
      BY <2>2, <3>1, SubSeqProperties
    <3> QED
      BY <3>2
  <2>4. PICK v : v = Append(t, s[k])
    OBVIOUS
  <2>5. /\ v \in Seq(Served) /\ Len(v) = k
        /\ \A i \in 1..k : v[i] = s[i]
    BY <1>2, <2>1, <2>4
  <2>6. u = v
    BY <2>3, <2>5, SeqEqual
  <2> QED
    BY <2>1, <2>2, <2>4, <2>6
<1> QED
  BY <1>1, <1>2, <1>3, PiecesGrow DEF Wire

\* What has been written stays as it is when more is written.
LEMMA WireStays ==
  ASSUME NEW s \in Seq(Served), NEW x \in Served, NEW k \in 0..Len(s)
  PROVE  Wire(Append(s, x), k) = Wire(s, k)
<1>1. SubSeq(Append(s, x), 1, k) = SubSeq(s, 1, k)
  <2>1. PICK t : t = Append(s, x)
    OBVIOUS
  <2>2. \A i \in 1..k : t[i] = s[i] /\ s[i] \in Served
    BY <2>1
  <2>3. PICK u : u = SubSeq(t, 1, k)
    OBVIOUS
  <2>4. PICK v : v = SubSeq(s, 1, k)
    OBVIOUS
  <2>5. 1 \in Int /\ k \in Int /\ \A i \in 1..k : t[i] \in Served
    BY <2>2
  <2>6. /\ u \in Seq(Served)
        /\ Len(u) = IF 1 <= k THEN k - 1 + 1 ELSE 0
        /\ \A i \in 1..k - 1 + 1 : u[i] = t[1 + i - 1]
    BY <2>3, <2>5, SubSeqProperties
  <2>7. /\ v \in Seq(Served)
        /\ Len(v) = IF 1 <= k THEN k - 1 + 1 ELSE 0
        /\ \A i \in 1..k - 1 + 1 : v[i] = s[1 + i - 1]
    BY <2>2, <2>4, <2>5, SubSeqProperties
  <2>8. Len(u) = k /\ Len(v) = k /\ \A i \in 1..k : u[i] = v[i]
    BY <2>2, <2>6, <2>7
  <2>9. u = v
    BY <2>6, <2>7, <2>8, SeqEqual
  <2> QED
    BY <2>1, <2>3, <2>4, <2>9
<1> QED
  BY <1>1 DEF Wire

LEMMA ServedIs ==
  ASSUME NEW x \in Served
  PROVE  /\ x.event \in Event /\ x.event \in Piece
         /\ x.blank \in BlankLine /\ x.blank \in Seq(Piece)
         /\ Len(x.blank) \in {2, 4}
<1>1. x.event \in Event /\ x.blank \in BlankLine
  BY DEF Served
<1> QED
  BY <1>1, PieceKinds, BlankLineForms

LEMMA WireStep ==
  ASSUME NEW s \in Seq(Served), NEW k \in 1..Len(s), Wire(s, k - 1) \in Seq(Piece)
  PROVE  /\ Wire(s, k) \in Seq(Piece)
         /\ Off(s, k) = Off(s, k - 1) + 1 + Len(s[k].blank)
         /\ \A i \in 1..Off(s, k - 1) : Wire(s, k)[i] = Wire(s, k - 1)[i]
         /\ Wire(s, k)[Off(s, k - 1) + 1] = s[k].event
         /\ \A j \in 1..Len(s[k].blank) :
              Wire(s, k)[Off(s, k - 1) + 1 + j] = s[k].blank[j]
<1>1. PICK u \in Seq(Piece) : u = Wire(s, k - 1)
  OBVIOUS
<1>2. s[k] \in Served
  OBVIOUS
<1>3. PICK b \in Seq(Piece) : b = s[k].blank
  BY <1>2, ServedIs
<1>4. PICK e \in Piece : e = s[k].event
  BY <1>2, ServedIs
<1>5. PICK v : v = u \o <<e>>
  OBVIOUS
<1>6. PICK w : w = v \o b
  OBVIOUS
<1>7. Wire(s, k) = w
  BY <1>1, <1>3, <1>4, <1>5, <1>6, WireNext
<1>8. <<e>> \in Seq(Piece) /\ Len(<<e>>) = 1 /\ <<e>>[1] = e
  OBVIOUS
<1>9. /\ v \in Seq(Piece) /\ Len(v) = Len(u) + 1
      /\ \A i \in 1..Len(u) : v[i] = u[i]
      /\ v[Len(u) + 1] = e
  <2>1. /\ v \in Seq(Piece) /\ Len(v) = Len(u) + Len(<<e>>)
        /\ \A i \in 1..Len(u) + Len(<<e>>) :
             v[i] = IF i <= Len(u) THEN u[i] ELSE <<e>>[i - Len(u)]
    BY <1>5, <1>8, ConcatProperties
  <2> QED
    BY <1>8, <2>1
<1>10. /\ w \in Seq(Piece) /\ Len(w) = Len(v) + Len(b)
       /\ \A i \in 1..Len(v) + Len(b) :
            w[i] = IF i <= Len(v) THEN v[i] ELSE b[i - Len(v)]
  <2>1. v \in Seq(Piece)
    BY <1>9
  <2> QED
    BY <1>6, <2>1, ConcatProperties
<1>11. /\ Len(w) = Len(u) + 1 + Len(b)
       /\ \A i \in 1..Len(u) : w[i] = u[i]
       /\ w[Len(u) + 1] = e
       /\ \A j \in 1..Len(b) : w[Len(u) + 1 + j] = b[j]
  <2>1. PICK a \in Nat : a = Len(u)
    OBVIOUS
  <2>2. PICK c \in Nat : c = Len(b)
    OBVIOUS
  <2>3. /\ Len(v) = a + 1 /\ Len(w) = a + 1 + c
        /\ \A i \in 1..a + 1 + c :
             w[i] = IF i <= a + 1 THEN v[i] ELSE b[i - (a + 1)]
    BY <1>9, <1>10, <2>1, <2>2
  <2>4. \A i \in 1..a : i \in 1..a + 1 + c /\ i <= a + 1
    OBVIOUS
  <2>5. a + 1 \in 1..a + 1 + c /\ a + 1 <= a + 1
    OBVIOUS
  <2>6. \A j \in 1..c : /\ a + 1 + j \in 1..a + 1 + c /\ ~(a + 1 + j <= a + 1)
                        /\ a + 1 + j - (a + 1) = j
    OBVIOUS
  <2>7. \A i \in 1..a : w[i] = u[i]
    BY <1>9, <2>1, <2>3, <2>4
  <2>8. w[a + 1] = e
    BY <1>9, <2>1, <2>3, <2>5
  <2>9. \A j \in 1..c : w[a + 1 + j] = b[j]
    BY <2>3, <2>6
  <2> QED
    BY <2>1, <2>2, <2>3, <2>7, <2>8, <2>9
<1> QED
  BY <1>1, <1>3, <1>4, <1>7, <1>10, <1>11 DEF Off

LEMMA WireTypes ==
  ASSUME NEW s \in Seq(Served), NEW k \in 0..Len(s)
  PROVE  Wire(s, k) \in Seq(Piece) /\ Off(s, k) \in Nat
<1> DEFINE S == {n \in Nat : n <= Len(s) => Wire(s, n) \in Seq(Piece)}
<1>1. ASSUME NEW n \in Nat, \A m \in 0..n - 1 : m \in S, n <= Len(s)
      PROVE  Wire(s, n) \in Seq(Piece)
  <2>1. CASE n = 0
    <3>1. <<>> \in Seq(Piece)
      OBVIOUS
    <3> QED
      BY <2>1, <3>1, WireEnds
  <2>2. CASE n # 0
    <3>1. n \in 1..Len(s) /\ n - 1 \in 0..n - 1 /\ n - 1 <= Len(s)
      BY <1>1, <2>2
    <3>2. Wire(s, n - 1) \in Seq(Piece)
      BY <1>1, <3>1
    <3> QED
      BY <3>1, <3>2, WireStep
  <2> QED
    BY <2>1, <2>2
<1>2. Nat \subseteq S
  <2>1. \A n \in Nat : (\A m \in 0..n - 1 : m \in S) => n \in S
    BY <1>1
  <2> HIDE DEF S
  <2> QED
    BY <2>1, SetInduction
<1>3. Wire(s, k) \in Seq(Piece)
  BY <1>2
<1> QED
  BY <1>3 DEF Off

LEMMA WireBefore ==
  ASSUME NEW s \in Seq(Served), NEW k \in 0..Len(s), NEW m \in k..Len(s)
  PROVE  /\ Off(s, k) + (m - k) <= Off(s, m)
         /\ \A i \in 1..Off(s, k) : Wire(s, m)[i] = Wire(s, k)[i]
<1> DEFINE Holds(n) == /\ Off(s, k) + (n - k) <= Off(s, n)
                       /\ \A i \in 1..Off(s, k) : Wire(s, n)[i] = Wire(s, k)[i]
           S == {n \in Nat : n \in k..Len(s) => Holds(n)}
<1>1. ASSUME NEW n \in Nat, \A p \in 0..n - 1 : p \in S, n \in k..Len(s)
      PROVE  Holds(n)
  <2>1. CASE n = k
    <3>1. Off(s, k) \in Nat
      BY WireTypes
    <3> QED
      BY <2>1, <3>1
  <2>2. CASE n # k
    <3>1. /\ n \in 1..Len(s) /\ n - 1 \in 0..n - 1 /\ n - 1 \in k..Len(s)
          /\ n - 1 \in 0..Len(s)
      BY <1>1, <2>2
    <3>2. Holds(n - 1)
      BY <1>1, <3>1
    <3>3. PICK a \in Nat : a = Off(s, n - 1)
      BY <3>1, WireTypes
    <3>4. PICK c \in Nat : c = Off(s, n)
      BY <3>1, WireTypes
    <3>5. PICK z \in Nat : z = Off(s, k)
      BY WireTypes
    <3>6. /\ c = a + 1 + Len(s[n].blank)
          /\ \A i \in 1..a : Wire(s, n)[i] = Wire(s, n - 1)[i]
      BY <3>1, <3>3, <3>4, WireTypes, WireStep
    <3>7. PICK b \in {2, 4} : b = Len(s[n].blank)
      BY <3>1, ServedIs
    <3>8. z + (n - 1 - k) <= a /\ \A i \in 1..z : Wire(s, n - 1)[i] = Wire(s, k)[i]
      BY <3>2, <3>3, <3>5
    <3>9. z + (n - k) <= c /\ z <= a
      <4>1. c = a + 1 + b
        BY <3>6, <3>7
      <4>2. k \in Nat /\ n \in Nat /\ b \in Nat /\ b > 0 /\ n - 1 >= k
        BY <3>1
      <4> QED
        BY <3>8, <4>1, <4>2
    <3>10. \A i \in 1..z : Wire(s, n)[i] = Wire(s, k)[i]
      BY <3>6, <3>8, <3>9
    <3> QED
      BY <3>4, <3>5, <3>9, <3>10
  <2> QED
    BY <2>1, <2>2
<1>2. Nat \subseteq S
  <2>1. \A n \in Nat : (\A p \in 0..n - 1 : p \in S) => n \in S
    BY <1>1
  <2> HIDE DEF S
  <2> QED
    BY <2>1, SetInduction
<1>3. m \in Nat /\ m \in S
  BY <1>2
<1> QED
  BY <1>3

\* Where an event and its blank line are in what the server writes.
LEMMA WireShows ==
  ASSUME NEW s \in Seq(Served), NEW k \in 1..Len(s)
  PROVE  /\ Off(s, k) = Off(s, k - 1) + 1 + Len(s[k].blank)
         /\ Off(s, k) <= Len(Pieces(s)) /\ Off(s, k - 1) \in Nat
         /\ Pieces(s)[Off(s, k - 1) + 1] = s[k].event
         /\ \A j \in 1..Len(s[k].blank) :
              Pieces(s)[Off(s, k - 1) + 1 + j] = s[k].blank[j]
<1>1. PICK a \in Nat : a = Off(s, k - 1)
  BY WireTypes
<1>2. PICK b \in {2, 4} : b = Len(s[k].blank)
  BY ServedIs
<1>3. /\ Off(s, k) = a + 1 + b
      /\ Wire(s, k)[a + 1] = s[k].event
      /\ \A j \in 1..b : Wire(s, k)[a + 1 + j] = s[k].blank[j]
  <2>1. Wire(s, k - 1) \in Seq(Piece)
    BY WireTypes
  <2>2. /\ Off(s, k) = Off(s, k - 1) + 1 + Len(s[k].blank)
        /\ Wire(s, k)[Off(s, k - 1) + 1] = s[k].event
        /\ \A j \in 1..Len(s[k].blank) :
             Wire(s, k)[Off(s, k - 1) + 1 + j] = s[k].blank[j]
    BY <2>1, WireStep
  <2> QED
    BY <1>1, <1>2, <2>2
<1>4. PICK w : w = Pieces(s)
  OBVIOUS
<1>5. Len(s) \in k..Len(s) /\ Wire(s, Len(s)) = w /\ Off(s, Len(s)) = Len(w)
  BY <1>4, WireEnds DEF Off
<1>6. /\ a + 1 + b + (Len(s) - k) <= Len(w)
      /\ \A i \in 1..a + 1 + b : w[i] = Wire(s, k)[i]
  <2>1. /\ Off(s, k) + (Len(s) - k) <= Off(s, Len(s))
        /\ \A i \in 1..Off(s, k) : Wire(s, Len(s))[i] = Wire(s, k)[i]
    BY <1>5, WireBefore
  <2> QED
    BY <1>3, <1>5, <2>1
<1>7. a + 1 + b <= Len(w)
  <2>1. Len(w) \in Nat
    BY <1>5, WireTypes
  <2> QED
    BY <1>6, <2>1
<1>8. a + 1 \in 1..a + 1 + b /\ \A j \in 1..b : a + 1 + j \in 1..a + 1 + b
  OBVIOUS
<1>9. w[a + 1] = s[k].event /\ \A j \in 1..b : w[a + 1 + j] = s[k].blank[j]
  BY <1>3, <1>6, <1>8
<1> QED
  BY <1>1, <1>2, <1>3, <1>4, <1>7, <1>9

-----------------------------------------------------------------------------
(* One round of the parser *)

\* text is the pieces of w behind a, up to n.
Spans(text, w, a, n) ==
  /\ text \in Seq(Piece) /\ Len(text) = n - a
  /\ \A j \in 1..n - a : text[j] = w[a + j]

LEMMA DataOfEvent ==
  ASSUME NEW ev \in Event
  PROVE  Data(<<ev>>) = <<ev>>
<1>1. PICK t : t = <<ev>>
  OBVIOUS
<1>2. DOMAIN t = {1} /\ t[1] = ev
  BY <1>1
<1> DEFINE lines == {i \in DOMAIN t : t[i] \in Event}
<1>3. lines = {1}
  BY <1>2
<1>4. (CHOOSE i \in lines : TRUE) = 1
  BY <1>3
<1>5. Data(t) = IF lines = {} THEN <<>> ELSE <<t[CHOOSE i \in lines : TRUE]>>
  BY DEF Data
<1> HIDE DEF lines
<1>6. Data(t) = <<ev>>
  BY <1>2, <1>3, <1>4, <1>5
<1> QED
  BY <1>1, <1>6

\* What a text begins with that spans the pieces behind the first k events.
LEMMA BeginsWithEvent ==
  ASSUME NEW s \in Seq(Served), NEW k \in 0..Len(s) - 1, NEW n \in Nat, NEW text,
         Off(s, k) <= n, Spans(text, Pieces(s), Off(s, k), n)
  PROVE  /\ Len(text) > 0 => text[1] = s[k + 1].event
         /\ \A j \in 1..Len(s[k + 1].blank) :
              1 + j <= Len(text) => text[1 + j] = s[k + 1].blank[j]
<1>1. PICK l \in 1..Len(s) : l = k + 1
  OBVIOUS
<1>2. l - 1 = k
  BY <1>1
<1>3. PICK a \in Nat : a = Off(s, k)
  BY WireTypes
<1>4. PICK b \in {2, 4} : b = Len(s[l].blank)
  BY ServedIs
<1>5. PICK w : w = Pieces(s)
  OBVIOUS
<1>6. w[a + 1] = s[l].event /\ \A j \in 1..b : w[a + 1 + j] = s[l].blank[j]
  BY <1>2, <1>3, <1>4, <1>5, WireShows
<1>7. Len(text) = n - a /\ \A j \in 1..n - a : text[j] = w[a + j]
  BY <1>3, <1>5 DEF Spans
<1>8. Len(text) > 0 => text[1] = s[l].event
  BY <1>3, <1>6, <1>7
<1>9. ASSUME NEW j \in 1..b, 1 + j <= Len(text)
      PROVE  text[1 + j] = s[l].blank[j]
  <2>1. 1 + j \in 1..n - a /\ a + (1 + j) = a + 1 + j
    BY <1>3, <1>7, <1>9
  <2> QED
    BY <1>6, <1>7, <2>1
<1> QED
  BY <1>1, <1>4, <1>8, <1>9

\* Nothing is found while the next event has not arrived whole.
LEMMA NothingToRead ==
  ASSUME NEW s \in Seq(Served), NEW k \in 0..Len(s), NEW n \in 0..Len(Pieces(s)),
         NEW text, Off(s, k) <= n, Spans(text, Pieces(s), Off(s, k), n),
         k < Len(s) => n < Off(s, k + 1)
  PROVE  Ends(text) = {}
<1>1. Len(Pieces(s)) \in Nat
  <2>1. Len(s) \in 0..Len(s)
    OBVIOUS
  <2>2. Off(s, Len(s)) \in Nat
    BY <2>1, WireTypes
  <2> QED
    BY <2>2, WireEnds DEF Off
<1>2. PICK a \in Nat : a = Off(s, k)
  BY WireTypes
<1>3. text \in Seq(Piece) /\ Len(text) = n - a
  BY <1>2 DEF Spans
<1>4. CASE k = Len(s)
  <2>1. a = Len(Pieces(s))
    BY <1>2, <1>4, WireEnds DEF Off
  <2>2. Len(text) = 0
    BY <1>1, <1>2, <1>3, <2>1
  <2> QED
    BY <2>2 DEF Ends
<1>5. CASE k # Len(s)
  <2>1. PICK l \in 1..Len(s) : l = k + 1
    BY <1>5
  <2>2. k \in 0..Len(s) - 1 /\ l - 1 = k /\ n \in Nat
    BY <1>1, <1>5, <2>1
  <2>3. s[l] \in Served
    OBVIOUS
  <2>4. PICK ev \in Event : ev = s[l].event
    BY <2>3, ServedIs
  <2>5. PICK b \in BlankLine : b = s[l].blank
    BY <2>3, ServedIs
  <2>6. /\ Len(text) > 0 => text[1] = ev
        /\ \A j \in 1..Len(b) : 1 + j <= Len(text) => text[1 + j] = b[j]
    BY <2>1, <2>2, <2>4, <2>5, BeginsWithEvent
  <2>7. PICK m \in {2, 4} : m = Len(b)
    BY BlankLineForms
  <2>8. Off(s, l) = a + 1 + m
    BY <1>2, <2>2, <2>5, <2>7, WireShows
  <2>9. n < a + 1 + m
    BY <1>5, <2>1, <2>2, <2>8
  <2>10. Len(text) < 1 + Len(b)
    BY <1>1, <1>2, <1>3, <2>7, <2>9
  <2> QED
    BY <1>3, <2>6, <2>10, EndsOfText
<1> QED
  BY <1>4, <1>5

\* An event that has arrived whole is found and taken out.
LEMMA SomethingToRead ==
  ASSUME NEW s \in Seq(Served), NEW l \in 1..Len(s), NEW n \in Nat, NEW text,
         Off(s, l) <= n, Spans(text, Pieces(s), Off(s, l - 1), n)
  PROVE  /\ Ends(text) # {} /\ FirstEnd(text) = <<2, s[l].blank>>
         /\ Data(SubSeq(text, 1, 1)) = <<s[l].event>>
         /\ Spans(SubSeq(text, 2 + Len(s[l].blank), Len(text)),
                  Pieces(s), Off(s, l), n)
<1>1. PICK k \in 0..Len(s) - 1 : k = l - 1
  OBVIOUS
<1>2. k + 1 = l /\ k \in 0..Len(s)
  BY <1>1
<1>3. PICK a \in Nat : a = Off(s, k)
  BY <1>2, WireTypes
<1>4. s[l] \in Served
  OBVIOUS
<1>5. PICK ev \in Event : ev = s[l].event
  BY <1>4, ServedIs
<1>6. PICK b \in BlankLine : b = s[l].blank
  BY <1>4, ServedIs
<1>7. PICK m \in {2, 4} : m = Len(b)
  BY BlankLineForms
<1>8. PICK w : w = Pieces(s)
  OBVIOUS
<1>9. Off(s, l) = a + 1 + m
  BY <1>1, <1>3, <1>6, <1>7, WireShows
<1>10. /\ text \in Seq(Piece) /\ Len(text) = n - a /\ a + 1 + m <= n
       /\ \A j \in 1..n - a : text[j] = w[a + j]
  BY <1>1, <1>3, <1>8, <1>9 DEF Spans
<1>11. /\ Len(text) > 0 => text[1] = ev
       /\ \A j \in 1..Len(b) : 1 + j <= Len(text) => text[1 + j] = b[j]
  <2>1. Off(s, k) <= n /\ Spans(text, Pieces(s), Off(s, k), n)
    BY <1>1, <1>3, <1>10
  <2> QED
    BY <1>2, <1>5, <1>6, <2>1, BeginsWithEvent
<1>12. Ends(text) # {} /\ FirstEnd(text) = <<2, b>>
  <2>1. Len(text) >= 1 + Len(b)
    BY <1>7, <1>10
  <2> QED
    BY <1>10, <1>11, <2>1, EndsOfText
<1>13. SubSeq(text, 1, 1) = <<ev>>
  <2>1. Len(text) > 0
    BY <1>10
  <2>2. PICK t : t = SubSeq(text, 1, 1)
    OBVIOUS
  <2>3. 1 \in Int /\ \A i \in 1..1 : text[i] \in Piece
    BY <1>10, <2>1
  <2>4. /\ t \in Seq(Piece)
        /\ Len(t) = IF 1 <= 1 THEN 1 - 1 + 1 ELSE 0
        /\ \A i \in 1..1 - 1 + 1 : t[i] = text[1 + i - 1]
    BY <2>2, <2>3, SubSeqProperties
  <2>5. t \in Seq(Piece) /\ Len(t) = 1 /\ t[1] = ev
    BY <1>11, <2>1, <2>4
  <2>6. PICK u : u = <<ev>>
    OBVIOUS
  <2>7. u \in Seq(Piece) /\ Len(u) = 1 /\ u[1] = ev
    BY <2>6, PieceKinds
  <2>8. t = u
    BY <2>5, <2>7, SeqEqual
  <2> QED
    BY <2>2, <2>6, <2>8
<1>14. Spans(SubSeq(text, 2 + m, Len(text)), w, a + 1 + m, n)
  <2>1. PICK t : t = SubSeq(text, 2 + m, Len(text))
    OBVIOUS
  <2>2. PICK z \in Nat : z = Len(text)
    BY <1>10
  <2>3. 2 + m \in Int /\ z \in Int /\ \A i \in 2 + m..z : text[i] \in Piece
    BY <1>10, <2>2
  <2>4. /\ t \in Seq(Piece)
        /\ Len(t) = IF 2 + m <= z THEN z - (2 + m) + 1 ELSE 0
        /\ \A i \in 1..z - (2 + m) + 1 : t[i] = text[2 + m + i - 1]
    BY <2>1, <2>2, <2>3, SubSeqProperties
  <2>5. z = n - a /\ a + 1 + m <= n
    BY <1>10, <2>2
  <2>6. Len(t) = n - (a + 1 + m)
    BY <2>4, <2>5
  <2>7. ASSUME NEW j \in 1..n - (a + 1 + m)
        PROVE  t[j] = w[a + 1 + m + j]
    <3>1. /\ j \in 1..z - (2 + m) + 1 /\ 2 + m + j - 1 \in 1..n - a
          /\ a + (2 + m + j - 1) = a + 1 + m + j
      BY <2>5
    <3> QED
      BY <1>10, <2>4, <3>1
  <2> QED
    BY <2>1, <2>4, <2>6, <2>7 DEF Spans
<1> QED
  BY <1>5, <1>6, <1>7, <1>8, <1>9, <1>12, <1>13, <1>14, DataOfEvent

-----------------------------------------------------------------------------
(* The parser *)

Unread(text) == [events |-> <<>>, rest |-> text, done |-> FALSE]

Reads(f, text, k) ==
  f = [n \in 0..k |-> IF n = 0 THEN Unread(text) ELSE ReadEvent(f[n - 1])]

LEMMA ItCanBeRead ==
  ASSUME NEW text
  PROVE  \A k \in Nat : \E f : Reads(f, text, k)
<1> DEFINE S == {k \in Nat : \E f : Reads(f, text, k)}
<1>1. ASSUME NEW n \in Nat, \A m \in 0..n - 1 : m \in S
      PROVE  n \in S
  <2>1. CASE n = 0
    <3> DEFINE f == [i \in 0..0 |-> Unread(text)]
    <3>1. Reads(f, text, 0)
      BY DEF Reads
    <3> QED
      BY <2>1, <3>1
  <2>2. CASE n # 0
    <3>1. n - 1 \in 0..n - 1
      BY <2>2
    <3>2. PICK f : Reads(f, text, n - 1)
      BY <1>1, <3>1
    <3> DEFINE g == [i \in 0..n |-> IF i = n THEN ReadEvent(f[n - 1]) ELSE f[i]]
    <3>3. /\ g[n] = ReadEvent(f[n - 1])
          /\ \A i \in 0..n - 1 : g[i] = f[i]
          /\ g = [i \in 0..n |-> g[i]]
      OBVIOUS
    <3> HIDE DEF g
    <3>4. \A i \in 0..n - 1 :
            f[i] = IF i = 0 THEN Unread(text) ELSE ReadEvent(f[i - 1])
      BY <3>2 DEF Reads
    <3>5. ASSUME NEW i \in 0..n
          PROVE  g[i] = IF i = 0 THEN Unread(text) ELSE ReadEvent(g[i - 1])
      <4>1. CASE i = n
        BY <2>2, <3>1, <3>3, <4>1
      <4>2. CASE i # n
        <5>1. i \in 0..n - 1 /\ (i # 0 => i - 1 \in 0..n - 1)
          BY <4>2
        <5> QED
          BY <3>3, <3>4, <5>1
      <4> QED
        BY <4>1, <4>2
    <3>6. Reads(g, text, n)
      BY <3>3, <3>5 DEF Reads
    <3> QED
      BY <3>6
  <2> QED
    BY <2>1, <2>2
<1>2. Nat \subseteq S
  <2> HIDE DEF S
  <2> QED
    BY <1>1, SetInduction
<1> QED
  BY <1>2

LEMMA ParsedIs ==
  ASSUME NEW text, NEW k \in Nat, k = Len(text)
  PROVE  \E f : /\ Parsed(text) = f[k] /\ f[0] = Unread(text)
                /\ \A n \in 1..k : f[n] = ReadEvent(f[n - 1])
<1> DEFINE f == CHOOSE f : Reads(f, text, k)
<1>1. Reads(f, text, k)
  BY ItCanBeRead
<1>2. Parsed(text) = f[k]
  BY DEF Parsed, Reads, Unread
<1> HIDE DEF f
<1>3. \A n \in 0..k : f[n] = IF n = 0 THEN Unread(text) ELSE ReadEvent(f[n - 1])
  BY <1>1 DEF Reads
<1>4. f[0] = Unread(text) /\ \A n \in 1..k : f[n] = ReadEvent(f[n - 1])
  <2>1. 0 \in 0..k /\ \A n \in 1..k : n \in 0..k /\ n # 0
    OBVIOUS
  <2> QED
    BY <1>3, <2>1, Zenon
<1> QED
  BY <1>2, <1>4, Zenon

\* events are those behind the first d, up to the e-th, and no [DONE] is among
\* them.
Brings(events, s, d, e) ==
  /\ events \in Seq(Event) /\ Len(events) = e - d
  /\ \A i \in 1..e - d :
       events[i] = s[d + i].event /\ s[d + i].event.type # "done"

\* What a parser has read that began behind the first d events and was given
\* the pieces up to n.
HasRead(r, s, d, e, n) ==
  /\ e \in d..Len(s) /\ Off(s, e) <= n
  /\ Brings(r.events, s, d, e)
  /\ r.done \in BOOLEAN
  /\ ~r.done => Spans(r.rest, Pieces(s), Off(s, e), n)
  /\ r.done => /\ e < Len(s) /\ s[e + 1].event.type = "done"
               /\ Off(s, e + 1) <= n
               /\ Spans(r.rest, Pieces(s), Off(s, e + 1), n)

LEMMA BringsOneMore ==
  ASSUME NEW s \in Seq(Served), NEW d \in 0..Len(s), NEW e \in d..Len(s) - 1,
         NEW events, Brings(events, s, d, e), s[e + 1].event.type # "done"
  PROVE  Brings(events \o <<s[e + 1].event>>, s, d, e + 1)
<1>1. PICK l \in 1..Len(s) : l = e + 1
  OBVIOUS
<1>2. s[l] \in Served
  OBVIOUS
<1>3. PICK ev \in Event : ev = s[l].event
  BY <1>2, ServedIs
<1>4. PICK more : more = events \o <<ev>>
  OBVIOUS
<1>5. PICK m \in Nat : m = e - d
  OBVIOUS
<1>6. /\ events \in Seq(Event) /\ Len(events) = m
      /\ \A i \in 1..m : events[i] = s[d + i].event /\ s[d + i].event.type # "done"
  BY <1>5 DEF Brings
<1>7. /\ more \in Seq(Event) /\ Len(more) = m + 1
      /\ \A i \in 1..m : more[i] = events[i]
      /\ more[m + 1] = ev
  <2>1. <<ev>> \in Seq(Event) /\ Len(<<ev>>) = 1 /\ <<ev>>[1] = ev
    OBVIOUS
  <2>2. events \in Seq(Event)
    BY <1>6
  <2>3. /\ more \in Seq(Event) /\ Len(more) = Len(events) + Len(<<ev>>)
        /\ \A i \in 1..Len(events) + Len(<<ev>>) :
             more[i] = IF i <= Len(events) THEN events[i]
                       ELSE <<ev>>[i - Len(events)]
    BY <1>4, <2>1, <2>2, ConcatProperties
  <2> QED
    BY <1>6, <2>1, <2>3
<1>8. l - d = m + 1 /\ d + (m + 1) = l
  BY <1>1, <1>5
<1>9. ASSUME NEW i \in 1..m + 1
      PROVE  more[i] = s[d + i].event /\ s[d + i].event.type # "done"
  <2>1. CASE i = m + 1
    BY <1>1, <1>3, <1>7, <1>8, <2>1
  <2>2. CASE i # m + 1
    <3>1. i \in 1..m
      BY <2>2
    <3> QED
      BY <1>6, <1>7, <3>1
  <2> QED
    BY <2>1, <2>2
<1>10. Brings(more, s, d, l)
  BY <1>7, <1>8, <1>9 DEF Brings
<1> QED
  BY <1>1, <1>3, <1>4, <1>10

\* A round of the loop leaves what it was given, or takes the next event.
LEMMA RoundReads ==
  ASSUME NEW s \in Seq(Served), NEW d \in 0..Len(s), NEW n \in 0..Len(Pieces(s)),
         NEW r, NEW e, HasRead(r, s, d, e, n)
  PROVE  \/ r.done /\ ReadEvent(r) = r
         \/ Ends(r.rest) = {} /\ ReadEvent(r) = r
         \/ HasRead(ReadEvent(r), s, d, e, n) /\ ReadEvent(r).done
         \/ HasRead(ReadEvent(r), s, d, e + 1, n) /\ ~ReadEvent(r).done
<1>1. SUFFICES ASSUME ~r.done, Ends(r.rest) # {}
               PROVE  \/ HasRead(ReadEvent(r), s, d, e, n) /\ ReadEvent(r).done
                      \/ HasRead(ReadEvent(r), s, d, e + 1, n) /\ ~ReadEvent(r).done
  BY Zenon DEF ReadEvent
<1>2. /\ e \in d..Len(s) /\ e \in 0..Len(s) /\ Off(s, e) <= n
      /\ Brings(r.events, s, d, e)
      /\ Spans(r.rest, Pieces(s), Off(s, e), n)
  BY <1>1 DEF HasRead
<1>3. e < Len(s) /\ ~(n < Off(s, e + 1))
  <2>1. ASSUME e < Len(s) => n < Off(s, e + 1) PROVE FALSE
    BY <1>1, <1>2, <2>1, NothingToRead
  <2> QED
    BY <2>1
<1>4. PICK l \in 1..Len(s) : l = e + 1
  BY <1>2, <1>3
<1>5. l - 1 = e /\ n \in Nat /\ l \in 0..Len(s) /\ e \in d..Len(s) - 1
  BY <1>2, <1>3, <1>4
<1>6. Off(s, l) <= n
  <2>1. Off(s, l) \in Nat
    BY <1>5, WireTypes
  <2> QED
    BY <1>3, <1>4, <1>5, <2>1
<1>7. s[l] \in Served
  OBVIOUS
<1>8. PICK ev \in Event : ev = s[l].event
  BY <1>7, ServedIs
<1>9. PICK b \in BlankLine : b = s[l].blank
  BY <1>7, ServedIs
<1>10. PICK end : end = FirstEnd(r.rest)
  OBVIOUS
<1>11. PICK left : left = SubSeq(r.rest, 2 + Len(b), Len(r.rest))
  OBVIOUS
<1>12. /\ end = <<2, b>> /\ Data(SubSeq(r.rest, 1, 1)) = <<ev>>
       /\ Spans(left, Pieces(s), Off(s, l), n)
  BY <1>2, <1>5, <1>6, <1>8, <1>9, <1>10, <1>11, SomethingToRead
<1>13. end[1] = 2 /\ end[2] = b /\ end[1] - 1 = 1
  BY <1>12
<1>14. PICK data : data = <<ev>>
  OBVIOUS
<1>15. data # <<>> /\ data[1] = ev
  BY <1>14
<1>16. ReadEvent(r) =
         [events |-> IF ev.type = "done" THEN r.events ELSE r.events \o <<ev>>,
          rest |-> left, done |-> ev.type = "done"]
  <2>1. Data(SubSeq(r.rest, 1, end[1] - 1)) = data
    BY <1>12, <1>13, <1>14
  <2>2. SubSeq(r.rest, end[1] + Len(end[2]), Len(r.rest)) = left
    BY <1>11, <1>13
  <2>3. ReadEvent(r) =
          LET over == data # <<>> /\ data[1].type = "done"
          IN  [events |-> IF over THEN r.events ELSE r.events \o data,
               rest |-> left, done |-> over]
    BY <1>1, <1>10, <2>1, <2>2, Zenon DEF ReadEvent
  <2> QED
    BY <1>14, <1>15, <2>3
<1>17. PICK q : q = ReadEvent(r)
  OBVIOUS
<1>18. CASE ev.type = "done"
  <2>1. q.events = r.events /\ q.rest = left /\ q.done = TRUE
    <3>1. q = [events |-> r.events, rest |-> left, done |-> TRUE]
      BY <1>16, <1>17, <1>18
    <3> QED
      BY <3>1, Zenon
  <2>2. e < Len(s) /\ s[e + 1].event.type = "done"
    BY <1>3, <1>4, <1>8, <1>18
  <2>3. Off(s, e + 1) <= n /\ Spans(q.rest, Pieces(s), Off(s, e + 1), n)
    BY <1>4, <1>6, <1>12, <2>1
  <2>4. HasRead(q, s, d, e, n)
    BY <1>2, <2>1, <2>2, <2>3 DEF HasRead
  <2> QED
    BY <1>17, <2>1, <2>4
<1>19. CASE ev.type # "done"
  <2>1. q.events = r.events \o <<ev>> /\ q.rest = left /\ q.done = FALSE
    <3>1. q = [events |-> r.events \o <<ev>>, rest |-> left, done |-> FALSE]
      BY <1>16, <1>17, <1>19
    <3> QED
      BY <3>1, Zenon
  <2>2. Brings(q.events, s, d, l)
    BY <1>2, <1>4, <1>5, <1>8, <1>19, <2>1, BringsOneMore
  <2>3. l \in d..Len(s)
    BY <1>4, <1>5
  <2>4. HasRead(q, s, d, l, n)
    BY <1>6, <1>12, <2>1, <2>2, <2>3 DEF HasRead
  <2> QED
    BY <1>4, <1>17, <2>1, <2>4
<1> QED
  BY <1>18, <1>19

\* What is parsed are the events that have arrived whole, up to [DONE].
LEMMA ParserReads ==
  ASSUME NEW s \in Seq(Served), NEW d \in 0..Len(s), NEW n \in 0..Len(Pieces(s)),
         NEW text, Off(s, d) <= n, Spans(text, Pieces(s), Off(s, d), n)
  PROVE  \E e : /\ HasRead(Parsed(text), s, d, e, n)
                /\ ~Parsed(text).done /\ e < Len(s) => n < Off(s, e + 1)
<1>1. PICK a \in Nat : a = Off(s, d)
  BY WireTypes
<1>0. n \in Nat
  <2>1. Len(s) \in 0..Len(s)
    OBVIOUS
  <2>2. Off(s, Len(s)) \in Nat
    BY <2>1, WireTypes
  <2> QED
    BY <2>2, WireEnds DEF Off
<1>2. PICK k \in Nat : k = n - a
  BY <1>0, <1>1
<1>3. Len(text) = k /\ text \in Seq(Piece)
  BY <1>1, <1>2 DEF Spans
<1>4. PICK f : /\ Parsed(text) = f[k] /\ f[0] = Unread(text)
               /\ \A m \in 1..k : f[m] = ReadEvent(f[m - 1])
  BY <1>3, ParsedIs
<1> DEFINE Read(m) ==
             \E e : /\ HasRead(f[m], s, d, e, n)
                    /\ e = d + m \/ f[m].done \/ Ends(f[m].rest) = {}
           S == {m \in Nat : m <= k => Read(m)}
<1>5. Read(0)
  <2>1. PICK none : none = <<>>
    OBVIOUS
  <2>2. PICK u : u = Unread(text)
    OBVIOUS
  <2>3. u.events = none /\ u.rest = text /\ u.done = FALSE
    BY <2>1, <2>2, Zenon DEF Unread
  <2>4. none \in Seq(Event) /\ Len(none) = 0
    BY <2>1
  <2>5. Brings(none, s, d, d)
    BY <2>4 DEF Brings
  <2>6. d \in d..Len(s) /\ d = d + 0
    OBVIOUS
  <2>7. HasRead(u, s, d, d, n)
    BY <2>3, <2>5, <2>6 DEF HasRead
  <2> QED
    BY <1>4, <2>2, <2>6, <2>7
<1>6. ASSUME NEW m \in Nat, \A j \in 0..m - 1 : j \in S, m <= k
      PROVE  Read(m)
  <2>1. CASE m = 0
    BY <1>5, <2>1
  <2>2. CASE m # 0
    <3>1. m \in 1..k /\ m - 1 \in 0..m - 1 /\ m - 1 <= k
      BY <1>6, <2>2
    <3>2. PICK r : r = f[m - 1]
      OBVIOUS
    <3>3. PICK e : /\ HasRead(r, s, d, e, n)
                   /\ e = d + (m - 1) \/ r.done \/ Ends(r.rest) = {}
      BY <1>6, <3>1, <3>2
    <3>4. PICK q : q = f[m]
      OBVIOUS
    <3>5. q = ReadEvent(r)
      BY <1>4, <3>1, <3>2, <3>4
    <3>6. \/ r.done /\ q = r
          \/ Ends(r.rest) = {} /\ q = r
          \/ HasRead(q, s, d, e, n) /\ q.done
          \/ HasRead(q, s, d, e + 1, n) /\ ~q.done
      BY <3>3, <3>5, RoundReads
    <3>7. CASE (r.done \/ Ends(r.rest) = {}) /\ q = r
      BY <3>3, <3>4, <3>7
    <3>8. CASE HasRead(q, s, d, e, n) /\ q.done
      BY <3>4, <3>8
    <3>9. CASE ~r.done /\ Ends(r.rest) # {} /\ HasRead(q, s, d, e + 1, n)
      <4>1. e + 1 = d + m
        BY <3>3, <3>9
      <4> QED
        BY <3>4, <3>9, <4>1
    <3>10. CASE r.done /\ q # r
      <4>1. ReadEvent(r) = r
        BY <3>10, Zenon DEF ReadEvent
      <4> QED
        BY <3>5, <3>10, <4>1
    <3>11. CASE Ends(r.rest) = {} /\ q # r
      <4>1. ReadEvent(r) = r
        BY <3>11, Zenon DEF ReadEvent
      <4> QED
        BY <3>5, <3>11, <4>1
    <3> QED
      BY <3>6, <3>7, <3>8, <3>9, <3>10, <3>11
  <2> QED
    BY <2>1, <2>2
<1>7. Nat \subseteq S
  <2>1. \A m \in Nat : (\A j \in 0..m - 1 : j \in S) => m \in S
    BY <1>6
  <2> HIDE DEF S
  <2> QED
    BY <2>1, SetInduction
<1>8. PICK p : p = Parsed(text)
  OBVIOUS
<1>9. PICK e : /\ HasRead(p, s, d, e, n)
               /\ e = d + k \/ p.done \/ Ends(p.rest) = {}
  <2>1. Read(k)
    <3> HIDE DEF Read
    <3>1. k \in S /\ k <= k
      BY <1>7
    <3> QED
      BY <3>1
  <2> QED
    BY <1>4, <1>8, <2>1, Zenon
<1>10. ASSUME ~p.done, e < Len(s), ~(n < Off(s, e + 1)) PROVE FALSE
  <2>1. e \in d..Len(s) /\ Spans(p.rest, Pieces(s), Off(s, e), n)
    BY <1>9, <1>10 DEF HasRead
  <2>2. PICK l \in 1..Len(s) : l = e + 1
    BY <1>10, <2>1
  <2>3. l - 1 = e /\ l \in 0..Len(s) /\ l \in d..Len(s)
    BY <2>1, <2>2
  <2>4. PICK c \in Nat : c = Off(s, l)
    BY <2>3, WireTypes
  <2>5. c <= n
    BY <1>0, <1>10, <2>2, <2>4
  <2>6. Ends(p.rest) # {}
    BY <1>0, <2>1, <2>3, <2>4, <2>5, SomethingToRead
  <2>7. e = d + k
    BY <1>9, <1>10, <2>6
  <2>8. a + (l - d) <= c
    BY <1>1, <2>3, <2>4, WireBefore
  <2> QED
    BY <1>0, <1>2, <2>2, <2>5, <2>7, <2>8
<1> QED
  BY <1>8, <1>9, <1>10

-----------------------------------------------------------------------------
(* The reply made of the first events *)

Texts(s, m) == {k \in 1..m : s[k].event.type = "text"}

Frags(s, m, i) ==
  {k \in 1..m : s[k].event.type = "call" /\ s[k].event.index = i}

Calls(s, m) == {i \in Indices : Frags(s, m, i) # {}}

Count(l) == [n \in 1..l |-> n]

\* All that a reply is that was made of the first m events without an error.
MadeOf(s, m) ==
  [content |-> Cardinality(Texts(s, m)),
   calls |-> [i \in Calls(s, m) |-> Count(Cardinality(Frags(s, m, i)) - 1)],
   failed |-> FALSE]

WithinLimits(s, m) ==
  /\ \A k \in 1..m : s[k].event.type \notin {"error", "broken"}
  /\ Cardinality(Calls(s, m)) <= MaxToolCalls
  /\ \A i \in Calls(s, m) : Cardinality(Frags(s, m, i)) - 1 <= MaxArguments

\* The server sends the fragments of a call in order.
Ordered(s) ==
  \A k \in 1..Len(s) :
    s[k].event.type = "call" =>
      /\ s[k].event.index \in Indices
      /\ s[k].event.part = Cardinality(Frags(s, k - 1, s[k].event.index))

LEMMA CountIs ==
  ASSUME NEW l \in Nat
  PROVE  /\ Count(l) \in Seq(Nat) /\ Len(Count(l)) = l
         /\ Append(Count(l), l + 1) = Count(l + 1)
         /\ Count(0) = <<>>
<1>1. PICK c : c = Count(l)
  OBVIOUS
<1>2. c \in [1..l -> Nat] /\ \A n \in 1..l : c[n] = n
  BY <1>1 DEF Count
<1>3. c \in Seq(Nat) /\ Len(c) = l
  BY <1>2
<1>4. PICK g : g = Count(l + 1)
  OBVIOUS
<1>5. g \in [1..l + 1 -> Nat] /\ \A n \in 1..l + 1 : g[n] = n
  BY <1>4 DEF Count
<1>6. g \in Seq(Nat) /\ Len(g) = l + 1
  BY <1>5
<1>7. PICK a : a = Append(c, l + 1)
  OBVIOUS
<1>8. /\ a \in Seq(Nat) /\ Len(a) = l + 1
      /\ \A n \in 1..l + 1 : a[n] = g[n]
  BY <1>2, <1>3, <1>5, <1>7
<1>9. a = g
  BY <1>6, <1>8, SeqEqual
<1>10. Count(0) = <<>>
  <2>1. PICK z : z = Count(0)
    OBVIOUS
  <2>2. z \in [1..0 -> Nat]
    BY <2>1 DEF Count
  <2>3. z \in Seq(Nat) /\ Len(z) = 0
    BY <2>2
  <2>4. z = <<>>
    BY <2>3
  <2> QED
    BY <2>1, <2>4
<1> QED
  BY <1>1, <1>3, <1>4, <1>7, <1>9, <1>10

LEMMA FragsAreFinite ==
  ASSUME NEW s, NEW m \in Nat, NEW i
  PROVE  /\ IsFiniteSet(Frags(s, m, i)) /\ Cardinality(Frags(s, m, i)) \in Nat
         /\ (Cardinality(Frags(s, m, i)) = 0 <=> Frags(s, m, i) = {})
         /\ IsFiniteSet(Texts(s, m))
         /\ IsFiniteSet(Calls(s, m)) /\ Cardinality(Calls(s, m)) \in Nat
<1>1. IsFiniteSet(1..m)
  BY FS_Interval
<1>2. Frags(s, m, i) \in SUBSET (1..m) /\ Texts(s, m) \in SUBSET (1..m)
  BY DEF Frags, Texts
<1>3. IsFiniteSet(Frags(s, m, i)) /\ IsFiniteSet(Texts(s, m))
  BY <1>1, <1>2, FS_Subset
<1>4. IsFiniteSet(Calls(s, m))
  <2>1. Calls(s, m) \in SUBSET Indices /\ IsFiniteSet(Indices)
    BY StreamAssumption DEF Calls
  <2> QED
    BY <2>1, FS_Subset
<1> QED
  BY <1>3, <1>4, FS_CardinalityType, FS_EmptySet

\* What one more event adds.
LEMMA OneMoreText ==
  ASSUME NEW s, NEW k \in Nat \ {0}
  PROVE  Cardinality(Texts(s, k)) =
           IF s[k].event.type = "text" THEN Cardinality(Texts(s, k - 1)) + 1
           ELSE Cardinality(Texts(s, k - 1))
<1>1. IsFiniteSet(Texts(s, k - 1)) /\ k \notin Texts(s, k - 1)
  <2>1. k - 1 \in Nat /\ k \notin 1..k - 1
    OBVIOUS
  <2>2. k \notin Texts(s, k - 1)
    BY <2>1 DEF Texts
  <2> QED
    BY <2>1, <2>2, FragsAreFinite
<1>2. CASE s[k].event.type = "text"
  <2>1. Texts(s, k) = Texts(s, k - 1) \cup {k}
    BY <1>2 DEF Texts
  <2> QED
    BY <1>1, <1>2, <2>1, FS_AddElement
<1>3. CASE s[k].event.type # "text"
  <2>1. Texts(s, k) = Texts(s, k - 1)
    BY <1>3 DEF Texts
  <2> QED
    BY <1>3, <2>1
<1> QED
  BY <1>2, <1>3

LEMMA OneMoreFragment ==
  ASSUME NEW s, NEW k \in Nat \ {0}, NEW i,
         s[k].event.type = "call", i = s[k].event.index
  PROVE  /\ Frags(s, k, i) = Frags(s, k - 1, i) \cup {k}
         /\ Cardinality(Frags(s, k, i)) = Cardinality(Frags(s, k - 1, i)) + 1
<1>1. IsFiniteSet(Frags(s, k - 1, i)) /\ k \notin Frags(s, k - 1, i)
  <2>1. k - 1 \in Nat /\ k \notin 1..k - 1
    OBVIOUS
  <2>2. k \notin Frags(s, k - 1, i)
    BY <2>1 DEF Frags
  <2> QED
    BY <2>1, <2>2, FragsAreFinite
<1>2. Frags(s, k, i) = Frags(s, k - 1, i) \cup {k}
  BY DEF Frags
<1> QED
  BY <1>1, <1>2, FS_AddElement

LEMMA NoMoreFragments ==
  ASSUME NEW s, NEW k \in Nat \ {0}, s[k].event.type # "call"
  PROVE  /\ \A j : Frags(s, k, j) = Frags(s, k - 1, j)
         /\ Calls(s, k) = Calls(s, k - 1)
<1>1. ASSUME NEW j PROVE Frags(s, k, j) = Frags(s, k - 1, j)
  BY DEF Frags
<1> QED
  BY <1>1 DEF Calls

\* A limit that more events keep was kept by the first of them.
LEMMA LimitsWereKept ==
  ASSUME NEW s, NEW k \in Nat \ {0}, WithinLimits(s, k)
  PROVE  WithinLimits(s, k - 1)
<1>1. k - 1 \in Nat /\ 1..k - 1 \subseteq 1..k
  OBVIOUS
<1>2. \A n \in 1..k - 1 : s[n].event.type \notin {"error", "broken"}
  BY <1>1 DEF WithinLimits
<1>3. \A i : Frags(s, k - 1, i) \subseteq Frags(s, k, i)
  BY <1>1 DEF Frags
<1>4. Calls(s, k - 1) \subseteq Calls(s, k)
  BY <1>3 DEF Calls
<1>5. /\ Cardinality(Calls(s, k - 1)) <= Cardinality(Calls(s, k))
      /\ Cardinality(Calls(s, k - 1)) \in Nat
      /\ Cardinality(Calls(s, k)) \in Nat
  BY <1>1, <1>4, FragsAreFinite, FS_Subset, FS_CardinalityType
<1>6. Cardinality(Calls(s, k - 1)) <= MaxToolCalls
  BY <1>5, StreamAssumption DEF WithinLimits
<1>7. ASSUME NEW i \in Calls(s, k - 1)
      PROVE  Cardinality(Frags(s, k - 1, i)) - 1 <= MaxArguments
  <2>1. /\ Cardinality(Frags(s, k - 1, i)) <= Cardinality(Frags(s, k, i))
        /\ Cardinality(Frags(s, k - 1, i)) \in Nat
        /\ Cardinality(Frags(s, k, i)) \in Nat
    BY <1>1, <1>3, FragsAreFinite, FS_Subset, FS_CardinalityType
  <2>2. Cardinality(Frags(s, k, i)) - 1 <= MaxArguments
    BY <1>4, <1>7 DEF WithinLimits
  <2> QED
    BY <2>1, <2>2, StreamAssumption
<1> QED
  BY <1>2, <1>6, <1>7 DEF WithinLimits

\* A fragment is put behind those of its call, or the reply is refused because
\* a limit is exceeded with it.
LEMMA IngestMakes ==
  ASSUME NEW s \in Seq(Served), Ordered(s), NEW k \in 1..Len(s),
         s[k].event.type = "call",
         NEW r, r = MadeOf(s, k - 1), WithinLimits(s, k - 1)
  PROVE  \/ Ingest(r, s[k].event).failed /\ ~WithinLimits(s, k)
         \/ Ingest(r, s[k].event) = MadeOf(s, k) /\ WithinLimits(s, k)
<1>0. PICK no : no = FALSE
  OBVIOUS
<1>1. PICK ev : ev = s[k].event
  OBVIOUS
<1>2. PICK i \in Indices : i = ev.index
  BY <1>1 DEF Ordered
<1>3. k \in Nat \ {0} /\ k - 1 \in Nat
  OBVIOUS
<1>4. PICK was \in Nat : was = Cardinality(Frags(s, k - 1, i))
  BY <1>3, FragsAreFinite
<1>5. ev.part = was
  BY <1>1, <1>2, <1>4 DEF Ordered
<1>6. /\ Cardinality(Frags(s, k, i)) = was + 1
      /\ \A j : j # i => Frags(s, k, j) = Frags(s, k - 1, j)
  <2>1. Cardinality(Frags(s, k, i)) = was + 1
    BY <1>1, <1>2, <1>3, <1>4, OneMoreFragment
  <2>2. ASSUME NEW j, j # i PROVE Frags(s, k, j) = Frags(s, k - 1, j)
    BY <1>1, <1>2, <1>3, <2>2 DEF Frags
  <2> QED
    BY <2>1, <2>2
<1>7. was = 0 <=> i \notin Calls(s, k - 1)
  <2>1. was = 0 <=> Frags(s, k - 1, i) = {}
    BY <1>3, <1>4, FragsAreFinite
  <2> QED
    BY <2>1 DEF Calls
<1>8. Calls(s, k) = Calls(s, k - 1) \cup {i}
  <2>1. i \in Calls(s, k)
    <3>1. Frags(s, k, i) # {}
      BY <1>1, <1>2, <1>3 DEF Frags
    <3> QED
      BY <3>1 DEF Calls
  <2>2. \A j \in Indices : j # i => (j \in Calls(s, k) <=> j \in Calls(s, k - 1))
    BY <1>6 DEF Calls
  <2>3. Calls(s, k) \subseteq Indices /\ Calls(s, k - 1) \subseteq Indices
    BY DEF Calls
  <2> QED
    BY <2>1, <2>2, <2>3
<1>9. PICK c : c = r.calls
  OBVIOUS
<1>10. /\ DOMAIN c = Calls(s, k - 1)
       /\ \A j \in Calls(s, k - 1) : c[j] = Count(Cardinality(Frags(s, k - 1, j)) - 1)
       /\ c = [j \in Calls(s, k - 1) |-> c[j]]
  BY <1>9 DEF MadeOf
<1>11. PICK made : made = [j \in Calls(s, k) |-> Count(Cardinality(Frags(s, k, j)) - 1)]
  OBVIOUS
<1>12. PICK text : text = Cardinality(Texts(s, k))
  OBVIOUS
<1>13. r = [content |-> text, calls |-> c, failed |-> FALSE]
  <2>1. text = Cardinality(Texts(s, k - 1))
    BY <1>1, <1>3, <1>12, OneMoreText
  <2> QED
    BY <1>9, <2>1 DEF MadeOf
<1>14. MadeOf(s, k) = [content |-> text, calls |-> made, failed |-> FALSE]
  BY <1>11, <1>12 DEF MadeOf
<1>15. Refuse(r).failed
  BY <1>13 DEF Refuse
<1>16. \A n \in 1..k : s[n].event.type \notin {"error", "broken"}
  <2>1. \A n \in 1..k - 1 : s[n].event.type \notin {"error", "broken"}
    BY DEF WithinLimits
  <2>2. \A n \in 1..k : n \in 1..k - 1 \/ n = k
    OBVIOUS
  <2> QED
    BY <2>1, <2>2
<1>17. /\ Cardinality(Calls(s, k - 1)) <= MaxToolCalls
       /\ \A j \in Calls(s, k - 1) :
            Cardinality(Frags(s, k - 1, j)) - 1 <= MaxArguments
  BY DEF WithinLimits
<1>18. PICK n \in Nat : n = Cardinality(Calls(s, k - 1))
  BY <1>3, FragsAreFinite
<1>19. CASE was = 0
  <2>1. i \notin DOMAIN c
    BY <1>7, <1>10, <1>19
  <2>2. PICK calls : calls = [j \in DOMAIN c \cup {i} |-> IF j = i THEN <<>> ELSE c[j]]
    OBVIOUS
  <2>3. CASE n >= MaxToolCalls
    <3>1. Ingest(r, ev) = Refuse(r)
      BY <1>2, <1>9, <1>10, <1>18, <2>1, <2>3 DEF Ingest
    <3>2. i \notin Calls(s, k - 1) /\ IsFiniteSet(Calls(s, k - 1))
      BY <1>3, <1>7, <1>19, FragsAreFinite
    <3>3. Cardinality(Calls(s, k)) = n + 1
      BY <1>8, <1>18, <3>2, FS_AddElement
    <3>4. ~WithinLimits(s, k)
      BY <2>3, <3>3, StreamAssumption DEF WithinLimits
    <3> QED
      BY <1>1, <1>15, <3>1, <3>4
  <2>4. CASE ~(n >= MaxToolCalls)
    <3>1. ev.part = 0
      BY <1>5, <1>19
    <3>2. Ingest(r, ev) = [r EXCEPT !.calls = calls]
      BY <1>2, <1>9, <1>10, <1>18, <2>1, <2>2, <2>4, <3>1 DEF Ingest
    <3>3. calls = made
      <4>1. ASSUME NEW j \in Calls(s, k) PROVE calls[j] = made[j]
        <5>1. CASE j = i
          <6>1. made[j] = Count(Cardinality(Frags(s, k, i)) - 1)
            BY <1>11, <5>1
          <6>2. Cardinality(Frags(s, k, i)) - 1 = 0
            BY <1>6, <1>19
          <6>3. made[j] = <<>>
            BY <6>1, <6>2, CountIs
          <6>4. j \in DOMAIN c \cup {i}
            BY <5>1
          <6> QED
            BY <2>2, <5>1, <6>3, <6>4
        <5>2. CASE j # i
          <6>1. j \in Calls(s, k - 1)
            BY <1>8, <5>2
          <6>2. made[j] = Count(Cardinality(Frags(s, k - 1, j)) - 1)
            BY <1>6, <1>11, <5>2
          <6> QED
            BY <1>10, <2>2, <5>2, <6>1, <6>2
        <5> QED
          BY <5>1, <5>2
      <4>2. DOMAIN c \cup {i} = Calls(s, k)
        BY <1>8, <1>10
      <4> HIDE DEF Calls
      <4> QED
        BY <1>11, <2>2, <4>1, <4>2
    <3>4. Ingest(r, ev) = MadeOf(s, k)
      <4>1. [r EXCEPT !.calls = calls] =
              [content |-> text, calls |-> calls, failed |-> FALSE]
        <5>1. r = [content |-> text, calls |-> c, failed |-> no]
          BY <1>0, <1>13, Zenon
        <5>2. r \in [content : {text}, calls : {c, calls}, failed : {no}]
          BY <5>1
        <5>3. [r EXCEPT !.calls = calls] =
                [content |-> text, calls |-> calls, failed |-> no]
          BY <5>1, <5>2
        <5> QED
          BY <1>0, <5>3, Zenon
      <4> QED
        BY <1>14, <3>2, <3>3, <4>1, Zenon
    <3>5. Cardinality(Calls(s, k)) <= MaxToolCalls
      <4>1. i \notin Calls(s, k - 1) /\ IsFiniteSet(Calls(s, k - 1))
        BY <1>3, <1>7, <1>19, FragsAreFinite
      <4>2. Cardinality(Calls(s, k)) = n + 1
        BY <1>8, <1>18, <4>1, FS_AddElement
      <4> QED
        BY <2>4, <4>2, StreamAssumption
    <3>6. ASSUME NEW j \in Calls(s, k)
          PROVE  Cardinality(Frags(s, k, j)) - 1 <= MaxArguments
      <4>1. CASE j = i
        BY <1>6, <1>19, <4>1, StreamAssumption
      <4>2. CASE j # i
        BY <1>6, <1>8, <1>17, <4>2
      <4> QED
        BY <4>1, <4>2
    <3> QED
      BY <1>1, <1>16, <3>4, <3>5, <3>6 DEF WithinLimits
  <2> QED
    BY <2>3, <2>4
<1>20. CASE was # 0
  <2>1. i \in DOMAIN c /\ i \in Calls(s, k - 1)
    BY <1>7, <1>10, <1>20
  <2>2. PICK l \in Nat : l = was - 1
    BY <1>20
  <2>3. c[i] = Count(l) /\ Len(c[i]) = l
    BY <1>4, <1>10, <2>1, <2>2, CountIs
  <2>4. CASE l >= MaxArguments
    <3>1. Ingest(r, ev) = Refuse(r)
      BY <1>2, <1>5, <1>9, <1>20, <2>1, <2>3, <2>4 DEF Ingest
    <3>2. i \in Calls(s, k) /\ Cardinality(Frags(s, k, i)) - 1 = l + 1
      BY <1>6, <1>8, <2>2
    <3>3. ~WithinLimits(s, k)
      BY <2>4, <3>2, StreamAssumption DEF WithinLimits
    <3> QED
      BY <1>1, <1>15, <3>1, <3>3
  <2>5. CASE ~(l >= MaxArguments)
    <3>1. PICK calls : calls = [c EXCEPT ![i] = Append(@, was)]
      OBVIOUS
    <3>2. Ingest(r, ev) = [r EXCEPT !.calls = calls]
      BY <1>2, <1>5, <1>9, <1>20, <2>1, <2>3, <2>5, <3>1 DEF Ingest
    <3>3. calls = made
      <4>1. ASSUME NEW j \in Calls(s, k) PROVE calls[j] = made[j]
        <5>1. CASE j = i
          <6>1. made[j] = Count(l + 1)
            BY <1>6, <1>11, <2>2, <5>1
          <6>2. calls[j] = Append(Count(l), l + 1)
            BY <2>1, <2>2, <2>3, <3>1, <5>1
          <6> QED
            BY <6>1, <6>2, CountIs
        <5>2. CASE j # i
          <6>1. j \in Calls(s, k - 1)
            BY <1>8, <5>2
          <6>2. made[j] = Count(Cardinality(Frags(s, k - 1, j)) - 1)
            BY <1>6, <1>11, <5>2
          <6> QED
            BY <1>10, <3>1, <5>2, <6>1, <6>2
        <5> QED
          BY <5>1, <5>2
      <4>2. DOMAIN c = Calls(s, k)
        BY <1>8, <1>10, <2>1
      <4>3. calls = [j \in Calls(s, k) |-> calls[j]]
        BY <3>1, <4>2
      <4> QED
        BY <1>11, <4>1, <4>3
    <3>4. Ingest(r, ev) = MadeOf(s, k)
      <4>1. [r EXCEPT !.calls = calls] =
              [content |-> text, calls |-> calls, failed |-> FALSE]
        <5>1. r = [content |-> text, calls |-> c, failed |-> no]
          BY <1>0, <1>13, Zenon
        <5>2. r \in [content : {text}, calls : {c, calls}, failed : {no}]
          BY <5>1
        <5>3. [r EXCEPT !.calls = calls] =
                [content |-> text, calls |-> calls, failed |-> no]
          BY <5>1, <5>2
        <5> QED
          BY <1>0, <5>3, Zenon
      <4> QED
        BY <1>14, <3>2, <3>3, <4>1, Zenon
    <3>5. Calls(s, k) = Calls(s, k - 1)
      BY <1>8, <2>1
    <3>6. ASSUME NEW j \in Calls(s, k)
          PROVE  Cardinality(Frags(s, k, j)) - 1 <= MaxArguments
      <4>1. CASE j = i
        BY <1>6, <2>2, <2>5, <4>1, StreamAssumption
      <4>2. CASE j # i
        BY <1>6, <1>8, <1>17, <4>2
      <4> QED
        BY <4>1, <4>2
    <3> QED
      BY <1>1, <1>16, <1>17, <3>4, <3>5, <3>6 DEF WithinLimits
  <2> QED
    BY <2>4, <2>5
<1> QED
  BY <1>19, <1>20

\* One event more is put into the reply, or it fails for what the event is.
LEMMA InterpretMakes ==
  ASSUME NEW s \in Seq(Served), Ordered(s), NEW k \in 1..Len(s),
         NEW r, r = MadeOf(s, k - 1), WithinLimits(s, k - 1)
  PROVE  \/ Interpret(r, s[k].event).failed /\ ~WithinLimits(s, k)
         \/ Interpret(r, s[k].event) = MadeOf(s, k) /\ WithinLimits(s, k)
<1>0. PICK no : no = FALSE
  OBVIOUS
<1>1. PICK ev : ev = s[k].event
  OBVIOUS
<1>2. k \in Nat \ {0} /\ k - 1 \in Nat
  OBVIOUS
<1>3. PICK text : text = Cardinality(Texts(s, k - 1))
  OBVIOUS
<1>4. PICK c : c = [i \in Calls(s, k - 1) |-> Count(Cardinality(Frags(s, k - 1, i)) - 1)]
  OBVIOUS
<1>5. r = [content |-> text, calls |-> c, failed |-> FALSE] /\ ~r.failed
  BY <1>3, <1>4 DEF MadeOf
<1>6. CASE ev.type = "call"
  <2>1. Interpret(r, ev) = Ingest(r, ev)
    BY <1>5, <1>6 DEF Interpret
  <2> QED
    BY <1>1, <1>6, <2>1, IngestMakes
<1>7. CASE ev.type \in {"error", "broken"}
  <2>1. Interpret(r, ev) = Refuse(r)
    BY <1>5, <1>7 DEF Interpret
  <2>2. Refuse(r).failed
    BY <1>5 DEF Refuse
  <2>3. k \in 1..k
    BY <1>2
  <2>4. ~WithinLimits(s, k)
    BY <1>1, <1>7, <2>3 DEF WithinLimits
  <2> QED
    BY <1>1, <2>1, <2>2, <2>4
<1>8. CASE ev.type \notin {"call", "error", "broken"}
  <2>1. /\ \A j : Frags(s, k, j) = Frags(s, k - 1, j)
        /\ Calls(s, k) = Calls(s, k - 1)
    BY <1>1, <1>2, <1>8, NoMoreFragments
  <2>2. WithinLimits(s, k)
    <3>1. \A n \in 1..k - 1 : s[n].event.type \notin {"error", "broken"}
      BY DEF WithinLimits
    <3>2. \A n \in 1..k : n \in 1..k - 1 \/ n = k
      OBVIOUS
    <3>3. \A n \in 1..k : s[n].event.type \notin {"error", "broken"}
      BY <1>1, <1>8, <3>1, <3>2
    <3>4. /\ Cardinality(Calls(s, k)) <= MaxToolCalls
          /\ \A i \in Calls(s, k) : Cardinality(Frags(s, k, i)) - 1 <= MaxArguments
      BY <2>1 DEF WithinLimits
    <3> QED
      BY <3>3, <3>4 DEF WithinLimits
  <2>3. c = [i \in Calls(s, k) |-> Count(Cardinality(Frags(s, k, i)) - 1)]
    BY <1>4, <2>1
  <2>4. CASE ev.type = "text"
    <3>0. PICK more : more = text + 1
      OBVIOUS
    <3>1. Interpret(r, ev) = [content |-> more, calls |-> c, failed |-> FALSE]
      <4>1. Interpret(r, ev) = [r EXCEPT !.content = more]
        BY <1>3, <1>5, <2>4, <3>0 DEF Interpret, MadeOf
      <4>2. [r EXCEPT !.content = more] =
              [content |-> more, calls |-> c, failed |-> FALSE]
        <5>1. r = [content |-> text, calls |-> c, failed |-> no]
          BY <1>0, <1>5, Zenon
        <5>2. r \in [content : {text, more}, calls : {c}, failed : {no}]
          BY <5>1
        <5>3. [r EXCEPT !.content = more] =
                [content |-> more, calls |-> c, failed |-> no]
          BY <5>1, <5>2
        <5> QED
          BY <1>0, <5>3, Zenon
      <4> QED
        BY <4>1, <4>2
    <3>2. Cardinality(Texts(s, k)) = more
      BY <1>1, <1>2, <1>3, <2>4, <3>0, OneMoreText
    <3>3. MadeOf(s, k) = [content |-> more, calls |-> c, failed |-> FALSE]
      BY <2>3, <3>2 DEF MadeOf
    <3> QED
      BY <1>1, <2>2, <3>1, <3>3
  <2>5. CASE ev.type # "text"
    <3>1. Interpret(r, ev) = r
      BY <1>5, <1>8, <2>5 DEF Interpret
    <3>2. Cardinality(Texts(s, k)) = text
      BY <1>1, <1>2, <1>3, <2>5, OneMoreText
    <3>3. MadeOf(s, k) = [content |-> text, calls |-> c, failed |-> FALSE]
      BY <2>3, <3>2 DEF MadeOf
    <3> QED
      BY <1>1, <1>5, <2>2, <3>1, <3>3
  <2> QED
    BY <2>4, <2>5
<1> QED
  BY <1>6, <1>7, <1>8

Makes(f, events, was, k) ==
  f = [n \in 0..k |-> IF n = 0 THEN was ELSE Interpret(f[n - 1], events[n])]

LEMMA ItCanBeMade ==
  ASSUME NEW events, NEW was
  PROVE  \A k \in Nat : \E f : Makes(f, events, was, k)
<1> DEFINE S == {k \in Nat : \E f : Makes(f, events, was, k)}
<1>1. ASSUME NEW n \in Nat, \A m \in 0..n - 1 : m \in S
      PROVE  n \in S
  <2>1. CASE n = 0
    <3> DEFINE f == [i \in 0..0 |-> was]
    <3>1. Makes(f, events, was, 0)
      BY DEF Makes
    <3> QED
      BY <2>1, <3>1
  <2>2. CASE n # 0
    <3>1. n - 1 \in 0..n - 1
      BY <2>2
    <3>2. PICK f : Makes(f, events, was, n - 1)
      BY <1>1, <3>1
    <3> DEFINE g == [i \in 0..n |->
                       IF i = n THEN Interpret(f[n - 1], events[n]) ELSE f[i]]
    <3>3. /\ g[n] = Interpret(f[n - 1], events[n])
          /\ \A i \in 0..n - 1 : g[i] = f[i]
          /\ g = [i \in 0..n |-> g[i]]
      OBVIOUS
    <3> HIDE DEF g
    <3>4. \A i \in 0..n - 1 :
            f[i] = IF i = 0 THEN was ELSE Interpret(f[i - 1], events[i])
      BY <3>2 DEF Makes
    <3>5. ASSUME NEW i \in 0..n
          PROVE  g[i] = IF i = 0 THEN was ELSE Interpret(g[i - 1], events[i])
      <4>1. CASE i = n
        BY <2>2, <3>1, <3>3, <4>1
      <4>2. CASE i # n
        <5>1. i \in 0..n - 1 /\ (i # 0 => i - 1 \in 0..n - 1)
          BY <4>2
        <5> QED
          BY <3>3, <3>4, <5>1
      <4> QED
        BY <4>1, <4>2
    <3>6. Makes(g, events, was, n)
      BY <3>3, <3>5 DEF Makes
    <3> QED
      BY <3>6
  <2> QED
    BY <2>1, <2>2
<1>2. Nat \subseteq S
  <2> HIDE DEF S
  <2> QED
    BY <1>1, SetInduction
<1> QED
  BY <1>2

LEMMA InterpretedIs ==
  ASSUME NEW events, NEW k \in Nat, k = Len(events)
  PROVE  \E f : /\ Interpreted(events) = f[k] /\ f[0] = reply
                /\ \A n \in 1..k : f[n] = Interpret(f[n - 1], events[n])
<1> DEFINE f == CHOOSE f : Makes(f, events, reply, k)
<1>1. Makes(f, events, reply, k)
  BY ItCanBeMade
<1>2. Interpreted(events) = f[k]
  BY DEF Interpreted, Makes
<1> HIDE DEF f
<1>3. \A n \in 0..k :
        f[n] = IF n = 0 THEN reply ELSE Interpret(f[n - 1], events[n])
  BY <1>1 DEF Makes
<1>4. f[0] = reply /\ \A n \in 1..k : f[n] = Interpret(f[n - 1], events[n])
  <2>1. 0 \in 0..k /\ \A n \in 1..k : n \in 0..k /\ n # 0
    OBVIOUS
  <2> QED
    BY <1>3, <2>1, Zenon
<1> QED
  BY <1>2, <1>4, Zenon

\* What was made of the first d events becomes what is made of the first e, or
\* one of them made it fail.
LEMMA InterpretedMakes ==
  ASSUME NEW s \in Seq(Served), Ordered(s), NEW d \in 0..Len(s),
         NEW e \in d..Len(s), NEW events, Brings(events, s, d, e),
         reply = MadeOf(s, d), WithinLimits(s, d)
  PROVE  \/ Interpreted(events).failed /\ ~WithinLimits(s, e)
         \/ Interpreted(events) = MadeOf(s, e) /\ WithinLimits(s, e)
<1>1. PICK k \in Nat : k = e - d
  OBVIOUS
<1>2. Len(events) = k /\ \A n \in 1..k : events[n] = s[d + n].event
  BY <1>1 DEF Brings
<1>3. PICK f : /\ Interpreted(events) = f[k] /\ f[0] = reply
               /\ \A n \in 1..k : f[n] = Interpret(f[n - 1], events[n])
  BY <1>2, InterpretedIs
<1> DEFINE Fine(n) == \/ f[n].failed /\ ~WithinLimits(s, d + n)
                      \/ f[n] = MadeOf(s, d + n) /\ WithinLimits(s, d + n)
           S == {n \in Nat : n <= k => Fine(n)}
<1>4. ASSUME NEW n \in Nat, \A m \in 0..n - 1 : m \in S, n <= k
      PROVE  Fine(n)
  <2>1. CASE n = 0
    <3>1. d + n = d
      BY <2>1
    <3> QED
      BY <1>3, <2>1, <3>1
  <2>2. CASE n # 0
    <3>1. n \in 1..k /\ n - 1 \in 0..n - 1 /\ n - 1 <= k
      BY <1>4, <2>2
    <3>2. PICK l \in 1..Len(s) : l = d + n
      BY <1>1, <3>1
    <3>3. d + (n - 1) = l - 1
      BY <3>2
    <3>4. PICK r : r = f[n - 1]
      OBVIOUS
    <3>5. \/ r.failed /\ ~WithinLimits(s, l - 1)
          \/ r = MadeOf(s, l - 1) /\ WithinLimits(s, l - 1)
      BY <1>4, <3>1, <3>3, <3>4
    <3>6. f[n] = Interpret(r, s[l].event)
      BY <1>2, <1>3, <3>1, <3>2, <3>4
    <3>7. CASE r.failed /\ ~WithinLimits(s, l - 1)
      <4>1. Interpret(r, s[l].event) = r
        BY <3>7, Zenon DEF Interpret
      <4>2. ~WithinLimits(s, l)
        BY <3>7, LimitsWereKept
      <4> QED
        BY <3>2, <3>6, <3>7, <4>1, <4>2
    <3>8. CASE r = MadeOf(s, l - 1) /\ WithinLimits(s, l - 1)
      BY <3>2, <3>6, <3>8, InterpretMakes
    <3> QED
      BY <3>5, <3>7, <3>8
  <2> QED
    BY <2>1, <2>2
<1>5. Nat \subseteq S
  <2>1. \A n \in Nat : (\A m \in 0..n - 1 : m \in S) => n \in S
    BY <1>4
  <2> HIDE DEF S
  <2> QED
    BY <2>1, SetInduction
<1>6. Fine(k)
  <2> HIDE DEF Fine
  <2>1. k \in S /\ k <= k
    BY <1>5
  <2> QED
    BY <2>1
<1>7. d + k = e
  BY <1>1
<1> QED
  BY <1>3, <1>6, <1>7

\* Only the first m events count.
LEMMA OnlyTheFirstCount ==
  ASSUME NEW s, NEW t, NEW m \in Nat, \A k \in 1..m : t[k] = s[k]
  PROVE  /\ \A i : Frags(t, m, i) = Frags(s, m, i)
         /\ MadeOf(t, m) = MadeOf(s, m)
         /\ WithinLimits(t, m) <=> WithinLimits(s, m)
<1>1. \A i : Frags(t, m, i) = Frags(s, m, i)
  BY DEF Frags
<1>2. Texts(t, m) = Texts(s, m)
  BY DEF Texts
<1>3. Calls(t, m) = Calls(s, m)
  BY <1>1 DEF Calls
<1>4. MadeOf(t, m) = MadeOf(s, m)
  BY <1>1, <1>2, <1>3 DEF MadeOf
<1>5. WithinLimits(t, m) <=> WithinLimits(s, m)
  BY <1>1, <1>3 DEF WithinLimits
<1> QED
  BY <1>1, <1>4, <1>5

LEMMA NothingMadeYet ==
  ASSUME NEW s
  PROVE  MadeOf(s, 0) = NoReply /\ WithinLimits(s, 0)
<1>1. Texts(s, 0) = {} /\ \A i : Frags(s, 0, i) = {}
  BY DEF Texts, Frags
<1>2. Calls(s, 0) = {}
  BY <1>1 DEF Calls
<1>3. PICK c : c = [i \in Calls(s, 0) |-> Count(Cardinality(Frags(s, 0, i)) - 1)]
  OBVIOUS
<1>4. PICK z : z = [i \in {} |-> <<>>]
  OBVIOUS
<1>5. c = z
  <2>1. DOMAIN c = {} /\ c = [i \in {} |-> c[i]]
    BY <1>2, <1>3
  <2>2. DOMAIN z = {} /\ z = [i \in {} |-> z[i]]
    BY <1>4, Zenon
  <2>3. [i \in {} |-> c[i]] = [i \in {} |-> z[i]]
    OBVIOUS
  <2> QED
    BY <2>1, <2>2, <2>3
<1>6. Cardinality(Texts(s, 0)) = 0 /\ Cardinality(Calls(s, 0)) = 0
  BY <1>1, <1>2, FS_EmptySet
<1>7. MadeOf(s, 0) = NoReply
  BY <1>3, <1>4, <1>5, <1>6, Zenon DEF MadeOf, NoReply
<1>8. WithinLimits(s, 0)
  BY <1>2, <1>6, StreamAssumption DEF WithinLimits
<1> QED
  BY <1>7, <1>8

\* The parts of a call that are there are the first ones, without a gap.
LEMMA PartsAreTheFirst ==
  ASSUME NEW s \in Seq(Served), Ordered(s), NEW m \in 0..Len(s), NEW i
  PROVE  \A n : (\E k \in Frags(s, m, i) : s[k].event.part = n) <=>
                  n \in 0..Cardinality(Frags(s, m, i)) - 1
<1> DEFINE Holds(j) ==
             \A n : (\E k \in Frags(s, j, i) : s[k].event.part = n) <=>
                      n \in 0..Cardinality(Frags(s, j, i)) - 1
           S == {j \in Nat : j <= Len(s) => Holds(j)}
<1>1. ASSUME NEW j \in Nat, \A p \in 0..j - 1 : p \in S, j <= Len(s)
      PROVE  Holds(j)
  <2>1. CASE j = 0
    <3>1. Frags(s, j, i) = {}
      BY <2>1 DEF Frags
    <3>2. Cardinality(Frags(s, j, i)) = 0
      BY <3>1, FS_EmptySet
    <3> QED
      BY <3>1, <3>2
  <2>2. CASE j # 0
    <3>1. j \in 1..Len(s) /\ j - 1 \in 0..j - 1 /\ j - 1 <= Len(s) /\ j \in Nat \ {0}
      BY <1>1, <2>2
    <3>2. Holds(j - 1)
      BY <1>1, <3>1
    <3>3. PICK was \in Nat : was = Cardinality(Frags(s, j - 1, i))
      <4>1. j - 1 \in Nat
        BY <2>2
      <4> QED
        BY <4>1, FragsAreFinite
    <3>4. CASE s[j].event.type = "call" /\ s[j].event.index = i
      <4>1. /\ Frags(s, j, i) = Frags(s, j - 1, i) \cup {j}
            /\ Cardinality(Frags(s, j, i)) = was + 1
        <5>1. j \in Nat \ {0}
          BY <3>1
        <5>2. s[j].event.type = "call"
          BY <3>4
        <5>3. i = s[j].event.index
          BY <3>4
        <5>4. Cardinality(Frags(s, j, i)) = Cardinality(Frags(s, j - 1, i)) + 1
          BY <5>1, <5>2, <5>3, OneMoreFragment
        <5>5. Frags(s, j, i) = Frags(s, j - 1, i) \cup {j}
          BY <5>1, <5>2, <5>3, OneMoreFragment
        <5> QED
          BY <3>3, <5>4, <5>5
      <4>2. s[j].event.part = was
        BY <3>1, <3>3, <3>4 DEF Ordered
      <4>3. \A n : (\E k \in Frags(s, j, i) : s[k].event.part = n) <=>
                     n \in 0..was - 1 \/ n = was
        BY <3>2, <3>3, <4>1, <4>2
      <4>4. \A n : n \in 0..was - 1 \/ n = was <=> n \in 0..was + 1 - 1
        OBVIOUS
      <4> QED
        BY <4>1, <4>3, <4>4
    <3>5. CASE ~(s[j].event.type = "call" /\ s[j].event.index = i)
      <4>1. Frags(s, j, i) = Frags(s, j - 1, i)
        BY <3>1, <3>5 DEF Frags
      <4> QED
        BY <3>2, <4>1
    <3> QED
      BY <3>4, <3>5
  <2> QED
    BY <2>1, <2>2
<1>2. Nat \subseteq S
  <2>1. \A j \in Nat : (\A p \in 0..j - 1 : p \in S) => j \in S
    BY <1>1
  <2> HIDE DEF S
  <2> QED
    BY <2>1, SetInduction
<1>3. Holds(m)
  <2> HIDE DEF Holds
  <2>1. m \in S /\ m <= Len(s)
    BY <1>2
  <2> QED
    BY <2>1
<1> QED
  BY <1>3

-----------------------------------------------------------------------------
(* The invariant *)

\* d events have been taken: what waits begins behind them, and none of it is
\* whole; or [DONE] came behind them.
Progress(s, a, rest, over, d) ==
  /\ d \in 0..Len(s)
  /\ \A k \in 1..d : s[k].event.type # "done"
  /\ ~over => /\ Off(s, d) <= a /\ Spans(rest, Pieces(s), Off(s, d), a)
              /\ d < Len(s) => a < Off(s, d + 1)
  /\ over => /\ d < Len(s) /\ s[d + 1].event.type = "done"
             /\ Off(s, d + 1) <= a

\* The reply is what is made of the d events.
Made(s, r, d) == r = MadeOf(s, d) /\ WithinLimits(s, d)

Inv ==
  /\ sent \in Seq(Served) /\ Ordered(sent)
  /\ arrived \in 0..Len(Pieces(sent))
  /\ remainder \in Seq(Piece) /\ done \in BOOLEAN
  /\ outcome \in {"open", "reply", "failed"}
  /\ outcome # "failed" =>
       /\ arrived <= MaxStream /\ Len(remainder) <= MaxRemainder
       /\ \E d : /\ Progress(sent, arrived, remainder, done, d)
                 /\ Made(sent, reply, d)
  /\ outcome = "reply" => Finalizes

LEMMA LengthOfPieces ==
  ASSUME NEW s \in Seq(Served)
  PROVE  Len(Pieces(s)) \in Nat /\ Pieces(s) \in Seq(Piece)
<1>1. Len(s) \in 0..Len(s)
  OBVIOUS
<1>2. Wire(s, Len(s)) \in Seq(Piece) /\ Off(s, Len(s)) \in Nat
  BY <1>1, WireTypes
<1> QED
  BY <1>2, WireEnds DEF Off

LEMMA Initially == Init => Inv
<1> SUFFICES ASSUME Init PROVE Inv
  OBVIOUS
<1>1. PICK none : none = <<>>
  OBVIOUS
<1>2. sent = none /\ remainder = none
  BY <1>1 DEF Init
<1>3. none \in Seq(Served) /\ none \in Seq(Piece) /\ Len(none) = 0
  BY <1>1
<1>4. Ordered(none)
  BY <1>3 DEF Ordered
<1>5. Pieces(none) = none /\ Off(none, 0) = 0
  <2>1. Wire(none, 0) = none
    BY <1>1, <1>3, WireEnds
  <2> QED
    BY <1>1, <1>3, <2>1, PiecesOfNone DEF Off
<1>6. arrived = 0 /\ done = FALSE /\ reply = NoReply /\ outcome = "open"
  BY DEF Init
<1>7. Progress(none, 0, none, FALSE, 0)
  <2>1. Spans(none, Pieces(none), Off(none, 0), 0)
    BY <1>3, <1>5 DEF Spans
  <2> QED
    BY <1>3, <1>5, <2>1 DEF Progress
<1>8. Made(none, NoReply, 0)
  BY NothingMadeYet DEF Made
<1>9. 0 <= MaxStream /\ 0 <= MaxRemainder
  BY StreamAssumption
<1>10. arrived \in 0..Len(Pieces(sent))
  BY <1>2, <1>3, <1>5, <1>6
<1> QED
  BY <1>2, <1>3, <1>4, <1>6, <1>7, <1>8, <1>9, <1>10 DEF Inv

\* The server writes one event more: nothing else of it is seen.
LEMMA ServeKeeps ==
  ASSUME Inv, Serve
  PROVE  Inv'
<1>1. PICK ev \in Event : \E blank \in BlankLine :
        InOrder(ev) /\ sent' = Append(sent, [event |-> ev, blank |-> blank])
  BY DEF Serve
<1>2. PICK blank \in BlankLine :
        InOrder(ev) /\ sent' = Append(sent, [event |-> ev, blank |-> blank])
  BY <1>1
<1>3. PICK x : x = [event |-> ev, blank |-> blank]
  OBVIOUS
<1>4. x \in Served /\ x.event = ev /\ x.blank = blank
  BY <1>3 DEF Served
<1>5. PICK s \in Seq(Served) : s = sent
  BY DEF Inv
<1>6. PICK n \in Nat : n = Len(s)
  OBVIOUS
<1>7. PICK l \in Nat : l = n + 1
  OBVIOUS
<1>8. PICK t : t = sent'
  OBVIOUS
<1>9. t = Append(s, x) /\ InOrder(ev)
  BY <1>2, <1>3, <1>5, <1>8
<1>10. /\ t \in Seq(Served) /\ Len(t) = l /\ t[l] = x
       /\ \A k \in 1..n : t[k] = s[k]
  BY <1>4, <1>6, <1>7, <1>9
<1>11. /\ outcome = "open" /\ arrived' = arrived /\ remainder' = remainder
       /\ done' = done /\ reply' = reply /\ outcome' = outcome
  BY DEF Serve
<1>12. \A k \in 0..n : Off(t, k) = Off(s, k) /\ Off(s, k) \in Nat
  BY <1>4, <1>6, <1>9, WireStays, WireTypes DEF Off
<1>13. /\ \A i \in 1..Len(Pieces(s)) : Pieces(t)[i] = Pieces(s)[i]
       /\ Off(t, n) = Len(Pieces(s)) /\ Off(t, n) < Off(t, l)
       /\ Off(t, l) = Len(Pieces(t))
       /\ Len(Pieces(s)) \in Nat /\ Len(Pieces(t)) \in Nat
  <2>1. n \in 0..n /\ n \in 0..Len(t) /\ l \in n..Len(t) /\ l - n = 1
    BY <1>7, <1>10
  <2>2. Wire(t, n) = Pieces(s)
    BY <1>4, <1>6, <1>9, <2>1, WireStays, WireEnds
  <2>3. Wire(t, l) = Pieces(t)
    BY <1>10, WireEnds
  <2>4. /\ Off(t, n) + (l - n) <= Off(t, l)
        /\ \A i \in 1..Off(t, n) : Wire(t, l)[i] = Wire(t, n)[i]
    BY <1>10, <2>1, WireBefore
  <2>5. Len(Pieces(s)) \in Nat /\ Len(Pieces(t)) \in Nat
    BY <1>10, LengthOfPieces
  <2>6. Off(t, n) = Len(Pieces(s)) /\ Off(t, l) = Len(Pieces(t))
    BY <2>2, <2>3 DEF Off
  <2> QED
    BY <2>1, <2>2, <2>3, <2>4, <2>5, <2>6
<1>14. Ordered(t)
  <2>1. ASSUME NEW k \in 1..l, t[k].event.type = "call"
        PROVE  /\ t[k].event.index \in Indices
               /\ t[k].event.part = Cardinality(Frags(t, k - 1, t[k].event.index))
    <3>1. k - 1 \in Nat /\ \A j \in 1..k - 1 : j \in 1..n
      BY <1>7
    <3>2. \A i : Frags(t, k - 1, i) = Frags(s, k - 1, i)
      BY <1>10, <3>1, OnlyTheFirstCount
    <3>3. CASE k = l
      <4>1. k - 1 = n
        BY <1>7, <3>3
      <4>2. ev.type = "call" /\ t[k].event = ev
        BY <1>4, <1>10, <2>1, <3>3
      <4>3. ev.index \in Indices
        BY <4>2 DEF Event
      <4>4. ev.part = Cardinality(FragmentsOf(ev.index))
        BY <1>9, <4>2 DEF InOrder
      <4>5. FragmentsOf(ev.index) = Frags(s, n, ev.index)
        <5>1. DOMAIN sent = 1..n
          BY <1>5, <1>6
        <5> QED
          BY <1>5, <5>1 DEF FragmentsOf, Frags
      <4> QED
        BY <3>2, <4>1, <4>2, <4>3, <4>4, <4>5
    <3>4. CASE k # l
      <4>1. k \in 1..n
        BY <1>7, <3>4
      <4>2. t[k] = s[k] /\ Ordered(s)
        BY <1>5, <1>10, <4>1 DEF Inv
      <4>3. /\ s[k].event.index \in Indices
            /\ s[k].event.part = Cardinality(Frags(s, k - 1, s[k].event.index))
        BY <1>6, <2>1, <4>1, <4>2 DEF Ordered
      <4> QED
        BY <3>2, <4>2, <4>3
    <3> QED
      BY <3>3, <3>4
  <2> QED
    BY <1>10, <2>1 DEF Ordered
<1>15. PICK a \in Nat : a = arrived /\ a <= Len(Pieces(s))
  BY <1>5, <1>13 DEF Inv
<1>16. PICK d : Progress(s, a, remainder, done, d) /\ Made(s, reply, d)
  BY <1>5, <1>11, <1>15 DEF Inv
<1>17. d \in 0..n /\ d \in Nat
  BY <1>6, <1>16 DEF Progress
<1>18. Made(t, reply, d)
  <2>1. \A k \in 1..d : t[k] = s[k]
    BY <1>10, <1>17
  <2> QED
    BY <1>16, <1>17, <2>1, OnlyTheFirstCount DEF Made
<1>19. Progress(t, a, remainder, done, d)
  <2>1. d \in 0..Len(t) /\ Off(t, d) = Off(s, d)
    BY <1>7, <1>10, <1>12, <1>17
  <2>2. \A k \in 1..d : t[k].event.type # "done"
    BY <1>10, <1>16, <1>17 DEF Progress
  <2>3. ASSUME ~done
        PROVE  /\ Off(t, d) <= a /\ Spans(remainder, Pieces(t), Off(t, d), a)
               /\ d < Len(t) => a < Off(t, d + 1)
    <3>1. /\ Off(s, d) <= a /\ Spans(remainder, Pieces(s), Off(s, d), a)
          /\ d < n => a < Off(s, d + 1)
      BY <1>6, <1>16, <2>3 DEF Progress
    <3>2. PICK z \in Nat : z = Off(s, d)
      BY <1>12, <1>17
    <3>3. Spans(remainder, Pieces(t), z, a)
      <4>1. \A j \in 1..a - z : z + j \in 1..Len(Pieces(s))
        BY <1>13, <1>15, <3>2
      <4> QED
        BY <1>13, <3>1, <3>2, <4>1 DEF Spans
    <3>4. CASE d = n
      <4>1. a < Off(t, l) /\ d + 1 = l
        <5>1. PICK y \in Nat : y = Len(Pieces(s))
          BY <1>13
        <5>2. a <= y /\ y < Off(t, l) /\ Off(t, l) \in Nat
          BY <1>13, <1>15, <5>1
        <5> QED
          BY <1>7, <3>4, <5>2
      <4> QED
        BY <2>1, <3>1, <3>2, <3>3, <4>1
    <3>5. CASE d # n
      <4>1. d < n /\ d + 1 \in 0..n
        BY <1>17, <3>5
      <4> QED
        BY <1>12, <2>1, <3>1, <3>2, <3>3, <4>1
    <3> QED
      BY <3>4, <3>5
  <2>4. ASSUME done
        PROVE  /\ d < Len(t) /\ t[d + 1].event.type = "done"
               /\ Off(t, d + 1) <= a
    <3>1. /\ d < n /\ s[d + 1].event.type = "done" /\ Off(s, d + 1) <= a
      BY <1>6, <1>16, <2>4 DEF Progress
    <3>2. d + 1 \in 1..n /\ d + 1 \in 0..n /\ d < l
      BY <1>7, <1>17, <3>1
    <3> QED
      BY <1>10, <1>12, <3>1, <3>2
  <2> QED
    BY <2>1, <2>2, <2>3, <2>4 DEF Progress
<1>20. arrived' \in 0..Len(Pieces(sent'))
  <2>1. PICK y \in Nat : y = Len(Pieces(s))
    BY <1>13
  <2>2. PICK z \in Nat : z = Len(Pieces(t))
    BY <1>13
  <2>3. a <= y /\ y < z
    BY <1>13, <1>15, <2>1, <2>2
  <2> QED
    BY <1>8, <1>11, <1>15, <2>2, <2>3
<1>21. /\ remainder \in Seq(Piece) /\ done \in BOOLEAN
       /\ arrived <= MaxStream /\ Len(remainder) <= MaxRemainder
  BY <1>11 DEF Inv
<1>22. \E j : /\ Progress(sent', arrived', remainder', done', j)
              /\ Made(sent', reply', j)
  BY <1>8, <1>11, <1>15, <1>18, <1>19
<1> QED
  BY <1>8, <1>10, <1>11, <1>14, <1>20, <1>21, <1>22 DEF Inv

\* What waits and the chunk behind it are one span.
LEMMA ChunkFollows ==
  ASSUME NEW w \in Seq(Piece), NEW z \in Nat, NEW a \in Nat, NEW n \in Nat,
         z <= a, a < n, n <= Len(w), NEW rest, Spans(rest, w, z, a)
  PROVE  Spans(rest \o SubSeq(w, a + 1, n), w, z, n)
<1>1. PICK c : c = SubSeq(w, a + 1, n)
  OBVIOUS
<1>2. a + 1 \in Int /\ n \in Int /\ \A i \in a + 1..n : w[i] \in Piece
  OBVIOUS
<1>3. /\ c \in Seq(Piece)
      /\ Len(c) = IF a + 1 <= n THEN n - (a + 1) + 1 ELSE 0
      /\ \A i \in 1..n - (a + 1) + 1 : c[i] = w[a + 1 + i - 1]
  BY <1>1, <1>2, SubSeqProperties
<1>4. Len(c) = n - a /\ \A i \in 1..n - a : c[i] = w[a + i]
  <2>1. ASSUME NEW i \in 1..n - a PROVE c[i] = w[a + i]
    <3>1. i \in 1..n - (a + 1) + 1 /\ a + 1 + i - 1 = a + i
      OBVIOUS
    <3> QED
      BY <1>3, <3>1
  <2> QED
    BY <1>3, <2>1
<1>5. /\ rest \in Seq(Piece) /\ Len(rest) = a - z
      /\ \A j \in 1..a - z : rest[j] = w[z + j]
  BY DEF Spans
<1>6. PICK t : t = rest \o c
  OBVIOUS
<1>7. /\ t \in Seq(Piece) /\ Len(t) = Len(rest) + Len(c)
      /\ \A i \in 1..Len(rest) + Len(c) :
           t[i] = IF i <= Len(rest) THEN rest[i] ELSE c[i - Len(rest)]
  <2>1. c \in Seq(Piece) /\ rest \in Seq(Piece)
    BY <1>3, <1>5
  <2> QED
    BY <1>6, <2>1, ConcatProperties
<1>8. Len(t) = n - z
  BY <1>4, <1>5, <1>7
<1>9. ASSUME NEW j \in 1..n - z PROVE t[j] = w[z + j]
  <2>1. t[j] = IF j <= a - z THEN rest[j] ELSE c[j - (a - z)]
    <3>1. j \in 1..Len(rest) + Len(c)
      BY <1>4, <1>5
    <3> QED
      BY <1>5, <1>7, <3>1
  <2>2. CASE j <= a - z
    BY <1>5, <2>1, <2>2
  <2>3. CASE ~(j <= a - z)
    <3>1. j - (a - z) \in 1..n - a /\ a + (j - (a - z)) = z + j
      BY <2>3
    <3> QED
      BY <1>4, <2>1, <2>3, <3>1
  <2> QED
    BY <2>2, <2>3
<1> QED
  BY <1>1, <1>6, <1>7, <1>8, <1>9 DEF Spans

\* A chunk takes the parser from d events to more of them, and the reply too
\* unless it fails for one of these.
LEMMA ChunkIsRead ==
  ASSUME NEW s \in Seq(Served), Ordered(s), NEW a \in Nat, NEW n \in Nat,
         a < n, n <= Len(Pieces(s)), NEW rest, NEW d,
         Progress(s, a, rest, FALSE, d), Made(s, reply, d),
         NEW text, text = rest \o SubSeq(Pieces(s), a + 1, n)
  PROVE  /\ Parsed(text).rest \in Seq(Piece) /\ Parsed(text).done \in BOOLEAN
         /\ Len(Parsed(text).rest) <= Len(rest) + n - a
         /\ \E e : /\ Progress(s, n, Parsed(text).rest, Parsed(text).done, e)
                   /\ \/ /\ Interpreted(Parsed(text).events).failed
                         /\ ~WithinLimits(s, e)
                      \/ Made(s, Interpreted(Parsed(text).events), e)
<1>1. PICK w \in Seq(Piece) : w = Pieces(s)
  BY LengthOfPieces
<1>2. /\ d \in 0..Len(s) /\ d \in Nat /\ \A k \in 1..d : s[k].event.type # "done"
      /\ Off(s, d) <= a /\ Spans(rest, w, Off(s, d), a)
  BY <1>1 DEF Progress
<1>3. PICK z \in Nat : z = Off(s, d)
  BY <1>2, WireTypes
<1>4. Spans(text, w, z, n) /\ z <= n
  BY <1>1, <1>2, <1>3, ChunkFollows
<1>5. n \in 0..Len(Pieces(s))
  BY <1>1
<1>6. PICK p : p = Parsed(text)
  OBVIOUS
<1>7. PICK e : /\ HasRead(p, s, d, e, n)
               /\ ~p.done /\ e < Len(s) => n < Off(s, e + 1)
  <2>1. Off(s, d) <= n /\ Spans(text, Pieces(s), Off(s, d), n)
    BY <1>1, <1>3, <1>4
  <2> QED
    BY <1>2, <1>5, <1>6, <2>1, ParserReads
<1>8. /\ e \in d..Len(s) /\ Off(s, e) <= n /\ Brings(p.events, s, d, e)
      /\ p.done \in BOOLEAN
  BY <1>7 DEF HasRead
<1>9. e \in Nat /\ e \in 0..Len(s)
  BY <1>2, <1>8
<1>10. \E m \in e..Len(s) : Spans(p.rest, w, Off(s, m), n) /\ Off(s, m) <= n
  <2>1. CASE ~p.done
    BY <1>1, <1>7, <1>8, <1>9, <2>1 DEF HasRead
  <2>2. CASE p.done
    <3>1. e < Len(s) /\ Off(s, e + 1) <= n /\ Spans(p.rest, w, Off(s, e + 1), n)
      BY <1>1, <1>7, <2>2 DEF HasRead
    <3>2. e + 1 \in e..Len(s)
      BY <1>9, <3>1
    <3> QED
      BY <3>1, <3>2
  <2> QED
    BY <2>1, <2>2
<1>11. PICK m \in e..Len(s) : Spans(p.rest, w, Off(s, m), n) /\ Off(s, m) <= n
  BY <1>10
<1>12. p.rest \in Seq(Piece) /\ Len(p.rest) <= Len(rest) + n - a
  <2>1. m \in d..Len(s) /\ m \in 0..Len(s) /\ m - d >= 0
    BY <1>2, <1>8, <1>9
  <2>2. PICK y \in Nat : y = Off(s, m)
    BY <2>1, WireTypes
  <2>3. z + (m - d) <= y
    BY <1>2, <1>3, <2>1, <2>2, WireBefore
  <2>4. z <= y
    BY <1>2, <1>9, <2>1, <2>3
  <2>5. p.rest \in Seq(Piece) /\ Len(p.rest) = n - y /\ Len(rest) = a - z
    BY <1>2, <1>3, <1>11, <2>2 DEF Spans
  <2> QED
    BY <2>4, <2>5
<1>13. Progress(s, n, p.rest, p.done, e)
  <2>1. \A k \in 1..e : s[k].event.type # "done"
    <3>1. ASSUME NEW k \in 1..e PROVE s[k].event.type # "done"
      <4>1. CASE k <= d
        <5>1. k \in 1..d
          BY <1>2, <1>9, <4>1
        <5> QED
          BY <1>2, <5>1
      <4>2. CASE ~(k <= d)
        <5>1. k - d \in 1..e - d /\ d + (k - d) = k
          BY <1>2, <1>8, <1>9, <4>2
        <5> QED
          BY <1>8, <5>1 DEF Brings
      <4> QED
        BY <4>1, <4>2
    <3> QED
      BY <3>1
  <2>2. ~p.done => /\ Off(s, e) <= n /\ Spans(p.rest, Pieces(s), Off(s, e), n)
                   /\ e < Len(s) => n < Off(s, e + 1)
    BY <1>7 DEF HasRead
  <2>3. p.done => /\ e < Len(s) /\ s[e + 1].event.type = "done"
                  /\ Off(s, e + 1) <= n
    BY <1>7 DEF HasRead
  <2> QED
    BY <1>9, <2>1, <2>2, <2>3 DEF Progress
<1>14. \/ Interpreted(p.events).failed /\ ~WithinLimits(s, e)
       \/ Made(s, Interpreted(p.events), e)
  <2>1. reply = MadeOf(s, d) /\ WithinLimits(s, d)
    BY DEF Made
  <2> QED
    BY <1>2, <1>8, <2>1, InterpretedMakes DEF Made
<1> QED
  BY <1>6, <1>8, <1>12, <1>13, <1>14

LEMMA ReceiveKeeps ==
  ASSUME Inv, Receive
  PROVE  Inv'
<1>1. PICK s \in Seq(Served) : s = sent
  BY DEF Inv
<1>2. PICK w \in Seq(Piece) : w = Pieces(sent)
  BY <1>1, LengthOfPieces
<1>3. PICK n \in arrived + 1..Len(w) :
        /\ arrived' = n
        /\ IF \/ n > MaxStream
              \/ ~done /\ Len(remainder) + n - arrived > MaxRemainder
           THEN outcome' = "failed" /\ UNCHANGED <<remainder, done, reply>>
           ELSE /\ Feed(SubSeq(w, arrived + 1, n))
                /\ outcome' = IF reply'.failed THEN "failed" ELSE "open"
  BY <1>2 DEF Receive
<1>4. outcome = "open" /\ sent' = s /\ Pieces(sent') = w
  BY <1>1, <1>2 DEF Receive
<1>5. PICK a \in Nat : a = arrived
  BY DEF Inv
<1>6. n \in Nat /\ a < n /\ n <= Len(w) /\ n \in 0..Len(w)
  BY <1>3, <1>5
<1>7. /\ Ordered(s) /\ remainder \in Seq(Piece) /\ done \in BOOLEAN
      /\ a <= MaxStream /\ Len(remainder) <= MaxRemainder
  BY <1>1, <1>4, <1>5 DEF Inv
<1>8. PICK d : Progress(s, a, remainder, done, d) /\ Made(s, reply, d)
  BY <1>1, <1>4, <1>5 DEF Inv
<1>9. SUFFICES
        /\ remainder' \in Seq(Piece) /\ done' \in BOOLEAN
        /\ outcome' \in {"open", "failed"}
        /\ outcome' # "failed" =>
             /\ n <= MaxStream /\ Len(remainder') <= MaxRemainder
             /\ \E e : Progress(s, n, remainder', done', e) /\ Made(s, reply', e)
  BY <1>3, <1>4, <1>6, <1>7 DEF Inv
<1>10. CASE \/ n > MaxStream
            \/ ~done /\ Len(remainder) + n - a > MaxRemainder
  <2>1. outcome' = "failed" /\ remainder' = remainder /\ done' = done
    BY <1>3, <1>5, <1>10
  <2> QED
    BY <1>7, <2>1
<1>11. CASE ~(\/ n > MaxStream
              \/ ~done /\ Len(remainder) + n - a > MaxRemainder)
  <2>1. /\ Feed(SubSeq(w, a + 1, n))
        /\ outcome' = IF reply'.failed THEN "failed" ELSE "open"
    BY <1>3, <1>5, <1>11
  <2>2. n <= MaxStream
    BY <1>6, <1>11, StreamAssumption
  <2>3. CASE done
    <3>1. remainder' = remainder /\ done' = done /\ reply' = reply
      BY <2>1, <2>3 DEF Feed
    <3>2. Progress(s, n, remainder, done, d)
      <4>1. /\ d \in 0..Len(s) /\ d < Len(s) /\ Off(s, d + 1) <= a
            /\ s[d + 1].event.type = "done"
            /\ \A k \in 1..d : s[k].event.type # "done"
        BY <1>8, <2>3 DEF Progress
      <4>2. Off(s, d + 1) \in Nat
        <5>1. d + 1 \in 0..Len(s)
          BY <4>1
        <5> QED
          BY <5>1, WireTypes
      <4>3. Off(s, d + 1) <= n
        BY <1>6, <4>1, <4>2
      <4> QED
        BY <2>3, <4>1, <4>3 DEF Progress
    <3> QED
      BY <1>7, <1>8, <2>1, <2>2, <3>1, <3>2
  <2>4. CASE ~done
    <3>1. PICK text : text = remainder \o SubSeq(w, a + 1, n)
      OBVIOUS
    <3>2. /\ remainder' = Parsed(text).rest /\ done' = Parsed(text).done
          /\ reply' = Interpreted(Parsed(text).events)
      BY <2>1, <2>4, <3>1 DEF Feed
    <3>3. Len(remainder) + n - a <= MaxRemainder
      BY <1>6, <1>7, <1>11, <2>4, StreamAssumption
    <3>4. Progress(s, a, remainder, FALSE, d)
      BY <1>8, <2>4 DEF Progress
    <3>5. /\ remainder' \in Seq(Piece) /\ done' \in BOOLEAN
          /\ Len(remainder') <= Len(remainder) + n - a
          /\ reply'.failed \/
               \E e : Progress(s, n, remainder', done', e) /\ Made(s, reply', e)
      BY <1>1, <1>2, <1>6, <1>7, <1>8, <3>1, <3>2, <3>4, ChunkIsRead
    <3>6. Len(remainder') <= MaxRemainder
      BY <1>6, <1>7, <3>3, <3>5, StreamAssumption
    <3> QED
      BY <2>1, <2>2, <3>5, <3>6
  <2> QED
    BY <2>3, <2>4
<1> QED
  BY <1>10, <1>11

\* Nothing but the outcome changes, or nothing at all.
LEMMA RestKeeps ==
  ASSUME Inv, TransferFails \/ TransferEnds \/ UNCHANGED vars
  PROVE  Inv'
<1>1. /\ sent' = sent /\ arrived' = arrived /\ remainder' = remainder
      /\ done' = done /\ reply' = reply
  BY DEF TransferFails, TransferEnds, vars
<1>2. \/ outcome = "open" /\ outcome' = "failed"
      \/ outcome = "open" /\ outcome' = "reply" /\ Finalizes
      \/ outcome' = outcome
  BY DEF TransferFails, TransferEnds, vars
<1>3. Finalizes' <=> Finalizes
  BY <1>1 DEF Finalizes
<1> QED
  BY <1>1, <1>2, <1>3 DEF Inv

LEMMA Invariant == Spec => []Inv
<1>1. Init => Inv
  BY Initially
<1>2. ASSUME Inv, [Next]_vars PROVE Inv'
  <2>1. CASE Serve
    BY <1>2, <2>1, ServeKeeps
  <2>2. CASE Receive
    BY <1>2, <2>2, ReceiveKeeps
  <2>3. CASE TransferFails \/ TransferEnds \/ UNCHANGED vars
    BY <1>2, <2>3, RestKeeps
  <2> QED
    BY <1>2, <2>1, <2>2, <2>3 DEF Next, Rest
<1> QED
  BY <1>1, <1>2, PTL DEF Spec

-----------------------------------------------------------------------------
(* What follows from it *)

\* Types and limits, for streams and chunks of every length.
THEOREM StreamTypes == Spec => []TypeOK
<1>1. ASSUME Inv, outcome # "failed"
      PROVE  /\ IsFiniteSet(DOMAIN reply.calls)
             /\ Cardinality(DOMAIN reply.calls) <= MaxToolCalls
             /\ \A i \in DOMAIN reply.calls : Len(reply.calls[i]) <= MaxArguments
  <2>1. PICK d : /\ Progress(sent, arrived, remainder, done, d)
                 /\ Made(sent, reply, d)
    BY <1>1 DEF Inv
  <2>2. d \in Nat
    BY <2>1 DEF Progress
  <2>3. /\ DOMAIN reply.calls = Calls(sent, d)
        /\ \A i \in Calls(sent, d) :
             reply.calls[i] = Count(Cardinality(Frags(sent, d, i)) - 1)
    BY <2>1 DEF Made, MadeOf
  <2>4. /\ Cardinality(Calls(sent, d)) <= MaxToolCalls
        /\ \A i \in Calls(sent, d) : Cardinality(Frags(sent, d, i)) - 1 <= MaxArguments
    BY <2>1 DEF Made, WithinLimits
  <2>5. IsFiniteSet(Calls(sent, d))
    BY <2>2, FragsAreFinite
  <2>6. ASSUME NEW i \in Calls(sent, d) PROVE Len(reply.calls[i]) <= MaxArguments
    <3>1. PICK c \in Nat : c = Cardinality(Frags(sent, d, i))
      BY <2>2, FragsAreFinite
    <3>2. c # 0
      BY <2>2, <3>1, FragsAreFinite DEF Calls
    <3>3. c - 1 \in Nat
      BY <3>2
    <3> QED
      BY <2>3, <2>4, <3>1, <3>3, CountIs
  <2> QED
    BY <2>3, <2>4, <2>5, <2>6
<1>2. Inv => TypeOK
  BY <1>1 DEF Inv, TypeOK, Served
<1> QED
  BY <1>2, Invariant, PTL

\* The events that count when a pieces of s have arrived.
Came(s, a) ==
  {k \in 1..Len(s) : /\ Len(Pieces(SubSeq(s, 1, k))) <= a
                     /\ \A j \in 1..k : s[j].event.type # "done"}

\* What counts are the events that have been taken.
LEMMA DeliveredAre ==
  ASSUME NEW s \in Seq(Served), NEW a \in 0..Len(Pieces(s)), NEW rest, NEW over,
         NEW d, over \in BOOLEAN, Progress(s, a, rest, over, d)
  PROVE  Came(s, a) = 1..d
<1>2. a \in Nat
  BY LengthOfPieces
<1>3. /\ d \in 0..Len(s) /\ d \in Nat /\ \A k \in 1..d : s[k].event.type # "done"
      /\ ~over => Off(s, d) <= a /\ (d < Len(s) => a < Off(s, d + 1))
      /\ over => /\ d < Len(s) /\ s[d + 1].event.type = "done"
                 /\ Off(s, d + 1) <= a
  BY <1>2 DEF Progress
<1>4. Came(s, a) = {k \in 1..Len(s) : /\ Off(s, k) <= a
                                      /\ \A j \in 1..k : s[j].event.type # "done"}
  BY DEF Came, Off, Wire
<1>5. PICK z \in Nat : z = Off(s, d)
  BY <1>3, WireTypes
<1>6. z <= a
  <2>1. CASE ~over
    BY <1>3, <1>5, <2>1
  <2>2. CASE over
    <3>1. d + 1 \in d..Len(s) /\ d + 1 \in 0..Len(s)
      BY <1>3, <2>2
    <3>2. PICK y \in Nat : y = Off(s, d + 1)
      BY <3>1, WireTypes
    <3>3. z + (d + 1 - d) <= y
      BY <1>3, <1>5, <3>1, <3>2, WireBefore
    <3>4. y <= a
      BY <1>3, <2>2, <3>2
    <3> QED
      BY <1>3, <3>3, <3>4
  <2> QED
    BY <2>1, <2>2
<1>7. ASSUME NEW k \in 1..d
      PROVE  /\ k \in 1..Len(s) /\ Off(s, k) <= a
             /\ \A j \in 1..k : s[j].event.type # "done"
  <2>1. k \in 0..Len(s) /\ k \in 1..Len(s) /\ d \in k..Len(s) /\ \A j \in 1..k : j \in 1..d
    BY <1>3
  <2>2. PICK y \in Nat : y = Off(s, k)
    BY <2>1, WireTypes
  <2>3. y + (d - k) <= z
    BY <1>5, <2>1, <2>2, WireBefore
  <2>4. y <= a
    BY <1>3, <1>6, <2>3
  <2> QED
    BY <1>3, <2>1, <2>2, <2>4
<1>8. ASSUME NEW k \in 1..Len(s), k > d, Off(s, k) <= a,
             \A j \in 1..k : s[j].event.type # "done"
      PROVE  FALSE
  <2>1. d < Len(s) /\ d + 1 \in 1..k /\ d + 1 \in 0..Len(s) /\ k \in d + 1..Len(s)
    BY <1>3, <1>8
  <2>2. ~over /\ a < Off(s, d + 1)
    BY <1>3, <1>8, <2>1
  <2>3. PICK y \in Nat : y = Off(s, d + 1)
    BY <2>1, WireTypes
  <2>4. PICK x \in Nat : x = Off(s, k)
    BY <2>1, WireTypes
  <2>5. y + (k - (d + 1)) <= x
    BY <2>1, <2>3, <2>4, WireBefore
  <2>6. a < y /\ x <= a
    BY <1>8, <2>2, <2>3, <2>4
  <2> QED
    BY <1>3, <2>1, <2>5, <2>6
<1>9. ASSUME NEW k PROVE k \in Came(s, a) <=> k \in 1..d
  <2>1. k \in 1..d => k \in Came(s, a)
    BY <1>4, <1>7
  <2>2. ASSUME k \in Came(s, a) PROVE k \in 1..d
    <3>1. /\ k \in 1..Len(s) /\ Off(s, k) <= a
          /\ \A j \in 1..k : s[j].event.type # "done"
      BY <1>4, <2>2
    <3>2. ~(k > d)
      BY <1>8, <3>1
    <3> QED
      BY <1>3, <3>1, <3>2
  <2> QED
    BY <2>1, <2>2
<1> QED
  BY <1>9

LEMMA NumbersUpTo ==
  ASSUME NEW c \in Nat \ {0}, NEW P, \A n : n \in P <=> n \in 0..c - 1
  PROVE  P \ {0} = 1..c - 1 /\ Cardinality(P \ {0}) = c - 1
<1>1. PICK m \in Nat : m = c - 1
  OBVIOUS
<1>2. P \ {0} = 1..m
  <2>1. ASSUME NEW n PROVE n \in P \ {0} <=> n \in 1..m
    BY <1>1
  <2> QED
    BY <2>1
<1>3. Cardinality(1..m) = IF 1 > m THEN 0 ELSE m - 1 + 1
  BY FS_Interval
<1>4. Cardinality(1..m) = m
  BY <1>3
<1> QED
  BY <1>1, <1>2, <1>4

\* The calls and the arguments that came with the first d events.
CallsIn(s, d) == {s[k].event.index : k \in {k \in 1..d : s[k].event.type = "call"}}

PartsIn(s, d, i) == {s[k].event.part : k \in Frags(s, d, i)} \ {0}

LEMMA CallsAre ==
  ASSUME NEW s, Ordered(s), NEW d \in 0..Len(s), Len(s) \in Nat
  PROVE  CallsIn(s, d) = Calls(s, d)
<1>1. ASSUME NEW i \in Calls(s, d) PROVE i \in CallsIn(s, d)
  <2>1. PICK k \in Frags(s, d, i) : TRUE
    BY DEF Calls
  <2> QED
    BY <2>1 DEF Frags, CallsIn
<1>2. ASSUME NEW k \in 1..d, s[k].event.type = "call"
      PROVE  s[k].event.index \in Calls(s, d)
  <2>1. k \in 1..Len(s)
    OBVIOUS
  <2>2. s[k].event.index \in Indices
    BY <1>2, <2>1 DEF Ordered
  <2>3. k \in Frags(s, d, s[k].event.index)
    BY <1>2 DEF Frags
  <2> QED
    BY <2>2, <2>3 DEF Calls
<1> QED
  BY <1>1, <1>2 DEF CallsIn

LEMMA PartsAre ==
  ASSUME NEW s \in Seq(Served), Ordered(s), NEW d \in 0..Len(s), NEW i \in Indices
  PROVE  /\ i \notin Calls(s, d) => PartsIn(s, d, i) = {}
         /\ i \in Calls(s, d) =>
              /\ Cardinality(Frags(s, d, i)) - 1 \in Nat
              /\ PartsIn(s, d, i) = 1..Cardinality(Frags(s, d, i)) - 1
              /\ Cardinality(PartsIn(s, d, i)) = Cardinality(Frags(s, d, i)) - 1
<1>1. CASE i \notin Calls(s, d)
  <2>1. Frags(s, d, i) = {}
    BY <1>1 DEF Calls
  <2> QED
    BY <1>1, <2>1 DEF PartsIn
<1>2. CASE i \in Calls(s, d)
  <2>0. d \in Nat
    OBVIOUS
  <2>1. PICK c \in Nat : c = Cardinality(Frags(s, d, i))
    BY <2>0, FragsAreFinite
  <2>2. c # 0
    BY <1>2, <2>0, <2>1, FragsAreFinite DEF Calls
  <2>3. PICK parts : parts = {s[k].event.part : k \in Frags(s, d, i)}
    OBVIOUS
  <2>4. \A n : n \in parts <=> n \in 0..c - 1
    <3>1. \A n : (\E k \in Frags(s, d, i) : s[k].event.part = n) <=> n \in 0..c - 1
      BY <2>1, PartsAreTheFirst
    <3>2. \A n : n \in parts <=> \E k \in Frags(s, d, i) : s[k].event.part = n
      BY <2>3
    <3> QED
      BY <3>1, <3>2
  <2>5. parts \ {0} = 1..c - 1 /\ Cardinality(parts \ {0}) = c - 1
    BY <2>2, <2>4, NumbersUpTo
  <2>6. PartsIn(s, d, i) = parts \ {0}
    BY <2>3 DEF PartsIn
  <2> QED
    BY <1>2, <2>1, <2>2, <2>5, <2>6
<1> QED
  BY <1>1, <1>2

\* What came is unacceptable when a limit is exceeded with it, or when it is
\* an error.
Refusable(s, d) ==
  \/ {k \in 1..d : s[k].event.type = "error"} # {}
  \/ {k \in 1..d : s[k].event.type = "broken"} # {}
  \/ Cardinality(CallsIn(s, d)) > MaxToolCalls
  \/ \E i \in Indices : Cardinality(PartsIn(s, d, i)) > MaxArguments

LEMMA RefusableIs ==
  ASSUME NEW s \in Seq(Served), Ordered(s), NEW d \in 0..Len(s)
  PROVE  Refusable(s, d) <=> ~WithinLimits(s, d)
<1>1. /\ CallsIn(s, d) = Calls(s, d) /\ Cardinality(Calls(s, d)) \in Nat
  BY CallsAre, FragsAreFinite
<1>2. Cardinality(CallsIn(s, d)) > MaxToolCalls <=>
        ~(Cardinality(Calls(s, d)) <= MaxToolCalls)
  BY <1>1, StreamAssumption
<1>3. (\E i \in Indices : Cardinality(PartsIn(s, d, i)) > MaxArguments) <=>
        ~\A i \in Calls(s, d) : Cardinality(Frags(s, d, i)) - 1 <= MaxArguments
  <2>1. ASSUME NEW i \in Indices
        PROVE  Cardinality(PartsIn(s, d, i)) > MaxArguments <=>
                 /\ i \in Calls(s, d)
                 /\ ~(Cardinality(Frags(s, d, i)) - 1 <= MaxArguments)
    <3>1. CASE i \in Calls(s, d)
      <4>1. PICK p \in Nat : /\ p = Cardinality(Frags(s, d, i)) - 1
                             /\ Cardinality(PartsIn(s, d, i)) = p
        BY <3>1, PartsAre
      <4> QED
        BY <3>1, <4>1, StreamAssumption
    <3>2. CASE i \notin Calls(s, d)
      <4>1. Cardinality(PartsIn(s, d, i)) = 0
        BY <3>2, PartsAre, FS_EmptySet
      <4> QED
        BY <3>2, <4>1, StreamAssumption
    <3> QED
      BY <3>1, <3>2
  <2>2. Calls(s, d) \subseteq Indices
    BY DEF Calls
  <2> QED
    BY <2>1, <2>2
<1>4. ({k \in 1..d : s[k].event.type = "error"} = {}
         /\ {k \in 1..d : s[k].event.type = "broken"} = {}) <=>
        \A k \in 1..d : s[k].event.type \notin {"error", "broken"}
  OBVIOUS
<1> QED
  BY <1>2, <1>3, <1>4 DEF Refusable, WithinLimits

\* However the stream is cut, the reply is made of the events that have
\* arrived whole before [DONE], all of them, once, each fragment in its place.
THEOREM RepliesReadWhatArrived == Spec => []ReplyReadsWhatArrived
<1>1. ASSUME Inv, outcome # "failed"
      PROVE  /\ OfType("error") = {} /\ OfType("broken") = {}
             /\ reply.content = Cardinality(OfType("text"))
             /\ DOMAIN reply.calls = CallsThatCame
             /\ \A i \in DOMAIN reply.calls :
                  reply.calls[i] = [n \in 1..Cardinality(ArgumentsThatCame(i)) |-> n]
  <2>1. PICK d : /\ Progress(sent, arrived, remainder, done, d)
                 /\ Made(sent, reply, d)
    BY <1>1 DEF Inv
  <2>2. PICK s \in Seq(Served) : s = sent
    BY <1>1 DEF Inv
  <2>3. Ordered(s) /\ d \in 0..Len(s) /\ d \in Nat
    BY <1>1, <2>1, <2>2 DEF Inv, Progress
  <2>4. Delivered = 1..d
    <3>1. Came(s, arrived) = 1..d
      BY <1>1, <2>1, <2>2, DeliveredAre DEF Inv
    <3> QED
      BY <2>2, <3>1 DEF Delivered, Came
  <2>5. \A t : OfType(t) = {k \in 1..d : s[k].event.type = t}
    BY <2>2, <2>4 DEF OfType
  <2>6. /\ reply.content = Cardinality(Texts(s, d))
        /\ DOMAIN reply.calls = Calls(s, d)
        /\ \A i \in Calls(s, d) : reply.calls[i] = Count(Cardinality(Frags(s, d, i)) - 1)
        /\ \A k \in 1..d : s[k].event.type \notin {"error", "broken"}
    BY <2>1, <2>2 DEF Made, MadeOf, WithinLimits
  <2>7. OfType("error") = {} /\ OfType("broken") = {}
    BY <2>5, <2>6
  <2>8. reply.content = Cardinality(OfType("text"))
    BY <2>5, <2>6 DEF Texts
  <2>9. CallsThatCame = CallsIn(s, d)
    BY <2>2, <2>5 DEF CallsThatCame, CallsIn
  <2>10. \A i : ArgumentsThatCame(i) = PartsIn(s, d, i)
    BY <2>2, <2>5 DEF ArgumentsThatCame, PartsIn, Frags
  <2>11. DOMAIN reply.calls = CallsThatCame
    BY <2>3, <2>6, <2>9, CallsAre
  <2>12. ASSUME NEW i \in DOMAIN reply.calls
         PROVE  reply.calls[i] = [n \in 1..Cardinality(ArgumentsThatCame(i)) |-> n]
    <3>1. i \in Calls(s, d) /\ i \in Indices
      BY <2>6 DEF Calls
    <3>2. Cardinality(ArgumentsThatCame(i)) = Cardinality(Frags(s, d, i)) - 1
      BY <2>3, <2>10, <3>1, PartsAre
    <3> QED
      BY <2>6, <3>1, <3>2 DEF Count
  <2> QED
    BY <2>7, <2>8, <2>11, <2>12
<1>2. Inv => ReplyReadsWhatArrived
  BY <1>1, Zenon DEF ReplyReadsWhatArrived
<1> QED
  BY <1>2, Invariant, PTL

-----------------------------------------------------------------------------
(* A reply fails for what the server sent *)

TooMuch(n) ==
  \/ n > MaxStream
  \/ ~done /\ Len(remainder) + n - arrived > MaxRemainder

\* What the limits compare is what has arrived since the last whole event.
LEMMA OverrunIs ==
  ASSUME Inv, outcome = "open", NEW n \in Nat
  PROVE  Overrun(n) <=> TooMuch(n)
<1>1. PICK s \in Seq(Served) : s = sent
  BY DEF Inv
<1>2. PICK a \in Nat : a = arrived
  BY DEF Inv
<1>3. PICK d : Progress(s, a, remainder, done, d)
  BY <1>1, <1>2 DEF Inv
<1>4. /\ d \in 0..Len(s) /\ d \in Nat /\ \A k \in 1..d : s[k].event.type # "done"
      /\ ~done => /\ Off(s, d) <= a /\ Spans(remainder, Pieces(s), Off(s, d), a)
                  /\ d < Len(s) => a < Off(s, d + 1)
      /\ done => /\ d < Len(s) /\ s[d + 1].event.type = "done"
                 /\ Off(s, d + 1) <= a
  BY <1>3 DEF Progress
<1>5. PICK z \in Nat : z = Off(s, d)
  BY <1>4, WireTypes
<1>6. Cardinality(Delivered) = d
  <2>1. Came(s, a) = 1..d
    BY <1>1, <1>2, <1>3, DeliveredAre DEF Inv
  <2>2. Delivered = 1..d
    BY <1>1, <1>2, <2>1 DEF Delivered, Came
  <2>3. Cardinality(1..d) = IF 1 > d THEN 0 ELSE d - 1 + 1
    BY <1>4, FS_Interval
  <2> QED
    BY <1>4, <2>2, <2>3
<1>7. Len(Pieces(SubSeq(sent, 1, Cardinality(Delivered)))) = z
  BY <1>1, <1>5, <1>6 DEF Off, Wire
<1>8. \A k : Len(Pieces(SubSeq(sent, 1, k))) = Off(s, k)
  BY <1>1 DEF Off, Wire
<1>9. CASE done
  <2>1. d + 1 \in 1..Len(s) /\ d + 1 \in 0..Len(s)
    BY <1>4, <1>9
  <2>2. PICK y \in Nat : y = Off(s, d + 1)
    BY <2>1, WireTypes
  <2>3. ~(a < y) /\ s[d + 1].event.type = "done"
    BY <1>4, <1>9, <2>2
  <2>4. ~\A k \in 1..Len(sent) :
           sent[k].event.type = "done" =>
             arrived < Len(Pieces(SubSeq(sent, 1, k)))
    BY <1>1, <1>2, <1>8, <2>1, <2>2, <2>3
  <2> QED
    BY <1>9, <2>4 DEF Overrun, TooMuch
<1>10. CASE ~done
  <2>1. ASSUME NEW k \in 1..Len(s), s[k].event.type = "done"
        PROVE  a < Off(s, k)
    <3>1. ~(k <= d)
      BY <1>4, <2>1
    <3>2. d < Len(s) /\ d + 1 \in 0..Len(s) /\ k \in d + 1..Len(s)
          /\ k \in 0..Len(s)
      BY <1>4, <3>1
    <3>3. PICK y \in Nat : y = Off(s, d + 1)
      BY <3>2, WireTypes
    <3>4. PICK x \in Nat : x = Off(s, k)
      BY <3>2, WireTypes
    <3>5. y + (k - (d + 1)) <= x
      BY <3>2, <3>3, <3>4, WireBefore
    <3>6. a < y
      BY <1>4, <1>10, <3>2, <3>3
    <3> QED
      BY <1>4, <3>2, <3>4, <3>5, <3>6
  <2>2. \A k \in 1..Len(sent) :
          sent[k].event.type = "done" =>
            arrived < Len(Pieces(SubSeq(sent, 1, k)))
    BY <1>1, <1>2, <1>8, <2>1
  <2>3. Len(remainder) = a - z
    BY <1>4, <1>5, <1>10 DEF Spans
  <2>4. n - z = Len(remainder) + n - a
    BY <2>3
  <2> QED
    BY <1>2, <1>7, <1>10, <2>2, <2>4 DEF Overrun, TooMuch
<1> QED
  BY <1>9, <1>10

\* What a chunk that is not too much leaves: a reply made of what came, or one
\* that failed for something in it.
LEMMA ReceiveReads ==
  ASSUME Inv, Receive, ~TooMuch(arrived')
  PROVE  \E e : /\ Progress(sent, arrived', remainder', done', e)
                /\ done' \in BOOLEAN
                /\ \/ outcome' = "failed" /\ ~WithinLimits(sent, e)
                   \/ outcome' = "open" /\ WithinLimits(sent, e)
<1>1. PICK s \in Seq(Served) : s = sent
  BY DEF Inv
<1>2. PICK w \in Seq(Piece) : w = Pieces(sent)
  BY <1>1, LengthOfPieces
<1>3. PICK n \in arrived + 1..Len(w) :
        /\ arrived' = n
        /\ IF \/ n > MaxStream
              \/ ~done /\ Len(remainder) + n - arrived > MaxRemainder
           THEN outcome' = "failed" /\ UNCHANGED <<remainder, done, reply>>
           ELSE /\ Feed(SubSeq(w, arrived + 1, n))
                /\ outcome' = IF reply'.failed THEN "failed" ELSE "open"
  BY <1>2 DEF Receive
<1>4. PICK a \in Nat : a = arrived
  BY DEF Inv
<1>5. n \in Nat /\ a < n /\ n <= Len(w)
  BY <1>3, <1>4
<1>6. /\ Feed(SubSeq(w, a + 1, n))
      /\ outcome' = IF reply'.failed THEN "failed" ELSE "open"
  BY <1>3, <1>4 DEF TooMuch
<1>7. Ordered(s) /\ done \in BOOLEAN /\ outcome = "open"
  BY <1>1 DEF Inv, Receive
<1>8. PICK d : Progress(s, a, remainder, done, d) /\ Made(s, reply, d)
  BY <1>1, <1>4, <1>7 DEF Inv
<1>9. CASE done
  <2>1. remainder' = remainder /\ done' = done /\ reply' = reply
    BY <1>6, <1>9 DEF Feed
  <2>2. /\ d \in 0..Len(s) /\ d < Len(s) /\ Off(s, d + 1) <= a
        /\ s[d + 1].event.type = "done"
        /\ \A k \in 1..d : s[k].event.type # "done"
    BY <1>8, <1>9 DEF Progress
  <2>3. d + 1 \in 0..Len(s)
    BY <2>2
  <2>4. Off(s, d + 1) \in Nat
    BY <2>3, WireTypes
  <2>5. Off(s, d + 1) <= n
    BY <1>5, <2>2, <2>4
  <2>6. Progress(s, n, remainder', done', d)
    BY <1>9, <2>1, <2>2, <2>5 DEF Progress
  <2>7. ~reply'.failed /\ WithinLimits(s, d)
    BY <1>8, <2>1 DEF Made, MadeOf
  <2> QED
    BY <1>1, <1>3, <1>6, <1>7, <2>1, <2>6, <2>7
<1>10. CASE ~done
  <2>1. PICK text : text = remainder \o SubSeq(w, a + 1, n)
    OBVIOUS
  <2>2. /\ remainder' = Parsed(text).rest /\ done' = Parsed(text).done
        /\ reply' = Interpreted(Parsed(text).events)
    BY <1>6, <1>10, <2>1 DEF Feed
  <2>3. Progress(s, a, remainder, FALSE, d)
    BY <1>8, <1>10 DEF Progress
  <2>4. /\ done' \in BOOLEAN
        /\ \E e : /\ Progress(s, n, remainder', done', e)
                  /\ \/ reply'.failed /\ ~WithinLimits(s, e)
                     \/ Made(s, reply', e)
    BY <1>1, <1>2, <1>5, <1>7, <1>8, <2>1, <2>2, <2>3, ChunkIsRead
  <2>5. PICK e : /\ Progress(s, n, remainder', done', e)
                 /\ \/ reply'.failed /\ ~WithinLimits(s, e)
                    \/ Made(s, reply', e)
    BY <2>4
  <2>6. \/ outcome' = "failed" /\ ~WithinLimits(s, e)
        \/ outcome' = "open" /\ WithinLimits(s, e)
    BY <1>6, <2>5 DEF Made, MadeOf
  <2> QED
    BY <1>1, <1>3, <2>4, <2>5, <2>6
<1> QED
  BY <1>9, <1>10

\* A chunk makes the reply fail when it is too much or brings what cannot be
\* accepted, and for nothing else.
LEMMA ReceiveFailsForCause ==
  ASSUME Inv, Inv', Receive
  PROVE  outcome' = "failed" <=> Overrun(arrived') \/ Unacceptable'
<1>1. PICK n \in Nat : n = arrived'
  BY DEF Inv
<1>2. outcome = "open" /\ sent' = sent
  BY DEF Receive
<1>3. Overrun(arrived') <=> TooMuch(arrived')
  BY <1>1, <1>2, OverrunIs
<1>4. CASE TooMuch(arrived')
  <2>1. outcome' = "failed"
    BY <1>4 DEF Receive, TooMuch
  <2> QED
    BY <1>3, <1>4, <2>1
<1>5. CASE ~TooMuch(arrived')
  <2>1. PICK s \in Seq(Served) : s = sent
    BY DEF Inv
  <2>2. PICK e : /\ Progress(s, n, remainder', done', e) /\ done' \in BOOLEAN
                 /\ \/ outcome' = "failed" /\ ~WithinLimits(s, e)
                    \/ outcome' = "open" /\ WithinLimits(s, e)
    BY <1>1, <1>5, <2>1, ReceiveReads
  <2>3. e \in 0..Len(s) /\ Ordered(s) /\ n \in 0..Len(Pieces(s))
    BY <1>1, <1>2, <2>1, <2>2 DEF Progress, Inv
  <2>4. Came(s, n) = 1..e
    BY <2>2, <2>3, DeliveredAre
  <2>5. Delivered' = 1..e
    BY <1>1, <1>2, <2>1, <2>4 DEF Delivered, Came
  <2>6. \A t : OfType(t)' = {k \in 1..e : s[k].event.type = t}
    BY <1>2, <2>1, <2>5 DEF OfType
  <2>7. CallsThatCame' = CallsIn(s, e)
    BY <1>2, <2>1, <2>5 DEF CallsThatCame, CallsIn, OfType
  <2>8. \A i \in Indices : ArgumentsThatCame(i)' = PartsIn(s, e, i)
    BY <1>2, <2>1, <2>5 DEF ArgumentsThatCame, PartsIn, Frags, OfType
  <2>9. Unacceptable' <=> Refusable(s, e)
    BY <1>2, <2>1, <2>5, <2>7, <2>8 DEF Unacceptable, Refusable, OfType
  <2>10. Refusable(s, e) <=> ~WithinLimits(s, e)
    BY <2>3, RefusableIs
  <2> QED
    BY <1>3, <1>5, <2>2, <2>9, <2>10
<1> QED
  BY <1>4, <1>5

LEMMA IntervalsDiffer ==
  ASSUME NEW p \in Nat, NEW q \in Nat
  PROVE  (1..p = {} <=> p = 0) /\ (1..p = 1..q <=> p = q)
<1>1. p = 0 => 1..p = {}
  OBVIOUS
<1>2. p # 0 => 1 \in 1..p
  OBVIOUS
<1>3. ASSUME 1..p = 1..q PROVE p = q
  <2>1. p \in 1..p \/ p = 0
    OBVIOUS
  <2>2. q \in 1..q \/ q = 0
    OBVIOUS
  <2>3. p \in 1..q \/ p = 0
    BY <1>3, <2>1
  <2>4. q \in 1..p \/ q = 0
    BY <1>3, <2>2
  <2> QED
    BY <2>3, <2>4
<1> QED
  BY <1>1, <1>2, <1>3

\* When the transfer has ended, a call cut inside its arguments makes the reply
\* fail, and nothing else does.
LEMMA EndFailsForCause ==
  ASSUME Inv, TransferEnds
  PROVE  outcome' = "failed" <=>
           \E i \in Indices : ArgumentsThatCame(i) \notin {{}, 1..Parts}
<1>1. outcome = "open" /\ outcome' = IF Finalizes THEN "reply" ELSE "failed"
  BY DEF TransferEnds
<1>2. PICK s \in Seq(Served) : s = sent
  BY DEF Inv
<1>3. PICK d : /\ Progress(s, arrived, remainder, done, d)
               /\ Made(s, reply, d)
  BY <1>1, <1>2 DEF Inv
<1>4. Ordered(s) /\ d \in 0..Len(s) /\ d \in Nat
  BY <1>2, <1>3 DEF Inv, Progress
<1>5. Delivered = 1..d
  <2>1. Came(s, arrived) = 1..d
    BY <1>2, <1>3, DeliveredAre DEF Inv
  <2> QED
    BY <1>2, <2>1 DEF Delivered, Came
<1>6. \A i : ArgumentsThatCame(i) = PartsIn(s, d, i)
  BY <1>2, <1>5 DEF ArgumentsThatCame, PartsIn, Frags, OfType
<1>7. /\ DOMAIN reply.calls = Calls(s, d) /\ Calls(s, d) \subseteq Indices
      /\ \A i \in Calls(s, d) : reply.calls[i] = Count(Cardinality(Frags(s, d, i)) - 1)
  BY <1>3 DEF Made, MadeOf, Calls
<1>8. ASSUME NEW i \in Calls(s, d)
      PROVE  WellFormed(reply.calls[i]) <=> ArgumentsThatCame(i) \in {{}, 1..Parts}
  <2>1. i \in Indices
    BY <1>7
  <2>2. PICK p \in Nat : p = Cardinality(Frags(s, d, i)) - 1
    BY <1>4, <2>1, PartsAre
  <2>3. ArgumentsThatCame(i) = 1..p /\ reply.calls[i] = Count(p)
    BY <1>4, <1>6, <1>7, <2>1, <2>2, PartsAre
  <2>4. Len(Count(p)) = p /\ Len(Count(Parts)) = Parts /\ Parts \in Nat /\ Parts # 0
    BY CountIs, StreamAssumption
  <2>5. Count(p) = <<>> <=> p = 0
    <3>1. p = 0 => Count(p) = <<>>
      BY CountIs
    <3> QED
      BY <2>4, <3>1
  <2>6. Count(p) = Count(Parts) <=> p = Parts
    BY <2>4
  <2>7. WellFormed(reply.calls[i]) <=> p \in {0, Parts}
    <3>1. Count(Parts) = [n \in 1..Parts |-> n]
      BY DEF Count
    <3> QED
      BY <2>3, <2>5, <2>6, <3>1, Zenon DEF WellFormed
  <2>8. (1..p = {} <=> p = 0) /\ (1..p = 1..Parts <=> p = Parts)
    BY <2>4, IntervalsDiffer
  <2> QED
    BY <2>3, <2>7, <2>8
<1>9. ASSUME NEW i \in Indices, i \notin Calls(s, d)
      PROVE  ArgumentsThatCame(i) = {}
  BY <1>4, <1>6, <1>9, PartsAre
<1>10. Finalizes <=> \A i \in Indices : ArgumentsThatCame(i) \in {{}, 1..Parts}
  BY <1>7, <1>8, <1>9 DEF Finalizes
<1> QED
  BY <1>1, <1>10

\* A reply fails for what the server sent, and for nothing else, however the
\* stream is cut and however many events, calls and fragments there are.
THEOREM FailuresHaveCause == Spec => FailsForCause
<1>1. ASSUME Inv, Inv', [Next]_vars, arrived' # arrived
      PROVE  outcome' = "failed" <=> Overrun(arrived') \/ Unacceptable'
  <2>1. Receive
    BY <1>1 DEF Next, Serve, TransferFails, TransferEnds, Rest, vars
  <2> QED
    BY <1>1, <2>1, ReceiveFailsForCause
<1>2. Inv /\ Inv' /\ [Next]_vars =>
        [/\ arrived' # arrived =>
              (outcome' = "failed" <=> Overrun(arrived') \/ Unacceptable')
         /\ TransferEnds =>
              (outcome' = "failed" <=>
                 \E i \in Indices :
                   ArgumentsThatCame(i) \notin {{}, 1..Parts})]_vars
  BY <1>1, EndFailsForCause
<1> QED
  BY <1>2, Invariant, PTL DEF Spec, FailsForCause

=============================================================================
