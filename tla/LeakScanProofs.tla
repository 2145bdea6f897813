--------------------------- MODULE LeakScanProofs ---------------------------
(***************************************************************************)
(* Proofs about ct_leak_scan, for all units, separators, literals, limits  *)
(* and files, and however a text is cut into frames and a file into members*)
(* and containers: what is found in a text is found in its pieces and at   *)
(* the seams between them, once each, and the walk comes to every part of a*)
(* file within the limits.                                                 *)
(*                                                                         *)
(* First what a match is, in a piece and in the whole; then a frame's seam *)
(* and what two texts and their seam say of the joined one; the parts of a *)
(* file; the calls of the walk; the steps; and the theorems at the end.    *)
(***************************************************************************)
EXTENDS LeakScan, SequenceTheorems, FiniteSetTheorems, FunctionTheorems, WellFoundedInduction, TLAPS

\* Induction over a set: for a statement about numbers, the set of those it is
\* true of.
LEMMA InductionOverSet ==
    ASSUME NEW S, 0 \in S, \A n \in Nat : n \in S => n + 1 \in S
    PROVE  Nat \subseteq S
<1> DEFINE T == Nat \ S
           R == OpToRel(<, Nat)
<1>1. SUFFICES ASSUME T # {} PROVE FALSE
  OBVIOUS
<1>2. IsWellFoundedOn(R, Nat)
  BY NatLessThanWellFounded
<1>3. PICK x \in T : \A y \in T : <<y, x>> \notin R
  <2> HIDE DEF R
  <2>1. T \subseteq Nat
    OBVIOUS
  <2> HIDE DEF T
  <2> QED BY <1>1, <1>2, <2>1, WFMin
<1>4. x \in Nat /\ x # 0
  OBVIOUS
<1>5. x - 1 \in Nat /\ x - 1 \notin S
  <2>1. x - 1 \in Nat /\ x = (x - 1) + 1
    BY <1>4
  <2> QED BY <1>4, <2>1
<1>6. <<x - 1, x>> \in R
  BY <1>4, <1>5 DEF OpToRel
<1> QED BY <1>3, <1>5, <1>6

\* A set of numbers has a least one.
LEMMA LeastOf ==
    ASSUME NEW T \in SUBSET Nat, T # {}
    PROVE  \E n \in T : \A k \in T : n <= k
<1> DEFINE S == {n \in Nat : \A k \in 0 .. n : k \notin T}
<1>1. SUFFICES ASSUME \A n \in T : \E k \in T : k < n PROVE FALSE
  OBVIOUS
<1>2. 0 \in S
  BY <1>1
<1>3. \A n \in Nat : n \in S => n + 1 \in S
  BY <1>1
<1> HIDE DEF S
<1>4. Nat \subseteq S
  BY <1>2, <1>3, InductionOverSet
<1>5. ASSUME NEW n \in T PROVE FALSE
  <2>1. n \in Nat /\ n \in 0 .. n
    OBVIOUS
  <2> QED BY <1>4, <2>1 DEF S
<1> QED BY <1>5

-----------------------------------------------------------------------------
(* LeakScan: a match in a piece of a text and in the whole.                *)

\* v is the part of w behind its first o units.
Piece(v, w, o) ==
    /\ v \in Seq(Units) /\ w \in Seq(Units) /\ o \in Nat
    /\ o + Len(v) <= Len(w)
    /\ \A k \in 1 .. Len(v) : v[k] = w[o + k]

\* A piece of a text, unit by unit.
LEMMA UnitsOf ==
    ASSUME NEW t \in Seq(Units), NEW p \in 1 .. Len(t) + 1, NEW q \in 0 .. Len(t)
    PROVE  /\ SubSeq(t, p, q) \in Seq(Units)
           /\ Len(SubSeq(t, p, q)) = IF p <= q THEN q - p + 1 ELSE 0
           /\ \A k \in 1 .. q - p + 1 : SubSeq(t, p, q)[k] = t[p + k - 1]
<1>1. \A k \in p .. q : t[k] \in Units
  OBVIOUS
<1> QED BY <1>1, SubSeqProperties

\* Where a word stands.
LEMMA PositionsAre ==
    ASSUME NEW t \in Seq(Units), NEW word \in Seq(Units) \ {<<>>}, NEW p
    PROVE  p \in Positions(t, word) <=>
             /\ p \in Nat \ {0} /\ p + Len(word) - 1 <= Len(t)
             /\ \A k \in 1 .. Len(word) : t[p + k - 1] = word[k]
<1>0. Len(word) \in Nat \ {0} /\ Len(t) \in Nat
  BY EmptySeq
<1>1. p \in 1 .. (Len(t) - Len(word) + 1) <=> p \in Nat \ {0} /\ p + Len(word) - 1 <= Len(t)
  BY <1>0
<1>2. ASSUME p \in Nat \ {0}, p + Len(word) - 1 <= Len(t)
      PROVE  SubSeq(t, p, p + Len(word) - 1) = word <=> \A k \in 1 .. Len(word) : t[p + k - 1] = word[k]
  <2> DEFINE q == p + Len(word) - 1
             w == SubSeq(t, p, q)
  <2>1. p \in 1 .. Len(t) + 1 /\ q \in 0 .. Len(t) /\ p <= q /\ q - p + 1 = Len(word)
    BY <1>0, <1>2
  <2>2. w \in Seq(Units) /\ Len(w) = Len(word) /\ \A k \in 1 .. Len(word) : w[k] = t[p + k - 1]
    <3> HIDE DEF q
    <3> QED BY <2>1, UnitsOf
  <2> HIDE DEF w
  <2>3. ASSUME \A k \in 1 .. Len(word) : t[p + k - 1] = word[k] PROVE w = word
    <3>1. \A k \in 1 .. Len(w) : w[k] = word[k]
      BY <2>2, <2>3
    <3> QED BY <2>2, <3>1, SeqEqual
  <2>4. ASSUME w = word PROVE \A k \in 1 .. Len(word) : t[p + k - 1] = word[k]
    BY <2>2, <2>4
  <2> QED BY <2>3, <2>4 DEF w
<1> QED BY <1>1, <1>2 DEF Positions

\* A word stands where it is found, unit by unit.
LEMMA StandsThere ==
    ASSUME NEW t \in Seq(Units), NEW word \in Seq(Units) \ {<<>>}, NEW p \in Positions(t, word)
    PROVE  /\ p \in Nat \ {0} /\ p + Len(word) - 1 <= Len(t)
           /\ \A k \in 1 .. Len(word) : t[p + k - 1] = word[k]
<1>1. p \in Positions(t, word)
  OBVIOUS
<1> HIDE DEF Positions
<1> QED BY <1>1, PositionsAre

\* A word that stands in a piece stands in the whole.
LEMMA WordInWhole ==
    ASSUME NEW v, NEW w, NEW o, Piece(v, w, o),
           NEW word \in Seq(Units) \ {<<>>}, NEW p \in Positions(v, word)
    PROVE  p + o \in Positions(w, word)
<1>0. /\ v \in Seq(Units) /\ w \in Seq(Units) /\ o \in Nat /\ o + Len(v) <= Len(w)
      /\ Len(v) \in Nat /\ Len(w) \in Nat /\ Len(word) \in Nat
      /\ \A k \in 1 .. Len(v) : v[k] = w[o + k]
  BY DEF Piece
<1>1. /\ p \in Nat \ {0} /\ p + Len(word) - 1 <= Len(v)
      /\ \A k \in 1 .. Len(word) : v[p + k - 1] = word[k]
  <2>1. v \in Seq(Units) /\ word \in Seq(Units) \ {<<>>} /\ p \in Positions(v, word)
    BY <1>0
  <2> QED BY <2>1, StandsThere
<1>2. ASSUME NEW k \in 1 .. Len(word) PROVE w[(p + o) + k - 1] = word[k]
  <2>1. p + k - 1 \in 1 .. Len(v) /\ o + (p + k - 1) = (p + o) + k - 1
    BY <1>0, <1>1
  <2> QED BY <1>0, <1>1, <2>1
<1>3. p + o \in Nat \ {0} /\ (p + o) + Len(word) - 1 <= Len(w)
  BY <1>0, <1>1
<1> QED BY <1>0, <1>2, <1>3, PositionsAre

\* A word that stands in the whole, within a piece, stands in the piece.
LEMMA WordInPiece ==
    ASSUME NEW v, NEW w, NEW o, Piece(v, w, o),
           NEW word \in Seq(Units) \ {<<>>}, NEW p \in Positions(w, word),
           o < p, p + Len(word) - 1 <= o + Len(v)
    PROVE  p - o \in Positions(v, word)
<1>0. /\ v \in Seq(Units) /\ w \in Seq(Units) /\ o \in Nat /\ o + Len(v) <= Len(w)
      /\ Len(v) \in Nat /\ Len(w) \in Nat /\ Len(word) \in Nat
      /\ \A k \in 1 .. Len(v) : v[k] = w[o + k]
  BY DEF Piece
<1>1. /\ p \in Nat \ {0} /\ p + Len(word) - 1 <= Len(w)
      /\ \A k \in 1 .. Len(word) : w[p + k - 1] = word[k]
  <2>1. w \in Seq(Units) /\ word \in Seq(Units) \ {<<>>} /\ p \in Positions(w, word)
    BY <1>0
  <2> QED BY <2>1, StandsThere
<1>2. ASSUME NEW k \in 1 .. Len(word) PROVE v[(p - o) + k - 1] = word[k]
  <2>1. (p - o) + k - 1 \in 1 .. Len(v) /\ o + ((p - o) + k - 1) = p + k - 1
    BY <1>0, <1>1
  <2> QED BY <1>0, <1>1, <2>1
<1>3. p - o \in Nat \ {0} /\ (p - o) + Len(word) - 1 <= Len(v)
  BY <1>0, <1>1
<1> QED BY <1>0, <1>2, <1>3, PositionsAre

\* The places a name that begins at p can end before.
Ends(t, p) == {e \in p .. (Len(t) + 1) : e = Len(t) + 1 \/ e = p + MaxName \/ t[e] \in Stops}

\* A name goes to the first of them.
LEMMA SegmentIs ==
    ASSUME NEW t \in Seq(Units), NEW p \in 1 .. Len(t) + 1
    PROVE  \E e \in Ends(t, p) :
             /\ e \in Nat /\ p <= e /\ e <= Len(t) + 1 /\ e <= p + MaxName
             /\ \A d \in p .. e - 1 : d \notin Ends(t, p)
             /\ ReadSegment(t, p) \in Seq(Units) /\ Len(ReadSegment(t, p)) = e - p
             /\ \A k \in 1 .. e - p : ReadSegment(t, p)[k] = t[p + k - 1]
<1>0. Len(t) \in Nat /\ MaxName \in Nat \ {0} /\ p \in Nat
  BY LeakAssumption
<1> DEFINE S == Ends(t, p)
           e == Min(S)
<1>1. S \in SUBSET Nat /\ Len(t) + 1 \in S
  BY <1>0 DEF Ends
<1>2. e \in S /\ \A d \in S : e <= d
  <2> HIDE DEF S
  <2>1. \E n \in S : \A k \in S : n <= k
    BY <1>1, LeastOf
  <2> QED BY <2>1 DEF Min
<1>3. ReadSegment(t, p) = SubSeq(t, p, e - 1)
  BY DEF ReadSegment, Ends
<1> HIDE DEF e
<1>4. e \in Nat /\ p <= e /\ e <= Len(t) + 1
  BY <1>0, <1>2 DEF Ends
<1>5. e <= p + MaxName
  <2>1. CASE p + MaxName <= Len(t) + 1
    <3>1. p + MaxName \in S
      BY <1>0, <2>1 DEF Ends
    <3> QED BY <1>2, <3>1
  <2>2. CASE ~(p + MaxName <= Len(t) + 1)
    BY <1>0, <1>4, <2>2
  <2> QED BY <2>1, <2>2
<1>6. ASSUME NEW d \in p .. e - 1 PROVE d \notin S
  BY <1>0, <1>2, <1>4
<1> HIDE DEF S
<1>7. e - 1 \in 0 .. Len(t) /\ (e - 1) - p + 1 = e - p /\ (IF p <= e - 1 THEN (e - 1) - p + 1 ELSE 0) = e - p
  BY <1>0, <1>4
<1>8. /\ SubSeq(t, p, e - 1) \in Seq(Units) /\ Len(SubSeq(t, p, e - 1)) = e - p
      /\ \A k \in 1 .. e - p : SubSeq(t, p, e - 1)[k] = t[p + k - 1]
  BY <1>7, UnitsOf
<1> QED BY <1>2, <1>3, <1>4, <1>5, <1>6, <1>8 DEF S

\* A name that ends within a piece is read alike in the piece and in the whole.
LEMMA NameInPiece ==
    ASSUME NEW v, NEW w, NEW o, Piece(v, w, o), NEW p \in 1 .. Len(v) + 1,
           p + Len(ReadSegment(w, o + p)) <= Len(v) + 1
    PROVE  ReadSegment(v, p) = ReadSegment(w, o + p)
<1>0. /\ v \in Seq(Units) /\ w \in Seq(Units) /\ o \in Nat /\ o + Len(v) <= Len(w)
      /\ Len(v) \in Nat /\ Len(w) \in Nat /\ MaxName \in Nat
      /\ \A k \in 1 .. Len(v) : v[k] = w[o + k]
  BY LeakAssumption DEF Piece
<1>1. o + p \in 1 .. Len(w) + 1 /\ p \in Nat
  BY <1>0
<1> DEFINE a == ReadSegment(w, o + p)
           b == ReadSegment(v, p)
<1>2. PICK e \in Ends(w, o + p) :
        /\ e \in Nat /\ o + p <= e /\ e <= Len(w) + 1 /\ e <= o + p + MaxName
        /\ \A d \in o + p .. e - 1 : d \notin Ends(w, o + p)
        /\ a \in Seq(Units) /\ Len(a) = e - (o + p)
        /\ \A k \in 1 .. e - (o + p) : a[k] = w[(o + p) + k - 1]
  BY <1>0, <1>1, SegmentIs
<1>3. PICK f \in Ends(v, p) :
        /\ f \in Nat /\ p <= f /\ f <= Len(v) + 1 /\ f <= p + MaxName
        /\ \A d \in p .. f - 1 : d \notin Ends(v, p)
        /\ b \in Seq(Units) /\ Len(b) = f - p
        /\ \A k \in 1 .. f - p : b[k] = v[p + k - 1]
  BY <1>0, <1>1, SegmentIs
<1>4. e - o <= Len(v) + 1 /\ e - o \in p .. Len(v) + 1
  BY <1>0, <1>1, <1>2
<1> HIDE DEF a, b
<1>5. e - o \in Ends(v, p)
  <2>1. CASE e - o = Len(v) + 1
    BY <1>4, <2>1 DEF Ends
  <2>2. CASE e - o # Len(v) + 1
    <3>1. e - o \in 1 .. Len(v) /\ o + (e - o) = e /\ e # Len(w) + 1
      BY <1>0, <1>1, <1>4, <2>2, <1>2, SMTT(30)
    <3>2. v[e - o] = w[e]
      BY <1>0, <3>1
    <3>3. e = o + p + MaxName \/ w[e] \in Stops
      <4>1. e \in Ends(w, o + p) /\ e # Len(w) + 1
        BY <3>1, <1>2
      <4> QED BY <4>1, Zenon DEF Ends
    <3>4. e = o + p + MaxName => e - o = p + MaxName
      <4>1. o \in Nat /\ p \in Nat /\ MaxName \in Nat
        BY <1>0, <1>1
      <4> QED BY <4>1
    <3> QED BY <1>4, <3>2, <3>3, <3>4 DEF Ends
  <2> QED BY <2>1, <2>2
<1>6. f <= e - o
  <2>1. SUFFICES ASSUME ~(f <= e - o) PROVE FALSE
    OBVIOUS
  <2>2. e - o \in p .. f - 1
    BY <1>0, <1>1, <1>2, <1>3, <1>4, <2>1
  <2> QED BY <1>3, <1>5, <2>2
<1>7. f = e - o
  <2>1. SUFFICES ASSUME f # e - o PROVE FALSE
    OBVIOUS
  <2>2. f \in 1 .. Len(v) /\ f < e - o /\ o + f \in o + p .. e - 1 /\ o + f <= Len(w)
    BY <1>0, <1>1, <1>2, <1>3, <1>4, <1>6, <2>1, SMTT(30)
  <2>3. f = p + MaxName \/ v[f] \in Stops
    BY <1>0, <1>3, <2>2 DEF Ends
  <2>4. v[f] = w[o + f]
    BY <1>0, <2>2
  <2>5. o + f \in Ends(w, o + p)
    <3>1. f = p + MaxName => o + f = o + p + MaxName
      BY <1>0, <1>1
    <3>2. o + f \in o + p .. (Len(w) + 1)
      BY <1>0, <1>1, <2>2
    <3> QED BY <2>3, <2>4, <3>1, <3>2 DEF Ends
  <2> QED BY <1>2, <2>2, <2>5
<1>8. Len(a) = Len(b)
  BY <1>0, <1>1, <1>2, <1>3, <1>7
<1>9. ASSUME NEW k \in 1 .. Len(b) PROVE b[k] = a[k]
  <2>1. /\ k \in 1 .. f - p /\ k \in 1 .. e - (o + p) /\ p + k - 1 \in 1 .. Len(v)
        /\ o + (p + k - 1) = (o + p) + k - 1
    BY <1>0, <1>1, <1>2, <1>3, <1>7
  <2> QED BY <1>0, <1>2, <1>3, <2>1
<1>10. a = b
  BY <1>2, <1>3, <1>8, <1>9, SeqEqual
<1> QED BY <1>10 DEF a, b

\* A refused name of t, behind the separator at q.
NameAt(t, q) == ReadSegment(t, q + Len(Sep))
HomeAt(t, q) == q \in Positions(t, Sep) /\ Refused(NameAt(t, q))

\* What a name refused at a place is.
LEMMA HomeIs ==
    ASSUME NEW t \in Seq(Units), NEW q, HomeAt(t, q)
    PROVE  /\ q \in Nat \ {0} /\ q \in Positions(t, Sep) /\ NameAt(t, q) \in Seq(Units)
           /\ Len(NameAt(t, q)) <= MaxName
           /\ q + Len(Sep) + Len(NameAt(t, q)) - 1 <= Len(t)
           /\ q + Len(Sep) \in 1 .. Len(t) + 1
<1>1. q \in Positions(t, Sep) /\ Sep \in Seq(Units) \ {<<>>}
  BY LeakAssumption DEF HomeAt
<1>2. q \in Nat \ {0} /\ q + Len(Sep) - 1 <= Len(t)
  BY <1>1, StandsThere
<1>3. Len(Sep) \in Nat /\ MaxName \in Nat /\ Len(t) \in Nat
  BY LeakAssumption
<1>4. q + Len(Sep) \in 1 .. Len(t) + 1
  BY <1>2, <1>3
<1>5. PICK e \in Ends(t, q + Len(Sep)) :
        /\ e \in Nat /\ q + Len(Sep) <= e /\ e <= Len(t) + 1 /\ e <= q + Len(Sep) + MaxName
        /\ NameAt(t, q) \in Seq(Units) /\ Len(NameAt(t, q)) = e - (q + Len(Sep))
  BY <1>4, SegmentIs DEF NameAt
<1>6. Len(NameAt(t, q)) <= MaxName /\ q + Len(Sep) + Len(NameAt(t, q)) - 1 <= Len(t)
  BY <1>2, <1>3, <1>5
<1> QED BY <1>1, <1>2, <1>4, <1>5, <1>6

\* A refused name of a text, within a piece, is one of the piece.
LEMMA HomeInPiece ==
    ASSUME NEW v, NEW w, NEW o, Piece(v, w, o), NEW q, HomeAt(w, q),
           o < q, q + Len(Sep) + Len(NameAt(w, q)) - 1 <= o + Len(v)
    PROVE  HomeAt(v, q - o) /\ NameAt(v, q - o) = NameAt(w, q)
<1>0. /\ v \in Seq(Units) /\ w \in Seq(Units) /\ o \in Nat
      /\ Len(v) \in Nat /\ Len(w) \in Nat /\ Len(Sep) \in Nat \ {0}
      /\ Sep \in Seq(Units) \ {<<>>}
  BY LeakAssumption, EmptySeq DEF Piece
<1>1. /\ q \in Nat \ {0} /\ q \in Positions(w, Sep)
      /\ Len(NameAt(w, q)) \in Nat
  BY <1>0, HomeIs
<1>2. q + Len(Sep) - 1 <= o + Len(v)
  BY <1>0, <1>1
<1>3. q - o \in Positions(v, Sep)
  BY <1>0, <1>1, <1>2, WordInPiece
<1> DEFINE p == q - o + Len(Sep)
<1>4. p \in 1 .. Len(v) + 1 /\ o + p = q + Len(Sep) /\ p + Len(NameAt(w, q)) <= Len(v) + 1
  BY <1>0, <1>1, <1>2
<1>5. ReadSegment(v, p) = ReadSegment(w, o + p)
  <2> HIDE DEF p
  <2>1. p + Len(ReadSegment(w, o + p)) <= Len(v) + 1
    BY <1>4 DEF NameAt
  <2>2. \A r \in 1 .. Len(v) + 1 : r + Len(ReadSegment(w, o + r)) <= Len(v) + 1
            => ReadSegment(v, r) = ReadSegment(w, o + r)
    BY NameInPiece
  <2> QED BY <1>4, <2>1, <2>2
<1>6. NameAt(v, q - o) = NameAt(w, q)
  BY <1>4, <1>5 DEF NameAt
<1> QED BY <1>3, <1>6 DEF HomeAt

\* When a text is searched without a finding.
LEMMA NothingIs ==
    ASSUME NEW t \in Seq(Units), NEW seam \in Nat
    PROVE  ScanText(t, seam) = {} <=>
             /\ \A q : HomeAt(t, q) => ~ Crosses(seam, q, Len(Sep) + Len(NameAt(t, q)))
             /\ \A x \in Literals : \A q \in Positions(t, x) : ~ Crosses(seam, q, Len(x))
<1>1. HomeDirs(t, seam) = {} <=>
        \A q : HomeAt(t, q) => ~ Crosses(seam, q, Len(Sep) + Len(NameAt(t, q)))
  BY Zenon DEF HomeDirs, HomeAt, NameAt
<1>2. Hits(t, seam) = {} <=>
        \A x \in Literals : \A q \in Positions(t, x) : ~ Crosses(seam, q, Len(x))
  <2>1. ASSUME NEW x \in Literals, NEW q \in Positions(t, x)
        PROVE  q \in 1 .. Len(t)
    <3>1. x \in Seq(Units) \ {<<>>} /\ Len(x) \in Nat \ {0} /\ Len(t) \in Nat
      BY LeakAssumption, EmptySeq
    <3>2. q \in Nat \ {0} /\ q + Len(x) - 1 <= Len(t)
      BY <2>1, <3>1, StandsThere
    <3> QED BY <3>1, <3>2
  <2>2. ASSUME NEW x \in Literals, NEW q \in Positions(t, x), Crosses(seam, q, Len(x))
        PROVE  <<x, q>> \in Hits(t, seam)
    BY <2>1, <2>2 DEF Hits
  <2>3. ASSUME NEW h \in Hits(t, seam)
        PROVE  h[1] \in Literals /\ h[2] \in Positions(t, h[1]) /\ Crosses(seam, h[2], Len(h[1]))
    BY DEF Hits
  <2> HIDE DEF Hits
  <2> QED BY <2>2, <2>3
<1>3. {<<"forbidden", h[1]>> : h \in Hits(t, seam)} = {} <=> Hits(t, seam) = {}
  BY Zenon
<1> QED BY <1>1, <1>2, <1>3 DEF ScanText

-----------------------------------------------------------------------------
(* The end of a text, and a seam.                                          *)

\* The greater of two numbers.
LEMMA MaxIs ==
    ASSUME NEW m \in Int, NEW n \in Int
    PROVE  Max({m, n}) = IF m <= n THEN n ELSE m
<1> DEFINE S == {m, n}
           r == IF m <= n THEN n ELSE m
<1>1. r \in S /\ \A y \in S : r >= y
  OBVIOUS
<1>2. ASSUME NEW x \in S, \A y \in S : x >= y PROVE x = r
  BY <1>2
<1>3. Max(S) = CHOOSE x \in S : \A y \in S : x >= y
  BY DEF Max
<1> HIDE DEF r
<1>4. Max(S) = r
  BY <1>1, <1>2, <1>3
<1> QED BY <1>4 DEF r

\* The smaller of two numbers.
LEMMA MinIs ==
    ASSUME NEW m \in Int, NEW n \in Int
    PROVE  Min({m, n}) = IF m <= n THEN m ELSE n
<1> DEFINE S == {m, n}
           r == IF m <= n THEN m ELSE n
<1>1. r \in S /\ \A y \in S : r <= y
  OBVIOUS
<1>2. ASSUME NEW x \in S, \A y \in S : x <= y PROVE x = r
  BY <1>2
<1>3. Min(S) = CHOOSE x \in S : \A y \in S : x <= y
  BY DEF Min
<1> HIDE DEF r
<1>4. Min(S) = r
  BY <1>1, <1>2, <1>3
<1> QED BY <1>4 DEF r

\* The end of a text is a piece of it, as long as the text or SeamBytes.
LEMMA EndIs ==
    ASSUME NEW t \in Seq(Units)
    PROVE  /\ EndOf(t) \in Seq(Units)
           /\ Len(EndOf(t)) = IF Len(t) <= SeamBytes THEN Len(t) ELSE SeamBytes
           /\ Piece(EndOf(t), t, Len(t) - Len(EndOf(t)))
<1>0. Len(t) \in Nat /\ SeamBytes \in Nat
  BY LeakAssumption
<1> DEFINE n == IF Len(t) <= SeamBytes THEN Len(t) ELSE SeamBytes
           p == Len(t) - n + 1
<1>1. Max({1, Len(t) - SeamBytes + 1}) = p
  <2>1. 1 \in Int /\ Len(t) - SeamBytes + 1 \in Int
    BY <1>0
  <2>2. Max({1, Len(t) - SeamBytes + 1}) =
          IF 1 <= Len(t) - SeamBytes + 1 THEN Len(t) - SeamBytes + 1 ELSE 1
    BY <2>1, MaxIs
  <2>3. CASE Len(t) <= SeamBytes
    <3>1. n = Len(t) /\ p = 1
      BY <1>0, <2>3
    <3>2. 1 <= Len(t) - SeamBytes + 1 => Len(t) - SeamBytes + 1 = 1
      BY <1>0, <2>3
    <3> QED BY <2>2, <3>1, <3>2
  <2>4. CASE ~(Len(t) <= SeamBytes)
    <3>1. n = SeamBytes /\ p = Len(t) - SeamBytes + 1 /\ 1 <= Len(t) - SeamBytes + 1
      BY <1>0, <2>4
    <3> QED BY <2>2, <3>1
  <2> QED BY <2>3, <2>4
<1>2. n \in Nat /\ n <= Len(t) /\ p \in 1 .. Len(t) + 1 /\ (IF p <= Len(t) THEN Len(t) - p + 1 ELSE 0) = n
      /\ Len(t) - p + 1 = n /\ p = (Len(t) - n) + 1
  <2>1. n \in Nat /\ n <= Len(t)
    BY <1>0
  <2> HIDE DEF n
  <2>2. p \in 1 .. Len(t) + 1 /\ Len(t) - p + 1 = n /\ p = (Len(t) - n) + 1
    BY <1>0, <2>1
  <2>3. p <= Len(t) <=> n # 0
    BY <1>0, <2>1
  <2> QED BY <2>1, <2>2, <2>3
<1> HIDE DEF n, p
<1>3. /\ SubSeq(t, p, Len(t)) \in Seq(Units) /\ Len(SubSeq(t, p, Len(t))) = n
      /\ \A k \in 1 .. n : SubSeq(t, p, Len(t))[k] = t[p + k - 1]
  <2>1. Len(t) \in 0 .. Len(t)
    BY <1>0
  <2>2. /\ SubSeq(t, p, Len(t)) \in Seq(Units)
        /\ Len(SubSeq(t, p, Len(t))) = IF p <= Len(t) THEN Len(t) - p + 1 ELSE 0
        /\ \A k \in 1 .. Len(t) - p + 1 : SubSeq(t, p, Len(t))[k] = t[p + k - 1]
    BY <1>2, <2>1, UnitsOf
  <2> QED BY <1>2, <2>2
<1>4. EndOf(t) = SubSeq(t, p, Len(t))
  BY <1>1 DEF EndOf
<1>5. \A k \in 1 .. n : EndOf(t)[k] = t[(Len(t) - n) + k]
  <2>1. ASSUME NEW k \in 1 .. n PROVE p + k - 1 = (Len(t) - n) + k
    BY <1>0, <1>2
  <2> QED BY <1>3, <1>4, <2>1
<1>6. Piece(EndOf(t), t, Len(t) - Len(EndOf(t)))
  <2>1. Len(t) - n \in Nat /\ (Len(t) - n) + n <= Len(t)
    BY <1>0, <1>2
  <2> QED BY <1>3, <1>4, <1>5, <2>1 DEF Piece
<1> QED BY <1>3, <1>4, <1>6 DEF n
\* The two pieces of a joined text.
LEMMA JoinIs ==
    ASSUME NEW t \in Seq(Units), NEW u \in Seq(Units)
    PROVE  /\ t \o u \in Seq(Units) /\ Len(t \o u) = Len(t) + Len(u)
           /\ Piece(t, t \o u, 0) /\ Piece(u, t \o u, Len(t))
<1>0. Len(t) \in Nat /\ Len(u) \in Nat
  OBVIOUS
<1>1. t \o u \in Seq(Units) /\ Len(t \o u) = Len(t) + Len(u)
  OBVIOUS
<1>2. \A k \in 1 .. Len(t) : t[k] = (t \o u)[0 + k]
  BY <1>0
<1>3. \A k \in 1 .. Len(u) : u[k] = (t \o u)[Len(t) + k]
  <2>1. SUFFICES ASSUME NEW k \in 1 .. Len(u) PROVE u[k] = (t \o u)[Len(t) + k]
    OBVIOUS
  <2>2. Len(t) + k \in 1 .. Len(t) + Len(u) /\ Len(t) + k > Len(t) /\ (Len(t) + k) - Len(t) = k
    BY <1>0
  <2> QED BY <2>2
<1> QED BY <1>0, <1>1, <1>2, <1>3 DEF Piece

\* The buffer looked at for a seam is a piece of the joined text.
LEMMA SeamIs ==
    ASSUME NEW t \in Seq(Units), NEW u \in Seq(Units)
    PROVE  /\ SeamText(EndOf(t), u) \in Seq(Units)
           /\ Len(SeamText(EndOf(t), u)) =
                Len(EndOf(t)) + (IF Len(u) <= SeamBytes THEN Len(u) ELSE SeamBytes)
           /\ Piece(SeamText(EndOf(t), u), t \o u, Len(t) - Len(EndOf(t)))
<1> DEFINE c == EndOf(t)
           m == IF Len(u) <= SeamBytes THEN Len(u) ELSE SeamBytes
           b == SubSeq(u, 1, m)
           o == Len(t) - Len(c)
<1>0. Len(t) \in Nat /\ Len(u) \in Nat /\ SeamBytes \in Nat
  BY LeakAssumption
<1>1. c \in Seq(Units) /\ Len(c) \in Nat /\ Len(c) <= Len(t) /\ Piece(c, t, o)
  <2>1. c \in Seq(Units) /\ Piece(c, t, o) /\ Len(c) = IF Len(t) <= SeamBytes THEN Len(t) ELSE SeamBytes
    BY EndIs
  <2> HIDE DEF c
  <2> QED BY <1>0, <2>1
<1> HIDE DEF c
<1>2. m \in 0 .. Len(u) /\ m \in Nat
  BY <1>0
<1>3. SeamText(c, u) = c \o b
  <2>1. Min({Len(u), SeamBytes}) = m
    BY <1>0, MinIs
  <2> QED BY <2>1 DEF SeamText
<1> HIDE DEF m
<1>4. b \in Seq(Units) /\ Len(b) = m /\ \A k \in 1 .. m : b[k] = u[k]
  <2>1. 1 \in 1 .. Len(u) + 1
    BY <1>0
  <2>2. /\ b \in Seq(Units) /\ Len(b) = IF 1 <= m THEN m - 1 + 1 ELSE 0
        /\ \A k \in 1 .. m - 1 + 1 : b[k] = u[1 + k - 1]
    BY <1>2, <2>1, UnitsOf
  <2>3. m - 1 + 1 = m /\ (IF 1 <= m THEN m - 1 + 1 ELSE 0) = m /\ \A k \in 1 .. m : 1 + k - 1 = k
    BY <1>2
  <2> QED BY <2>2, <2>3
<1> HIDE DEF b
<1>5. c \o b \in Seq(Units) /\ Len(c \o b) = Len(c) + m
  <2>1. Len(c \o b) = Len(c) + Len(b) /\ c \o b \in Seq(Units)
    BY <1>1, <1>4, JoinIs
  <2> QED BY <1>4, <2>1
<1>6. o \in Nat /\ o + Len(c) = Len(t) /\ t \o u \in Seq(Units) /\ Len(t \o u) = Len(t) + Len(u)
  BY <1>0, <1>1, JoinIs
<1>7. ASSUME NEW k \in 1 .. Len(c) + m PROVE (c \o b)[k] = (t \o u)[o + k]
  <2>1. CASE k <= Len(c)
    <3>1. k \in 1 .. Len(c) /\ o + k \in 1 .. Len(t)
      BY <1>0, <1>1, <1>6, <2>1
    <3>2. (c \o b)[k] = c[k] /\ (t \o u)[o + k] = t[o + k]
      BY <1>1, <1>4, <3>1
    <3> QED BY <1>1, <3>1, <3>2 DEF Piece
  <2>2. CASE ~(k <= Len(c))
    <3>1. /\ k - Len(c) \in 1 .. m /\ o + k \in 1 .. Len(t) + Len(u) /\ o + k > Len(t)
          /\ (o + k) - Len(t) = k - Len(c)
      BY <1>0, <1>1, <1>2, <1>6, <2>2
    <3>2. (c \o b)[k] = b[k - Len(c)]
      BY <1>1, <1>4, <2>2
    <3>3. (t \o u)[o + k] = u[(o + k) - Len(t)]
      <4> HIDE DEF o
      <4> QED BY <1>0, <3>1
    <3> QED BY <1>4, <3>1, <3>2, <3>3
  <2> QED BY <2>1, <2>2
<1>8. o + Len(c \o b) <= Len(t \o u)
  BY <1>0, <1>2, <1>5, <1>6
<1>9. Piece(c \o b, t \o u, o)
  BY <1>5, <1>6, <1>7, <1>8 DEF Piece
<1> QED BY <1>3, <1>5, <1>9 DEF c, m

\* A match no longer than SeamBytes that crosses from t to u lies in the buffer of the seam.
LEMMA InSeam ==
    ASSUME NEW t \in Seq(Units), NEW u \in Seq(Units), NEW q \in Nat \ {0}, NEW len \in Nat \ {0},
           len <= SeamBytes, q <= Len(t), q + len - 1 > Len(t), q + len - 1 <= Len(t) + Len(u)
    PROVE  /\ Len(t) - Len(EndOf(t)) < q
           /\ q + len - 1 <= (Len(t) - Len(EndOf(t))) + Len(SeamText(EndOf(t), u))
           /\ Crosses(Len(EndOf(t)), q - (Len(t) - Len(EndOf(t))), len)
           /\ EndOf(t) # <<>> /\ u # <<>>
<1>0. Len(t) \in Nat /\ Len(u) \in Nat /\ SeamBytes \in Nat
  BY LeakAssumption
<1> DEFINE c == Len(EndOf(t))
           l == Len(SeamText(EndOf(t), u))
<1>1. c = IF Len(t) <= SeamBytes THEN Len(t) ELSE SeamBytes
  BY EndIs
<1>2. l = c + (IF Len(u) <= SeamBytes THEN Len(u) ELSE SeamBytes)
  BY SeamIs
<1> HIDE DEF c, l
<1>3. Len(t) - c < q /\ q + len - 1 <= (Len(t) - c) + l
  <2>1. c \in Nat /\ Len(t) - c < q
    BY <1>0, <1>1
  <2>2. CASE Len(u) <= SeamBytes
    <3>1. l = c + Len(u)
      BY <1>2, <2>2
    <3> QED BY <1>0, <2>1, <3>1
  <2>3. CASE ~(Len(u) <= SeamBytes)
    <3>1. l = c + SeamBytes
      BY <1>2, <2>3
    <3> QED BY <1>0, <2>1, <3>1
  <2> QED BY <2>2, <2>3
<1>4. Crosses(c, q - (Len(t) - c), len)
  BY <1>0, <1>1 DEF Crosses
<1>5. c > 0 /\ Len(u) > 0
  BY <1>0, <1>1
<1>6. EndOf(t) # <<>> /\ u # <<>>
  BY <1>5 DEF c
<1> QED BY <1>3, <1>4, <1>6 DEF c, l

\* What is found at the seam of t and u.
AtSeam(t, u) ==
    IF EndOf(t) = <<>> \/ u = <<>> THEN {} ELSE ScanText(SeamText(EndOf(t), u), Len(EndOf(t)))

\* A text whose two pieces and whose seam hold nothing holds nothing.
LEMMA NothingJoined ==
    ASSUME NEW t \in Seq(Units), NEW u \in Seq(Units),
           ScanText(t, 0) = {}, ScanText(u, 0) = {}, AtSeam(t, u) = {}
    PROVE  ScanText(t \o u, 0) = {}
<1> DEFINE w == t \o u
           s == SeamText(EndOf(t), u)
           o == Len(t) - Len(EndOf(t))
<1>0. /\ w \in Seq(Units) /\ Len(w) = Len(t) + Len(u) /\ Piece(t, w, 0) /\ Piece(u, w, Len(t))
      /\ s \in Seq(Units) /\ Piece(s, w, o) /\ Len(EndOf(t)) \in Nat /\ o \in Nat
      /\ Len(t) \in Nat /\ Len(u) \in Nat /\ SeamBytes \in Nat /\ MaxName \in Nat /\ Len(Sep) \in Nat \ {0}
  <2>1. Piece(s, w, o) /\ s \in Seq(Units) /\ EndOf(t) \in Seq(Units)
    BY SeamIs, EndIs
  <2> QED BY <2>1, JoinIs, LeakAssumption, EmptySeq, ZenonT(30) DEF Piece
<1> HIDE DEF w, s, o
<1>1. ASSUME NEW q, HomeAt(w, q) PROVE FALSE
  <2> DEFINE len == Len(Sep) + Len(NameAt(w, q))
  <2>0. /\ q \in Nat \ {0} /\ len \in Nat \ {0} /\ len <= SeamBytes /\ q + len - 1 <= Len(w)
    <3>1. /\ q \in Nat \ {0} /\ NameAt(w, q) \in Seq(Units) /\ Len(NameAt(w, q)) <= MaxName
          /\ q + Len(Sep) + Len(NameAt(w, q)) - 1 <= Len(w)
      BY <1>0, <1>1, HomeIs
    <3> QED BY <1>0, <3>1, LeakAssumption, SMTT(30)
  <2>1. CASE q + len - 1 <= Len(t)
    <3>1. HomeAt(t, q - 0)
      <4>1. 0 < q /\ q + Len(Sep) + Len(NameAt(w, q)) - 1 <= 0 + Len(t)
        BY <1>0, <2>0, <2>1
      <4> QED BY <1>0, <1>1, <4>1, HomeInPiece
    <3> QED BY <1>0, <3>1, NothingIs DEF Crosses
  <2>2. CASE q > Len(t)
    <3>1. HomeAt(u, q - Len(t))
      <4>1. Len(t) < q /\ q + Len(Sep) + Len(NameAt(w, q)) - 1 <= Len(t) + Len(u)
        BY <1>0, <2>0, <2>2
      <4> QED BY <1>0, <1>1, <4>1, HomeInPiece
    <3> QED BY <1>0, <3>1, NothingIs DEF Crosses
  <2>3. CASE q <= Len(t) /\ q + len - 1 > Len(t)
    <3>1. /\ o < q /\ q + len - 1 <= o + Len(s) /\ Crosses(Len(EndOf(t)), q - o, len)
          /\ EndOf(t) # <<>> /\ u # <<>>
      <4> HIDE DEF len
      <4> QED BY <1>0, <2>0, <2>3, InSeam DEF o, s
    <3>2. HomeAt(s, q - o) /\ NameAt(s, q - o) = NameAt(w, q)
      <4>1. q + Len(Sep) + Len(NameAt(w, q)) - 1 <= o + Len(s)
        BY <1>0, <2>0, <3>1
      <4> QED BY <1>0, <1>1, <3>1, <4>1, HomeInPiece
    <3>3. ScanText(s, Len(EndOf(t))) = {}
      BY <3>1 DEF AtSeam, s
    <3>4. ~ Crosses(Len(EndOf(t)), q - o, len)
      BY <1>0, <3>2, <3>3, NothingIs
    <3> QED BY <3>1, <3>4
  <2> QED BY <1>0, <2>0, <2>1, <2>2, <2>3
<1>2. ASSUME NEW x \in Literals, NEW q \in Positions(w, x) PROVE FALSE
  <2> DEFINE len == Len(x)
  <2>a. x \in Seq(Units) \ {<<>>} /\ len \in Nat \ {0} /\ len <= SeamBytes
    BY LeakAssumption, EmptySeq
  <2>0. q \in Nat \ {0} /\ q + len - 1 <= Len(w)
    BY <1>0, <2>a, StandsThere
  <2>1. CASE q + len - 1 <= Len(t)
    <3>1. q - 0 \in Positions(t, x)
      <4>1. 0 < q /\ q + Len(x) - 1 <= 0 + Len(t)
        BY <1>0, <2>0, <2>1
      <4> QED BY <1>0, <2>a, <4>1, WordInPiece
    <3> QED BY <1>0, <3>1, NothingIs DEF Crosses
  <2>2. CASE q > Len(t)
    <3>1. q - Len(t) \in Positions(u, x)
      <4>1. Len(t) < q /\ q + Len(x) - 1 <= Len(t) + Len(u)
        BY <1>0, <2>0, <2>2
      <4> QED BY <1>0, <2>a, <4>1, WordInPiece
    <3> QED BY <1>0, <3>1, NothingIs DEF Crosses
  <2>3. CASE q <= Len(t) /\ q + len - 1 > Len(t)
    <3>1. /\ o < q /\ q + len - 1 <= o + Len(s) /\ Crosses(Len(EndOf(t)), q - o, len)
          /\ EndOf(t) # <<>> /\ u # <<>>
      <4> HIDE DEF len
      <4> QED BY <1>0, <2>a, <2>0, <2>3, InSeam DEF o, s
    <3>2. q - o \in Positions(s, x)
      BY <1>0, <2>a, <3>1, WordInPiece
    <3>3. ScanText(s, Len(EndOf(t))) = {}
      BY <3>1 DEF AtSeam, s
    <3>4. ~ Crosses(Len(EndOf(t)), q - o, len)
      BY <1>0, <3>2, <3>3, NothingIs
    <3> QED BY <3>1, <3>4
  <2> QED BY <1>0, <2>a, <2>0, <2>1, <2>2, <2>3
<1>3. ScanText(w, 0) = {}
  BY <1>0, <1>1, <1>2, NothingIs
<1> QED BY <1>3 DEF w

\* A piece of a piece is a piece.
LEMMA PieceOfPiece ==
    ASSUME NEW u, NEW v, NEW w, NEW m, NEW n, Piece(u, v, m), Piece(v, w, n)
    PROVE  Piece(u, w, n + m)
<1>0. /\ u \in Seq(Units) /\ v \in Seq(Units) /\ w \in Seq(Units) /\ m \in Nat /\ n \in Nat
      /\ Len(u) \in Nat /\ Len(v) \in Nat /\ Len(w) \in Nat
      /\ m + Len(u) <= Len(v) /\ n + Len(v) <= Len(w)
      /\ \A k \in 1 .. Len(u) : u[k] = v[m + k]
      /\ \A k \in 1 .. Len(v) : v[k] = w[n + k]
  BY DEF Piece
<1>1. ASSUME NEW k \in 1 .. Len(u) PROVE u[k] = w[(n + m) + k]
  <2>1. m + k \in 1 .. Len(v) /\ n + (m + k) = (n + m) + k
    BY <1>0
  <2> QED BY <1>0, <2>1
<1>2. n + m \in Nat /\ (n + m) + Len(u) <= Len(w)
  BY <1>0
<1> QED BY <1>0, <1>1, <1>2 DEF Piece

\* A text and a part of it long enough have the same end.
LEMMA SameEnd ==
    ASSUME NEW v, NEW w, NEW o, Piece(v, w, o), o + Len(v) = Len(w),
           o = 0 \/ Len(v) >= SeamBytes
    PROVE  EndOf(v) = EndOf(w)
<1>0. /\ v \in Seq(Units) /\ w \in Seq(Units) /\ o \in Nat
      /\ Len(v) \in Nat /\ Len(w) \in Nat /\ SeamBytes \in Nat
  BY LeakAssumption DEF Piece
<1> DEFINE c == EndOf(v)
           d == EndOf(w)
<1>1. c \in Seq(Units) /\ Len(c) = (IF Len(v) <= SeamBytes THEN Len(v) ELSE SeamBytes)
      /\ Piece(c, v, Len(v) - Len(c))
  BY <1>0, EndIs
<1>2. d \in Seq(Units) /\ Len(d) = (IF Len(w) <= SeamBytes THEN Len(w) ELSE SeamBytes)
      /\ Piece(d, w, Len(w) - Len(d))
  BY <1>0, EndIs
<1> HIDE DEF c, d
<1>3. Len(c) = Len(d) /\ Len(c) \in Nat /\ Len(c) <= Len(v)
  BY <1>0, <1>1, <1>2
<1>4. ASSUME NEW k \in 1 .. Len(c) PROVE c[k] = d[k]
  <2>1. c[k] = v[(Len(v) - Len(c)) + k]
    BY <1>1 DEF Piece
  <2>2. d[k] = w[(Len(w) - Len(c)) + k]
    BY <1>2, <1>3 DEF Piece
  <2>3. /\ (Len(v) - Len(c)) + k \in 1 .. Len(v)
        /\ o + ((Len(v) - Len(c)) + k) = (Len(w) - Len(c)) + k
    BY <1>0, <1>3
  <2>4. v[(Len(v) - Len(c)) + k] = w[o + ((Len(v) - Len(c)) + k)]
    BY <2>3 DEF Piece
  <2> QED BY <2>1, <2>2, <2>3, <2>4
<1>5. c = d
  BY <1>1, <1>2, <1>3, <1>4, SeqEqual
<1> QED BY <1>5 DEF c, d

\* What is carried over a frame is the end of the content so far.
LEMMA CarriedIs ==
    ASSUME NEW t \in Seq(Units), NEW u \in Seq(Units)
    PROVE  Carried(EndOf(t), u) = EndOf(t \o u)
<1> DEFINE c == EndOf(t)
           o == Len(t) - Len(c)
<1>0. Len(t) \in Nat /\ Len(u) \in Nat /\ SeamBytes \in Nat
  BY LeakAssumption
<1>1. c \in Seq(Units) /\ Len(c) = (IF Len(t) <= SeamBytes THEN Len(t) ELSE SeamBytes)
      /\ Piece(c, t, o)
  BY EndIs
<1>2. Carried(c, u) = EndOf(c \o u)
  BY DEF Carried, EndOf
<1> HIDE DEF c
<1>3. /\ c \o u \in Seq(Units) /\ Len(c \o u) = Len(c) + Len(u)
      /\ t \o u \in Seq(Units) /\ Len(t \o u) = Len(t) + Len(u)
      /\ Piece(c, c \o u, 0) /\ Piece(u, c \o u, Len(c))
      /\ Piece(t, t \o u, 0) /\ Piece(u, t \o u, Len(t))
  BY <1>1, JoinIs
<1>4. Len(c) \in Nat /\ Len(c) <= Len(t) /\ o \in Nat /\ o + Len(c) = Len(t)
  BY <1>0, <1>1
<1>5. ASSUME NEW k \in 1 .. Len(c) + Len(u) PROVE (c \o u)[k] = (t \o u)[o + k]
  <2>1. CASE k <= Len(c)
    <3>1. k \in 1 .. Len(c) /\ o + k \in 1 .. Len(t) /\ 0 + k = k /\ 0 + (o + k) = o + k
      BY <1>0, <1>4, <2>1
    <3>2. (c \o u)[k] = c[k]
      BY <1>3, <3>1 DEF Piece
    <3>3. (t \o u)[o + k] = t[o + k]
      <4> HIDE DEF o
      <4> QED BY <1>3, <3>1 DEF Piece
    <3> QED BY <1>1, <3>1, <3>2, <3>3 DEF Piece
  <2>2. CASE ~(k <= Len(c))
    <3>1. k - Len(c) \in 1 .. Len(u) /\ Len(c) + (k - Len(c)) = k /\ Len(t) + (k - Len(c)) = o + k
      BY <1>0, <1>4, <2>2
    <3>2. u[k - Len(c)] = (c \o u)[k] /\ u[k - Len(c)] = (t \o u)[o + k]
      <4> HIDE DEF o
      <4> QED BY <1>3, <3>1 DEF Piece
    <3> QED BY <3>2
  <2> QED BY <2>1, <2>2
<1>6. Piece(c \o u, t \o u, o) /\ o + Len(c \o u) = Len(t \o u)
  <2>1. o + Len(c \o u) = Len(t \o u)
    BY <1>0, <1>3, <1>4
  <2>2. o + Len(c \o u) <= Len(t \o u)
    BY <2>1, <1>0, <1>3
  <2> HIDE DEF o
  <2> QED BY <1>3, <1>4, <1>5, <2>1, <2>2 DEF Piece
<1>7. o = 0 \/ Len(c \o u) >= SeamBytes
  BY <1>0, <1>1, <1>3
<1>8. EndOf(c \o u) = EndOf(t \o u)
  <2> HIDE DEF o
  <2> QED BY <1>6, <1>7, SameEnd
<1> QED BY <1>2, <1>8 DEF c

-----------------------------------------------------------------------------
(* What is refused stands in the text.                                     *)

WordOf(r) == IF r[1] = "home-dir" THEN Sep \o r[2] ELSE r[2]

\* A refusal's word has units and stands in the text.
LEMMA RefusalIs ==
    ASSUME NEW t \in Seq(Units), NEW seam, NEW r \in ScanText(t, seam)
    PROVE  WordOf(r) \in Seq(Units) \ {<<>>} /\ \E q : q \in Positions(t, WordOf(r))
<1>1. CASE r \in HomeDirs(t, seam)
  <2>1. PICK q : HomeAt(t, q) /\ r = <<"home-dir", NameAt(t, q)>>
    BY <1>1 DEF HomeDirs, HomeAt, NameAt
  <2> DEFINE name == NameAt(t, q)
  <2>2. WordOf(r) = Sep \o name
    BY <2>1 DEF WordOf
  <2>3. /\ q \in Nat \ {0} /\ q \in Positions(t, Sep) /\ name \in Seq(Units)
        /\ q + Len(Sep) + Len(name) - 1 <= Len(t) /\ q + Len(Sep) \in 1 .. Len(t) + 1
    BY <2>1, HomeIs
  <2>4. \A k \in 1 .. Len(name) : name[k] = t[q + Len(Sep) + k - 1]
    <3>1. PICK e \in Ends(t, q + Len(Sep)) :
            /\ Len(name) = e - (q + Len(Sep))
            /\ \A k \in 1 .. e - (q + Len(Sep)) : name[k] = t[q + Len(Sep) + k - 1]
      BY <2>3, SegmentIs DEF NameAt
    <3> QED BY <3>1
  <2> HIDE DEF name
  <2>5. Sep \in Seq(Units) \ {<<>>} /\ Len(Sep) \in Nat \ {0} /\ Len(name) \in Nat /\ Len(t) \in Nat
    BY <2>3, LeakAssumption, EmptySeq
  <2>6. \A k \in 1 .. Len(Sep) : t[q + k - 1] = Sep[k]
    BY <2>3, <2>5, StandsThere
  <2> DEFINE x == Sep \o name
  <2>7. /\ x \in Seq(Units) /\ Len(x) = Len(Sep) + Len(name)
        /\ \A k \in 1 .. Len(Sep) : x[k] = Sep[k]
        /\ \A k \in 1 .. Len(name) : x[Len(Sep) + k] = name[k]
    <3>1. /\ x \in Seq(Units) /\ Len(x) = Len(Sep) + Len(name)
          /\ Piece(Sep, x, 0) /\ Piece(name, x, Len(Sep))
      BY <2>3, <2>5, JoinIs
    <3> HIDE DEF x
    <3>2. \A k \in 1 .. Len(Sep) : 0 + k = k
      BY <2>5
    <3> QED BY <3>1, <3>2 DEF Piece
  <2> HIDE DEF x
  <2>8. ASSUME NEW k \in 1 .. Len(x) PROVE t[q + k - 1] = x[k]
    <3>1. CASE k <= Len(Sep)
      BY <2>5, <2>6, <2>7, <3>1
    <3>2. CASE ~(k <= Len(Sep))
      <4>1. /\ k - Len(Sep) \in 1 .. Len(name) /\ Len(Sep) + (k - Len(Sep)) = k
            /\ q + Len(Sep) + (k - Len(Sep)) - 1 = q + k - 1
        BY <2>3, <2>5, <2>7, <3>2
      <4> QED BY <2>4, <2>7, <4>1, ZenonT(30)
    <3> QED BY <3>1, <3>2
  <2>9. x \in Seq(Units) \ {<<>>} /\ q + Len(x) - 1 <= Len(t)
    BY <2>3, <2>5, <2>7
  <2>10. q \in Positions(t, x)
    BY <2>3, <2>8, <2>9, PositionsAre
  <2> QED BY <2>2, <2>9, <2>10 DEF x
<1>2. CASE r \in {<<"forbidden", h[1]>> : h \in Hits(t, seam)}
  <2>1. PICK h \in Hits(t, seam) : r = <<"forbidden", h[1]>>
    BY <1>2
  <2>2. WordOf(r) = h[1]
    BY <2>1 DEF WordOf
  <2>3. h[1] \in Literals /\ h[2] \in Positions(t, h[1])
    BY DEF Hits
  <2> QED BY <2>2, <2>3, LeakAssumption
<1> QED BY <1>1, <1>2 DEF ScanText

\* What is refused in a piece stands in the whole.
LEMMA StandsInWhole ==
    ASSUME NEW v, NEW w, NEW o, Piece(v, w, o), NEW seam, NEW r \in ScanText(v, seam)
    PROVE  StandsIn(r, w)
<1>1. v \in Seq(Units)
  BY DEF Piece
<1>2. PICK q : WordOf(r) \in Seq(Units) \ {<<>>} /\ q \in Positions(v, WordOf(r))
  BY <1>1, RefusalIs
<1>3. q + o \in Positions(w, WordOf(r))
  BY <1>2, WordInWhole
<1> QED BY <1>3 DEF StandsIn, WordOf

\* What is refused in a text stands in it.
LEMMA StandsInText ==
    ASSUME NEW t \in Seq(Units), NEW seam, NEW r \in ScanText(t, seam)
    PROVE  StandsIn(r, t)
<1>1. \E q : q \in Positions(t, WordOf(r))
  BY RefusalIs
<1> QED BY <1>1 DEF StandsIn, WordOf
-----------------------------------------------------------------------------
(* Each occurrence of a literal is counted once.                           *)

\* What an occurrence of a literal is.
LEMMA HitIs ==
    ASSUME NEW t \in Seq(Units), NEW seam, NEW h
    PROVE  h \in Hits(t, seam) <=>
             \E x \in Literals : \E q \in Positions(t, x) : h = <<x, q>> /\ Crosses(seam, q, Len(x))
<1>1. ASSUME NEW x \in Literals, NEW q \in Positions(t, x)
      PROVE  q \in 1 .. Len(t)
  <2>1. x \in Seq(Units) \ {<<>>} /\ Len(x) \in Nat \ {0} /\ Len(t) \in Nat
    BY LeakAssumption, EmptySeq
  <2>2. q \in Nat \ {0} /\ q + Len(x) - 1 <= Len(t)
    BY <1>1, <2>1, StandsThere
  <2> QED BY <2>1, <2>2
<1>2. ASSUME NEW x \in Literals, NEW q \in Positions(t, x), Crosses(seam, q, Len(x))
      PROVE  <<x, q>> \in Hits(t, seam)
  BY <1>1, <1>2 DEF Hits
<1>3. ASSUME h \in Hits(t, seam)
      PROVE  /\ h = <<h[1], h[2]>> /\ h[1] \in Literals /\ h[2] \in Positions(t, h[1])
             /\ Crosses(seam, h[2], Len(h[1]))
  BY <1>3 DEF Hits
<1> HIDE DEF Hits
<1> QED BY <1>2, <1>3

\* A text has finitely many occurrences.
LEMMA HitsFinite ==
    ASSUME NEW t \in Seq(Units), NEW seam
    PROVE  IsFiniteSet(Hits(t, seam)) /\ Hits(t, seam) \subseteq Literals \X Nat
<1>1. IsFiniteSet(1 .. Len(t))
  BY FS_Interval
<1>2. IsFiniteSet(Literals \X (1 .. Len(t)))
  BY <1>1, LeakAssumption, FS_Product
<1>3. Hits(t, seam) \subseteq Literals \X (1 .. Len(t))
  BY DEF Hits
<1>4. IsFiniteSet(Hits(t, seam))
  BY <1>2, <1>3, FS_Subset
<1> QED BY <1>3, <1>4

\* The same occurrences, o units further on.
Shifted(S, o) == {<<h[1], h[2] + o>> : h \in S}

\* The occurrences of a piece, moved to their places in the whole, are as many.
LEMMA ShiftedIs ==
    ASSUME NEW S, S \subseteq Literals \X Nat, IsFiniteSet(S), NEW o \in Nat
    PROVE  IsFiniteSet(Shifted(S, o)) /\ Cardinality(Shifted(S, o)) = Cardinality(S)
<1> DEFINE f == [h \in S |-> <<h[1], h[2] + o>>]
<1>1. f \in Bijection(S, Shifted(S, o))
  <2>1. f \in [S -> Shifted(S, o)] /\ \A g \in Shifted(S, o) : \E h \in S : f[h] = g
    BY DEF Shifted
  <2>2. ASSUME NEW g \in S, NEW h \in S, f[g] = f[h] PROVE g = h
    <3>1. /\ g = <<g[1], g[2]>> /\ h = <<h[1], h[2]>> /\ g[2] \in Nat /\ h[2] \in Nat
      OBVIOUS
    <3>2. <<g[1], g[2] + o>> = <<h[1], h[2] + o>>
      BY <2>2
    <3>3. g[1] = h[1] /\ g[2] + o = h[2] + o
      BY <3>2
    <3>4. g[2] = h[2]
      BY <3>1, <3>3
    <3> QED BY <3>1, <3>3, <3>4
  <2> HIDE DEF f
  <2> QED BY <2>1, <2>2, Fun_IsBij
<1> HIDE DEF f
<1> QED BY <1>1, FS_Bijection DEF ExistsBijection

\* The elements of two disjoint sets add up.
LEMMA DisjointUnion ==
    ASSUME NEW S, NEW T, IsFiniteSet(S), IsFiniteSet(T), S \cap T = {}
    PROVE  IsFiniteSet(S \cup T) /\ Cardinality(S \cup T) = Cardinality(S) + Cardinality(T)
<1>1. /\ IsFiniteSet(S \cup T)
      /\ Cardinality(S \cup T) = Cardinality(S) + Cardinality(T) - Cardinality(S \cap T)
  BY FS_Union
<1>2. Cardinality(S \cap T) = 0 /\ Cardinality(S) \in Nat /\ Cardinality(T) \in Nat
  BY FS_EmptySet, FS_CardinalityType
<1> QED BY <1>1, <1>2

\* The occurrences in a text are those in its two pieces and those at the seam.
LEMMA HitsJoined ==
    ASSUME NEW t \in Seq(Units), NEW u \in Seq(Units)
    PROVE  LET s == SeamText(EndOf(t), u)
               across == IF EndOf(t) = <<>> \/ u = <<>> THEN {} ELSE Hits(s, Len(EndOf(t)))
           IN  Cardinality(Hits(t \o u, 0)) =
                 Cardinality(Hits(t, 0)) + Cardinality(across) + Cardinality(Hits(u, 0))
<1> DEFINE w == t \o u
           s == SeamText(EndOf(t), u)
           o == Len(t) - Len(EndOf(t))
           across == IF EndOf(t) = <<>> \/ u = <<>> THEN {} ELSE Hits(s, Len(EndOf(t)))
<1>0. /\ w \in Seq(Units) /\ Len(w) = Len(t) + Len(u) /\ Piece(t, w, 0) /\ Piece(u, w, Len(t))
      /\ s \in Seq(Units) /\ Piece(s, w, o) /\ Len(EndOf(t)) \in Nat /\ o \in Nat
      /\ Len(t) \in Nat /\ Len(u) \in Nat /\ SeamBytes \in Nat
      /\ o + Len(EndOf(t)) = Len(t) /\ Len(s) \in Nat
  <2>1. Piece(s, w, o) /\ s \in Seq(Units) /\ EndOf(t) \in Seq(Units)
    BY SeamIs, EndIs
  <2>2. o + Len(EndOf(t)) = Len(t)
    BY <2>1
  <2> QED BY <2>1, <2>2, JoinIs, LeakAssumption DEF Piece
<1>c. EndOf(t) # <<>> => Len(EndOf(t)) # 0
  <2>1. EndOf(t) \in Seq(Units)
    BY EndIs
  <2> QED BY <2>1, EmptySeq
<1> HIDE DEF w, s, o
<1>x. ASSUME NEW x \in Literals
      PROVE  x \in Seq(Units) \ {<<>>} /\ Len(x) \in Nat \ {0} /\ Len(x) <= SeamBytes
  BY LeakAssumption, EmptySeq
<1>1. Hits(t, 0) \subseteq Hits(w, 0)
  <2>1. ASSUME NEW h \in Hits(t, 0) PROVE h \in Hits(w, 0)
    <3>1. PICK x, q : x \in Literals /\ q \in Positions(t, x) /\ h = <<x, q>>
      BY HitIs
    <3>2. q + 0 \in Positions(w, x)
      BY <1>0, <1>x, <3>1, WordInWhole
    <3>3. q + 0 = q /\ Crosses(0, q, Len(x))
      BY <1>x, <3>1, StandsThere DEF Crosses
    <3> QED BY <1>0, <3>1, <3>2, <3>3, HitIs
  <2> QED BY <2>1
<1>2. Shifted(Hits(u, 0), Len(t)) \subseteq Hits(w, 0)
  <2>1. ASSUME NEW h \in Hits(u, 0) PROVE <<h[1], h[2] + Len(t)>> \in Hits(w, 0)
    <3>1. PICK x, q : x \in Literals /\ q \in Positions(u, x) /\ h = <<x, q>>
      BY HitIs
    <3>2. q + Len(t) \in Positions(w, x)
      BY <1>0, <1>x, <3>1, WordInWhole
    <3>3. Crosses(0, q + Len(t), Len(x)) /\ h[1] = x /\ h[2] = q
      BY <3>1 DEF Crosses
    <3> QED BY <1>0, <3>1, <3>2, <3>3, HitIs
  <2> QED BY <2>1 DEF Shifted
<1>3. Shifted(across, o) \subseteq Hits(w, 0)
  <2>1. ASSUME NEW h \in Hits(s, Len(EndOf(t))) PROVE <<h[1], h[2] + o>> \in Hits(w, 0)
    <3>1. PICK x, q : x \in Literals /\ q \in Positions(s, x) /\ h = <<x, q>>
      BY <1>0, HitIs
    <3>2. q + o \in Positions(w, x)
      BY <1>0, <1>x, <3>1, WordInWhole
    <3>3. Crosses(0, q + o, Len(x)) /\ h[1] = x /\ h[2] = q
      BY <3>1 DEF Crosses
    <3> QED BY <1>0, <3>1, <3>2, <3>3, HitIs
  <2> QED BY <2>1 DEF Shifted
<1>4. ASSUME NEW h \in Hits(t, 0)
      PROVE  h[2] \in Nat \ {0} /\ h[2] + Len(h[1]) - 1 <= Len(t)
  <2>1. PICK x, q : x \in Literals /\ q \in Positions(t, x) /\ h = <<x, q>>
    BY HitIs
  <2>2. q \in Nat \ {0} /\ q + Len(x) - 1 <= Len(t)
    BY <1>x, <2>1, StandsThere
  <2> QED BY <2>1, <2>2
<1>5. ASSUME NEW h \in Shifted(Hits(u, 0), Len(t))
      PROVE  h[2] \in Nat \ {0} /\ h[2] > Len(t)
  <2>1. PICK g \in Hits(u, 0) : h = <<g[1], g[2] + Len(t)>>
    BY DEF Shifted
  <2>2. PICK x, q : x \in Literals /\ q \in Positions(u, x) /\ g = <<x, q>>
    BY HitIs
  <2>3. q \in Nat \ {0}
    BY <1>x, <2>2, StandsThere
  <2>4. h[2] = q + Len(t)
    BY <2>1, <2>2
  <2> QED BY <1>0, <2>3, <2>4
<1>6. ASSUME NEW h \in Shifted(across, o)
      PROVE  h[2] \in Nat \ {0} /\ h[2] <= Len(t) /\ h[2] + Len(h[1]) - 1 > Len(t)
  <2>1. PICK g \in across : h = <<g[1], g[2] + o>>
    BY DEF Shifted
  <2>2. g \in Hits(s, Len(EndOf(t))) /\ EndOf(t) # <<>>
    OBVIOUS
  <2>3. PICK x, q : x \in Literals /\ q \in Positions(s, x) /\ g = <<x, q>> /\ Crosses(Len(EndOf(t)), q, Len(x))
    BY <1>0, <2>2, HitIs
  <2>4. q \in Nat \ {0} /\ Len(x) \in Nat
    BY <1>0, <1>x, <2>3, StandsThere
  <2>5. q <= Len(EndOf(t)) /\ q + Len(x) - 1 > Len(EndOf(t))
    BY <1>c, <2>2, <2>3 DEF Crosses
  <2>6. h[1] = x /\ h[2] = q + o
    BY <2>1, <2>3
  <2> QED BY <1>0, <2>4, <2>5, <2>6
<1>7. ASSUME NEW x \in Literals, NEW q \in Positions(w, x), NEW h, h = <<x, q>>
      PROVE  h \in Hits(t, 0) \/ h \in Shifted(across, o) \/ h \in Shifted(Hits(u, 0), Len(t))
  <2>1. h = <<x, q>>
    BY <1>7
  <2> DEFINE len == Len(x)
  <2>2. /\ q \in Nat \ {0} /\ q + len - 1 <= Len(w) /\ x \in Seq(Units) \ {<<>>}
        /\ len \in Nat \ {0} /\ len <= SeamBytes
    BY <1>0, <1>x, StandsThere
  <2>3. CASE q + len - 1 <= Len(t)
    <3>1. q - 0 \in Positions(t, x)
      <4>1. 0 < q /\ q + Len(x) - 1 <= 0 + Len(t)
        BY <1>0, <2>2, <2>3
      <4> QED BY <1>0, <2>2, <4>1, WordInPiece
    <3>e. q - 0 = q
      BY <1>0, <2>2
    <3>2. Crosses(0, q, Len(x))
      BY DEF Crosses
    <3> QED BY <2>1, <3>1, <3>2, <3>e, HitIs
  <2>4. CASE q > Len(t)
    <3>1. q - Len(t) \in Positions(u, x)
      <4>1. Len(t) < q /\ q + Len(x) - 1 <= Len(t) + Len(u)
        BY <1>0, <2>2, <2>4
      <4> QED BY <1>0, <2>2, <4>1, WordInPiece
    <3>e. (q - Len(t)) + Len(t) = q
      BY <1>0, <2>2
    <3>2. Crosses(0, q - Len(t), Len(x))
      BY DEF Crosses
    <3>3. <<x, q - Len(t)>> \in Hits(u, 0)
      BY <2>1, <3>1, <3>2, HitIs
    <3>4. h = <<<<x, q - Len(t)>>[1], <<x, q - Len(t)>>[2] + Len(t)>>
      BY <2>1, <3>e
    <3> QED BY <3>3, <3>4 DEF Shifted
  <2>5. CASE q <= Len(t) /\ q + len - 1 > Len(t)
    <3>1. /\ o < q /\ q + len - 1 <= o + Len(s) /\ Crosses(Len(EndOf(t)), q - o, len)
          /\ EndOf(t) # <<>> /\ u # <<>>
      <4> HIDE DEF len
      <4> QED BY <1>0, <2>2, <2>5, InSeam DEF o, s
    <3>2. q - o \in Positions(s, x)
      BY <1>0, <2>2, <3>1, WordInPiece
    <3>e. (q - o) + o = q
      BY <1>0, <2>2
    <3>3. <<x, q - o>> \in across
      BY <1>0, <2>1, <3>1, <3>2, HitIs
    <3>4. h = <<<<x, q - o>>[1], <<x, q - o>>[2] + o>>
      BY <2>1, <3>e
    <3> QED BY <3>3, <3>4 DEF Shifted
  <2> QED BY <1>0, <2>2, <2>3, <2>4, <2>5
<1>w. Hits(w, 0) \subseteq (Hits(t, 0) \cup Shifted(across, o)) \cup Shifted(Hits(u, 0), Len(t))
  <2>1. ASSUME NEW h \in Hits(w, 0)
        PROVE  h \in Hits(t, 0) \/ h \in Shifted(across, o) \/ h \in Shifted(Hits(u, 0), Len(t))
    <3>1. \E x \in Literals : \E q \in Positions(w, x) : h = <<x, q>>
      BY <1>0, HitIs
    <3> HIDE DEF across
    <3> QED BY <1>7, <3>1
  <2> QED BY <2>1
<1> DEFINE A == Hits(t, 0)
           B == Shifted(across, o)
           C == Shifted(Hits(u, 0), Len(t))
<1>8. /\ IsFiniteSet(A) /\ IsFiniteSet(across) /\ across \subseteq Literals \X Nat
      /\ IsFiniteSet(B) /\ Cardinality(B) = Cardinality(across)
      /\ IsFiniteSet(C) /\ Cardinality(C) = Cardinality(Hits(u, 0))
  <2>1. /\ IsFiniteSet(Hits(s, Len(EndOf(t)))) /\ Hits(s, Len(EndOf(t))) \subseteq Literals \X Nat
        /\ IsFiniteSet(Hits(u, 0)) /\ Hits(u, 0) \subseteq Literals \X Nat
    BY <1>0, HitsFinite
  <2>2. IsFiniteSet(across) /\ across \subseteq Literals \X Nat
    BY <2>1, FS_EmptySet
  <2> HIDE DEF across
  <2> QED BY <1>0, <2>1, <2>2, HitsFinite, ShiftedIs
<1> HIDE DEF across
<1>9. Hits(w, 0) = (A \cup B) \cup C
  BY <1>1, <1>2, <1>3, <1>w
<1>10. A \cap B = {} /\ (A \cup B) \cap C = {}
  <2>1. ASSUME NEW h \in A, h \in B PROVE FALSE
    <3>1. h[2] + Len(h[1]) - 1 <= Len(t) /\ h[2] + Len(h[1]) - 1 > Len(t)
      BY <1>4, <1>6, <2>1
    <3>2. PICK x, q : x \in Literals /\ q \in Positions(t, x) /\ h = <<x, q>>
      BY HitIs
    <3>3. Len(h[1]) \in Nat /\ h[2] \in Nat
      BY <1>x, <1>4, <3>2
    <3> QED BY <1>0, <3>1, <3>3, SMTT(30)
  <2>2. ASSUME NEW h \in A, h \in C PROVE FALSE
    <3>1. h[2] + Len(h[1]) - 1 <= Len(t) /\ h[2] > Len(t) /\ h[2] \in Nat
      BY <1>4, <1>5, <2>2
    <3>2. PICK x, q : x \in Literals /\ q \in Positions(t, x) /\ h = <<x, q>>
      BY HitIs
    <3>3. Len(h[1]) \in Nat \ {0}
      BY <1>x, <3>2
    <3> QED BY <1>0, <3>1, <3>3, SMTT(30)
  <2>3. ASSUME NEW h \in B, h \in C PROVE FALSE
    <3>1. h[2] <= Len(t) /\ h[2] > Len(t) /\ h[2] \in Nat
      BY <1>5, <1>6, <2>3
    <3> QED BY <1>0, <3>1
  <2> QED BY <2>1, <2>2, <2>3
<1> HIDE DEF A, B, C
<1>11. /\ IsFiniteSet(A \cup B) /\ Cardinality(A \cup B) = Cardinality(A) + Cardinality(B)
  BY <1>8, <1>10, DisjointUnion
<1>12. Cardinality((A \cup B) \cup C) = Cardinality(A \cup B) + Cardinality(C)
  BY <1>8, <1>10, <1>11, DisjointUnion
<1>13. Cardinality(Hits(w, 0)) =
         Cardinality(A) + Cardinality(across) + Cardinality(Hits(u, 0))
  BY <1>8, <1>9, <1>11, <1>12
<1> QED BY <1>13 DEF A, w, s, across
-----------------------------------------------------------------------------
(* The joined contents of a buffer's frames.                               *)

\* The fields of a buffer.
LEMMA BufferIs ==
    ASSUME NEW b \in Data
    PROVE  /\ b.text \in Seq(Units) /\ b.frames \in Seq(Data) /\ b.members \in Seq(Data)
           /\ b.rest \in Seq(Data) /\ b.container \in {"no", "readable", "broken"}
           /\ Len(b.frames) \in Nat /\ Len(b.members) \in Nat
           /\ \A k \in 1 .. Len(b.frames) : b.frames[k] \in Data /\ b.frames[k].text \in Seq(Units)
           /\ \A k \in 1 .. Len(b.members) : b.members[k] \in Data
           /\ b.container = "readable" => b.rest[1] \in Data /\ ToSet(b.rest) = {b.rest[1]}
<1>1. b \in Described
  BY RecordedAssumption
<1>2. /\ b.text \in Seq(Units) /\ b.frames \in Seq(Data) /\ b.members \in Seq(Data)
      /\ b.rest \in Seq(Data) /\ b.container \in {"no", "readable", "broken"}
  BY <1>1 DEF Described
<1>3. ASSUME NEW k \in 1 .. Len(b.frames) PROVE b.frames[k] \in Data /\ b.frames[k].text \in Seq(Units)
  <2>1. b.frames[k] \in Data
    BY <1>2
  <2>2. b.frames[k] \in Described
    BY <2>1, RecordedAssumption
  <2> QED BY <2>1, <2>2 DEF Described
<1>4. ASSUME b.container = "readable" PROVE b.rest[1] \in Data /\ ToSet(b.rest) = {b.rest[1]}
  <2>1. Len(b.rest) = 1
    BY <1>4, RecordedAssumption
  <2>2. 1 \in 1 .. Len(b.rest) /\ \A k \in 1 .. Len(b.rest) : k = 1
    BY <2>1
  <2> QED BY <1>2, <2>2 DEF ToSet
<1> QED BY <1>2, <1>3, <1>4

\* The first texts of ss, joined.
JoinsUp(ss, m, f) == f = [k \in 1 .. m |-> IF k = 1 THEN ss[k] ELSE f[k - 1] \o ss[k]]

\* There is such a function for every row of texts.
LEMMA JoinsExist ==
    ASSUME NEW ss, NEW n \in Nat
    PROVE  \E f : JoinsUp(ss, n, f)
<1> DEFINE S == {m \in Nat : \E h : JoinsUp(ss, m, h)}
<1>1. 0 \in S
  <2> DEFINE h == [k \in 1 .. 0 |-> <<>>]
  <2>1. h = [k \in 1 .. 0 |-> IF k = 1 THEN ss[k] ELSE h[k - 1] \o ss[k]]
    OBVIOUS
  <2> HIDE DEF h
  <2>2. JoinsUp(ss, 0, h)
    BY <2>1 DEF JoinsUp
  <2> QED BY <2>2
<1>2. ASSUME NEW m \in Nat, m \in S PROVE m + 1 \in S
  <2>1. PICK h : JoinsUp(ss, m, h)
    BY <1>2
  <2>2. \A k \in 1 .. m : h[k] = IF k = 1 THEN ss[k] ELSE h[k - 1] \o ss[k]
    BY <2>1 DEF JoinsUp
  <2> DEFINE last == IF m + 1 = 1 THEN ss[m + 1] ELSE h[m] \o ss[m + 1]
             g == [k \in 1 .. (m + 1) |-> IF k = m + 1 THEN last ELSE h[k]]
  <2>3. g[m + 1] = last /\ \A k \in 1 .. m : g[k] = h[k]
    <3>1. m + 1 \in 1 .. (m + 1) /\ \A k \in 1 .. m : k \in 1 .. (m + 1) /\ k # m + 1
      OBVIOUS
    <3> HIDE DEF last
    <3> QED BY <3>1, Zenon
  <2>4. g = [k \in 1 .. (m + 1) |-> g[k]]
    OBVIOUS
  <2> HIDE DEF g
  <2>5. ASSUME NEW k \in 1 .. (m + 1)
        PROVE  g[k] = IF k = 1 THEN ss[k] ELSE g[k - 1] \o ss[k]
    <3>1. CASE k = m + 1
      <4>1. CASE k = 1
        BY <2>3, <3>1, <4>1
      <4>2. CASE k # 1
        <5>1. k - 1 = m /\ m \in 1 .. m
          BY <3>1, <4>2
        <5> QED BY <2>3, <3>1, <4>2, <5>1
      <4> QED BY <4>1, <4>2
    <3>2. CASE k # m + 1
      <4>1. k \in 1 .. m
        BY <3>2
      <4>2. h[k] = IF k = 1 THEN ss[k] ELSE h[k - 1] \o ss[k]
        BY <2>2, <4>1
      <4>3. k # 1 => k - 1 \in 1 .. m
        BY <4>1
      <4> QED BY <2>3, <4>1, <4>2, <4>3
    <3> QED BY <3>1, <3>2
  <2>6. JoinsUp(ss, m + 1, g)
    BY <2>4, <2>5 DEF JoinsUp
  <2> QED BY <2>6
<1> HIDE DEF S
<1>3. n \in S
  BY <1>1, <1>2, InductionOverSet
<1> QED BY <1>3 DEF S

\* FlattenSeq joins up.
LEMMA FlattenIs ==
    ASSUME NEW n \in Nat \ {0}, NEW ss, Len(ss) = n
    PROVE  \E f : JoinsUp(ss, n, f) /\ FlattenSeq(ss) = f[n]
<1> DEFINE f == CHOOSE h : h = [k \in 1 .. Len(ss) |-> IF k = 1 THEN ss[k] ELSE h[k - 1] \o ss[k]]
<1>1. FlattenSeq(ss) = f[Len(ss)]
  BY DEF FlattenSeq
<1>2. \E h : h = [k \in 1 .. Len(ss) |-> IF k = 1 THEN ss[k] ELSE h[k - 1] \o ss[k]]
  BY JoinsExist DEF JoinsUp
<1>3. f = [k \in 1 .. Len(ss) |-> IF k = 1 THEN ss[k] ELSE f[k - 1] \o ss[k]]
  BY <1>2
<1> HIDE DEF f
<1>4. JoinsUp(ss, n, f)
  BY <1>3 DEF JoinsUp
<1> QED BY <1>1, <1>4

TextsTo(b, n) == [k \in 1 .. n |-> b.frames[k].text]

\* The joined content grows by a frame's text.
LEMMA JoinedStep ==
    ASSUME NEW b \in Data
    PROVE  /\ JoinedTo(b, 0) = <<>>
           /\ \A n \in 0 .. Len(b.frames) :
                JoinedTo(b, n) \in Seq(Units)
           /\ \A n \in 0 .. Len(b.frames) - 1 :
                JoinedTo(b, n + 1) = JoinedTo(b, n) \o b.frames[n + 1].text
<1> DEFINE N == Len(b.frames)
<1>0. N \in Nat /\ \A k \in 1 .. N : b.frames[k].text \in Seq(Units)
  BY BufferIs
<1>1. JoinedTo(b, 0) = <<>>
  <2>1. TextsTo(b, 0) = <<>> /\ Len(TextsTo(b, 0)) = 0
    BY DEF TextsTo
  <2> QED BY <2>1 DEF JoinedTo, FlattenSeq, TextsTo
<1>t. ASSUME NEW n \in 0 .. N PROVE Len(TextsTo(b, n)) = n
  <2>1. TextsTo(b, n) \in Seq(Seq(Units)) /\ DOMAIN TextsTo(b, n) = 1 .. n
    <3>1. \A k \in 1 .. n : b.frames[k].text \in Seq(Units)
      BY <1>0
    <3> QED BY <3>1 DEF TextsTo
  <2>2. 1 .. Len(TextsTo(b, n)) = 1 .. n /\ Len(TextsTo(b, n)) \in Nat
    BY <2>1
  <2> QED BY <2>1, <2>2
<1>2. PICK F : JoinsUp(TextsTo(b, N), N, F)
  BY <1>0, JoinsExist
<1>3. \A k \in 1 .. N : F[k] = IF k = 1 THEN b.frames[k].text ELSE F[k - 1] \o b.frames[k].text
  BY <1>2 DEF JoinsUp, TextsTo
<1>4. ASSUME NEW n \in 1 .. N PROVE JoinedTo(b, n) = F[n]
  <2>1. PICK f : JoinsUp(TextsTo(b, n), n, f) /\ FlattenSeq(TextsTo(b, n)) = f[n]
    BY <1>t, FlattenIs
  <2>2. \A k \in 1 .. n : f[k] = IF k = 1 THEN b.frames[k].text ELSE f[k - 1] \o b.frames[k].text
    BY <2>1 DEF JoinsUp, TextsTo
  <2> DEFINE S == {k \in Nat : k + 1 <= n => f[k + 1] = F[k + 1]}
  <2>3. 0 \in S
    <3>1. 1 \in 1 .. n /\ 1 \in 1 .. N
      BY <1>0
    <3> QED BY <1>3, <2>2, <3>1
  <2>4. ASSUME NEW k \in Nat, k \in S PROVE k + 1 \in S
    <3>1. SUFFICES ASSUME (k + 1) + 1 <= n PROVE f[(k + 1) + 1] = F[(k + 1) + 1]
      OBVIOUS
    <3>2. f[k + 1] = F[k + 1]
      BY <2>4, <3>1
    <3>3. /\ (k + 1) + 1 \in 1 .. n /\ (k + 1) + 1 \in 1 .. N /\ (k + 1) + 1 # 1
          /\ ((k + 1) + 1) - 1 = k + 1
      BY <3>1, <1>0
    <3> QED BY <1>3, <2>2, <3>2, <3>3
  <2> HIDE DEF S
  <2>5. n - 1 \in S
    <3>1. Nat \subseteq S
      BY <2>3, <2>4, InductionOverSet
    <3> QED BY <3>1
  <2>6. f[n] = F[n]
    <3>1. (n - 1) + 1 = n /\ n <= n
      OBVIOUS
    <3> QED BY <2>5, <3>1 DEF S
  <2> QED BY <2>1, <2>6 DEF JoinedTo, TextsTo
<1>5. ASSUME NEW n \in 0 .. N - 1
      PROVE  JoinedTo(b, n + 1) = JoinedTo(b, n) \o b.frames[n + 1].text
  <2>1. n + 1 \in 1 .. N /\ b.frames[n + 1].text \in Seq(Units)
    BY <1>0
  <2>2. CASE n = 0
    <3>1. F[n + 1] = b.frames[n + 1].text
      BY <1>3, <2>1, <2>2
    <3>2. <<>> \o b.frames[n + 1].text = b.frames[n + 1].text
      BY <2>1, ConcatEmptySeq
    <3> QED BY <1>1, <1>4, <2>1, <2>2, <3>1, <3>2
  <2>3. CASE n # 0
    <3>1. n \in 1 .. N /\ n + 1 # 1 /\ (n + 1) - 1 = n
      BY <1>0, <2>3
    <3>2. F[n + 1] = F[n] \o b.frames[n + 1].text
      BY <1>3, <2>1, <3>1
    <3> QED BY <1>4, <2>1, <3>1, <3>2
  <2> QED BY <2>2, <2>3
<1>6. ASSUME NEW n \in 0 .. N PROVE JoinedTo(b, n) \in Seq(Units)
  <2> DEFINE S == {k \in Nat : k <= N => JoinedTo(b, k) \in Seq(Units)}
  <2>1. 0 \in S
    <3>1. <<>> \in Seq(Units)
      OBVIOUS
    <3> QED BY <1>1, <3>1
  <2>2. ASSUME NEW k \in Nat, k \in S PROVE k + 1 \in S
    <3>1. SUFFICES ASSUME k + 1 <= N PROVE JoinedTo(b, k + 1) \in Seq(Units)
      OBVIOUS
    <3>2. k \in 0 .. N - 1 /\ JoinedTo(b, k) \in Seq(Units) /\ k + 1 \in 1 .. N
      BY <1>0, <2>2, <3>1
    <3>3. JoinedTo(b, k) \o b.frames[k + 1].text \in Seq(Units)
      BY <1>0, <3>2, JoinIs
    <3> QED BY <1>5, <3>2, <3>3
  <2> HIDE DEF S
  <2>3. n \in S
    BY <2>1, <2>2, InductionOverSet
  <2> QED BY <2>3 DEF S
<1> QED BY <1>1, <1>5, <1>6

\* The content of the first frames begins the content of all.
LEMMA JoinedPiece ==
    ASSUME NEW b \in Data, NEW n \in 0 .. Len(b.frames)
    PROVE  Piece(JoinedTo(b, n), Joined(b), 0)
<1> DEFINE N == Len(b.frames)
           S == {k \in Nat : k <= N - n => Piece(JoinedTo(b, n), JoinedTo(b, n + k), 0)}
<1>0. N \in Nat /\ n \in Nat /\ n <= N /\ \A k \in 0 .. N : JoinedTo(b, k) \in Seq(Units)
  BY BufferIs, JoinedStep
<1>1. 0 \in S
  <2>1. n + 0 = n /\ JoinedTo(b, n) \in Seq(Units) /\ Len(JoinedTo(b, n)) \in Nat
    BY <1>0
  <2>2. Piece(JoinedTo(b, n), JoinedTo(b, n), 0)
    BY <2>1 DEF Piece
  <2> QED BY <2>1, <2>2
<1>2. ASSUME NEW k \in Nat, k \in S PROVE k + 1 \in S
  <2>1. SUFFICES ASSUME k + 1 <= N - n PROVE Piece(JoinedTo(b, n), JoinedTo(b, n + (k + 1)), 0)
    OBVIOUS
  <2>2. Piece(JoinedTo(b, n), JoinedTo(b, n + k), 0)
    BY <1>0, <1>2, <2>1
  <2>3. /\ n + k \in 0 .. N - 1 /\ n + (k + 1) = (n + k) + 1 /\ (n + k) + 1 \in 1 .. N
        /\ n + k \in 0 .. N
    BY <1>0, <2>1
  <2>4. JoinedTo(b, (n + k) + 1) = JoinedTo(b, n + k) \o b.frames[(n + k) + 1].text
    BY <2>3, JoinedStep
  <2>5. JoinedTo(b, n + k) \in Seq(Units) /\ b.frames[(n + k) + 1].text \in Seq(Units)
    BY <1>0, <2>3, BufferIs
  <2>6. Piece(JoinedTo(b, n + k), JoinedTo(b, (n + k) + 1), 0)
    BY <2>4, <2>5, JoinIs
  <2>7. Piece(JoinedTo(b, n), JoinedTo(b, (n + k) + 1), 0 + 0)
    BY <2>2, <2>6, PieceOfPiece
  <2> QED BY <2>3, <2>7
<1> HIDE DEF S
<1>3. N - n \in S
  <2>1. Nat \subseteq S
    BY <1>1, <1>2, InductionOverSet
  <2> QED BY <1>0, <2>1
<1>4. n + (N - n) = N /\ N - n <= N - n
  BY <1>0
<1> QED BY <1>3, <1>4 DEF S, Joined
-----------------------------------------------------------------------------
(* The parts of a file.                                                  *)

\* The first n applications of g to x.
Iterated(S, x, g, n, f) ==
    /\ f \in [0..n -> S] /\ f[0] = x
    /\ \A k \in 0..(n - 1) : f[k + 1] = g[f[k]]

\* There is such a function for every number of applications.
LEMMA IteratedExists ==
    ASSUME NEW S, NEW x \in S, NEW g \in [S -> S], NEW n \in Nat
    PROVE  \E f : Iterated(S, x, g, n, f)
<1> DEFINE T == {m \in Nat : \E f : Iterated(S, x, g, m, f)}
<1>1. 0 \in T
  <2> DEFINE f == [k \in 0..0 |-> x]
  <2>1. Iterated(S, x, g, 0, f)
    BY DEF Iterated
  <2> HIDE DEF f
  <2> QED BY <2>1
<1>2. ASSUME NEW m \in Nat, m \in T PROVE m + 1 \in T
  <2>1. PICK f : Iterated(S, x, g, m, f)
    BY <1>2
  <2>2. f \in [0..m -> S] /\ f[0] = x /\ \A k \in 0..(m - 1) : f[k + 1] = g[f[k]]
    BY <2>1 DEF Iterated
  <2> DEFINE h == [k \in 0..(m + 1) |-> IF k = m + 1 THEN g[f[m]] ELSE f[k]]
  <2>3. f[m] \in S /\ g[f[m]] \in S
    BY <2>2
  <2>4. h[m + 1] = g[f[m]] /\ \A k \in 0..m : h[k] = f[k]
    OBVIOUS
  <2>5. h \in [0..(m + 1) -> S]
    BY <2>2, <2>3
  <2> HIDE DEF h
  <2>6. ASSUME NEW k \in 0..m PROVE h[k + 1] = g[h[k]]
    <3>1. CASE k = m
      BY <2>4, <3>1
    <3>2. CASE k # m
      <4>1. k \in 0..(m - 1) /\ k + 1 \in 0..m
        BY <3>2
      <4> QED BY <2>2, <2>4, <4>1
    <3> QED BY <3>1, <3>2
  <2>7. h[0] = x /\ (m + 1) - 1 = m
    BY <2>2, <2>4
  <2>8. Iterated(S, x, g, m + 1, h)
    BY <2>5, <2>6, <2>7 DEF Iterated
  <2> QED BY <2>8
<1> HIDE DEF T
<1>3. n \in T
  BY <1>1, <1>2, InductionOverSet
<1> QED BY <1>3 DEF T

\* Two of them are equal as far as both go.
LEMMA IteratedAgree ==
    ASSUME NEW S, NEW x, NEW g, NEW m \in Nat, NEW n \in Nat, NEW f, NEW h,
           Iterated(S, x, g, m, f), Iterated(S, x, g, n, h),
           NEW d \in Nat, d <= m, d <= n
    PROVE  f[d] = h[d]
<1> DEFINE T == {k \in Nat : k <= m /\ k <= n => f[k] = h[k]}
<1>0. /\ f[0] = x /\ \A k \in 0..(m - 1) : f[k + 1] = g[f[k]]
      /\ h[0] = x /\ \A k \in 0..(n - 1) : h[k + 1] = g[h[k]]
  BY DEF Iterated
<1>1. 0 \in T
  BY <1>0
<1>2. ASSUME NEW k \in Nat, k \in T PROVE k + 1 \in T
  <2>1. SUFFICES ASSUME k + 1 <= m, k + 1 <= n PROVE f[k + 1] = h[k + 1]
    OBVIOUS
  <2>2. f[k] = h[k] /\ k \in 0..(m - 1) /\ k \in 0..(n - 1)
    BY <1>2, <2>1
  <2>3. f[k + 1] = g[f[k]] /\ h[k + 1] = g[h[k]]
    BY <1>0, <2>2
  <2> QED BY <2>2, <2>3
<1> HIDE DEF T
<1>3. d \in T
  BY <1>1, <1>2, InductionOverSet
<1> QED BY <1>3 DEF T

\* Every number of applications of g to x.
Iterates(S, x, g, f) == f \in [Nat -> S] /\ f[0] = x /\ \A k \in Nat : f[k + 1] = g[f[k]]

\* What iteration comes to, for every number of applications at once.
LEMMA Iteration ==
    ASSUME NEW S, NEW x \in S, NEW g \in [S -> S]
    PROVE  \E f : Iterates(S, x, g, f)
<1> DEFINE It(n) == CHOOSE f : Iterated(S, x, g, n, f)
           f == [n \in Nat |-> It(n)[n]]
<1>1. ASSUME NEW n \in Nat PROVE Iterated(S, x, g, n, It(n))
  BY IteratedExists
<1> HIDE DEF It
<1>2. ASSUME NEW n \in Nat
      PROVE  /\ It(n) \in [0..n -> S] /\ It(n)[0] = x
             /\ \A k \in 0..(n - 1) : It(n)[k + 1] = g[It(n)[k]]
  BY <1>1 DEF Iterated
<1>3. f \in [Nat -> S]
  <2>1. ASSUME NEW n \in Nat PROVE It(n)[n] \in S
    BY <1>2
  <2> QED BY <2>1
<1>4. f[0] = x
  BY <1>2
<1>5. ASSUME NEW k \in Nat PROVE f[k + 1] = g[f[k]]
  <2>1. k + 1 \in Nat /\ k \in 0..((k + 1) - 1)
    OBVIOUS
  <2>2. It(k + 1)[k + 1] = g[It(k + 1)[k]]
    BY <1>2, <2>1
  <2>3. It(k)[k] = It(k + 1)[k]
    <3>1. Iterated(S, x, g, k, It(k)) /\ Iterated(S, x, g, k + 1, It(k + 1))
      BY <1>1, <2>1
    <3>2. k <= k /\ k <= k + 1
      OBVIOUS
    <3> QED BY <2>1, <3>1, <3>2, IteratedAgree
  <2>4. f[k + 1] = It(k + 1)[k + 1] /\ f[k] = It(k)[k]
    BY <2>1
  <2> HIDE DEF f
  <2> QED BY <2>2, <2>3, <2>4
<1> HIDE DEF f
<1>6. Iterates(S, x, g, f)
  BY <1>3, <1>4, <1>5 DEF Iterates
<1> QED BY <1>6

\* What is in a part are parts.
LEMMA InsideType ==
    ASSUME NEW p \in AllParts
    PROVE  /\ p.data \in Data /\ p.frames \in 0 .. MaxFrameDepth /\ p.containers \in Nat
           /\ Inside(p) \subseteq AllParts
<1>1. /\ p.data \in Data /\ p.frames \in 0 .. MaxFrameDepth /\ p.containers \in Nat
      /\ MaxFrameDepth \in Nat
  BY RecordedAssumption DEF AllParts
<1>2. /\ ToSet(p.data.frames) \subseteq Data /\ ToSet(p.data.members) \subseteq Data
      /\ ToSet(p.data.rest) \subseteq Data
  BY <1>1, BufferIs DEF ToSet
<1>3. ASSUME NEW q \in Inside(p) PROVE q \in AllParts
  <2>1. CASE Framed(p) /\ q \in {Part(x, "frame", p.frames - 1, p.containers) : x \in ToSet(p.data.frames)}
    <3>1. p.frames - 1 \in 0 .. MaxFrameDepth
      BY <1>1, <2>1 DEF Framed
    <3> QED BY <1>1, <1>2, <2>1, <3>1 DEF AllParts, Part
  <2>2. CASE Opened(p) /\ q \in Contents(p.data, p.containers - 1)
    <3>1. p.containers - 1 \in Nat /\ MaxFrameDepth \in 0 .. MaxFrameDepth
      BY <1>1, <2>2 DEF Opened
    <3> QED BY <1>1, <1>2, <2>2, <3>1 DEF AllParts, Part, Contents
  <2> QED BY <2>1, <2>2 DEF Inside
<1> QED BY <1>1, <1>3

\* The recursive function of RecordedText is what its definition says.
LEMMA PartsToIs ==
    ASSUME NEW levels \in Nat, NEW p \in AllParts
    PROVE  PartsTo[levels][p] =
             {p} \cup (IF levels = 0 THEN {} ELSE UNION {PartsTo[levels - 1][q] : q \in Inside(p)})
<1> DEFINE Below(G) == [r \in AllParts |-> {r} \cup UNION {G[q] : q \in Inside(r)}]
           S == [AllParts -> SUBSET AllParts]
           x == [r \in AllParts |-> {r}]
           g == [G \in S |-> Below(G)]
           Next1(n, G) == [r \in AllParts |->
                {r} \cup (IF n = 0 THEN {} ELSE UNION {G[n - 1][q] : q \in Inside(r)})]
<1>1. x \in S /\ g \in [S -> S]
  <2>1. ASSUME NEW G \in S PROVE Below(G) \in S
    <3>1. ASSUME NEW r \in AllParts PROVE {r} \cup UNION {G[q] : q \in Inside(r)} \in SUBSET AllParts
      BY InsideType
    <3> QED BY <3>1
  <2> HIDE DEF Below
  <2> QED BY <2>1
<1>g. \A G \in S : g[G] = Below(G)
  <2> HIDE DEF Below
  <2> QED OBVIOUS
<1> HIDE DEF g
<1>2. PICK f : Iterates(S, x, g, f)
  <2> HIDE DEF x, S
  <2> QED BY <1>1, Iteration
<1>3. f \in [Nat -> S] /\ f[0] = x /\ \A k \in Nat : f[k + 1] = g[f[k]]
  BY <1>2 DEF Iterates
<1>4. \A k \in Nat : f[k + 1] = Below(f[k])
  <2> HIDE DEF Below
  <2> QED BY <1>g, <1>3
<1>5. ASSUME NEW n \in Nat PROVE f[n] = Next1(n, f)
  <2>1. CASE n = 0
    BY <1>3, <2>1
  <2>2. CASE n # 0
    <3>1. n - 1 \in Nat /\ (n - 1) + 1 = n
      BY <2>2
    <3>2. f[n] = Below(f[n - 1])
      BY <1>4, <3>1
    <3>3. Below(f[n - 1]) = Next1(n, f)
      BY <2>2
    <3> QED BY <3>2, <3>3
  <2> QED BY <2>1, <2>2
<1> HIDE DEF Next1
<1>6. f = [n \in Nat |-> Next1(n, f)]
  <2>1. f = [n \in Nat |-> f[n]]
    BY <1>3
  <2> QED BY <1>5, <2>1
<1> DEFINE h == CHOOSE G : G = [n \in Nat |-> Next1(n, G)]
<1>7. h = [n \in Nat |-> Next1(n, h)]
  BY <1>6
<1>8. PartsTo = h
  BY DEF PartsTo, Next1
<1> HIDE DEF h
<1>9. PartsTo[levels] = Next1(levels, PartsTo)
  BY <1>7, <1>8
<1> QED BY <1>9 DEF Next1
\* Each level of parts holds only parts.
LEMMA PartsToType ==
    ASSUME NEW n \in Nat, NEW p \in AllParts
    PROVE  PartsTo[n][p] \subseteq AllParts
<1> DEFINE S == {m \in Nat : \A q \in AllParts : PartsTo[m][q] \subseteq AllParts}
<1>1. 0 \in S
  <2>1. ASSUME NEW q \in AllParts PROVE PartsTo[0][q] = {q}
    BY PartsToIs
  <2> QED BY <2>1
<1>2. ASSUME NEW m \in Nat, m \in S PROVE m + 1 \in S
  <2>1. ASSUME NEW q \in AllParts PROVE PartsTo[m + 1][q] \subseteq AllParts
    <3>1. m + 1 \in Nat /\ m + 1 # 0 /\ (m + 1) - 1 = m
      OBVIOUS
    <3>2. PartsTo[m + 1][q] = {q} \cup UNION {PartsTo[m][r] : r \in Inside(q)}
      BY <3>1, PartsToIs
    <3>3. \A r \in Inside(q) : PartsTo[m][r] \subseteq AllParts
      BY <1>2, InsideType
    <3> QED BY <3>2, <3>3
  <2> QED BY <2>1
<1> HIDE DEF S
<1>3. n \in S
  BY <1>1, <1>2, InductionOverSet
<1> QED BY <1>3 DEF S

\* Below a part there are fewer levels.
LEMMA LevelsFall ==
    ASSUME NEW p \in AllParts
    PROVE  Levels(p) \in Nat /\ \A q \in Inside(p) : Levels(q) < Levels(p)
<1>0. MaxFrameDepth \in Nat /\ p.frames \in 0 .. MaxFrameDepth /\ p.containers \in Nat
  BY InsideType, RecordedAssumption
<1> DEFINE m == MaxFrameDepth + 1
<1>1. p.containers * m \in Nat
  BY <1>0
<1>2. Levels(p) = p.containers * m + p.frames
  BY DEF Levels
<1>3. ASSUME NEW q \in Inside(p) PROVE Levels(q) < Levels(p)
  <2>1. CASE Framed(p) /\ q \in {Part(x, "frame", p.frames - 1, p.containers) : x \in ToSet(p.data.frames)}
    <3>1. q.frames = p.frames - 1 /\ q.containers = p.containers
      BY <2>1 DEF Part
    <3>2. Levels(q) = p.containers * m + (p.frames - 1)
      BY <3>1 DEF Levels
    <3> HIDE DEF m
    <3> QED BY <1>0, <1>1, <1>2, <3>2
  <2>2. CASE Opened(p) /\ q \in Contents(p.data, p.containers - 1)
    <3>1. q.frames = MaxFrameDepth /\ q.containers = p.containers - 1
      BY <2>2 DEF Part, Contents
    <3>2. Levels(q) = (p.containers - 1) * m + MaxFrameDepth
      BY <3>1 DEF Levels
    <3>3. (p.containers - 1) * m = p.containers * m - m
      BY <1>0
    <3>4. Levels(q) = p.containers * m - 1
      BY <1>0, <1>1, <3>2, <3>3
    <3> HIDE DEF m
    <3> QED BY <1>0, <1>1, <1>2, <3>4
  <2> QED BY <2>1, <2>2 DEF Inside
<1>4. Levels(p) \in Nat
  <2> HIDE DEF m
  <2> QED BY <1>0, <1>1, <1>2
<1> QED BY <1>3, <1>4

\* More levels than the limits allow add nothing.
LEMMA LevelsSuffice ==
    ASSUME NEW n \in Nat, NEW p \in AllParts, Levels(p) <= n
    PROVE  PartsTo[n][p] = PartsOf(p)
<1> DEFINE Right(m) == \A q \in AllParts : Levels(q) <= m => PartsTo[m][q] = PartsOf(q)
           S == {k \in Nat : \A m \in 0 .. k : Right(m)}
<1>l. \A q \in AllParts : Levels(q) \in Nat /\ \A r \in Inside(q) : r \in AllParts /\ Levels(r) < Levels(q)
  BY LevelsFall, InsideType
<1>1. 0 \in S
  <2>1. ASSUME NEW q \in AllParts, Levels(q) <= 0 PROVE PartsTo[0][q] = PartsOf(q)
    <3>1. Levels(q) = 0
      BY <1>l, <2>1
    <3> QED BY <3>1 DEF PartsOf
  <2>2. \A m \in 0 .. 0 : m = 0
    OBVIOUS
  <2> QED BY <2>1, <2>2
<1>2. ASSUME NEW k \in Nat, k \in S PROVE k + 1 \in S
  <2>1. ASSUME NEW q \in AllParts, Levels(q) <= k + 1 PROVE PartsTo[k + 1][q] = PartsOf(q)
    <3>1. CASE Levels(q) = k + 1
      BY <3>1 DEF PartsOf
    <3>2. CASE Levels(q) # k + 1
      <4>1. k + 1 \in Nat /\ k + 1 # 0 /\ (k + 1) - 1 = k
        OBVIOUS
      <4>2. Levels(q) \in 0 .. k
        BY <1>l, <2>1, <3>2
      <4>3. PartsTo[k + 1][q] = {q} \cup UNION {PartsTo[k][r] : r \in Inside(q)}
        BY <4>1, PartsToIs
      <4>4. ASSUME NEW r \in Inside(q) PROVE PartsTo[k][r] = PartsOf(r)
        <5>1. r \in AllParts /\ Levels(r) <= k /\ k \in 0 .. k
          BY <1>l, <4>2
        <5> QED BY <1>2, <5>1
      <4>5. CASE Levels(q) = 0
        <5>1. Inside(q) = {}
          BY <1>l, <4>5
        <5>2. PartsOf(q) = {q}
          BY <4>5, PartsToIs DEF PartsOf
        <5> QED BY <4>3, <5>1, <5>2
      <4>6. CASE Levels(q) # 0
        <5> DEFINE l == Levels(q) - 1
        <5>1. l \in 0 .. k /\ l \in Nat /\ Levels(q) \in Nat
          BY <4>2, <4>6
        <5>2. PartsOf(q) = {q} \cup UNION {PartsTo[l][r] : r \in Inside(q)}
          BY <4>6, <5>1, PartsToIs DEF PartsOf
        <5>3. ASSUME NEW r \in Inside(q) PROVE PartsTo[l][r] = PartsOf(r)
          <6>1. r \in AllParts /\ Levels(r) <= l
            BY <1>l, <4>2
          <6> QED BY <1>2, <5>1, <6>1
        <5> HIDE DEF l
        <5> QED BY <4>3, <4>4, <5>2, <5>3
      <4> QED BY <4>5, <4>6
    <3> QED BY <3>1, <3>2
  <2>2. Right(k + 1)
    BY <2>1
  <2>3. \A m \in 0 .. k + 1 : m \in 0 .. k \/ m = k + 1
    OBVIOUS
  <2> HIDE DEF Right
  <2> QED BY <1>2, <2>2, <2>3
<1> HIDE DEF S
<1>3. n \in S
  BY <1>1, <1>2, InductionOverSet
<1> QED BY <1>3 DEF S

\* The parts of a part: itself and those of what is just below it.
LEMMA PartsOfIs ==
    ASSUME NEW p \in AllParts
    PROVE  /\ PartsOf(p) \subseteq AllParts
           /\ PartsOf(p) = {p} \cup UNION {PartsOf(q) : q \in Inside(p)}
<1>l. Levels(p) \in Nat /\ \A q \in Inside(p) : q \in AllParts /\ Levels(q) < Levels(p)
  BY LevelsFall, InsideType
<1>q. \A q \in Inside(p) : Levels(q) \in Nat
  BY <1>l, LevelsFall
<1> DEFINE n == Levels(p) + 1
<1>1. n \in Nat /\ n # 0 /\ n - 1 = Levels(p) /\ Levels(p) <= n
  BY <1>l
<1>2. PartsOf(p) = PartsTo[n][p]
  BY <1>1, LevelsSuffice
<1>3. PartsTo[n][p] = {p} \cup UNION {PartsTo[n - 1][q] : q \in Inside(p)}
  BY <1>1, PartsToIs
<1>4. ASSUME NEW q \in Inside(p) PROVE PartsTo[n - 1][q] = PartsOf(q)
  <2>1. q \in AllParts /\ Levels(q) <= n - 1 /\ n - 1 \in Nat
    BY <1>l, <1>q, <1>1
  <2> HIDE DEF n
  <2> QED BY <2>1, LevelsSuffice
<1>5. PartsOf(p) \subseteq AllParts
  BY <1>l, PartsToType DEF PartsOf
<1> HIDE DEF n
<1> QED BY <1>2, <1>3, <1>4, <1>5

\* What is below a part of p is a part of p.
LEMMA PartsClosed ==
    ASSUME NEW p \in AllParts, NEW q \in PartsOf(p), NEW r \in Inside(q)
    PROVE  r \in PartsOf(p)
<1> DEFINE S == {n \in Nat : \A x \in AllParts : Levels(x) <= n =>
                    \A y \in PartsOf(x) : Inside(y) \subseteq PartsOf(x)}
<1>l. \A x \in AllParts : Levels(x) \in Nat /\ \A y \in Inside(x) : y \in AllParts /\ Levels(y) < Levels(x)
  BY LevelsFall, InsideType
<1>1. ASSUME NEW n \in Nat, NEW x \in AllParts, Levels(x) <= n, NEW y \in PartsOf(x), NEW z \in Inside(y),
             \A k \in Nat : k < n => k \in S
      PROVE  z \in PartsOf(x)
  <2>1. PartsOf(x) = {x} \cup UNION {PartsOf(w) : w \in Inside(x)}
    BY PartsOfIs
  <2>2. CASE y = x
    <3>1. z \in AllParts
      BY <1>l, <2>2
    <3>2. z \in PartsOf(z)
      BY <3>1, PartsOfIs
    <3> QED BY <2>1, <2>2, <3>2
  <2>3. CASE y # x
    <3>1. PICK w \in Inside(x) : y \in PartsOf(w)
      BY <2>1, <2>3
    <3>2. w \in AllParts /\ Levels(w) \in Nat /\ Levels(w) < n
      BY <1>l, <1>1
    <3>3. z \in PartsOf(w)
      BY <1>1, <3>1, <3>2
    <3> QED BY <2>1, <3>3
  <2> QED BY <2>2, <2>3
<1>2. 0 \in S
  BY <1>1
<1>3. ASSUME NEW n \in Nat, n \in S PROVE n + 1 \in S
  <2>1. \A k \in Nat : k < n + 1 => k \in S
    <3>1. SUFFICES ASSUME NEW k \in Nat, k < n + 1 PROVE k \in S
      OBVIOUS
    <3>2. k <= n
      BY <3>1
    <3>3. \A x \in AllParts : Levels(x) <= k => Levels(x) <= n
      BY <1>l, <3>2
    <3> QED BY <1>3, <3>3
  <2>2. ASSUME NEW x \in AllParts, Levels(x) <= n + 1, NEW y \in PartsOf(x), NEW z \in Inside(y)
        PROVE  z \in PartsOf(x)
    <3> HIDE DEF S
    <3> QED BY <1>1, <2>1, <2>2
  <2> QED BY <2>2
<1>4. Levels(p) \in S
  <2> HIDE DEF S
  <2>1. Nat \subseteq S
    BY <1>2, <1>3, InductionOverSet
  <2> QED BY <1>l, <2>1
<1>5. Levels(p) <= Levels(p)
  BY <1>l
<1> QED BY <1>4, <1>5
-----------------------------------------------------------------------------
(* The stack of calls.                                                     *)

\* The innermost call and those below it.
LEMMA StackIs ==
    ASSUME stack \in Seq(Calls), stack # <<>>
    PROVE  Return \in Seq(Calls) /\ top \in Calls /\ ToSet(stack) = ToSet(Return) \cup {top}
<1> DEFINE n == Len(stack)
<1>1. n \in Nat \ {0} /\ \A k \in 1 .. n : stack[k] \in Calls
  BY EmptySeq
<1>2. Return = SubSeq(stack, 1, n - 1)
  BY DEF Return, Front
<1>3. \A k \in 1 .. n - 1 : stack[k] \in Calls
  BY <1>1
<1>4. /\ Return \in Seq(Calls) /\ Len(Return) = n - 1
      /\ \A k \in 1 .. n - 1 : Return[k] = stack[k]
  <2>1. /\ SubSeq(stack, 1, n - 1) \in Seq(Calls)
        /\ Len(SubSeq(stack, 1, n - 1)) = IF 1 <= n - 1 THEN (n - 1) - 1 + 1 ELSE 0
        /\ \A k \in 1 .. (n - 1) - 1 + 1 : SubSeq(stack, 1, n - 1)[k] = stack[1 + k - 1]
    BY <1>1, <1>3, SubSeqProperties
  <2>2. /\ (n - 1) - 1 + 1 = n - 1 /\ (IF 1 <= n - 1 THEN (n - 1) - 1 + 1 ELSE 0) = n - 1
        /\ \A k \in 1 .. n - 1 : 1 + k - 1 = k
    <3> HIDE DEF n
    <3>1. (n - 1) - 1 + 1 = n - 1 /\ \A k \in 1 .. n - 1 : 1 + k - 1 = k
      BY <1>1
    <3>2. ~(1 <= n - 1) => n - 1 = 0
      BY <1>1
    <3> QED BY <3>1, <3>2
  <2> QED BY <1>2, <2>1, <2>2
<1>5. top = stack[n] /\ top \in Calls
  BY <1>1 DEF top, Last
<1>6. DOMAIN stack = 1 .. n /\ DOMAIN Return = 1 .. n - 1
  BY <1>1, <1>4
<1>7. \A k \in 1 .. n : k \in 1 .. n - 1 \/ k = n
  BY <1>1
<1>8. n \in 1 .. n /\ \A k \in 1 .. n - 1 : k \in 1 .. n
  BY <1>1
<1> HIDE DEF n
<1>9. ToSet(stack) = {stack[k] : k \in 1 .. n} /\ ToSet(Return) = {stack[k] : k \in 1 .. n - 1}
  BY <1>4, <1>6 DEF ToSet
<1> QED BY <1>4, <1>5, <1>7, <1>8, <1>9

\* The calls of a stack onto which one is put.
LEMMA AppendSet ==
    ASSUME NEW S, NEW s \in Seq(S), NEW x \in S
    PROVE  Append(s, x) \in Seq(S) /\ Append(s, x) # <<>> /\ ToSet(Append(s, x)) = ToSet(s) \cup {x}
<1>1. /\ Append(s, x) \in Seq(S) /\ Append(s, x) # <<>> /\ Len(Append(s, x)) = Len(s) + 1
      /\ \A k \in 1 .. Len(s) : Append(s, x)[k] = s[k]
      /\ Append(s, x)[Len(s) + 1] = x
  BY AppendProperties
<1>2. DOMAIN Append(s, x) = 1 .. Len(s) + 1 /\ DOMAIN s = 1 .. Len(s) /\ Len(s) \in Nat
  BY <1>1
<1>3. /\ \A k \in 1 .. Len(s) + 1 : k \in 1 .. Len(s) \/ k = Len(s) + 1
      /\ \A k \in 1 .. Len(s) : k \in 1 .. Len(s) + 1
      /\ Len(s) + 1 \in 1 .. Len(s) + 1
  BY <1>2
<1>4. /\ ToSet(Append(s, x)) = {Append(s, x)[k] : k \in 1 .. Len(s) + 1}
      /\ ToSet(s) = {s[k] : k \in 1 .. Len(s)}
  BY <1>2 DEF ToSet
<1>5. ToSet(Append(s, x)) \subseteq ToSet(s) \cup {x}
  BY <1>1, <1>3, <1>4
<1>6. ToSet(s) \cup {x} \subseteq ToSet(Append(s, x))
  BY <1>1, <1>3, <1>4
<1> QED BY <1>1, <1>5, <1>6

\* The calls of a stack onto which two are put.
LEMMA PairSet ==
    ASSUME NEW S, NEW s \in Seq(S), NEW x \in S, NEW y \in S
    PROVE  s \o <<x, y>> \in Seq(S) /\ s \o <<x, y>> # <<>> /\ ToSet(s \o <<x, y>>) = ToSet(s) \cup {x, y}
<1> DEFINE t == Append(s, x)
           u == Append(t, y)
<1>1. t \in Seq(S) /\ ToSet(t) = ToSet(s) \cup {x}
  BY AppendSet
<1>2. t = s \o <<x>>
  BY AppendIsConcat
<1> HIDE DEF t
<1>3. u \in Seq(S) /\ u # <<>> /\ ToSet(u) = ToSet(t) \cup {y}
  BY <1>1, AppendSet
<1>4. u = t \o <<y>>
  BY <1>1, AppendIsConcat
<1>5. <<x>> \in Seq(S) /\ <<y>> \in Seq(S) /\ <<x>> \o <<y>> = <<x, y>>
  <2>1. <<x>> \in Seq(S) /\ <<y>> \in Seq(S)
    OBVIOUS
  <2>2. Append(<<x>>, y) = <<x>> \o <<y>>
    BY <2>1, AppendIsConcat
  <2>3. Append(<<x>>, y) = <<x, y>>
    <3> DEFINE a == Append(<<x>>, y)
               b == <<x, y>>
    <3>1. a \in Seq(S) /\ Len(a) = 2 /\ a[1] = x /\ a[2] = y
      <4>1. Len(<<x>>) = 1 /\ <<x>>[1] = x
        OBVIOUS
      <4>2. /\ a \in Seq(S) /\ Len(a) = Len(<<x>>) + 1
            /\ \A k \in 1 .. Len(<<x>>) : a[k] = <<x>>[k]
            /\ a[Len(<<x>>) + 1] = y
        BY <2>1, AppendProperties
      <4> HIDE DEF a
      <4> QED BY <4>1, <4>2
    <3>2. b \in Seq(S) /\ Len(b) = 2 /\ b[1] = x /\ b[2] = y
      OBVIOUS
    <3> HIDE DEF a, b
    <3>3. \A k \in 1 .. 2 : a[k] = b[k]
      BY <3>1, <3>2
    <3>4. a = b
      BY <3>1, <3>2, <3>3, SeqEqual
    <3> QED BY <3>4 DEF a, b
  <2> QED BY <2>1, <2>2, <2>3
<1>6. (s \o <<x>>) \o <<y>> = s \o (<<x>> \o <<y>>)
  BY <1>5, ConcatAssociative
<1>7. u = s \o <<x, y>>
  BY <1>2, <1>4, <1>5, <1>6
<1> HIDE DEF u
<1> QED BY <1>1, <1>3, <1>7

-----------------------------------------------------------------------------
(* The calls and the parts they are about.                                 *)

\* The fields of a call.
LEMMA CallIs ==
    ASSUME NEW c \in Calls
    PROVE  /\ c.call \in {"buffer", "container"} /\ c.data \in Data /\ c.next \in Nat \ {0}
           /\ c.carry \in Seq(Units) /\ c.hits \in Nat /\ c.frameDepth \in 0 .. MaxFrameDepth
           /\ c.depth \in 1 .. MaxContainerDepth /\ c.isMember \in BOOLEAN
           /\ c.frameDepth \in Nat /\ c.depth \in Nat /\ c.next \in Nat
           /\ MaxFrameDepth - c.frameDepth \in 0 .. MaxFrameDepth /\ MaxContainerDepth - c.depth \in Nat
<1>1. MaxFrameDepth \in Nat /\ MaxContainerDepth \in Nat
  BY RecordedAssumption, LeakAssumption
<1> QED BY <1>1 DEF Calls

\* The fields of a call's part.
LEMMA CallPartIs ==
    ASSUME NEW c \in Calls
    PROVE  /\ CallPart(c) \in AllParts /\ CallPart(c).data = c.data /\ CallPart(c).place # "file"
           /\ CallPart(c).frames = MaxFrameDepth - c.frameDepth
           /\ CallPart(c).containers = MaxContainerDepth - c.depth
           /\ Framed(CallPart(c)) <=> c.frameDepth # MaxFrameDepth
           /\ Opened(CallPart(c)) <=>
                (c.isMember \/ c.frameDepth > 0) /\ c.depth < MaxContainerDepth /\ c.data.container # "no"
<1>1. /\ c.data \in Data /\ c.frameDepth \in 0 .. MaxFrameDepth /\ c.depth \in 1 .. MaxContainerDepth
      /\ MaxFrameDepth - c.frameDepth \in 0 .. MaxFrameDepth /\ MaxContainerDepth - c.depth \in Nat
      /\ MaxFrameDepth \in Nat /\ MaxContainerDepth \in Nat
  BY CallIs, RecordedAssumption, LeakAssumption
<1> DEFINE place == IF c.isMember THEN "member" ELSE IF c.frameDepth > 0 THEN "frame" ELSE "rest"
           p == CallPart(c)
<1>2. place \in {"member", "frame", "rest"} /\ (place = "rest" <=> ~(c.isMember \/ c.frameDepth > 0))
  OBVIOUS
<1>3. /\ p.data = c.data /\ p.place = place /\ p.frames = MaxFrameDepth - c.frameDepth
      /\ p.containers = MaxContainerDepth - c.depth
  BY DEF CallPart, Part
<1>4. p \in AllParts
  BY <1>1, <1>2 DEF CallPart, Part, AllParts
<1> HIDE DEF p, place
<1>5. Framed(p) <=> c.frameDepth # MaxFrameDepth
  <2>1. p.frames > 0 <=> c.frameDepth # MaxFrameDepth
    BY <1>1, <1>3
  <2> QED BY <1>2, <1>3, <2>1 DEF Framed
<1>6. Opened(p) <=> (c.isMember \/ c.frameDepth > 0) /\ c.depth < MaxContainerDepth /\ c.data.container # "no"
  <2>1. p.containers > 0 <=> c.depth < MaxContainerDepth
    BY <1>1, <1>3
  <2> QED BY <1>2, <1>3, <2>1 DEF Opened
<1> QED BY <1>2, <1>3, <1>4, <1>5, <1>6 DEF p

\* The calls a step begins: of a member, of a container's rest, of a frame, of a container.
LEMMA MemberCallIs ==
    ASSUME NEW b \in Data, NEW d \in 1 .. MaxContainerDepth, NEW c, c = BufferCall(b, 0, d, TRUE)
    PROVE  /\ c \in Calls /\ c.call = "buffer" /\ c.data = b /\ c.next = 1 /\ c.carry = <<>>
           /\ c.hits = 0 /\ CallPart(c) = Part(b, "member", MaxFrameDepth, MaxContainerDepth - d)
<1>1. <<>> \in Seq(Units) /\ MaxFrameDepth \in Nat /\ MaxFrameDepth - 0 = MaxFrameDepth
  BY RecordedAssumption
<1>2. /\ c.call = "buffer" /\ c.data = b /\ c.next = 1 /\ c.carry = <<>> /\ c.hits = 0
      /\ c.frameDepth = 0 /\ c.depth = d /\ c.isMember = TRUE
  BY DEF BufferCall
<1>3. c \in Calls
  BY <1>1 DEF BufferCall, Calls
<1>4. CallPart(c) = Part(b, "member", MaxFrameDepth, MaxContainerDepth - d)
  BY <1>1, <1>2 DEF CallPart
<1> QED BY <1>2, <1>3, <1>4

\* The call of the bytes outside the members.
LEMMA RestCallIs ==
    ASSUME NEW b \in Data, NEW d \in 1 .. MaxContainerDepth, NEW c, c = BufferCall(b, 0, d, FALSE)
    PROVE  /\ c \in Calls /\ c.call = "buffer" /\ c.data = b /\ c.next = 1 /\ c.carry = <<>>
           /\ c.hits = 0 /\ CallPart(c) = Part(b, "rest", MaxFrameDepth, MaxContainerDepth - d)
<1>1. <<>> \in Seq(Units) /\ MaxFrameDepth \in Nat /\ MaxFrameDepth - 0 = MaxFrameDepth /\ ~(0 > 0)
  BY RecordedAssumption
<1>2. /\ c.call = "buffer" /\ c.data = b /\ c.next = 1 /\ c.carry = <<>> /\ c.hits = 0
      /\ c.frameDepth = 0 /\ c.depth = d /\ ~ c.isMember
  BY DEF BufferCall
<1>3. c \in Calls
  BY <1>1 DEF BufferCall, Calls
<1>4. CallPart(c) = Part(b, "rest", MaxFrameDepth, MaxContainerDepth - d)
  BY <1>1, <1>2 DEF CallPart
<1> QED BY <1>2, <1>3, <1>4

\* The call of a frame.
LEMMA FrameCallIs ==
    ASSUME NEW b \in Data, NEW f \in 1 .. MaxFrameDepth, NEW d \in 1 .. MaxContainerDepth,
           NEW c, c = BufferCall(b, f, d, FALSE)
    PROVE  /\ c \in Calls /\ c.call = "buffer" /\ c.data = b /\ c.next = 1 /\ c.carry = <<>>
           /\ c.hits = 0 /\ CallPart(c) = Part(b, "frame", MaxFrameDepth - f, MaxContainerDepth - d)
<1>1. <<>> \in Seq(Units) /\ MaxFrameDepth \in Nat /\ f > 0 /\ f \in 0 .. MaxFrameDepth
  BY RecordedAssumption
<1>2. /\ c.call = "buffer" /\ c.data = b /\ c.next = 1 /\ c.carry = <<>> /\ c.hits = 0
      /\ c.frameDepth = f /\ c.depth = d /\ ~ c.isMember
  BY DEF BufferCall
<1>3. c \in Calls
  BY <1>1 DEF BufferCall, Calls
<1>4. CallPart(c) = Part(b, "frame", MaxFrameDepth - f, MaxContainerDepth - d)
  BY <1>1, <1>2 DEF CallPart
<1> QED BY <1>2, <1>3, <1>4

\* The call of a container.
LEMMA ContainerCallIs ==
    ASSUME NEW b \in Data, NEW d \in 1 .. MaxContainerDepth, NEW c, c = ContainerCall(b, d)
    PROVE  c \in Calls /\ c.call = "container" /\ c.data = b /\ c.next = 1 /\ c.depth = d
<1>1. <<>> \in Seq(Units) /\ 1 \in Nat \ {0} /\ 0 \in Nat /\ 0 \in 0 .. MaxFrameDepth
  BY RecordedAssumption
<1> QED BY <1>1 DEF ContainerCall, Calls

\* A container's call that goes on to its next member.
LEMMA NextMemberIs ==
    ASSUME NEW c \in Calls, NEW d, d = [c EXCEPT !.next = @ + 1]
    PROVE  /\ d \in Calls /\ d.call = c.call /\ d.data = c.data /\ d.next = c.next + 1
           /\ d.depth = c.depth
<1>1. c.next + 1 \in Nat \ {0}
  BY CallIs
<1> QED BY <1>1 DEF Calls

\* A buffer's call that goes on to its next frame.
NextCall(c, carry, more) == [c EXCEPT !.next = @ + 1, !.carry = carry, !.hits = more]

LEMMA NextCallIs ==
    ASSUME NEW c \in Calls, NEW carry \in Seq(Units), NEW more \in Nat,
           NEW d, d = NextCall(c, carry, more)
    PROVE  /\ d \in Calls /\ d.call = c.call /\ d.data = c.data /\ d.next = c.next + 1
           /\ d.depth = c.depth /\ d.frameDepth = c.frameDepth /\ CallPart(d) = CallPart(c)
           /\ d.carry = carry /\ d.hits = more
<1>1. c.next + 1 \in Nat \ {0}
  BY CallIs
<1>2. /\ d \in Calls /\ d.call = c.call /\ d.data = c.data /\ d.next = c.next + 1
      /\ d.depth = c.depth /\ d.frameDepth = c.frameDepth /\ d.isMember = c.isMember
      /\ d.carry = carry /\ d.hits = more
  BY <1>1 DEF NextCall, Calls
<1>3. CallPart(d) = CallPart(c)
  BY <1>2 DEF CallPart
<1> QED BY <1>2, <1>3

\* Nothing is known of the frames before the first.
LEMMA FreshBuffer ==
    ASSUME NEW b \in Data
    PROVE  /\ EndOf(JoinedTo(b, 0)) = <<>> /\ Cardinality(Hits(JoinedTo(b, 0), 0)) = 0
           /\ ScanText(JoinedTo(b, 0), 0) = {}
<1>1. JoinedTo(b, 0) = <<>> /\ <<>> \in Seq(Units) /\ Len(<<>>) = 0
  BY JoinedStep
<1>2. EndOf(<<>>) = <<>>
  <2>1. EndOf(<<>>) \in Seq(Units) /\ Len(EndOf(<<>>)) = IF Len(<<>>) <= SeamBytes THEN Len(<<>>) ELSE SeamBytes
    BY <1>1, EndIs
  <2>2. Len(EndOf(<<>>)) = 0
    BY <1>1, <2>1, LeakAssumption
  <2> QED BY <2>1, <2>2, EmptySeq
<1>3. \A q, x : x \in Seq(Units) \ {<<>>} => q \notin Positions(<<>>, x)
  <2>1. ASSUME NEW x \in Seq(Units) \ {<<>>}, NEW q \in Positions(<<>>, x) PROVE FALSE
    <3>1. q \in Nat \ {0} /\ q + Len(x) - 1 <= 0
      BY <1>1, StandsThere
    <3>2. Len(x) \in Nat \ {0}
      BY EmptySeq
    <3> QED BY <3>1, <3>2
  <2> QED BY <2>1
<1>4. Hits(<<>>, 0) = {}
  BY <1>1, <1>3, HitIs, LeakAssumption
<1>5. ScanText(<<>>, 0) = {}
  BY <1>1, <1>3, NothingIs, LeakAssumption DEF HomeAt
<1> QED BY <1>1, <1>2, <1>4, <1>5, FS_EmptySet

\* What is below a part is ahead of the call that has just begun with it.
LEMMA InsideAhead ==
    ASSUME NEW c \in Calls, c.call = "buffer", c.next = 1
    PROVE  Inside(CallPart(c)) \subseteq PartsAhead(c)
<1> DEFINE p == CallPart(c)
<1>1. /\ p.data = c.data /\ p.frames = MaxFrameDepth - c.frameDepth
      /\ p.containers = MaxContainerDepth - c.depth
      /\ Framed(p) <=> c.frameDepth # MaxFrameDepth
  BY CallPartIs
<1>2. c.data \in Data /\ c.frameDepth \in Nat
  BY CallIs
<1>3. ToSet(c.data.frames) = {c.data.frames[k] : k \in c.next .. Len(c.data.frames)}
  <2>1. DOMAIN c.data.frames = 1 .. Len(c.data.frames)
    BY <1>2, BufferIs
  <2> QED BY <2>1 DEF ToSet
<1> HIDE DEF p
<1>4. Inside(p) =
        (IF Framed(p) THEN {Part(x, "frame", p.frames - 1, p.containers) : x \in ToSet(p.data.frames)} ELSE {})
        \cup (IF Opened(p) THEN Contents(p.data, p.containers - 1) ELSE {})
  BY DEF Inside
<1>5. PartsAhead(c) = FramesAhead(c) \cup
            (IF Opened(p) THEN Contents(c.data, MaxContainerDepth - c.depth - 1) ELSE {})
  BY DEF PartsAhead, p
<1>6. Framed(p) => FramesAhead(c) = {Part(x, "frame", p.frames - 1, p.containers) : x \in ToSet(p.data.frames)}
  BY <1>1, <1>3 DEF FramesAhead
<1>7. Inside(p) \subseteq PartsAhead(c)
  BY <1>1, <1>4, <1>5, <1>6
<1> QED BY <1>7 DEF p

-----------------------------------------------------------------------------
(* The parts of the file being scanned.                                    *)

\* The parts of the file being scanned.
LEMMA WholeIs ==
    ASSUME CallsInv, stack # <<>>
    PROVE  /\ leakFiles[leakAt] \in Data /\ leakFiles[leakAt].container # "no"
           /\ Whole \subseteq AllParts
           /\ \A p \in Whole : Inside(p) \subseteq Whole
           /\ \A p \in Whole : p.place # "file" =>
                /\ p.data.text \in Streams(leakFiles[leakAt], MaxContainerDepth)
                /\ Framed(p) => Joined(p.data) \in Streams(leakFiles[leakAt], MaxContainerDepth)
<1>1. leakFiles[leakAt] \in Data /\ leakFiles[leakAt].container # "no"
  BY DEF CallsInv
<1> DEFINE p0 == Part(leakFiles[leakAt], "file", MaxFrameDepth, MaxContainerDepth)
<1>2. p0 \in AllParts
  BY <1>1, RecordedAssumption, LeakAssumption DEF Part, AllParts
<1>3. Whole = PartsOf(p0)
  BY DEF Whole, FileParts
<1> HIDE DEF p0
<1>4. Whole \subseteq AllParts /\ \A p \in Whole : Inside(p) \subseteq Whole
  BY <1>2, <1>3, PartsOfIs, PartsClosed
<1>5. ASSUME NEW p \in Whole, p.place # "file"
      PROVE  /\ p.data.text \in Streams(leakFiles[leakAt], MaxContainerDepth)
             /\ Framed(p) => Joined(p.data) \in Streams(leakFiles[leakAt], MaxContainerDepth)
  <2>1. StreamsOf(p) \subseteq Streams(leakFiles[leakAt], MaxContainerDepth)
    BY <1>5 DEF Streams, Whole
  <2> QED BY <2>1 DEF StreamsOf
<1> QED BY <1>1, <1>4, <1>5
-----------------------------------------------------------------------------
(* What a step keeps.                                                      *)

\* A call goes on being right when the file is the same and no finding is lost.
LEMMA CallKeeps ==
    ASSUME NEW c, CallInv(c), UNCHANGED <<leakFiles, leakAt>>, found' = {} => found = {}
    PROVE  CallInv(c)'
<1>1. Whole' = Whole
  BY DEF Whole
<1>2. CASE c.call = "buffer"
  <2>1. BufferInv(c)
    BY <1>2 DEF CallInv
  <2>2. BufferInv(c)'
    BY <1>1, <2>1 DEF BufferInv
  <2> QED BY <1>2, <2>2 DEF CallInv
<1>3. CASE c.call # "buffer"
  <2>1. ContainerInv(c)
    BY <1>3 DEF CallInv
  <2>2. ContainerInv(c)'
    BY <1>1, <2>1 DEF ContainerInv
  <2> QED BY <1>3, <2>2 DEF CallInv
<1> QED BY <1>2, <1>3

\* A step of the walk within a file: the calls below the innermost one stay, and what
\* the innermost one held or had ahead is accounted for.
LEMMA WalkKeeps ==
    ASSUME LeakInv, stack # <<>>, UNCHANGED <<leakFiles, leakAt, leakVerdicts, leakExit>>,
           stack' \in Seq(Calls), stack' # <<>>, ToSet(Return) \subseteq ToSet(stack'),
           \A c \in ToSet(stack') : c \in ToSet(Return) \/ CallInv(c)',
           found \subseteq found',
           \A r \in found' : r \in found
                \/ \E s \in Streams(leakFiles[leakAt], MaxContainerDepth) : StandsIn(r, s),
           \A a \in PartsAhead(top) : \A p \in PartsOf(a) : AheadOf(p)' \/ HeldFor(p)',
           top.call = "buffer" => \A p : p = CallPart(top) =>
                HeldFor(p)' \/ (Searched(p)' /\ (Broken(p) => OpenedFor(p)')),
           top.call = "container" => top.data.container # "broken"
    PROVE  LeakInv'
<1>0. /\ stack \in Seq(Calls) /\ top \in Calls /\ ToSet(stack) = ToSet(Return) \cup {top}
      /\ found' = {} => found = {}
  BY StackIs DEF LeakInv, CallsInv
<1>1. Whole' = Whole
  BY DEF Whole
<1>2. CallsInv'
  <2>1. ASSUME NEW c \in ToSet(stack') PROVE CallInv(c)'
    <3>1. CASE c \in ToSet(Return)
      <4>1. CallInv(c)
        BY <1>0, <3>1 DEF LeakInv, CallsInv
      <4> QED BY <1>0, <4>1, CallKeeps
    <3>2. CASE c \notin ToSet(Return)
      BY <3>2
    <3> QED BY <3>1, <3>2
  <2>2. NothingInvented'
    BY DEF LeakInv, CallsInv, NothingInvented
  <2>3. leakFiles' \in Seq(Data) /\ leakAt' \in 1 .. Len(leakFiles') + 1
    BY DEF LeakInv, CallsInv
  <2>4. leakAt' <= Len(leakFiles') /\ leakFiles'[leakAt'].container # "no"
    BY DEF LeakInv, CallsInv
  <2> QED BY <2>1, <2>2, <2>3, <2>4 DEF CallsInv
<1>3. PartsInv'
  <2>1. ASSUME NEW p \in Whole PROVE Accounted(p)'
    <3>1. Accounted(p)
      BY DEF LeakInv, PartsInv
    <3>2. CASE AheadOf(p)
      <4>1. PICK c \in ToSet(stack) : \E a \in PartsAhead(c) : p \in PartsOf(a)
        BY <3>2 DEF AheadOf
      <4>2. CASE c \in ToSet(Return)
        <5>1. c \in ToSet(stack')
          BY <4>2
        <5>2. AheadOf(p)'
          BY <4>1, <5>1 DEF AheadOf
        <5> QED BY <5>2 DEF Accounted
      <4>3. CASE c = top
        BY <4>1, <4>3 DEF Accounted
      <4> QED BY <1>0, <4>2, <4>3
    <3>3. CASE HeldFor(p)
      <4>1. PICK c \in ToSet(stack) : c.call = "buffer" /\ CallPart(c) = p
        BY <3>3 DEF HeldFor
      <4>2. CASE c \in ToSet(Return)
        <5>1. c \in ToSet(stack')
          BY <4>2
        <5>2. HeldFor(p)'
          BY <4>1, <5>1 DEF HeldFor
        <5> QED BY <5>2 DEF Accounted
      <4>3. CASE c = top
        <5>1. top.call = "buffer" /\ CallPart(top) = p
          BY <4>1, <4>3
        <5>2. HeldFor(p)' \/ (Searched(p)' /\ (Broken(p) => OpenedFor(p)'))
          BY <5>1
        <5> QED BY <5>2 DEF Accounted
      <4> QED BY <1>0, <4>2, <4>3
    <3>4. CASE Searched(p) /\ (Broken(p) => OpenedFor(p))
      <4>1. Searched(p)'
        BY <1>0, <3>4 DEF Searched
      <4>2. ASSUME Broken(p) PROVE OpenedFor(p)'
        <5>1. PICK c \in ToSet(stack) : c.call = "container" /\ c.data = p.data
          BY <3>4, <4>2 DEF OpenedFor
        <5>2. c # top
          BY <4>2, <5>1 DEF Broken
        <5>3. c \in ToSet(stack')
          BY <1>0, <5>2
        <5> QED BY <5>1, <5>3 DEF OpenedFor
      <4> QED BY <4>1, <4>2 DEF Accounted
    <3> QED BY <3>1, <3>2, <3>3, <3>4 DEF Accounted
  <2> QED BY <1>1, <2>1 DEF PartsInv
<1>4. VerdictsInv'
  BY DEF LeakInv, VerdictsInv, CleanMeansNothingThere
<1> QED BY <1>2, <1>3, <1>4 DEF LeakInv

\* A part ahead of which a call has begun is held by that call, and what is in it is
\* ahead of it.
LEMMA BegunAhead ==
    ASSUME NEW c \in Calls, c.call = "buffer", c.next = 1, c \in ToSet(stack'),
           NEW p \in PartsOf(CallPart(c))
    PROVE  AheadOf(p)' \/ HeldFor(p)'
<1>1. CallPart(c) \in AllParts
  BY CallPartIs
<1>2. PartsOf(CallPart(c)) = {CallPart(c)} \cup UNION {PartsOf(q) : q \in Inside(CallPart(c))}
  BY <1>1, PartsOfIs
<1>3. CASE p = CallPart(c)
  BY <1>3 DEF HeldFor
<1>4. CASE p # CallPart(c)
  <2>1. PICK q \in Inside(CallPart(c)) : p \in PartsOf(q)
    BY <1>2, <1>4
  <2>2. q \in PartsAhead(c)
    BY <2>1, InsideAhead
  <2> QED BY <2>1, <2>2 DEF AheadOf
<1> QED BY <1>3, <1>4

\* The call of a buffer that begins is right.
LEMMA BegunInv ==
    ASSUME NEW c \in Calls, c.call = "buffer", c.next = 1, c.carry = <<>>, c.hits = 0,
           CallPart(c) \in Whole', ScanText(c.data.text, 0) \subseteq found'
    PROVE  CallInv(c)'
<1>1. c.data \in Data /\ Len(c.data.frames) \in Nat
  BY CallIs, BufferIs
<1>2. c.next - 1 = 0 /\ c.next <= Len(c.data.frames) + 1
  BY <1>1
<1>3. /\ EndOf(JoinedTo(c.data, 0)) = <<>> /\ Cardinality(Hits(JoinedTo(c.data, 0), 0)) = 0
      /\ ScanText(JoinedTo(c.data, 0), 0) = {}
  BY <1>1, FreshBuffer
<1>4. found' = {} => Nothing({c.data.text, JoinedTo(c.data, 0)})
  BY <1>3 DEF Nothing
<1>5. BufferInv(c)'
  BY <1>2, <1>3, <1>4 DEF BufferInv
<1> QED BY <1>5 DEF CallInv
-----------------------------------------------------------------------------
(* The steps, one by one.                                                  *)

\* The next member (scanContainer).
LEMMA ScanMemberKeeps == LeakInv /\ ScanMember => LeakInv'
<1> SUFFICES ASSUME LeakInv, ScanMember PROVE LeakInv'
  OBVIOUS
<1>p. PICK m, c1, c2 : /\ m = top.data.members[top.next]
                       /\ c1 = [top EXCEPT !.next = @ + 1]
                       /\ c2 = BufferCall(m, 0, top.depth, TRUE)
  OBVIOUS
<1>1. /\ stack # <<>> /\ top.call = "container" /\ top.data.container = "readable"
      /\ top.next <= Len(top.data.members)
      /\ stack' = Return \o <<c1, c2>> /\ found' = found \cup ScanText(m.text, 0)
      /\ UNCHANGED <<leakFiles, leakAt, leakVerdicts, leakExit>>
  BY <1>p DEF ScanMember, In
<1>2. /\ stack \in Seq(Calls) /\ CallsInv /\ Return \in Seq(Calls) /\ top \in Calls
      /\ ToSet(stack) = ToSet(Return) \cup {top}
  BY <1>1, StackIs DEF LeakInv, CallsInv
<1>3. /\ top.data \in Data /\ top.next \in Nat \ {0} /\ top.depth \in 1 .. MaxContainerDepth
      /\ Len(top.data.members) \in Nat
  BY <1>2, CallIs, BufferIs
<1>m. m \in Data /\ m.text \in Seq(Units)
  <2>1. top.next \in 1 .. Len(top.data.members)
    BY <1>1, <1>3
  <2>2. m \in Data
    BY <1>p, <1>3, <2>1, BufferIs
  <2> QED BY <2>2, BufferIs
<1>4. /\ c1 \in Calls /\ c1.call = "container" /\ c1.data = top.data /\ c1.next = top.next + 1
      /\ c1.depth = top.depth
  <2>1. top \in Calls /\ c1 = [top EXCEPT !.next = @ + 1]
    BY <1>p, <1>2
  <2>2. c1 \in Calls /\ c1.call = top.call /\ c1.data = top.data /\ c1.next = top.next + 1 /\ c1.depth = top.depth
    BY <2>1, NextMemberIs
  <2> QED BY <1>1, <2>2
<1>5. /\ c2 \in Calls /\ c2.call = "buffer" /\ c2.data = m /\ c2.next = 1 /\ c2.carry = <<>>
      /\ c2.hits = 0 /\ CallPart(c2) = Part(m, "member", MaxFrameDepth, MaxContainerDepth - top.depth)
  <2>1. c2 = BufferCall(m, 0, top.depth, TRUE) /\ m \in Data /\ top.depth \in 1 .. MaxContainerDepth
    BY <1>p, <1>3, <1>m
  <2> QED BY <2>1, MemberCallIs DEF BufferCall
<1>6. /\ stack' \in Seq(Calls) /\ stack' # <<>> /\ ToSet(stack') = ToSet(Return) \cup {c1, c2}
  BY <1>1, <1>2, <1>4, <1>5, PairSet
<1>7. ContainerInv(top)
  BY <1>1, <1>2 DEF CallsInv, CallInv
<1>8. PICK p \in Whole : Opened(p) /\ p.data = top.data /\ p.containers = MaxContainerDepth - top.depth + 1
  BY <1>7 DEF ContainerInv
<1>9. CallPart(c2) \in Whole /\ CallPart(c2).place # "file" /\ CallPart(c2).data = m
  <2>1. p.containers - 1 = MaxContainerDepth - top.depth
    BY <1>3, <1>8, LeakAssumption
  <2>2. m \in ToSet(top.data.members)
    <3>1. DOMAIN top.data.members = 1 .. Len(top.data.members)
      BY <1>3, BufferIs
    <3>2. top.next \in DOMAIN top.data.members
      BY <1>1, <1>3, <3>1
    <3> QED BY <1>p, <3>2 DEF ToSet
  <2>3. CallPart(c2) \in Inside(p)
    BY <1>5, <1>8, <2>1, <2>2 DEF Inside, Contents
  <2> QED BY <1>1, <1>2, <1>5, <1>8, <2>3, WholeIs, CallPartIs
<1>10. Whole' = Whole
  BY <1>1 DEF Whole
<1>11. CallInv(c2)'
  <2>1. ScanText(c2.data.text, 0) \subseteq found' /\ CallPart(c2) \in Whole'
    BY <1>1, <1>5, <1>9, <1>10
  <2> QED BY <1>5, <2>1, BegunInv
<1>12. CallInv(c1)'
  <2>1. top.next + 1 <= Len(top.data.members) + 1
    BY <1>1, <1>3
  <2>2. ContainerInv(c1)'
    BY <1>4, <1>8, <1>10, <2>1 DEF ContainerInv
  <2> QED BY <1>4, <2>2 DEF CallInv
<1>13. ASSUME NEW r \in ScanText(m.text, 0)
       PROVE  \E s \in Streams(leakFiles[leakAt], MaxContainerDepth) : StandsIn(r, s)
  <2>1. m.text \in Streams(leakFiles[leakAt], MaxContainerDepth)
    BY <1>1, <1>2, <1>9, WholeIs
  <2>2. StandsIn(r, m.text)
    BY <1>m, StandsInText
  <2> QED BY <2>1, <2>2
<1>14. ASSUME NEW a \in PartsAhead(top), NEW x \in PartsOf(a) PROVE AheadOf(x)' \/ HeldFor(x)'
  <2>1. a = CallPart(c2) \/ a \in PartsAhead(c1)
    <3>1. a \in MembersAhead(top)
      BY <1>1 DEF PartsAhead
    <3>2. PartsAhead(c1) = MembersAhead(c1)
      BY <1>4 DEF PartsAhead
    <3>3. CASE a \in {Part(y, "rest", MaxFrameDepth, MaxContainerDepth - top.depth) : y \in ToSet(top.data.rest)}
      BY <1>4, <3>2, <3>3 DEF MembersAhead
    <3>4. CASE a \in {Part(top.data.members[k], "member", MaxFrameDepth, MaxContainerDepth - top.depth) :
                        k \in top.next .. Len(top.data.members)}
      <4>1. PICK k \in top.next .. Len(top.data.members) :
              a = Part(top.data.members[k], "member", MaxFrameDepth, MaxContainerDepth - top.depth)
        BY <3>4
      <4>2. CASE k = top.next
        BY <1>p, <1>5, <4>1, <4>2
      <4>3. CASE k # top.next
        <5>1. k \in c1.next .. Len(c1.data.members)
          BY <1>3, <1>4, <4>3
        <5> QED BY <1>4, <3>2, <4>1, <5>1 DEF MembersAhead
      <4> QED BY <4>2, <4>3
    <3> QED BY <3>1, <3>3, <3>4 DEF MembersAhead
  <2>2. CASE a = CallPart(c2)
    <3>1. c2 \in ToSet(stack')
      BY <1>6
    <3> QED BY <1>5, <1>14, <2>2, <3>1, BegunAhead
  <2>3. CASE a \in PartsAhead(c1)
    <3>1. c1 \in ToSet(stack')
      BY <1>6
    <3> QED BY <1>14, <2>3, <3>1 DEF AheadOf
  <2> QED BY <2>1, <2>2, <2>3
<1>15. /\ \A c \in ToSet(stack') : c \in ToSet(Return) \/ CallInv(c)'
       /\ ToSet(Return) \subseteq ToSet(stack')
  BY <1>6, <1>11, <1>12
<1>16. /\ found \subseteq found'
       /\ \A r \in found' : r \in found
                \/ \E s \in Streams(leakFiles[leakAt], MaxContainerDepth) : StandsIn(r, s)
  BY <1>1, <1>13
<1>17. top.call # "buffer" /\ top.data.container # "broken"
  BY <1>1
<1> QED BY <1>1, <1>6, <1>14, <1>15, <1>16, <1>17, WalkKeeps

\* The bytes outside the members (scanContainer).
LEMMA ScanRestKeeps == LeakInv /\ ScanRest => LeakInv'
<1> SUFFICES ASSUME LeakInv, ScanRest PROVE LeakInv'
  OBVIOUS
<1>p. PICK m, c2 : m = top.data.rest[1] /\ c2 = BufferCall(m, 0, top.depth, FALSE)
  OBVIOUS
<1>1. /\ stack # <<>> /\ top.call = "container" /\ top.data.container = "readable"
      /\ top.next > Len(top.data.members)
      /\ stack' = Append(Return, c2) /\ found' = found \cup ScanText(m.text, 0)
      /\ UNCHANGED <<leakFiles, leakAt, leakVerdicts, leakExit>>
  BY <1>p DEF ScanRest, In
<1>2. /\ stack \in Seq(Calls) /\ CallsInv /\ Return \in Seq(Calls) /\ top \in Calls
      /\ ToSet(stack) = ToSet(Return) \cup {top}
  BY <1>1, StackIs DEF LeakInv, CallsInv
<1>3. /\ top.data \in Data /\ top.next \in Nat \ {0} /\ top.depth \in 1 .. MaxContainerDepth
      /\ Len(top.data.members) \in Nat
  BY <1>2, CallIs, BufferIs
<1>m. m \in Data /\ m.text \in Seq(Units) /\ ToSet(top.data.rest) = {m}
  <2>1. m \in Data /\ ToSet(top.data.rest) = {m}
    BY <1>p, <1>1, <1>3, BufferIs
  <2> QED BY <2>1, BufferIs
<1>5. /\ c2 \in Calls /\ c2.call = "buffer" /\ c2.data = m /\ c2.next = 1 /\ c2.carry = <<>>
      /\ c2.hits = 0 /\ CallPart(c2) = Part(m, "rest", MaxFrameDepth, MaxContainerDepth - top.depth)
  <2>1. c2 = BufferCall(m, 0, top.depth, FALSE) /\ m \in Data /\ top.depth \in 1 .. MaxContainerDepth
    BY <1>p, <1>3, <1>m
  <2> QED BY <2>1, RestCallIs DEF BufferCall
<1>6. /\ stack' \in Seq(Calls) /\ stack' # <<>> /\ ToSet(stack') = ToSet(Return) \cup {c2}
  BY <1>1, <1>2, <1>5, AppendSet
<1>7. ContainerInv(top)
  BY <1>1, <1>2 DEF CallsInv, CallInv
<1>8. PICK p \in Whole : Opened(p) /\ p.data = top.data /\ p.containers = MaxContainerDepth - top.depth + 1
  BY <1>7 DEF ContainerInv
<1>9. CallPart(c2) \in Whole /\ CallPart(c2).place # "file" /\ CallPart(c2).data = m
  <2>1. p.containers - 1 = MaxContainerDepth - top.depth
    BY <1>3, <1>8, LeakAssumption
  <2>2. CallPart(c2) \in Inside(p)
    BY <1>m, <1>5, <1>8, <2>1 DEF Inside, Contents
  <2> QED BY <1>1, <1>2, <1>5, <1>8, <2>2, WholeIs, CallPartIs
<1>10. Whole' = Whole
  BY <1>1 DEF Whole
<1>11. CallInv(c2)'
  <2>1. ScanText(c2.data.text, 0) \subseteq found' /\ CallPart(c2) \in Whole'
    BY <1>1, <1>5, <1>9, <1>10
  <2> QED BY <1>5, <2>1, BegunInv
<1>13. ASSUME NEW r \in ScanText(m.text, 0)
       PROVE  \E s \in Streams(leakFiles[leakAt], MaxContainerDepth) : StandsIn(r, s)
  <2>1. m.text \in Streams(leakFiles[leakAt], MaxContainerDepth)
    BY <1>1, <1>2, <1>9, WholeIs
  <2>2. StandsIn(r, m.text)
    BY <1>m, StandsInText
  <2> QED BY <2>1, <2>2
<1>14. ASSUME NEW a \in PartsAhead(top), NEW x \in PartsOf(a) PROVE AheadOf(x)' \/ HeldFor(x)'
  <2>1. a = CallPart(c2)
    <3>1. a \in MembersAhead(top)
      BY <1>1 DEF PartsAhead
    <3>2. \A k \in top.next .. Len(top.data.members) : FALSE
      BY <1>1, <1>3
    <3> QED BY <1>m, <1>5, <3>1, <3>2 DEF MembersAhead
  <2>2. c2 \in ToSet(stack')
    BY <1>6
  <2> QED BY <1>5, <1>14, <2>1, <2>2, BegunAhead
<1>15. /\ \A c \in ToSet(stack') : c \in ToSet(Return) \/ CallInv(c)'
       /\ ToSet(Return) \subseteq ToSet(stack')
  BY <1>6, <1>11
<1>16. /\ found \subseteq found'
       /\ \A r \in found' : r \in found
                \/ \E s \in Streams(leakFiles[leakAt], MaxContainerDepth) : StandsIn(r, s)
  BY <1>1, <1>13
<1>17. top.call # "buffer" /\ top.data.container # "broken"
  BY <1>1
<1> QED BY <1>1, <1>6, <1>14, <1>15, <1>16, <1>17, WalkKeeps

\* A buffer whose frames are done was searched as a whole.
LEMMA BufferEnds ==
    ASSUME LeakInv, In("buffer"), ~ MoreFrames
    PROVE  /\ stack # <<>> /\ top \in Calls /\ CallPart(top) \in Whole /\ BufferInv(top)
           /\ found = {} => Nothing(StreamsOf(CallPart(top)))
           /\ FramesAhead(top) = {}
<1>1. stack # <<>> /\ top.call = "buffer"
  BY DEF In
<1>2. stack \in Seq(Calls) /\ top \in Calls /\ ToSet(stack) = ToSet(Return) \cup {top}
  BY <1>1, StackIs DEF LeakInv, CallsInv
<1>3. BufferInv(top)
  BY <1>1, <1>2 DEF LeakInv, CallsInv, CallInv
<1>4. /\ CallPart(top).data = top.data
      /\ Framed(CallPart(top)) <=> top.frameDepth # MaxFrameDepth
  BY <1>2, CallPartIs
<1>5. /\ top.data \in Data /\ top.next \in Nat \ {0} /\ top.frameDepth \in 0 .. MaxFrameDepth
      /\ Len(top.data.frames) \in Nat /\ MaxFrameDepth \in Nat
  BY <1>2, CallIs, BufferIs, RecordedAssumption
<1>6. top.frameDepth # MaxFrameDepth => top.next - 1 = Len(top.data.frames)
  <2>1. top.next <= Len(top.data.frames) + 1
    BY <1>3 DEF BufferInv
  <2> QED BY <1>5, <2>1 DEF MoreFrames
<1>7. FramesAhead(top) = {}
  <2>1. top.frameDepth # MaxFrameDepth => \A k \in top.next .. Len(top.data.frames) : FALSE
    BY <1>5, <1>6
  <2> QED BY <2>1 DEF FramesAhead
<1>8. ASSUME found = {} PROVE Nothing(StreamsOf(CallPart(top)))
  <2>1. Nothing({top.data.text, JoinedTo(top.data, top.next - 1)})
    BY <1>3, <1>8 DEF BufferInv
  <2>2. top.frameDepth # MaxFrameDepth => JoinedTo(top.data, top.next - 1) = Joined(top.data)
    BY <1>6 DEF Joined
  <2> QED BY <1>4, <2>1, <2>2 DEF Nothing, StreamsOf
<1>9. CallPart(top) \in Whole
  BY <1>3 DEF BufferInv
<1> QED BY <1>1, <1>2, <1>3, <1>7, <1>8, <1>9

\* A member or a frame that is a container (scanBuffer).
LEMMA OpenNestedKeeps == LeakInv /\ OpenNested => LeakInv'
<1> SUFFICES ASSUME LeakInv, OpenNested PROVE LeakInv'
  OBVIOUS
<1>p. PICK c2, p0 : c2 = ContainerCall(top.data, top.depth + 1) /\ p0 = CallPart(top)
  OBVIOUS
<1>1. /\ stack # <<>> /\ top.call = "buffer" /\ In("buffer") /\ ~ MoreFrames /\ IsNested
      /\ stack' = Append(Return, c2) /\ found' = found
      /\ UNCHANGED <<leakFiles, leakAt, leakVerdicts, leakExit>>
  BY <1>p DEF OpenNested, In
<1>2. /\ stack \in Seq(Calls) /\ CallsInv /\ Return \in Seq(Calls) /\ top \in Calls
      /\ ToSet(stack) = ToSet(Return) \cup {top}
  BY <1>1, StackIs DEF LeakInv, CallsInv
<1>3. /\ top.data \in Data /\ top.depth \in 1 .. MaxContainerDepth /\ top.depth < MaxContainerDepth
      /\ top.depth + 1 \in 1 .. MaxContainerDepth /\ MaxContainerDepth \in Nat
      /\ Len(top.data.members) \in Nat
  <2>1. top.depth < MaxContainerDepth
    BY <1>1 DEF IsNested
  <2> QED BY <1>2, <2>1, CallIs, BufferIs, LeakAssumption, SMTT(30)
<1>4. /\ p0 \in Whole /\ p0.data = top.data /\ p0.containers = MaxContainerDepth - top.depth
      /\ Opened(p0)
      /\ found = {} => Nothing(StreamsOf(p0))
  <2>1. Opened(CallPart(top))
    BY <1>1, <1>2, CallPartIs DEF IsNested
  <2> QED BY <1>p, <1>1, <1>2, <2>1, BufferEnds, CallPartIs
<1>5. c2 \in Calls /\ c2.call = "container" /\ c2.data = top.data /\ c2.next = 1 /\ c2.depth = top.depth + 1
  BY <1>p, <1>3, ContainerCallIs
<1>6. /\ stack' \in Seq(Calls) /\ stack' # <<>> /\ ToSet(stack') = ToSet(Return) \cup {c2}
  BY <1>1, <1>2, <1>5, AppendSet
<1>7. Whole' = Whole
  BY <1>1 DEF Whole
<1>8. CallInv(c2)'
  <2>1. 1 <= Len(top.data.members) + 1 /\ p0.containers = MaxContainerDepth - c2.depth + 1
    BY <1>3, <1>4, <1>5, SMTT(30)
  <2>2. ContainerInv(c2)'
    BY <1>4, <1>5, <1>7, <2>1 DEF ContainerInv
  <2> QED BY <1>5, <2>2 DEF CallInv
<1>9. ASSUME NEW a \in PartsAhead(top), NEW x \in PartsOf(a) PROVE AheadOf(x)' \/ HeldFor(x)'
  <2>1. a \in Contents(top.data, MaxContainerDepth - top.depth - 1)
    BY <1>1, BufferEnds DEF PartsAhead
  <2>2. MaxContainerDepth - top.depth - 1 = MaxContainerDepth - c2.depth
    BY <1>3, <1>5
  <2>3. ToSet(c2.data.members) = {c2.data.members[k] : k \in c2.next .. Len(c2.data.members)}
    <3>1. DOMAIN top.data.members = 1 .. Len(top.data.members)
      BY <1>3, BufferIs
    <3> QED BY <1>5, <3>1 DEF ToSet
  <2>4. a \in MembersAhead(c2)
    BY <1>5, <2>1, <2>2, <2>3 DEF Contents, MembersAhead
  <2>5. a \in PartsAhead(c2) /\ c2 \in ToSet(stack')
    BY <1>5, <1>6, <2>4 DEF PartsAhead
  <2> QED BY <1>9, <2>5 DEF AheadOf
<1>10. ASSUME NEW p, p = CallPart(top) PROVE Searched(p)' /\ (Broken(p) => OpenedFor(p)')
  <2>1. p = p0
    BY <1>p, <1>10
  <2>2. Searched(p)'
    BY <1>1, <1>4, <2>1 DEF Searched
  <2>3. OpenedFor(p)'
    BY <1>4, <1>5, <1>6, <2>1 DEF OpenedFor
  <2> QED BY <2>2, <2>3
<1>11. /\ \A c \in ToSet(stack') : c \in ToSet(Return) \/ CallInv(c)'
       /\ ToSet(Return) \subseteq ToSet(stack')
       /\ found \subseteq found' /\ \A r \in found' : r \in found
  BY <1>1, <1>6, <1>8
<1>12. top.call # "container"
  BY <1>1
<1> QED BY <1>1, <1>6, <1>9, <1>10, <1>11, <1>12, WalkKeeps

\* A frame and the seam before it (scanBuffer).
LEMMA NextFrameKeeps == LeakInv /\ NextFrame => LeakInv'
<1> SUFFICES ASSUME LeakInv, NextFrame PROVE LeakInv'
  OBVIOUS
<1>p. PICK f, before, seam, across, more, c1, c2, p0 :
        /\ f = top.data.frames[top.next]
        /\ before = JoinedTo(top.data, top.next - 1)
        /\ seam = (IF top.carry = <<>> \/ f.text = <<>> THEN <<>> ELSE SeamText(top.carry, f.text))
        /\ across = (IF seam = <<>> THEN {} ELSE Hits(seam, Len(top.carry)))
        /\ more = top.hits + Cardinality(across) + Cardinality(Hits(f.text, 0))
        /\ c1 = [top EXCEPT !.next = @ + 1, !.carry = Carried(@, f.text),
                            !.hits = @ + Cardinality(across) + Cardinality(Hits(f.text, 0))]
        /\ c2 = BufferCall(f, top.frameDepth + 1, top.depth, FALSE)
        /\ p0 = CallPart(top)
  OBVIOUS
<1>1. /\ stack # <<>> /\ top.call = "buffer" /\ top.frameDepth < MaxFrameDepth
      /\ top.next <= Len(top.data.frames) /\ stack' = Return \o <<c1, c2>>
      /\ found' = found \cup ScanText(f.text, 0)
                    \cup (IF seam = <<>> THEN {} ELSE ScanText(seam, Len(top.carry)))
      /\ UNCHANGED <<leakFiles, leakAt, leakVerdicts, leakExit>>
  BY <1>p DEF NextFrame, In, MoreFrames
<1>2. /\ stack \in Seq(Calls) /\ CallsInv /\ Return \in Seq(Calls) /\ top \in Calls
      /\ ToSet(stack) = ToSet(Return) \cup {top}
  BY <1>1, StackIs DEF LeakInv, CallsInv
<1>3. /\ top.data \in Data /\ top.next \in Nat \ {0} /\ top.depth \in 1 .. MaxContainerDepth
      /\ top.frameDepth + 1 \in 1 .. MaxFrameDepth /\ Len(top.data.frames) \in Nat
      /\ top.next \in 1 .. Len(top.data.frames) /\ top.next - 1 \in 0 .. Len(top.data.frames) - 1
      /\ top.next - 1 \in 0 .. Len(top.data.frames) /\ top.next - 1 + 1 = top.next
      /\ top.next \in 0 .. Len(top.data.frames)
  <2>1. /\ top.data \in Data /\ top.next \in Nat \ {0} /\ top.depth \in 1 .. MaxContainerDepth
        /\ top.frameDepth \in 0 .. MaxFrameDepth /\ Len(top.data.frames) \in Nat /\ MaxFrameDepth \in Nat
    BY <1>2, CallIs, BufferIs, RecordedAssumption
  <2>2. top.frameDepth < MaxFrameDepth /\ top.next <= Len(top.data.frames)
    BY <1>1
  <2>3. PICK n, m, d, limit : n = top.next /\ m = Len(top.data.frames) /\ d = top.frameDepth /\ limit = MaxFrameDepth
    OBVIOUS
  <2>4. n \in Nat \ {0} /\ m \in Nat /\ d \in 0 .. limit /\ limit \in Nat /\ d < limit /\ n <= m
    BY <2>1, <2>2, <2>3
  <2>5. /\ d + 1 \in 1 .. limit /\ n \in 1 .. m /\ n - 1 \in 0 .. m - 1
        /\ n - 1 \in 0 .. m /\ n - 1 + 1 = n /\ n \in 0 .. m
    BY <2>4
  <2> QED BY <2>1, <2>3, <2>5
<1>f. f \in Data /\ f.text \in Seq(Units)
  BY <1>p, <1>3, BufferIs
<1>4. BufferInv(top)
  BY <1>1, <1>2 DEF CallsInv, CallInv
<1>b. /\ before \in Seq(Units) /\ JoinedTo(top.data, top.next) = before \o f.text
      /\ Piece(JoinedTo(top.data, top.next), Joined(top.data), 0)
  <2>1. before \in Seq(Units)
    BY <1>p, <1>3, JoinedStep
  <2>2. JoinedTo(top.data, top.next - 1 + 1) = before \o top.data.frames[top.next - 1 + 1].text
    BY <1>p, <1>3, JoinedStep
  <2>3. JoinedTo(top.data, top.next) = before \o f.text
    BY <1>p, <1>3, <2>2
  <2> QED BY <1>3, <2>1, <2>3, JoinedPiece
<1>5. /\ top.carry = EndOf(before) /\ top.hits = Cardinality(Hits(before, 0)) /\ p0 \in Whole
      /\ found = {} => ScanText(top.data.text, 0) = {} /\ ScanText(before, 0) = {}
  BY <1>p, <1>4 DEF BufferInv, Nothing
<1>6. seam # <<>> <=> top.carry # <<>> /\ f.text # <<>>
  <2>1. ASSUME top.carry # <<>>, f.text # <<>> PROVE SeamText(top.carry, f.text) # <<>>
    <3>1. top.carry \in Seq(Units)
      BY <1>2, CallIs
    <3> QED BY <2>1, <3>1, <1>f DEF SeamText
  <2> QED BY <1>p, <2>1
<1>7. seam # <<>> => seam = SeamText(EndOf(before), f.text) /\ Len(top.carry) = Len(EndOf(before))
  BY <1>p, <1>5
<1>8. /\ more = Cardinality(Hits(JoinedTo(top.data, top.next), 0)) /\ more \in Nat
      /\ Carried(top.carry, f.text) = EndOf(JoinedTo(top.data, top.next))
      /\ Carried(top.carry, f.text) \in Seq(Units)
  <2>1. across = (IF EndOf(before) = <<>> \/ f.text = <<>> THEN {}
                  ELSE Hits(SeamText(EndOf(before), f.text), Len(EndOf(before))))
    BY <1>p, <1>5, <1>6, <1>7
  <2>2. Cardinality(Hits(before \o f.text, 0)) =
          Cardinality(Hits(before, 0)) + Cardinality(across) + Cardinality(Hits(f.text, 0))
    BY <1>f, <1>b, <2>1, HitsJoined
  <2>3. before \o f.text \in Seq(Units)
    BY <1>f, <1>b
  <2>4. Cardinality(Hits(before \o f.text, 0)) \in Nat
    BY <2>3, HitsFinite, FS_CardinalityType
  <2>5. Carried(EndOf(before), f.text) = EndOf(before \o f.text)
    BY <1>f, <1>b, CarriedIs
  <2>6. EndOf(before \o f.text) \in Seq(Units)
    BY <2>3, EndIs
  <2> QED BY <1>p, <1>5, <1>b, <2>2, <2>4, <2>5, <2>6
<1>9. /\ c1 \in Calls /\ c1.call = "buffer" /\ c1.data = top.data /\ c1.next = top.next + 1
      /\ c1.depth = top.depth /\ c1.frameDepth = top.frameDepth /\ CallPart(c1) = p0
      /\ c1.carry = Carried(top.carry, f.text) /\ c1.hits = more
  <2>1. c1 = [top EXCEPT !.next = @ + 1, !.carry = Carried(top.carry, f.text), !.hits = more]
    <3>1. top = [call |-> top.call, data |-> top.data, next |-> top.next, carry |-> top.carry,
                 hits |-> top.hits, frameDepth |-> top.frameDepth, depth |-> top.depth,
                 isMember |-> top.isMember]
      BY <1>2 DEF Calls
    <3> QED BY <1>p, <3>1
  <2>2. /\ c1 \in Calls /\ c1.call = top.call /\ c1.data = top.data /\ c1.next = top.next + 1
        /\ c1.depth = top.depth /\ c1.frameDepth = top.frameDepth /\ CallPart(c1) = CallPart(top)
        /\ c1.carry = Carried(top.carry, f.text) /\ c1.hits = more
    <3>1. PICK end : end = Carried(top.carry, f.text)
      OBVIOUS
    <3>2. end \in Seq(Units) /\ more \in Nat /\ c1 = [top EXCEPT !.next = @ + 1, !.carry = end, !.hits = more]
      BY <1>8, <2>1, <3>1
    <3>3. top \in Calls
      BY <1>2
    <3>4. /\ c1 \in Calls /\ c1.call = top.call /\ c1.data = top.data /\ c1.next = top.next + 1
          /\ c1.depth = top.depth /\ c1.frameDepth = top.frameDepth /\ CallPart(c1) = CallPart(top)
          /\ c1.carry = end /\ c1.hits = more
      <4>1. PICK t : t = top
        OBVIOUS
      <4>2. t \in Calls /\ end \in Seq(Units) /\ more \in Nat /\ c1 = NextCall(t, end, more)
        BY <3>2, <3>3, <4>1 DEF NextCall
      <4>3. /\ c1 \in Calls /\ c1.call = t.call /\ c1.data = t.data /\ c1.next = t.next + 1
            /\ c1.depth = t.depth /\ c1.frameDepth = t.frameDepth /\ CallPart(c1) = CallPart(t)
            /\ c1.carry = end /\ c1.hits = more
        BY <4>2, NextCallIs
      <4> QED BY <4>1, <4>3
    <3> QED BY <3>1, <3>4
  <2> QED BY <1>1, <1>p, <2>2
<1>10. /\ c2 \in Calls /\ c2.call = "buffer" /\ c2.data = f /\ c2.next = 1 /\ c2.carry = <<>> /\ c2.hits = 0
       /\ CallPart(c2) = Part(f, "frame", MaxFrameDepth - (top.frameDepth + 1), MaxContainerDepth - top.depth)
  <2>1. c2 = BufferCall(f, top.frameDepth + 1, top.depth, FALSE)
    BY <1>p
  <2> QED BY <1>3, <1>f, <2>1, FrameCallIs DEF BufferCall
<1>11. stack' \in Seq(Calls) /\ stack' # <<>> /\ ToSet(stack') = ToSet(Return) \cup {c1, c2}
  BY <1>1, <1>2, <1>9, <1>10, PairSet
<1>12. Whole' = Whole
  BY <1>1 DEF Whole
<1>13. /\ p0.data = top.data /\ p0.place # "file" /\ Framed(p0) /\ p0.frames = MaxFrameDepth - top.frameDepth
       /\ p0.containers = MaxContainerDepth - top.depth
  <2>1. top.frameDepth # MaxFrameDepth
    <3>1. top.frameDepth \in Nat /\ MaxFrameDepth \in Nat
      BY <1>2, CallIs, RecordedAssumption
    <3> QED BY <1>1, <3>1
  <2> QED BY <1>p, <1>2, <2>1, CallPartIs
<1>14. CallPart(c2) \in Whole /\ CallPart(c2).place # "file" /\ CallPart(c2).data = f
  <2>1. p0.frames - 1 = MaxFrameDepth - (top.frameDepth + 1)
    <3>1. top.frameDepth \in Nat /\ MaxFrameDepth \in Nat
      BY <1>2, CallIs, RecordedAssumption
    <3> QED BY <1>13, <3>1
  <2>2. f \in ToSet(top.data.frames)
    <3>1. DOMAIN top.data.frames = 1 .. Len(top.data.frames)
      BY <1>3, BufferIs
    <3> QED BY <1>p, <1>3, <3>1 DEF ToSet
  <2>3. CallPart(c2) \in Inside(p0)
    BY <1>10, <1>13, <2>1, <2>2 DEF Inside
  <2> QED BY <1>1, <1>2, <1>5, <1>10, <2>3, WholeIs, CallPartIs
<1>15. CallInv(c2)'
  <2>1. ScanText(c2.data.text, 0) \subseteq found' /\ CallPart(c2) \in Whole'
    BY <1>1, <1>10, <1>12, <1>14
  <2> QED BY <1>10, <2>1, BegunInv
<1>16. CallInv(c1)'
  <2>1. c1.next - 1 = top.next /\ c1.next <= Len(c1.data.frames) + 1
    BY <1>3, <1>9, SMTT(30)
  <2>2. found' = {} => Nothing({c1.data.text, JoinedTo(c1.data, top.next)})
    <3>1. ASSUME found' = {}
          PROVE  ScanText(JoinedTo(top.data, top.next), 0) = {} /\ ScanText(top.data.text, 0) = {}
      <4>1. /\ found = {} /\ ScanText(f.text, 0) = {}
            /\ seam # <<>> => ScanText(seam, Len(top.carry)) = {}
        BY <1>1, <3>1
      <4>2. AtSeam(before, f.text) = {}
        BY <1>5, <1>6, <1>7, <4>1 DEF AtSeam
      <4> QED BY <1>5, <1>b, <1>f, <4>1, <4>2, NothingJoined
    <3> QED BY <1>9, <3>1 DEF Nothing
  <2>3. /\ c1.carry = EndOf(JoinedTo(c1.data, c1.next - 1))
        /\ c1.hits = Cardinality(Hits(JoinedTo(c1.data, c1.next - 1), 0))
    BY <1>8, <1>9, <2>1
  <2>4. CallPart(c1) \in Whole'
    BY <1>5, <1>9, <1>12
  <2>5. BufferInv(c1)'
    BY <2>1, <2>2, <2>3, <2>4 DEF BufferInv
  <2> QED BY <1>9, <2>5 DEF CallInv
<1>17. ASSUME NEW r \in found', r \notin found
       PROVE  \E s \in Streams(leakFiles[leakAt], MaxContainerDepth) : StandsIn(r, s)
  <2>1. CASE r \in ScanText(f.text, 0)
    <3>1. f.text \in Streams(leakFiles[leakAt], MaxContainerDepth)
      BY <1>1, <1>2, <1>14, WholeIs
    <3>2. StandsIn(r, f.text)
      BY <1>f, <2>1, StandsInText
    <3> QED BY <3>1, <3>2
  <2>2. CASE seam # <<>> /\ r \in ScanText(seam, Len(top.carry))
    <3>1. Joined(top.data) \in Streams(leakFiles[leakAt], MaxContainerDepth)
      BY <1>1, <1>2, <1>5, <1>13, WholeIs
    <3>2. PICK o : Piece(seam, before \o f.text, o)
      BY <1>b, <1>f, <1>7, <2>2, SeamIs
    <3>3. Piece(seam, Joined(top.data), 0 + o)
      BY <1>b, <3>2, PieceOfPiece
    <3>4. StandsIn(r, Joined(top.data))
      BY <2>2, <3>3, StandsInWhole
    <3> QED BY <3>1, <3>4
  <2> QED BY <1>1, <1>17, <2>1, <2>2
<1>18. ASSUME NEW a \in PartsAhead(top), NEW x \in PartsOf(a) PROVE AheadOf(x)' \/ HeldFor(x)'
  <2>1. a = CallPart(c2) \/ a \in PartsAhead(c1)
    <3>1. \/ a \in FramesAhead(top)
          \/ a \in (IF Opened(p0) THEN Contents(top.data, MaxContainerDepth - top.depth - 1) ELSE {})
      BY <1>1, <1>p DEF PartsAhead
    <3>2. PartsAhead(c1) = FramesAhead(c1) \cup
            (IF Opened(p0) THEN Contents(top.data, MaxContainerDepth - top.depth - 1) ELSE {})
      BY <1>9 DEF PartsAhead
    <3>3. CASE a \in FramesAhead(top)
      <4>0. /\ top.frameDepth # MaxFrameDepth
            /\ MaxFrameDepth - top.frameDepth - 1 = MaxFrameDepth - (top.frameDepth + 1)
        <5>1. top.frameDepth \in Nat /\ MaxFrameDepth \in Nat
          BY <1>2, CallIs, RecordedAssumption
        <5> QED BY <1>1, <5>1
      <4>1. PICK k \in top.next .. Len(top.data.frames) :
              a = Part(top.data.frames[k], "frame", MaxFrameDepth - top.frameDepth - 1, MaxContainerDepth - top.depth)
        BY <3>3, <4>0 DEF FramesAhead
      <4>2. CASE k = top.next
        BY <1>p, <1>10, <4>0, <4>1, <4>2
      <4>3. CASE k # top.next
        <5>1. k \in c1.next .. Len(c1.data.frames)
          BY <1>3, <1>9, <4>3
        <5>2. a \in FramesAhead(c1)
          BY <1>9, <4>0, <4>1, <5>1 DEF FramesAhead
        <5> QED BY <3>2, <5>2
      <4> QED BY <4>2, <4>3
    <3> QED BY <3>1, <3>2, <3>3
  <2>2. CASE a = CallPart(c2)
    <3>1. c2 \in ToSet(stack')
      BY <1>11
    <3> QED BY <1>10, <1>18, <2>2, <3>1, BegunAhead
  <2>3. CASE a \in PartsAhead(c1)
    <3>1. c1 \in ToSet(stack')
      BY <1>11
    <3> QED BY <1>18, <2>3, <3>1 DEF AheadOf
  <2> QED BY <2>1, <2>2, <2>3
<1>19. ASSUME NEW p, p = CallPart(top) PROVE HeldFor(p)'
  <2>1. c1 \in ToSet(stack') /\ c1.call = "buffer" /\ CallPart(c1) = p
    BY <1>p, <1>9, <1>11, <1>19
  <2> QED BY <2>1 DEF HeldFor
<1>20. /\ \A c \in ToSet(stack') : c \in ToSet(Return) \/ CallInv(c)'
       /\ ToSet(Return) \subseteq ToSet(stack')
  BY <1>11, <1>15, <1>16
<1>21. /\ found \subseteq found'
       /\ \A r \in found' : r \in found
                \/ \E s \in Streams(leakFiles[leakAt], MaxContainerDepth) : StandsIn(r, s)
  BY <1>1, <1>17
<1>22. top.call # "container"
  BY <1>1
<1> QED BY <1>1, <1>11, <1>18, <1>19, <1>20, <1>21, <1>22, WalkKeeps

\* The parts of a file that can be opened are itself and those in what it contains.
LEMMA FileIs ==
    ASSUME NEW b \in Data, NEW p0, p0 = Part(b, "file", MaxFrameDepth, MaxContainerDepth), b.container # "no"
    PROVE  /\ p0 \in AllParts /\ Opened(p0) /\ p0.data = b /\ p0.place = "file"
           /\ p0.containers = MaxContainerDepth
           /\ FileParts(b, MaxContainerDepth) =
                {p0} \cup UNION {PartsOf(q) : q \in Contents(b, MaxContainerDepth - 1)}
<1>1. /\ p0 \in AllParts /\ Opened(p0) /\ p0.data = b /\ p0.place = "file" /\ p0.containers = MaxContainerDepth
      /\ Inside(p0) = Contents(b, MaxContainerDepth - 1)
  BY LeakAssumption, RecordedAssumption DEF Part, AllParts, Opened, Inside, Framed
<1>2. PartsOf(p0) = {p0} \cup UNION {PartsOf(q) : q \in Inside(p0)}
  BY <1>1, PartsOfIs
<1> QED BY <1>1, <1>2 DEF FileParts

\* A file's verdict is given, and the next file comes.
LEMMA VerdictGiven ==
    ASSUME LeakInv, Scanning, leakAt <= Len(leakFiles), NEW v \in {"clean", "leak", "error"},
           leakVerdicts' = Append(leakVerdicts, v), leakAt' = leakAt + 1,
           stack' = <<>>, found' = {}, UNCHANGED <<leakFiles, leakExit>>,
           v = "error" <=> CannotBeRead(leakFiles[leakAt], MaxContainerDepth),
           v = "clean" => Leaks(leakFiles[leakAt], MaxContainerDepth) = {}
    PROVE  LeakInv'
<1>1. /\ leakFiles \in Seq(Data) /\ leakAt \in 1 .. Len(leakFiles) + 1 /\ Len(leakFiles) \in Nat
      /\ leakAt \in Nat \ {0} /\ leakVerdicts \in Seq({"clean", "leak", "error"})
      /\ Len(leakVerdicts) = leakAt - 1 /\ leakExit = 9
      /\ DOMAIN leakVerdicts = 1 .. leakAt - 1
  BY DEF LeakInv, CallsInv, VerdictsInv, Scanning
<1>2. /\ leakAt' \in 1 .. Len(leakFiles') + 1
  BY <1>1
<1>3. CallsInv'
  <2>1. <<>> \in Seq(Calls) /\ ToSet(<<>>) = {}
    BY DEF ToSet
  <2>2. NothingInvented'
    BY DEF NothingInvented
  <2> QED BY <1>1, <1>2, <2>1, <2>2 DEF CallsInv
<1>4. PartsInv'
  BY DEF PartsInv
<1>5. /\ leakVerdicts' \in Seq({"clean", "leak", "error"}) /\ Len(leakVerdicts') = leakAt'  - 1
      /\ DOMAIN leakVerdicts' = 1 .. leakAt
      /\ \A k \in 1 .. leakAt : IF k = leakAt THEN leakVerdicts'[k] = v ELSE leakVerdicts'[k] = leakVerdicts[k]
  BY <1>1
<1>6. VerdictsInv'
  <2>1. ASSUME NEW k \in 1 .. leakAt
        PROVE  /\ leakVerdicts'[k] = "error" <=> CannotBeRead(leakFiles[k], MaxContainerDepth)
               /\ leakVerdicts'[k] = "clean" => Leaks(leakFiles[k], MaxContainerDepth) = {}
    <3>1. CASE k = leakAt
      BY <1>5, <3>1
    <3>2. CASE k # leakAt
      <4>1. k \in DOMAIN leakVerdicts /\ leakVerdicts'[k] = leakVerdicts[k]
        BY <1>1, <1>5, <3>2
      <4> QED BY <4>1 DEF LeakInv, VerdictsInv, CleanMeansNothingThere
    <3> QED BY <3>1, <3>2
  <2>2. CleanMeansNothingThere'
    BY <1>5, <2>1 DEF CleanMeansNothingThere
  <2>3. leakExit' = 9
    BY <1>1
  <2> QED BY <1>5, <2>1, <2>2, <2>3 DEF VerdictsInv
<1> QED BY <1>3, <1>4, <1>6 DEF LeakInv

\* A file is opened, or is none (scanFile).
LEMMA StartScanKeeps == LeakInv /\ StartScan => LeakInv'
<1> SUFFICES ASSUME LeakInv, StartScan PROVE LeakInv'
  OBVIOUS
<1>1. /\ Scanning /\ stack = <<>> /\ leakAt <= Len(leakFiles) /\ found = {} /\ CallsInv
      /\ leakFiles \in Seq(Data) /\ leakAt \in 1 .. Len(leakFiles) + 1 /\ leakFiles[leakAt] \in Data
  BY DEF LeakInv, CallsInv, StartScan
<1>2. CASE leakFiles[leakAt].container = "no"
  BY <1>1, <1>2, VerdictGiven DEF StartScan, GiveUp, CannotBeRead
<1>3. CASE leakFiles[leakAt].container # "no"
  <2>p. PICK b, c2, p0 : /\ b = leakFiles[leakAt] /\ c2 = ContainerCall(b, 1)
                         /\ p0 = Part(b, "file", MaxFrameDepth, MaxContainerDepth)
    OBVIOUS
  <2>1. stack' = <<c2>> /\ UNCHANGED <<leakFiles, leakAt, found, leakVerdicts, leakExit>>
    BY <1>3, <2>p DEF StartScan
  <2>2. b \in Data /\ b.container # "no" /\ Len(b.members) \in Nat
    BY <1>1, <1>3, <2>p, BufferIs
  <2>3. c2 \in Calls /\ c2.call = "container" /\ c2.data = b /\ c2.next = 1 /\ c2.depth = 1
    BY <2>p, <2>2, ContainerCallIs, LeakAssumption
  <2>4. stack' \in Seq(Calls) /\ stack' # <<>> /\ ToSet(stack') = {c2}
    <3>1. <<c2>> \in Seq(Calls) /\ <<c2>> # <<>> /\ DOMAIN <<c2>> = {1} /\ <<c2>>[1] = c2
      BY <2>3
    <3> QED BY <2>1, <3>1 DEF ToSet
  <2>5. Whole' = Whole /\ Whole = FileParts(b, MaxContainerDepth)
    BY <2>p, <2>1 DEF Whole
  <2>6. /\ Opened(p0) /\ p0.data = b /\ p0.place = "file" /\ p0.containers = MaxContainerDepth
        /\ Whole = {p0} \cup UNION {PartsOf(q) : q \in Contents(b, MaxContainerDepth - 1)}
    BY <2>p, <2>2, <2>5, FileIs
  <2>7. CallInv(c2)'
    <3>1. p0.containers = MaxContainerDepth - c2.depth + 1 /\ c2.next <= Len(c2.data.members) + 1
      BY <2>2, <2>3, <2>6, LeakAssumption
    <3>2. p0 \in Whole'
      BY <2>5, <2>6
    <3>3. ContainerInv(c2)'
      BY <2>3, <2>6, <3>1, <3>2 DEF ContainerInv
    <3> QED BY <2>3, <3>3 DEF CallInv
  <2>8. CallsInv'
    <3>1. NothingInvented'
      BY <1>1, <2>1 DEF NothingInvented
    <3>2. leakAt' <= Len(leakFiles') /\ leakFiles'[leakAt'].container # "no"
      BY <1>1, <1>3, <2>1
    <3>3. leakFiles' \in Seq(Data) /\ leakAt' \in 1 .. Len(leakFiles') + 1
      BY <1>1, <2>1
    <3> QED BY <2>4, <2>7, <3>1, <3>2, <3>3 DEF CallsInv
  <2>9. PartsInv'
    <3>1. ASSUME NEW p \in Whole PROVE Accounted(p)'
      <4>1. CASE p = p0
        <5>1. Searched(p)' /\ OpenedFor(p)'
          BY <2>3, <2>4, <2>6, <4>1 DEF Searched, OpenedFor
        <5> QED BY <5>1 DEF Accounted
      <4>2. CASE p # p0
        <5>1. PICK q \in Contents(b, MaxContainerDepth - 1) : p \in PartsOf(q)
          BY <2>6, <4>2
        <5>2. ToSet(c2.data.members) = {c2.data.members[k] : k \in c2.next .. Len(c2.data.members)}
          <6>1. DOMAIN b.members = 1 .. Len(b.members)
            BY <2>2, BufferIs
          <6> QED BY <2>3, <6>1 DEF ToSet
        <5>3. q \in MembersAhead(c2)
          BY <2>3, <5>1, <5>2 DEF Contents, MembersAhead
        <5>4. q \in PartsAhead(c2) /\ c2 \in ToSet(stack')
          BY <2>3, <2>4, <5>3 DEF PartsAhead
        <5>5. AheadOf(p)'
          BY <5>1, <5>4 DEF AheadOf
        <5> QED BY <5>5 DEF Accounted
      <4> QED BY <4>1, <4>2
    <3> QED BY <2>5, <3>1 DEF PartsInv
  <2>10. VerdictsInv'
    BY <2>1 DEF LeakInv, VerdictsInv, CleanMeansNothingThere
  <2> QED BY <2>8, <2>9, <2>10 DEF LeakInv
<1> QED BY <1>2, <1>3

\* The reader gives a container up (scanContainer).
LEMMA ReaderRefusesKeeps == LeakInv /\ ReaderRefuses => LeakInv'
<1> SUFFICES ASSUME LeakInv, ReaderRefuses PROVE LeakInv'
  OBVIOUS
<1>1. /\ Scanning /\ stack # <<>> /\ top.call = "container" /\ top.data.container = "broken" /\ GiveUp
      /\ leakAt <= Len(leakFiles)
  BY DEF ReaderRefuses, In, LeakInv, CallsInv
<1>2. top \in ToSet(stack) /\ CallInv(top)
  BY <1>1, StackIs DEF LeakInv, CallsInv
<1>3. \E p \in Whole : Opened(p) /\ p.data = top.data
  BY <1>1, <1>2 DEF CallInv, ContainerInv
<1>4. \E p \in Whole : Broken(p)
  BY <1>1, <1>3 DEF Broken
<1>5. CannotBeRead(leakFiles[leakAt], MaxContainerDepth)
  BY <1>4 DEF CannotBeRead, Whole
<1> QED BY <1>1, <1>5, VerdictGiven DEF GiveUp

\* A buffer is done, and with the last one the file (scanBuffer, main).
LEMMA BufferReturnsKeeps == LeakInv /\ BufferReturns => LeakInv'
<1> SUFFICES ASSUME LeakInv, BufferReturns PROVE LeakInv'
  OBVIOUS
<1>1. /\ stack # <<>> /\ top.call = "buffer" /\ In("buffer") /\ ~ MoreFrames /\ ~ IsNested
      /\ stack' = Return /\ Scanning /\ CallsInv /\ UNCHANGED <<leakFiles, leakExit>>
  BY DEF BufferReturns, In, LeakInv
<1>2. /\ Return \in Seq(Calls) /\ top \in Calls /\ ToSet(stack) = ToSet(Return) \cup {top}
  BY <1>1, StackIs DEF CallsInv
<1>3. PICK p0 : p0 = CallPart(top)
  OBVIOUS
<1>4. ~ Opened(p0) /\ ~ Broken(p0)
  <2>1. ~ Opened(CallPart(top))
    BY <1>1, <1>2, CallPartIs DEF IsNested
  <2> QED BY <1>3, <2>1 DEF Broken
<1>5. PartsAhead(top) = {}
  BY <1>1, <1>3, <1>4, BufferEnds DEF PartsAhead
<1>6. found = {} => Nothing(StreamsOf(p0))
  BY <1>1, <1>3, BufferEnds
<1>7. CASE Return # <<>>
  <2>1. UNCHANGED <<leakFiles, leakAt, found, leakVerdicts, leakExit>>
    BY <1>1, <1>7 DEF BufferReturns
  <2>2. ASSUME NEW p, p = CallPart(top) PROVE Searched(p)' /\ (Broken(p) => OpenedFor(p)')
    <3>1. p = p0
      BY <1>3, <2>2
    <3> QED BY <1>4, <1>6, <2>1, <3>1 DEF Searched
  <2>3. /\ stack' \in Seq(Calls) /\ stack' # <<>> /\ ToSet(Return) \subseteq ToSet(stack')
        /\ \A c \in ToSet(stack') : c \in ToSet(Return) \/ CallInv(c)'
        /\ found \subseteq found' /\ \A r \in found' : r \in found
    BY <1>1, <1>2, <1>7, <2>1
  <2>4. \A a \in PartsAhead(top) : \A p \in PartsOf(a) : AheadOf(p)' \/ HeldFor(p)'
    BY <1>5
  <2>5. top.call # "container"
    BY <1>1
  <2> QED BY <1>1, <2>1, <2>2, <2>3, <2>4, <2>5, WalkKeeps
<1>8. CASE Return = <<>>
  <2>1. /\ leakVerdicts' = Append(leakVerdicts, Verdict) /\ leakAt' = leakAt + 1 /\ found' = {}
        /\ stack' = <<>>
    BY <1>1, <1>8 DEF BufferReturns
  <2>2. ToSet(stack) = {top}
    BY <1>2, <1>8 DEF ToSet
  <2>3. leakAt <= Len(leakFiles) /\ leakFiles[leakAt].container # "no"
    BY <1>1 DEF CallsInv
  <2>4. ASSUME NEW p \in Whole PROVE Searched(p) /\ ~ Broken(p)
    <3>1. Accounted(p)
      BY <1>1 DEF LeakInv, PartsInv
    <3>2. ~ AheadOf(p) /\ ~ OpenedFor(p)
      BY <1>1, <1>5, <2>2 DEF AheadOf, OpenedFor
    <3>3. CASE HeldFor(p)
      <4>1. p = p0
        BY <1>3, <2>2, <3>3 DEF HeldFor
      <4> QED BY <1>4, <1>6, <4>1 DEF Searched
    <3> QED BY <3>1, <3>2, <3>3 DEF Accounted
  <2>5. ~ CannotBeRead(leakFiles[leakAt], MaxContainerDepth)
    BY <2>3, <2>4 DEF CannotBeRead, Whole
  <2>6. ASSUME found = {} PROVE Leaks(leakFiles[leakAt], MaxContainerDepth) = {}
    <3>1. ASSUME NEW s \in Streams(leakFiles[leakAt], MaxContainerDepth) PROVE ScanText(s, 0) = {}
      <4>1. PICK p \in Whole : p.place # "file" /\ s \in StreamsOf(p)
        BY <3>1 DEF Streams, Whole
      <4> QED BY <2>4, <2>6, <4>1 DEF Searched, Nothing
    <3> QED BY <3>1 DEF Leaks
  <2>7. Verdict \in {"clean", "leak", "error"} /\ Verdict # "error" /\ (Verdict = "clean" => found = {})
    BY DEF Verdict
  <2> QED BY <1>1, <2>1, <2>3, <2>5, <2>6, <2>7, VerdictGiven
<1> QED BY <1>7, <1>8

\* The exit code (main).
LEMMA ExitScanKeeps == LeakInv /\ ExitScan => LeakInv'
<1> SUFFICES ASSUME LeakInv, ExitScan PROVE LeakInv'
  OBVIOUS
<1>1. /\ stack = <<>> /\ leakAt > Len(leakFiles) /\ leakExit' = LeakCode(ToSet(leakVerdicts))
      /\ UNCHANGED <<leakFiles, leakAt, stack, found, leakVerdicts>> /\ CallsInv /\ VerdictsInv
  BY DEF LeakInv, ExitScan
<1>2. CallsInv'
  <2>1. found' = {} /\ stack' = <<>> /\ ToSet(<<>>) = {}
    BY <1>1 DEF CallsInv, ToSet
  <2>2. NothingInvented'
    BY <2>1 DEF NothingInvented
  <2> QED BY <1>1, <2>1, <2>2 DEF CallsInv
<1>3. PartsInv'
  BY <1>1 DEF PartsInv
<1>4. VerdictsInv'
  <2>1. leakAt = Len(leakFiles) + 1
    BY <1>1 DEF CallsInv
  <2>2. leakExit' \in {0, 1, 2, 9}
    BY <1>1 DEF LeakCode
  <2>3. CleanMeansNothingThere'
    BY <1>1 DEF VerdictsInv, CleanMeansNothingThere
  <2>4. \A k \in DOMAIN leakVerdicts' :
          leakVerdicts'[k] = "error" <=> CannotBeRead(leakFiles'[k], MaxContainerDepth)
    BY <1>1 DEF VerdictsInv
  <2> QED BY <1>1, <2>1, <2>2, <2>3, <2>4 DEF VerdictsInv
<1> QED BY <1>2, <1>3, <1>4 DEF LeakInv

\* A step that changes nothing.
LEMMA ScanStutters == LeakInv /\ UNCHANGED leakVars => LeakInv'
<1> SUFFICES ASSUME LeakInv, UNCHANGED leakVars PROVE LeakInv'
  OBVIOUS
<1>1. UNCHANGED <<leakFiles, leakAt, stack, found, leakVerdicts, leakExit>>
  BY DEF leakVars
<1>2. Whole' = Whole
  BY <1>1 DEF Whole
<1>3. CallsInv'
  <2>1. \A c \in ToSet(stack') : CallInv(c)'
    BY <1>1, CallKeeps DEF LeakInv, CallsInv
  <2>2. NothingInvented'
    BY <1>1 DEF LeakInv, CallsInv, NothingInvented
  <2> QED BY <1>1, <2>1, <2>2 DEF LeakInv, CallsInv
<1>4. PartsInv'
  BY <1>1, <1>2 DEF LeakInv, PartsInv, Accounted, AheadOf, HeldFor, Searched, OpenedFor
<1>5. VerdictsInv'
  BY <1>1 DEF LeakInv, VerdictsInv, CleanMeansNothingThere
<1> QED BY <1>3, <1>4, <1>5 DEF LeakInv

\* The initial state satisfies the invariant.
LEMMA ScanBegins == LeakInit => LeakInv
<1> SUFFICES ASSUME LeakInit PROVE LeakInv
  OBVIOUS
<1>1. leakFiles \in Seq(Data) /\ Len(leakFiles) \in Nat
  BY LeakAssumption DEF LeakInit
<1>2. stack = <<>> /\ ToSet(stack) = {} /\ found = {} /\ leakVerdicts = <<>> /\ leakAt = 1 /\ leakExit = 9
  BY DEF LeakInit, ToSet
<1>3. CallsInv
  BY <1>1, <1>2 DEF CallsInv, NothingInvented
<1>4. VerdictsInv
  BY <1>1, <1>2 DEF VerdictsInv, CleanMeansNothingThere
<1> QED BY <1>2, <1>3, <1>4 DEF LeakInv, PartsInv

-----------------------------------------------------------------------------
(* The theorems.                                                           *)

\* Each part of the file being scanned was searched, is being searched, or is ahead of
\* a call on the stack; a call knows what the frames before its next one hold; and the
\* verdicts and the exit code are those of the files (scanContainer, scanBuffer, main).
THEOREM LeakInvariant == LeakSpec => []LeakInv
<1>1. LeakInit => LeakInv
  BY ScanBegins
<1>2. LeakInv /\ [LeakNext]_leakVars => LeakInv'
  BY StartScanKeeps, ReaderRefusesKeeps, ScanMemberKeeps, ScanRestKeeps, NextFrameKeeps,
     OpenNestedKeeps, BufferReturnsKeeps, ExitScanKeeps, ScanStutters DEF LeakNext
<1> QED BY <1>1, <1>2, PTL DEF LeakSpec

\* A file called clean holds no name and no literal in any stream, wherever the frames
\* of the stream are cut (scanBuffer's carry and seam).
THEOREM CleanFilesHoldNothing == LeakSpec => []CleanMeansNothingThere
<1>1. LeakInv => CleanMeansNothingThere
  BY DEF LeakInv, VerdictsInv
<1> QED BY <1>1, LeakInvariant, PTL

\* What is reported stands in some stream of the file, and when a buffer's frames are
\* done each occurrence of a literal in their joined content was counted once (crosses).
THEOREM FindingsAreTheirs == LeakSpec => []FindingsAreExact
<1>1. ASSUME LeakInv PROVE FindingsAreExact
  <2>1. NothingInvented
    BY <1>1 DEF LeakInv, CallsInv
  <2>2. ASSUME In("buffer"), top.frameDepth < MaxFrameDepth, ~ MoreFrames
        PROVE  top.hits = Cardinality(Hits(Joined(top.data), 0))
    <3>1. top \in Calls /\ BufferInv(top)
      BY <1>1, <2>2, BufferEnds
    <3>2. top.next \in Nat \ {0} /\ Len(top.data.frames) \in Nat
      BY <3>1, CallIs, BufferIs
    <3>3. top.next <= Len(top.data.frames) + 1
      BY <3>1 DEF BufferInv
    <3>4. top.next - 1 = Len(top.data.frames)
      BY <2>2, <3>2, <3>3 DEF MoreFrames
    <3>5. top.hits = Cardinality(Hits(JoinedTo(top.data, top.next - 1), 0))
      BY <3>1 DEF BufferInv
    <3> QED BY <3>4, <3>5 DEF Joined
  <2> QED BY <2>1, <2>2 DEF FindingsAreExact, CountedOnce
<1> QED BY <1>1, LeakInvariant, PTL

\* Exit 2 is given exactly when some file cannot be read to its depth limits; otherwise
\* exit 0 means that nothing is there in any file (main).
THEOREM ExitCodeIsHonest == LeakSpec => []ExitIsHonest
<1>1. ASSUME LeakInv PROVE ExitIsHonest
  <2>1. SUFFICES ASSUME leakExit # 9
                 PROVE  /\ leakExit = 2 <=> \E k \in DOMAIN leakFiles : CannotBeRead(leakFiles[k], MaxContainerDepth)
                        /\ leakExit = 0 => \A k \in DOMAIN leakFiles : Leaks(leakFiles[k], MaxContainerDepth) = {}
    BY DEF ExitIsHonest
  <2>2. /\ leakFiles \in Seq(Data) /\ leakVerdicts \in Seq({"clean", "leak", "error"})
        /\ Len(leakVerdicts) = leakAt - 1 /\ leakAt = Len(leakFiles) + 1
        /\ leakExit = LeakCode(ToSet(leakVerdicts)) /\ CleanMeansNothingThere
        /\ \A k \in DOMAIN leakVerdicts :
             leakVerdicts[k] = "error" <=> CannotBeRead(leakFiles[k], MaxContainerDepth)
    BY <1>1, <2>1 DEF LeakInv, CallsInv, VerdictsInv
  <2>3. /\ DOMAIN leakFiles = DOMAIN leakVerdicts
        /\ \A k \in DOMAIN leakVerdicts : leakVerdicts[k] \in {"clean", "leak", "error"}
    BY <2>2
  <2>4. leakExit = 2 <=> "error" \in ToSet(leakVerdicts)
    BY <2>2 DEF LeakCode
  <2>5. leakExit = 0 => "error" \notin ToSet(leakVerdicts) /\ "leak" \notin ToSet(leakVerdicts)
    BY <2>2 DEF LeakCode
  <2>6. "error" \in ToSet(leakVerdicts) <=> \E k \in DOMAIN leakVerdicts : leakVerdicts[k] = "error"
    BY DEF ToSet
  <2>7. ASSUME leakExit = 0, NEW k \in DOMAIN leakFiles PROVE Leaks(leakFiles[k], MaxContainerDepth) = {}
    <3>1. leakVerdicts[k] # "error" /\ leakVerdicts[k] # "leak"
      BY <2>3, <2>5, <2>7 DEF ToSet
    <3>2. leakVerdicts[k] = "clean"
      BY <2>3, <2>7, <3>1
    <3> QED BY <2>2, <2>3, <2>7, <3>2 DEF CleanMeansNothingThere
  <2> QED BY <2>2, <2>3, <2>4, <2>6, <2>7
<1> QED BY <1>1, LeakInvariant, PTL
=============================================================================
