--------------------------- MODULE ScannersProofs ---------------------------
(***************************************************************************)
(* Proofs about the programs that look into recordings: the credential scan*)
(* and the check of the member names.                                      *)
(*                                                                         *)
(* Both compute with recursive definitions, about which the lemmas are     *)
(* proved by induction over the set of the numbers a statement is true of. *)
(***************************************************************************)
EXTENDS CredentialScan, MemberNames, SequenceTheorems, WellFoundedInduction, TLAPS

\* Induction over a set: for a statement about numbers, the set of those it is
\* true of.
LEMMA InductionOverSet ==
    ASSUME NEW S, 0 \in S, \A n \in Nat : n \in S => n + 1 \in S
    PROVE  Nat \subseteq S
<1> DEFINE T == Nat \ S
           R == OpToRel(<, Nat)
<1>1. SUFFICES ASSUME T # {} PROVE FALSE
  OBVIOUS
<1>2. IsWellFoundedOn(R, Nat)
  BY NatLessThanWellFounded
<1>3. PICK x \in T : \A y \in T : <<y, x>> \notin R
  <2> HIDE DEF R
  <2>1. T \subseteq Nat
    OBVIOUS
  <2> HIDE DEF T
  <2> QED BY <1>1, <1>2, <2>1, WFMin
<1>4. x \in Nat /\ x # 0
  OBVIOUS
<1>5. x - 1 \in Nat /\ x - 1 \notin S
  <2>1. x - 1 \in Nat /\ x = (x - 1) + 1
    BY <1>4
  <2> QED BY <1>4, <2>1
<1>6. <<x - 1, x>> \in R
  BY <1>4, <1>5 DEF OpToRel
<1> QED BY <1>3, <1>5, <1>6

\* A set of numbers that is not empty has a least one.
LEMMA LeastOf ==
    ASSUME NEW T \in SUBSET Nat, T # {}
    PROVE  \E n \in T : \A k \in T : n <= k
<1> DEFINE S == {n \in Nat : \A k \in 0 .. n : k \notin T}
<1>1. SUFFICES ASSUME \A n \in T : \E k \in T : k < n PROVE FALSE
  OBVIOUS
<1>2. 0 \in S
  BY <1>1
<1>3. \A n \in Nat : n \in S => n + 1 \in S
  BY <1>1
<1> HIDE DEF S
<1>4. Nat \subseteq S
  BY <1>2, <1>3, InductionOverSet
<1>5. ASSUME NEW n \in T PROVE FALSE
  <2>1. n \in Nat /\ n \in 0 .. n
    OBVIOUS
  <2> QED BY <1>4, <2>1 DEF S
<1> QED BY <1>5

-----------------------------------------------------------------------------
(* CredentialScan: matching, place by place.                               *)

Word == Seq(Chars) \ {<<>>}

\* A piece of a text.
LEMMA PieceOf ==
    ASSUME NEW t \in Seq(Chars), NEW p \in 1 .. Len(t) + 1, NEW q \in 0 .. Len(t)
    PROVE  /\ SubSeq(t, p, q) \in Seq(Chars)
           /\ Len(SubSeq(t, p, q)) = IF p <= q THEN q - p + 1 ELSE 0
           /\ \A k \in 1 .. q - p + 1 : SubSeq(t, p, q)[k] = t[p + k - 1]
<1>1. \A k \in p .. q : t[k] \in Chars
  OBVIOUS
<1> QED BY <1>1, SubSeqProperties

LEMMA AtIs ==
    ASSUME NEW t \in Seq(Chars), NEW p \in 1 .. Len(t) + 1, NEW word \in Seq(Chars)
    PROVE  At(t, p, word) <=> /\ p + Len(word) - 1 <= Len(t)
                              /\ \A k \in 1 .. Len(word) : t[p + k - 1] = word[k]
<1> DEFINE q == p + Len(word) - 1
           w == SubSeq(t, p, q)
<1>1. Len(word) \in Nat /\ Len(t) \in Nat /\ q \in Nat
  OBVIOUS
<1>2. ASSUME q <= Len(t)
      PROVE  w \in Seq(Chars) /\ Len(w) = Len(word) /\ \A k \in 1 .. Len(word) : w[k] = t[p + k - 1]
  BY <1>1, <1>2, PieceOf
<1>3. ASSUME q <= Len(t), w = word PROVE \A k \in 1 .. Len(word) : t[p + k - 1] = word[k]
  BY <1>2, <1>3
<1>4. ASSUME q <= Len(t), \A k \in 1 .. Len(word) : t[p + k - 1] = word[k] PROVE w = word
  <2> HIDE DEF w
  <2>1. w \in Seq(Chars) /\ Len(w) = Len(word) /\ \A k \in 1 .. Len(w) : w[k] = word[k]
    BY <1>2, <1>4
  <2> QED BY <2>1, SeqEqual
<1> QED BY <1>3, <1>4 DEF At

\* Run counts the characters of a class that stand from p on.
LEMMA RunIs ==
    ASSUME NEW t \in Seq(Chars), NEW p \in 1 .. Len(t) + 1, NEW class
    PROVE  /\ Run(t, p, class) \in Nat /\ p + Run(t, p, class) <= Len(t) + 1
           /\ \A k \in 0 .. Run(t, p, class) - 1 : t[p + k] \in class
           /\ p + Run(t, p, class) > Len(t) \/ t[p + Run(t, p, class)] \notin class
<1> DEFINE T == {n \in Nat : p + n > Len(t) \/ t[p + n] \notin class}
           Good(n) == /\ \A k \in 0 .. n - 1 : p + k <= Len(t) /\ t[p + k] \in class
                      /\ p + n > Len(t) \/ t[p + n] \notin class
           r == CHOOSE n \in 0 .. Len(t) : Good(n)
<1>0. Len(t) \in Nat
  OBVIOUS
<1>1. Len(t) + 1 - p \in T
  BY <1>0
<1>2. PICK n \in T : \A k \in T : n <= k
  <2> HIDE DEF T
  <2>1. T \in SUBSET Nat
    BY DEF T
  <2> QED BY <1>1, <2>1, LeastOf
<1>3. n \in Nat /\ p + n <= Len(t) + 1 /\ n \in 0 .. Len(t)
  BY <1>0, <1>1, <1>2
<1>4. ASSUME NEW k \in 0 .. n - 1 PROVE p + k <= Len(t) /\ t[p + k] \in class
  <2>1. k \in Nat /\ k \notin T
    BY <1>2, <1>3
  <2> QED BY <1>0, <2>1
<1>5. Good(n)
  BY <1>2, <1>4
<1>6. r \in 0 .. Len(t) /\ Good(r)
  <2> HIDE DEF Good
  <2> QED BY <1>3, <1>5
<1>7. Run(t, p, class) = r
  BY DEF Run
<1> HIDE DEF r
<1>8. p + r <= Len(t) + 1
  <2>1. CASE r = 0
    BY <1>0, <2>1
  <2>2. CASE r # 0
    <3>1. r - 1 \in 0 .. r - 1
      BY <1>6, <1>0, <2>2
    <3> QED BY <1>0, <1>6, <3>1
  <2> QED BY <2>1, <2>2
<1>9. \A k \in 0 .. r - 1 : t[p + k] \in class
  BY <1>6
<1>10. p + r > Len(t) \/ t[p + r] \notin class
  BY <1>6
<1> HIDE DEF Good
<1> QED BY <1>0, <1>6, <1>7, <1>8, <1>9, <1>10

\* So many characters of a class stand from p on.
Follow(t, p, m, class) == p + m - 1 <= Len(t) /\ \A k \in 0 .. m - 1 : t[p + k] \in class

LEMMA RunAtLeast ==
    ASSUME NEW t \in Seq(Chars), NEW p \in 1 .. Len(t) + 1, NEW class, NEW m \in Nat
    PROVE  Run(t, p, class) >= m <=> Follow(t, p, m, class)
<1> DEFINE r == Run(t, p, class)
<1>0. Len(t) \in Nat
  OBVIOUS
<1>1. /\ r \in Nat /\ p + r <= Len(t) + 1 /\ \A k \in 0 .. r - 1 : t[p + k] \in class
      /\ p + r > Len(t) \/ t[p + r] \notin class
  BY RunIs
<1> HIDE DEF r
<1>2. ASSUME r >= m PROVE Follow(t, p, m, class)
  BY <1>0, <1>1, <1>2 DEF Follow
<1>3. ASSUME Follow(t, p, m, class), r < m PROVE FALSE
  <2>1. r \in 0 .. m - 1 /\ p + r <= Len(t)
    BY <1>0, <1>1, <1>3 DEF Follow
  <2> QED BY <1>1, <1>3, <2>1 DEF Follow
<1> QED BY <1>1, <1>2, <1>3 DEF r

-----------------------------------------------------------------------------
(* A pattern is found at a place exactly when a word that begins there is  *)
(* one that is documented.                                                 *)

LEMMA DocumentedIs ==
    ASSUME NEW t \in Seq(Chars), NEW p \in 1 .. Len(t), NEW q \in p .. Len(t),
           NEW word \in Word, NEW class, NEW least \in Nat
    PROVE  Documented(SubSeq(t, p, q), word, class, least) <=>
            /\ At(t, p, word) /\ q = p + Len(word) + least - 1
            /\ Follow(t, p + Len(word), least, class)
<1> DEFINE w == SubSeq(t, p, q)
<1>0. Len(t) \in Nat /\ Len(word) \in Nat /\ Len(word) > 0 /\ word \in Seq(Chars)
  BY DEF Word
<1>1. w \in Seq(Chars) /\ Len(w) = q - p + 1 /\ \A k \in 1 .. Len(w) : w[k] = t[p + k - 1]
  BY <1>0, PieceOf
<1>2. ASSUME NEW k \in 0 .. Len(w)
      PROVE  /\ SubSeq(w, 1, k) = word <=> k = Len(word) /\ At(t, p, word)
             /\ All(SubSeq(w, k + 1, Len(w)), class) <=> \A l \in k + 1 .. Len(w) : t[p + l - 1] \in class
  <2> HIDE DEF w
  <2>1. /\ SubSeq(w, 1, k) \in Seq(Chars) /\ Len(SubSeq(w, 1, k)) = k
        /\ \A l \in 1 .. k : SubSeq(w, 1, k)[l] = t[p + l - 1]
    <3>1. Len(w) \in Nat /\ 1 \in 1 .. Len(w) + 1 /\ k \in Nat /\ k - 1 + 1 = k
      BY <1>1
    <3>2. /\ SubSeq(w, 1, k) \in Seq(Chars) /\ Len(SubSeq(w, 1, k)) = k
          /\ \A l \in 1 .. k : SubSeq(w, 1, k)[l] = w[1 + l - 1]
      BY <1>1, <3>1, PieceOf
    <3>3. \A l \in 1 .. k : l \in 1 .. Len(w) /\ 1 + l - 1 = l
      BY <3>1
    <3> QED BY <1>1, <3>2, <3>3
  <2>2. At(t, p, word) <=> /\ p + Len(word) - 1 <= Len(t)
                           /\ \A l \in 1 .. Len(word) : t[p + l - 1] = word[l]
    <3>1. p \in 1 .. Len(t) + 1
      BY <1>0
    <3> QED BY <1>0, <3>1, AtIs
  <2>3. ASSUME SubSeq(w, 1, k) = word PROVE k = Len(word) /\ At(t, p, word)
    <3>1. k = Len(word) /\ \A l \in 1 .. k : word[l] = t[p + l - 1]
      BY <2>1, <2>3
    <3>2. Len(w) \in Nat /\ p + k - 1 <= Len(t)
      BY <1>0, <1>1
    <3> QED BY <2>2, <3>1, <3>2
  <2>4. ASSUME k = Len(word), At(t, p, word) PROVE SubSeq(w, 1, k) = word
    BY <1>0, <2>1, <2>2, <2>4, SeqEqual
  <2> DEFINE v == SubSeq(w, k + 1, Len(w))
  <2>5. v \in Seq(Chars) /\ Len(v) = Len(w) - k /\ \A l \in 1 .. Len(w) - k : v[l] = w[k + l]
    <3>1. Len(w) \in Nat /\ Len(w) \in 0 .. Len(w) /\ k + 1 \in 1 .. Len(w) + 1
      BY <1>0, <1>1
    <3> QED BY <1>1, <3>1, PieceOf
  <2> HIDE DEF v
  <2>6. All(v, class) <=> \A l \in 1 .. Len(w) - k : v[l] \in class
    BY <2>5 DEF All, ToSet
  <2>7. (\A l \in 1 .. Len(w) - k : v[l] \in class) <=> \A l \in k + 1 .. Len(w) : t[p + l - 1] \in class
    <3>1. ASSUME \A l \in 1 .. Len(w) - k : v[l] \in class, NEW l \in k + 1 .. Len(w) PROVE t[p + l - 1] \in class
      <4>1. l - k \in 1 .. Len(w) - k /\ k + (l - k) = l /\ l \in 1 .. Len(w)
        BY <1>0, <1>1
      <4> QED BY <1>1, <2>5, <3>1, <4>1
    <3>2. ASSUME \A l \in k + 1 .. Len(w) : t[p + l - 1] \in class, NEW l \in 1 .. Len(w) - k PROVE v[l] \in class
      <4>1. k + l \in k + 1 .. Len(w) /\ k + l \in 1 .. Len(w)
        BY <1>0, <1>1
      <4> QED BY <1>1, <2>5, <3>2, <4>1
    <3> QED BY <3>1, <3>2
  <2> QED BY <2>3, <2>4, <2>6, <2>7 DEF v
<1>3. ASSUME Documented(w, word, class, least)
      PROVE  At(t, p, word) /\ q = p + Len(word) + least - 1 /\ Follow(t, p + Len(word), least, class)
  <2>1. PICK k \in 0 .. Len(w) : /\ SubSeq(w, 1, k) = word /\ Len(w) - k = least
                                 /\ All(SubSeq(w, k + 1, Len(w)), class)
    BY <1>3 DEF Documented
  <2>2. k = Len(word) /\ At(t, p, word) /\ \A l \in k + 1 .. Len(w) : t[p + l - 1] \in class
    BY <1>2, <2>1
  <2> HIDE DEF w
  <2>3. q = p + Len(word) + least - 1
    BY <1>0, <1>1, <2>1, <2>2
  <2>4. ASSUME NEW n \in 0 .. least - 1 PROVE t[p + Len(word) + n] \in class
    <3>1. k + n + 1 \in k + 1 .. Len(w) /\ p + (k + n + 1) - 1 = p + Len(word) + n
      BY <1>0, <1>1, <2>1, <2>2
    <3> QED BY <2>2, <3>1
  <2> QED BY <1>0, <2>2, <2>3, <2>4 DEF Follow
<1>4. ASSUME At(t, p, word), q = p + Len(word) + least - 1, Follow(t, p + Len(word), least, class)
      PROVE  Documented(w, word, class, least)
  <2> DEFINE k == Len(word)
  <2>1. k \in 0 .. Len(w) /\ Len(w) - k = least
    BY <1>0, <1>1, <1>4
  <2>2. ASSUME NEW l \in k + 1 .. Len(w) PROVE t[p + l - 1] \in class
    <3>1. l - k - 1 \in 0 .. least - 1 /\ p + Len(word) + (l - k - 1) = p + l - 1
      BY <1>0, <1>1, <2>1
    <3> QED BY <1>4, <3>1 DEF Follow
  <2>3. SubSeq(w, 1, k) = word /\ All(SubSeq(w, k + 1, Len(w)), class)
    BY <1>2, <1>4, <2>1, <2>2
  <2> QED BY <2>1, <2>3 DEF Documented
<1> QED BY <1>3, <1>4

\* Behind a word that stands in a text there is a place of it, or its end.
LEMMA Behind ==
    ASSUME NEW t \in Seq(Chars), NEW p \in 1 .. Len(t) + 1, NEW word \in Seq(Chars), At(t, p, word)
    PROVE  p + Len(word) \in 1 .. Len(t) + 1
<1>0. Len(t) \in Nat /\ Len(word) \in Nat
  OBVIOUS
<1> QED BY <1>0, AtIs

\* Words that stand behind each other.
LEMMA AtConcat ==
    ASSUME NEW t \in Seq(Chars), NEW p \in 1 .. Len(t) + 1, NEW u \in Seq(Chars), NEW v \in Seq(Chars)
    PROVE  At(t, p, u \o v) <=> At(t, p, u) /\ p + Len(u) \in 1 .. Len(t) + 1 /\ At(t, p + Len(u), v)
<1> DEFINE uv == u \o v
<1>0. Len(t) \in Nat /\ Len(u) \in Nat /\ Len(v) \in Nat
  OBVIOUS
<1>1. /\ uv \in Seq(Chars) /\ Len(uv) = Len(u) + Len(v)
      /\ \A k \in 1 .. Len(u) + Len(v) : uv[k] = IF k <= Len(u) THEN u[k] ELSE v[k - Len(u)]
  BY ConcatProperties
<1> HIDE DEF uv
<1>2. At(t, p, uv) <=> /\ p + Len(uv) - 1 <= Len(t)
                       /\ \A k \in 1 .. Len(uv) : t[p + k - 1] = uv[k]
  BY <1>1, AtIs
<1>3. At(t, p, u) <=> /\ p + Len(u) - 1 <= Len(t)
                      /\ \A k \in 1 .. Len(u) : t[p + k - 1] = u[k]
  BY AtIs
<1>4. ASSUME p + Len(u) \in 1 .. Len(t) + 1
      PROVE  At(t, p + Len(u), v) <=> /\ p + Len(u) + Len(v) - 1 <= Len(t)
                                      /\ \A k \in 1 .. Len(v) : t[p + Len(u) + k - 1] = v[k]
  BY <1>4, AtIs
<1>5. ASSUME At(t, p, uv) PROVE At(t, p, u) /\ p + Len(u) \in 1 .. Len(t) + 1 /\ At(t, p + Len(u), v)
  <2>1. p + Len(u) + Len(v) - 1 <= Len(t) /\ \A k \in 1 .. Len(u) + Len(v) : t[p + k - 1] = uv[k]
    BY <1>0, <1>1, <1>2, <1>5
  <2>2. p + Len(u) \in 1 .. Len(t) + 1
    BY <1>0, <2>1
  <2>3. ASSUME NEW k \in 1 .. Len(u) PROVE t[p + k - 1] = u[k]
    <3>1. k \in 1 .. Len(u) + Len(v) /\ k <= Len(u)
      BY <1>0
    <3> QED BY <1>1, <2>1, <3>1
  <2>4. ASSUME NEW k \in 1 .. Len(v) PROVE t[p + Len(u) + k - 1] = v[k]
    <3>1. Len(u) + k \in 1 .. Len(u) + Len(v) /\ p + (Len(u) + k) - 1 = p + Len(u) + k - 1
          /\ ~(Len(u) + k <= Len(u)) /\ (Len(u) + k) - Len(u) = k
      BY <1>0
    <3> QED BY <1>1, <2>1, <3>1
  <2> QED BY <1>0, <1>3, <1>4, <2>1, <2>2, <2>3, <2>4
<1>6. ASSUME At(t, p, u), p + Len(u) \in 1 .. Len(t) + 1, At(t, p + Len(u), v) PROVE At(t, p, uv)
  <2>1. \A k \in 1 .. Len(u) : t[p + k - 1] = u[k]
    BY <1>3, <1>6
  <2>2. p + Len(u) + Len(v) - 1 <= Len(t) /\ \A k \in 1 .. Len(v) : t[p + Len(u) + k - 1] = v[k]
    BY <1>4, <1>6
  <2>3. ASSUME NEW k \in 1 .. Len(u) + Len(v) PROVE t[p + k - 1] = uv[k]
    <3>1. CASE k <= Len(u)
      BY <1>0, <1>1, <2>1, <3>1
    <3>2. CASE ~(k <= Len(u))
      <4>1. k - Len(u) \in 1 .. Len(v) /\ p + Len(u) + (k - Len(u)) - 1 = p + k - 1
        BY <1>0, <3>2
      <4> QED BY <1>1, <2>2, <3>2, <4>1
    <3> QED BY <3>1, <3>2
  <2> QED BY <1>0, <1>1, <1>2, <2>2, <2>3
<1> QED BY <1>5, <1>6 DEF uv

\* A word of characters of a class stands where so many follow.
LEMMA FollowIs ==
    ASSUME NEW t \in Seq(Chars), NEW p \in 1 .. Len(t) + 1, NEW class, NEW m \in Nat
    PROVE  Follow(t, p, m, class) <=> \E u \in Seq(Chars) : Len(u) = m /\ All(u, class) /\ At(t, p, u)
<1>0. Len(t) \in Nat
  OBVIOUS
<1>1. ASSUME NEW u \in Seq(Chars), Len(u) = m, All(u, class), At(t, p, u) PROVE Follow(t, p, m, class)
  <2>0. p + m - 1 <= Len(t) /\ \A k \in 1 .. m : t[p + k - 1] = u[k]
    BY <1>1, AtIs
  <2>1. p + m - 1 <= Len(t) /\ \A k \in 1 .. m : t[p + k - 1] = u[k] /\ u[k] \in class
    <3>1. DOMAIN u = 1 .. m
      BY <1>1
    <3> QED BY <1>1, <2>0, <3>1 DEF All, ToSet
  <2>2. ASSUME NEW k \in 0 .. m - 1 PROVE t[p + k] \in class
    <3>1. k + 1 \in 1 .. m /\ p + (k + 1) - 1 = p + k
      OBVIOUS
    <3> QED BY <2>1, <3>1
  <2> QED BY <2>1, <2>2 DEF Follow
<1>2. ASSUME Follow(t, p, m, class)
      PROVE  \E u \in Seq(Chars) : Len(u) = m /\ All(u, class) /\ At(t, p, u)
  <2> DEFINE q == p + m - 1
             u == SubSeq(t, p, q)
  <2>1. q \in 0 .. Len(t) /\ q - p + 1 = m
    BY <1>0, <1>2 DEF Follow
  <2>2. u \in Seq(Chars) /\ Len(u) = m /\ \A k \in 1 .. m : u[k] = t[p + k - 1]
    BY <1>0, <2>1, PieceOf
  <2>3. ASSUME NEW k \in 1 .. m PROVE u[k] \in class
    <3>1. k - 1 \in 0 .. m - 1 /\ p + (k - 1) = p + k - 1
      BY <1>0
    <3> QED BY <1>2, <2>2, <3>1 DEF Follow
  <2>4. All(u, class)
    <3> HIDE DEF u
    <3> QED BY <2>2, <2>3 DEF All, ToSet
  <2>5. At(t, p, u)
    BY <2>1, <2>2 DEF At
  <2> QED BY <2>2, <2>4, <2>5
<1> QED BY <1>1, <1>2

\* A piece of a text that is this word.
LEMMA PieceAt ==
    ASSUME NEW t \in Seq(Chars), NEW p \in 1 .. Len(t), NEW q \in p .. Len(t), NEW word \in Seq(Chars)
    PROVE  SubSeq(t, p, q) = word <=> q = p + Len(word) - 1 /\ At(t, p, word)
<1>0. Len(t) \in Nat /\ Len(word) \in Nat /\ p \in 1 .. Len(t) + 1 /\ q \in 0 .. Len(t)
  OBVIOUS
<1>1. Len(SubSeq(t, p, q)) = q - p + 1
  BY <1>0, PieceOf
<1>2. ASSUME SubSeq(t, p, q) = word PROVE q = p + Len(word) - 1
  BY <1>0, <1>1, <1>2
<1> QED BY <1>2 DEF At

\* A pattern's length at a place is a number, not 0 exactly when it is there.
LEMMA TokenTells ==
    ASSUME NEW t \in Seq(Chars), NEW p \in 1 .. Len(t), NEW word \in Word, NEW class, NEW least \in Nat
    PROVE  /\ Token(t, p, word, class, least) \in Nat
           /\ Token(t, p, word, class, least) # 0 <=>
                \E q \in p .. Len(t) : Documented(SubSeq(t, p, q), word, class, least)
<1> DEFINE n == Run(t, p + Len(word), class)
<1>0. Len(t) \in Nat /\ Len(word) \in Nat /\ Len(word) > 0 /\ p \in 1 .. Len(t) + 1 /\ word \in Seq(Chars)
  BY DEF Word
<1>1. ASSUME At(t, p, word)
      PROVE  /\ p + Len(word) \in 1 .. Len(t) + 1 /\ n \in Nat
             /\ n >= least <=> Follow(t, p + Len(word), least, class)
  <2>1. p + Len(word) \in 1 .. Len(t) + 1
    BY <1>0, <1>1, Behind
  <2> QED BY <2>1, RunIs, RunAtLeast
<1>2. Token(t, p, word, class, least) = IF At(t, p, word) /\ n >= least THEN Len(word) + n ELSE 0
  BY DEF Token
<1> HIDE DEF n
<1>3. /\ Token(t, p, word, class, least) \in Nat
      /\ Token(t, p, word, class, least) # 0 <=> At(t, p, word) /\ Follow(t, p + Len(word), least, class)
  BY <1>0, <1>1, <1>2
<1>4. ASSUME At(t, p, word), Follow(t, p + Len(word), least, class)
      PROVE  \E q \in p .. Len(t) : Documented(SubSeq(t, p, q), word, class, least)
  <2> DEFINE q == p + Len(word) + least - 1
  <2>1. q \in p .. Len(t)
    BY <1>0, <1>4 DEF Follow
  <2> QED BY <1>4, <2>1, DocumentedIs
<1>5. ASSUME NEW q \in p .. Len(t), Documented(SubSeq(t, p, q), word, class, least)
      PROVE  At(t, p, word) /\ Follow(t, p + Len(word), least, class)
  BY <1>5, DocumentedIs
<1> QED BY <1>3, <1>4, <1>5

LEMMA AwsTells ==
    ASSUME NEW t \in Seq(Chars), NEW p \in 1 .. Len(t)
    PROVE  /\ AwsKey(t, p) \in Nat
           /\ AwsKey(t, p) # 0 <=> \E q \in p .. Len(t) : DocumentedAws(t, p, q)
<1>0. Len(t) \in Nat /\ AwsLen \in Nat /\ \A w \in Aws : w \in Word /\ w \in Seq(Chars) /\ Len(w) \in Nat /\ Len(w) > 0
  BY CredentialAssumption DEF Word
<1> DEFINE Here(w) == /\ At(t, p, w)
                      /\ p = 1 \/ t[p - 1] \notin Alnum
                      /\ Run(t, p + Len(w), UpperDigit) = AwsLen
<1>1. AwsKey(t, p) \in Nat /\ (AwsKey(t, p) # 0 <=> \E w \in Aws : Here(w))
  <2> DEFINE first == CHOOSE w \in Aws : At(t, p, w)
  <2>1. AwsKey(t, p) = IF \E w \in Aws : Here(w) THEN Len(first) + AwsLen ELSE 0
    BY DEF AwsKey
  <2>2. (\E w \in Aws : Here(w)) => first \in Aws
    OBVIOUS
  <2> HIDE DEF Here, first
  <2> QED BY <1>0, <2>1, <2>2
<1>2. ASSUME NEW w \in Aws, NEW q \in p .. Len(t), At(t, p, w), q = p + Len(w) + AwsLen - 1
      PROVE  Run(t, p + Len(w), UpperDigit) = AwsLen <=>
                /\ Follow(t, p + Len(w), AwsLen, UpperDigit)
                /\ q < Len(t) => t[q + 1] \notin UpperDigit
  <2> DEFINE n == Run(t, p + Len(w), UpperDigit)
  <2>1. p + Len(w) \in 1 .. Len(t) + 1 /\ p + Len(w) + AwsLen = q + 1
    BY <1>0, <1>2
  <2>2. /\ n \in Nat /\ p + Len(w) + n <= Len(t) + 1
        /\ \A k \in 0 .. n - 1 : t[p + Len(w) + k] \in UpperDigit
        /\ p + Len(w) + n > Len(t) \/ t[p + Len(w) + n] \notin UpperDigit
    BY <2>1, RunIs
  <2>3. n >= AwsLen <=> Follow(t, p + Len(w), AwsLen, UpperDigit)
    BY <1>0, <2>1, RunAtLeast
  <2> HIDE DEF n
  <2>4. ASSUME n = AwsLen PROVE q < Len(t) => t[q + 1] \notin UpperDigit
    BY <1>0, <2>1, <2>2, <2>4
  <2>5. ASSUME n > AwsLen PROVE q < Len(t) /\ t[q + 1] \in UpperDigit
    <3>1. AwsLen \in 0 .. n - 1
      BY <1>0, <2>2, <2>5
    <3>2. t[p + Len(w) + AwsLen] \in UpperDigit
      BY <2>2, <3>1
    <3>3. t[q + 1] \in UpperDigit
      BY <2>1, <3>2
    <3>4. p + Len(w) \in Nat /\ p + Len(w) + AwsLen < p + Len(w) + n
      BY <1>0, <2>1, <2>2, <2>5
    <3> QED BY <1>0, <2>1, <2>2, <3>3, <3>4
  <2> QED BY <1>0, <2>2, <2>3, <2>4, <2>5 DEF n
<1>3. ASSUME NEW w \in Aws, Here(w) PROVE \E q \in p .. Len(t) : DocumentedAws(t, p, q)
  <2> DEFINE q == p + Len(w) + AwsLen - 1
  <2>1. p + Len(w) \in 1 .. Len(t) + 1
    <3>1. p \in 1 .. Len(t) + 1
      BY <1>0
    <3> QED BY <1>0, <1>3, <3>1, AtIs
  <2>2. Run(t, p + Len(w), UpperDigit) >= AwsLen
    BY <1>0, <1>3
  <2>3. Follow(t, p + Len(w), AwsLen, UpperDigit)
    BY <1>0, <2>1, <2>2, RunAtLeast
  <2>4. q \in p .. Len(t)
    BY <1>0, <2>3 DEF Follow
  <2>5. Documented(SubSeq(t, p, q), w, UpperDigit, AwsLen)
    BY <1>0, <1>3, <2>3, <2>4, DocumentedIs
  <2>6. q < Len(t) => t[q + 1] \notin UpperDigit
    BY <1>2, <1>3, <2>4
  <2> HIDE DEF q
  <2> QED BY <1>3, <2>4, <2>5, <2>6 DEF DocumentedAws
<1>4. ASSUME NEW q \in p .. Len(t), DocumentedAws(t, p, q) PROVE \E w \in Aws : Here(w)
  <2>1. PICK w \in Aws : Documented(SubSeq(t, p, q), w, UpperDigit, AwsLen)
    BY <1>4 DEF DocumentedAws
  <2>2. At(t, p, w) /\ q = p + Len(w) + AwsLen - 1 /\ Follow(t, p + Len(w), AwsLen, UpperDigit)
    BY <1>0, <2>1, DocumentedIs
  <2>3. Run(t, p + Len(w), UpperDigit) = AwsLen
    BY <1>2, <1>4, <2>2 DEF DocumentedAws
  <2> QED BY <1>4, <2>2, <2>3 DEF DocumentedAws
<1> HIDE DEF Here
<1> QED BY <1>1, <1>3, <1>4
\* The piece in the middle of three.
LEMMA MiddleOf ==
    ASSUME NEW x \in Seq(Chars), NEW y \in Seq(Chars), NEW z \in Seq(Chars)
    PROVE  SubSeq(x \o y \o z, Len(x) + 1, Len(x) + Len(y)) = y
<1> DEFINE w == (x \o y) \o z
           v == SubSeq(w, Len(x) + 1, Len(x) + Len(y))
<1>0. Len(x) \in Nat /\ Len(y) \in Nat /\ Len(z) \in Nat
  OBVIOUS
<1>1. /\ x \o y \in Seq(Chars) /\ Len(x \o y) = Len(x) + Len(y)
      /\ \A k \in 1 .. Len(x) + Len(y) : (x \o y)[k] = IF k <= Len(x) THEN x[k] ELSE y[k - Len(x)]
  BY ConcatProperties
<1>2. /\ w \in Seq(Chars) /\ Len(w) = Len(x) + Len(y) + Len(z)
      /\ \A k \in 1 .. Len(x) + Len(y) : w[k] = (x \o y)[k]
  BY <1>0, <1>1, ConcatProperties
<1> HIDE DEF w
<1>3. v \in Seq(Chars) /\ Len(v) = Len(y) /\ \A k \in 1 .. Len(y) : v[k] = w[Len(x) + k]
  <2>1. Len(w) \in Nat /\ Len(x) + 1 \in 1 .. Len(w) + 1 /\ Len(x) + Len(y) \in 0 .. Len(w)
    BY <1>0, <1>2
  <2> QED BY <1>0, <1>2, <2>1, PieceOf
<1> HIDE DEF v
<1>4. ASSUME NEW k \in 1 .. Len(y) PROVE v[k] = y[k]
  <2>1. Len(x) + k \in 1 .. Len(x) + Len(y) /\ ~(Len(x) + k <= Len(x)) /\ (Len(x) + k) - Len(x) = k
    BY <1>0
  <2> QED BY <1>1, <1>2, <1>3, <2>1
<1>5. v = y
  BY <1>3, <1>4, SeqEqual
<1> QED BY <1>5 DEF v, w

LEMMA PemIs ==
    ASSUME NEW t \in Seq(Chars), NEW p \in 1 .. Len(t), NEW q \in p .. Len(t)
    PROVE  DocumentedPem(SubSeq(t, p, q)) <=>
            \E m \in 0 .. PemLimit - 1 :
                /\ At(t, p, Begin) /\ p + Len(Begin) \in 1 .. Len(t) + 1
                /\ Follow(t, p + Len(Begin), m, PemChars)
                /\ p + Len(Begin) + m \in 1 .. Len(t) + 1
                /\ At(t, p + Len(Begin) + m, Private)
                /\ q = p + Len(Begin) + m + Len(Private) - 1
<1> DEFINE w == SubSeq(t, p, q)
           from == p + Len(Begin)
<1>0. /\ Len(t) \in Nat /\ p \in 1 .. Len(t) + 1 /\ Begin \in Seq(Chars) /\ Private \in Seq(Chars)
      /\ Len(Begin) \in Nat /\ Len(Private) \in Nat /\ PemLimit \in Nat
  BY CredentialAssumption
<1>1. w \in Seq(Chars) /\ Len(w) = q - p + 1
  BY <1>0, PieceOf
<1>2. ASSUME NEW u \in Seq(Chars)
      PROVE  w = Begin \o u \o Private <=>
                /\ At(t, p, Begin) /\ from \in 1 .. Len(t) + 1 /\ At(t, from, u)
                /\ from + Len(u) \in 1 .. Len(t) + 1 /\ At(t, from + Len(u), Private)
                /\ q = from + Len(u) + Len(Private) - 1
  <2>1. Begin \o u \in Seq(Chars) /\ Len(Begin \o u) = Len(Begin) + Len(u) /\ Len(u) \in Nat
    BY <1>0, ConcatProperties
  <2>2. Begin \o u \o Private \in Seq(Chars)
        /\ Len(Begin \o u \o Private) = Len(Begin) + Len(u) + Len(Private)
    BY <1>0, <2>1, ConcatProperties
  <2>3. w = Begin \o u \o Private <=>
            q = p + (Len(Begin) + Len(u) + Len(Private)) - 1 /\ At(t, p, Begin \o u \o Private)
    <3> DEFINE word == Begin \o u \o Private
    <3>1. word \in Seq(Chars) /\ Len(word) = Len(Begin) + Len(u) + Len(Private)
      BY <2>2
    <3> HIDE DEF word
    <3>2. w = word <=> q = p + Len(word) - 1 /\ At(t, p, word)
      BY <3>1, PieceAt
    <3>3. w = word <=> q = p + (Len(Begin) + Len(u) + Len(Private)) - 1 /\ At(t, p, word)
      BY <3>1, <3>2
    <3> QED BY <3>3 DEF word
  <2>4. At(t, p, Begin \o u \o Private) <=>
            At(t, p, Begin \o u) /\ p + (Len(Begin) + Len(u)) \in 1 .. Len(t) + 1
            /\ At(t, p + (Len(Begin) + Len(u)), Private)
    BY <1>0, <2>1, AtConcat
  <2>5. At(t, p, Begin \o u) <=> At(t, p, Begin) /\ from \in 1 .. Len(t) + 1 /\ At(t, from, u)
    BY <1>0, AtConcat
  <2>6. /\ p + (Len(Begin) + Len(u)) = from + Len(u)
        /\ p + (Len(Begin) + Len(u) + Len(Private)) - 1 = from + Len(u) + Len(Private) - 1
    BY <1>0, <2>1
  <2> HIDE DEF w, from
  <2> QED BY <2>3, <2>4, <2>5, <2>6
<1>3. ASSUME DocumentedPem(w)
      PROVE  \E m \in 0 .. PemLimit - 1 :
                /\ At(t, p, Begin) /\ from \in 1 .. Len(t) + 1 /\ Follow(t, from, m, PemChars)
                /\ from + m \in 1 .. Len(t) + 1 /\ At(t, from + m, Private)
                /\ q = from + m + Len(Private) - 1
  <2> DEFINE u(k) == SubSeq(w, Len(Begin) + 1, k)
  <2>1. PICK k \in 0 .. Len(w) : /\ w = Begin \o u(k) \o Private
                                 /\ Len(u(k)) < PemLimit /\ All(u(k), PemChars)
    BY <1>3 DEF DocumentedPem
  <2>2. u(k) \in Seq(Chars)
    BY <1>0, <1>1, SubSeqProperties
  <2> HIDE DEF u, w
  <2>3. /\ At(t, p, Begin) /\ from \in 1 .. Len(t) + 1 /\ At(t, from, u(k))
        /\ from + Len(u(k)) \in 1 .. Len(t) + 1 /\ At(t, from + Len(u(k)), Private)
        /\ q = from + Len(u(k)) + Len(Private) - 1
    BY <1>2, <2>1, <2>2
  <2> HIDE DEF from
  <2>4. Len(u(k)) \in 0 .. PemLimit - 1
    BY <1>0, <2>1, <2>2
  <2>5. Len(u(k)) \in Nat
    BY <2>2
  <2>6. Follow(t, from, Len(u(k)), PemChars)
    BY <2>1, <2>2, <2>3, <2>5, FollowIs
  <2> QED BY <2>3, <2>4, <2>6
<1>4. ASSUME NEW m \in 0 .. PemLimit - 1,
             At(t, p, Begin), from \in 1 .. Len(t) + 1, Follow(t, from, m, PemChars),
             from + m \in 1 .. Len(t) + 1, At(t, from + m, Private),
             q = from + m + Len(Private) - 1
      PROVE  DocumentedPem(w)
  <2>1. m \in Nat /\ m < PemLimit
    BY <1>0
  <2>2. PICK u \in Seq(Chars) : Len(u) = m /\ All(u, PemChars) /\ At(t, from, u)
    BY <1>4, <2>1, FollowIs
  <2>3. w = Begin \o u \o Private
    BY <1>2, <1>4, <2>2
  <2>4. SubSeq(w, Len(Begin) + 1, Len(Begin) + m) = u
    BY <1>0, <2>2, <2>3, MiddleOf
  <2>5. Len(Begin) + m \in 0 .. Len(w)
    BY <1>0, <1>1, <1>4, <2>1
  <2> HIDE DEF w
  <2> QED BY <2>1, <2>2, <2>3, <2>4, <2>5 DEF DocumentedPem
<1> QED BY <1>3, <1>4

LEMMA PemTells ==
    ASSUME NEW t \in Seq(Chars), NEW p \in 1 .. Len(t)
    PROVE  /\ PemKey(t, p) \in Nat
           /\ PemKey(t, p) # 0 <=> \E q \in p .. Len(t) : DocumentedPem(SubSeq(t, p, q))
<1> DEFINE from == p + Len(Begin)
           ends == {q \in from .. from + PemLimit - 1 :
                       At(t, q, Private) /\ \A k \in from .. q : t[k] \in PemChars}
           first == CHOOSE q \in ends : \A r \in ends : q <= r
<1>0. /\ Len(t) \in Nat /\ p \in 1 .. Len(t) + 1 /\ Begin \in Seq(Chars) /\ Private \in Seq(Chars)
      /\ Len(Begin) \in Nat /\ Len(Private) \in Nat /\ Len(Private) > 0 /\ PemLimit \in Nat
      /\ Private[1] \in PemChars /\ from \in Nat
  BY CredentialAssumption
<1>1. PemKey(t, p) = IF At(t, p, Begin) /\ ends # {} THEN first + Len(Private) - p ELSE 0
  BY DEF PemKey
<1>2. ends \in SUBSET Nat /\ \A q \in ends : q >= p
  BY <1>0
<1>3. ends # {} => first \in ends
  <2> HIDE DEF ends
  <2> QED BY <1>2, LeastOf
<1>4. PemKey(t, p) \in Nat /\ (PemKey(t, p) # 0 <=> At(t, p, Begin) /\ ends # {})
  <2> HIDE DEF ends, first, from
  <2>1. ends # {} => first \in Nat /\ first >= p
    BY <1>2, <1>3
  <2>2. CASE At(t, p, Begin) /\ ends # {}
    <3>1. PemKey(t, p) = first + Len(Private) - p
      BY <1>1, <2>2
    <3> QED BY <1>0, <2>1, <2>2, <3>1
  <2>3. CASE ~(At(t, p, Begin) /\ ends # {})
    <3>1. PemKey(t, p) = 0
      BY <1>1, <2>3
    <3> QED BY <2>3, <3>1
  <2> QED BY <2>2, <2>3
<1>5. ASSUME At(t, p, Begin), NEW r \in ends PROVE \E q \in p .. Len(t) : DocumentedPem(SubSeq(t, p, q))
  <2> DEFINE m == r - from
             q == r + Len(Private) - 1
  <2>1. from \in 1 .. Len(t) + 1
    BY <1>0, <1>5, Behind
  <2>2. q <= Len(t)
    BY DEF At
  <2>3. m \in 0 .. PemLimit - 1 /\ from + m = r /\ q \in p .. Len(t) /\ r \in 1 .. Len(t) + 1
        /\ q = from + m + Len(Private) - 1
    BY <1>0, <2>1, <2>2
  <2>4. ASSUME NEW k \in 0 .. m - 1 PROVE t[from + k] \in PemChars
    <3>1. from + k \in from .. r
      BY <1>0
    <3> QED BY <3>1
  <2>5. Follow(t, from, m, PemChars)
    BY <1>0, <2>3, <2>4 DEF Follow
  <2>6. At(t, from + m, Private)
    BY <2>3
  <2> HIDE DEF m, q, from, ends
  <2> QED BY <1>5, <2>1, <2>3, <2>5, <2>6, PemIs DEF from
<1>6. ASSUME NEW q \in p .. Len(t), DocumentedPem(SubSeq(t, p, q)) PROVE At(t, p, Begin) /\ ends # {}
  <2>1. PICK m \in 0 .. PemLimit - 1 :
                /\ At(t, p, Begin) /\ from \in 1 .. Len(t) + 1 /\ Follow(t, from, m, PemChars)
                /\ from + m \in 1 .. Len(t) + 1 /\ At(t, from + m, Private)
    BY <1>6, PemIs
  <2>2. t[from + m] = Private[1]
    <3>1. \A k \in 1 .. Len(Private) : t[from + m + k - 1] = Private[k]
      BY <1>0, <2>1, AtIs
    <3>2. 1 \in 1 .. Len(Private) /\ from + m + 1 - 1 = from + m
      BY <1>0
    <3> QED BY <3>1, <3>2
  <2>3. ASSUME NEW k \in from .. from + m PROVE t[k] \in PemChars
    <3>1. CASE k = from + m
      BY <1>0, <2>2, <3>1
    <3>2. CASE k # from + m
      <4>1. k - from \in 0 .. m - 1 /\ from + (k - from) = k
        BY <1>0, <3>2
      <4> QED BY <2>1, <4>1 DEF Follow
    <3> QED BY <3>1, <3>2
  <2>4. from + m \in from .. from + PemLimit - 1
    BY <1>0
  <2>5. from + m \in ends
    BY <2>1, <2>3, <2>4
  <2> QED BY <2>1, <2>5
<1> QED BY <1>4, <1>5, <1>6
\* Where an authorization header ends: so many blanks, a scheme, a space and the
\* credential.
HeaderAt(t, p, m, s) ==
    LET behind == p + Len(Auth)
        q == behind + m
        cred == q + Len(s) + 1
    IN  /\ At(t, p, Auth) /\ behind \in 1 .. Len(t) + 1 /\ Follow(t, behind, m, Blanks)
        /\ q \in 1 .. Len(t) + 1 /\ At(t, q, s \o <<Space>>)
        /\ cred \in 1 .. Len(t) + 1 /\ Follow(t, cred, MinCred, CredChars)

LEMMA HeaderFacts ==
    /\ Auth \in Seq(Chars) /\ Len(Auth) \in Nat /\ Len(Auth) > 0 /\ MinCred \in Nat
    /\ <<Space>> \in Seq(Chars) /\ Len(<<Space>>) = 1 /\ <<Space>>[1] = Space
    /\ Space \in Blanks /\ Space \in Chars
    /\ \A s \in Schemes : /\ s \in Seq(Chars) /\ Len(s) \in Nat /\ Len(s) > 0
                          /\ \A k \in 1 .. Len(s) : s[k] \notin Blanks
<1>1. \A s \in Schemes : s \in Seq(Chars) \ {<<>>} /\ \A k \in DOMAIN s : s[k] \notin Blanks
  BY CredentialAssumption
<1>2. Auth \in Seq(Chars) \ {<<>>} /\ MinCred \in Nat /\ Space \in Blanks /\ Space \in Chars
  BY CredentialAssumption
<1>3. \A s \in Seq(Chars) \ {<<>>} : Len(s) \in Nat /\ Len(s) > 0 /\ DOMAIN s = 1 .. Len(s)
  OBVIOUS
<1> QED BY <1>1, <1>2, <1>3

\* A scheme and a space at a place of a text.
LEMMA SchemeAt ==
    ASSUME NEW t \in Seq(Chars), NEW q \in 1 .. Len(t) + 1, NEW s \in Schemes
    PROVE  At(t, q, s \o <<Space>>) <=>
            /\ q + Len(s) <= Len(t)
            /\ \A k \in 1 .. Len(s) : t[q + k - 1] = s[k]
            /\ t[q + Len(s)] = Space
<1> DEFINE w == s \o <<Space>>
<1>0. Len(t) \in Nat /\ s \in Seq(Chars) /\ Len(s) \in Nat
  BY HeaderFacts
<1>1. /\ w \in Seq(Chars) /\ Len(w) = Len(s) + 1
      /\ \A k \in 1 .. Len(s) : w[k] = s[k]
      /\ w[Len(s) + 1] = Space
  BY <1>0, HeaderFacts, ConcatProperties
<1> HIDE DEF w
<1>2. At(t, q, w) <=> q + Len(w) - 1 <= Len(t) /\ \A k \in 1 .. Len(w) : t[q + k - 1] = w[k]
  BY <1>1, AtIs
<1>3. ASSUME \A k \in 1 .. Len(w) : t[q + k - 1] = w[k]
      PROVE  /\ \A k \in 1 .. Len(s) : t[q + k - 1] = s[k]
             /\ t[q + Len(s)] = Space
  <2>1. Len(s) + 1 \in 1 .. Len(w) /\ q + (Len(s) + 1) - 1 = q + Len(s)
    BY <1>0, <1>1
  <2>2. t[q + Len(s)] = Space
    BY <1>1, <1>3, <2>1
  <2>3. \A k \in 1 .. Len(s) : k \in 1 .. Len(w)
    BY <1>0, <1>1
  <2> QED BY <1>1, <1>3, <2>2, <2>3
<1>4. ASSUME \A k \in 1 .. Len(s) : t[q + k - 1] = s[k], t[q + Len(s)] = Space, NEW k \in 1 .. Len(w)
      PROVE  t[q + k - 1] = w[k]
  <2>1. CASE k \in 1 .. Len(s)
    BY <1>1, <1>4, <2>1
  <2>2. CASE k \notin 1 .. Len(s)
    <3>1. k = Len(s) + 1 /\ q + k - 1 = q + Len(s)
      <4>1. k \in Nat /\ 1 <= k /\ k <= Len(s) + 1
        BY <1>0, <1>1
      <4>2. k = Len(s) + 1
        BY <1>0, <2>2, <4>1
      <4> QED BY <1>0, <4>2
    <3> QED BY <1>1, <1>4, <3>1
  <2> QED BY <2>1, <2>2
<1> QED BY <1>0, <1>1, <1>2, <1>3, <1>4 DEF w

\* Of the schemes with a space behind them at most one length stands at a place.
LEMMA OneScheme ==
    ASSUME NEW t \in Seq(Chars), NEW q \in 1 .. Len(t) + 1, NEW s \in Schemes, NEW r \in Schemes,
           At(t, q, s \o <<Space>>), At(t, q, r \o <<Space>>)
    PROVE  Len(s) <= Len(r)
<1>0. Len(t) \in Nat /\ Len(s) \in Nat /\ Len(r) \in Nat
  BY HeaderFacts
<1>1. SUFFICES ASSUME Len(r) < Len(s) PROVE FALSE
  BY <1>0
<1>2. t[q + Len(r)] = Space
  BY SchemeAt
<1>3. \A k \in 1 .. Len(s) : t[q + k - 1] = s[k]
  BY SchemeAt
<1>4. Len(r) + 1 \in 1 .. Len(s) /\ q + (Len(r) + 1) - 1 = q + Len(r)
  BY <1>0, <1>1
<1>5. s[Len(r) + 1] = Space
  BY <1>2, <1>3, <1>4
<1> QED BY <1>4, <1>5, HeaderFacts

\* The provers lose themselves in \o: its associativity is used under a name.
Cat(x, y) == x \o y

LEMMA CatType ==
    ASSUME NEW x \in Seq(Chars), NEW y \in Seq(Chars)
    PROVE  Cat(x, y) \in Seq(Chars)
BY ConcatProperties DEF Cat

LEMMA CatJoins ==
    ASSUME NEW x \in Seq(Chars), NEW y \in Seq(Chars), NEW z \in Seq(Chars)
    PROVE  Cat(Cat(x, y), z) = Cat(x, Cat(y, z))
BY SMT, ConcatAssociative DEF Cat

LEMMA Joined ==
    ASSUME NEW a \in Seq(Chars), NEW u \in Seq(Chars), NEW s \in Seq(Chars),
           NEW o \in Seq(Chars), NEW c \in Seq(Chars)
    PROVE  /\ Cat(Cat(Cat(Cat(a, u), s), o), c) = Cat(Cat(Cat(a, u), Cat(s, o)), c)
           /\ Cat(Cat(Cat(Cat(a, u), s), o), c) = Cat(Cat(a, u), Cat(Cat(s, o), c))
           /\ Cat(Cat(Cat(Cat(a, u), s), o), c) = Cat(a, Cat(u, Cat(Cat(s, o), c)))
<1>1. Cat(Cat(Cat(a, u), s), o) = Cat(Cat(a, u), Cat(s, o))
  BY CatType, CatJoins
<1>2. Cat(Cat(Cat(a, u), Cat(s, o)), c) = Cat(Cat(a, u), Cat(Cat(s, o), c))
  BY CatType, CatJoins
<1>3. Cat(Cat(a, u), Cat(Cat(s, o), c)) = Cat(a, Cat(u, Cat(Cat(s, o), c)))
  BY CatType, CatJoins
<1>4. Cat(Cat(Cat(Cat(a, u), s), o), c) = Cat(Cat(Cat(a, u), Cat(s, o)), c)
  BY <1>1
<1> QED BY <1>1, <1>2, <1>3, <1>4

\* The beginning and the rest of a text that is joined from both.
LEMMA PartsOf ==
    ASSUME NEW x \in Seq(Chars), NEW y \in Seq(Chars)
    PROVE  /\ x \o y \in Seq(Chars) /\ Len(x \o y) = Len(x) + Len(y)
           /\ SubSeq(x \o y, 1, Len(x)) = x
           /\ SubSeq(x \o y, Len(x) + 1, Len(x \o y)) = y
<1>0. <<>> \in Seq(Chars) /\ Len(<<>>) = 0 /\ Len(x) \in Nat /\ Len(y) \in Nat
  OBVIOUS
<1>1. x \o y \in Seq(Chars) /\ Len(x \o y) = Len(x) + Len(y)
  BY ConcatProperties
<1>2. <<>> \o x = x /\ x \o y \o <<>> = x \o y
  BY <1>1, ConcatEmptySeq
<1>3. SubSeq(x \o y, 1, Len(x)) = x
  <2>1. SubSeq(<<>> \o x \o y, Len(<<>>) + 1, Len(<<>>) + Len(x)) = x
    BY <1>0, MiddleOf
  <2> QED BY <1>0, <1>2, <2>1
<1>4. SubSeq(x \o y, Len(x) + 1, Len(x \o y)) = y
  <2>1. SubSeq(x \o y \o <<>>, Len(x) + 1, Len(x) + Len(y)) = y
    BY <1>0, MiddleOf
  <2> QED BY <1>1, <1>2, <2>1
<1> QED BY <1>1, <1>3, <1>4

LEMMA HeaderIs ==
    ASSUME NEW t \in Seq(Chars), NEW p \in 1 .. Len(t), NEW q \in p .. Len(t)
    PROVE  DocumentedHeader(SubSeq(t, p, q)) <=>
            \E s \in Schemes, m \in Nat :
                HeaderAt(t, p, m, s) /\ q = p + Len(Auth) + m + Len(s) + MinCred
<1> DEFINE w == SubSeq(t, p, q)
           whole(u, s, c) == Auth \o u \o s \o <<Space>> \o c
<1>0. Len(t) \in Nat /\ p \in 1 .. Len(t) + 1
  OBVIOUS
<1>1. w \in Seq(Chars) /\ Len(w) = q - p + 1 /\ Len(w) \in Nat
  BY <1>0, PieceOf
<1>2. ASSUME NEW u \in Seq(Chars), NEW s \in Schemes, NEW c \in Seq(Chars)
      PROVE  /\ Len(whole(u, s, c)) = Len(Auth) + Len(u) + Len(s) + 1 + Len(c)
             /\ SubSeq(whole(u, s, c), Len(Auth) + 1, Len(Auth) + Len(u)) = u
             /\ SubSeq(whole(u, s, c), Len(Auth) + Len(u) + Len(s) + 2, Len(whole(u, s, c))) = c
             /\ SubSeq(whole(u, s, c), 1, Len(Auth)) = Auth
             /\ w = whole(u, s, c) <=>
                LET behind == p + Len(Auth)
                    mid == behind + Len(u)
                    cred == mid + Len(s) + 1
                IN  /\ At(t, p, Auth) /\ behind \in 1 .. Len(t) + 1 /\ At(t, behind, u)
                    /\ mid \in 1 .. Len(t) + 1 /\ At(t, mid, s \o <<Space>>)
                    /\ cred \in 1 .. Len(t) + 1 /\ At(t, cred, c)
                    /\ q = cred + Len(c) - 1
  <2> DEFINE S == s \o <<Space>>
             X == Auth \o u
             Y == X \o S
             W == Y \o c
  <2>0. Auth \in Seq(Chars) /\ s \in Seq(Chars) /\ <<Space>> \in Seq(Chars) /\ Len(<<Space>>) = 1
        /\ Len(Auth) \in Nat /\ Len(u) \in Nat /\ Len(s) \in Nat /\ Len(c) \in Nat
    BY HeaderFacts
  <2>1. S \in Seq(Chars) /\ Len(S) = Len(s) + 1
    BY <2>0, PartsOf
  <2>2. X \in Seq(Chars) /\ Len(X) = Len(Auth) + Len(u)
    BY <2>0, PartsOf
  <2>3. /\ whole(u, s, c) = X \o S \o c
        /\ whole(u, s, c) = X \o (S \o c)
        /\ whole(u, s, c) = Auth \o (u \o (S \o c))
    <3> DEFINE one == <<Space>>
    <3>1. one \in Seq(Chars) /\ Auth \in Seq(Chars) /\ s \in Seq(Chars)
      BY <2>0
    <3> HIDE DEF one
    <3> DEFINE all == Cat(Cat(Cat(Cat(Auth, u), s), one), c)
    <3>2. /\ all = Cat(Cat(Cat(Auth, u), Cat(s, one)), c)
          /\ all = Cat(Cat(Auth, u), Cat(Cat(s, one), c))
          /\ all = Cat(Auth, Cat(u, Cat(Cat(s, one), c)))
      BY <3>1, Joined
    <3> QED BY <3>2 DEF one, Cat
  <2>4. Y \in Seq(Chars) /\ Len(Y) = Len(Auth) + Len(u) + Len(s) + 1
    <3> HIDE DEF S, X
    <3>1. Y \in Seq(Chars) /\ Len(Y) = Len(X) + Len(S)
      BY <2>1, <2>2, PartsOf
    <3> QED BY <2>0, <2>1, <2>2, <3>1
  <2>5. W = whole(u, s, c)
    BY <2>3
  <2>6. /\ W \in Seq(Chars) /\ Len(W) = Len(Y) + Len(c)
        /\ SubSeq(W, Len(Y) + 1, Len(W)) = c
    <3> HIDE DEF Y
    <3> QED BY <2>4, PartsOf
  <2>7. /\ SubSeq(W, Len(Auth) + 1, Len(Auth) + Len(u)) = u
        /\ SubSeq(W, 1, Len(Auth)) = Auth
    <3> DEFINE Z == S \o c
    <3>1. W = Auth \o u \o Z /\ W = Auth \o (u \o Z)
      BY <2>3
    <3>2. Z \in Seq(Chars)
      BY <2>1, PartsOf
    <3> HIDE DEF Z, W
    <3>3. u \o Z \in Seq(Chars)
      BY <3>2, PartsOf
    <3>4. SubSeq(W, Len(Auth) + 1, Len(Auth) + Len(u)) = u
      BY <2>0, <3>1, <3>2, MiddleOf
    <3> DEFINE R == u \o Z
    <3> HIDE DEF R
    <3>5. SubSeq(Auth \o R, 1, Len(Auth)) = Auth
      BY <2>0, <3>3, PartsOf DEF R
    <3> QED BY <3>1, <3>4, <3>5 DEF R
  <2>8. w = W <=> q = p + Len(W) - 1 /\ At(t, p, W)
    <3> HIDE DEF W, w
    <3>1. W \in Seq(Chars)
      BY <2>6
    <3> QED BY <3>1, PieceAt DEF w
  <2>9. At(t, p, W) <=> At(t, p, Y) /\ p + Len(Y) \in 1 .. Len(t) + 1 /\ At(t, p + Len(Y), c)
    <3> HIDE DEF Y
    <3> QED BY <1>0, <2>4, AtConcat
  <2>10. At(t, p, Y) <=> At(t, p, X) /\ p + Len(X) \in 1 .. Len(t) + 1 /\ At(t, p + Len(X), S)
    <3> HIDE DEF X, S
    <3> QED BY <1>0, <2>1, <2>2, AtConcat
  <2>11. At(t, p, X) <=> At(t, p, Auth) /\ p + Len(Auth) \in 1 .. Len(t) + 1 /\ At(t, p + Len(Auth), u)
    BY <1>0, <2>0, AtConcat
  <2>12. /\ p + Len(X) = p + Len(Auth) + Len(u) /\ p + Len(Y) = p + Len(Auth) + Len(u) + Len(s) + 1
         /\ p + Len(W) - 1 = p + Len(Auth) + Len(u) + Len(s) + 1 + Len(c) - 1
         /\ Len(W) = Len(Auth) + Len(u) + Len(s) + 1 + Len(c)
         /\ Len(Y) + 1 = Len(Auth) + Len(u) + Len(s) + 2
    <3> HIDE DEF W, X, Y
    <3> QED BY <2>0, <2>2, <2>4, <2>6
  <2> HIDE DEF W, X, Y, w
  <2>13. w = W <=>
                LET behind == p + Len(Auth)
                    mid == behind + Len(u)
                    cred == mid + Len(s) + 1
                IN  /\ At(t, p, Auth) /\ behind \in 1 .. Len(t) + 1 /\ At(t, behind, u)
                    /\ mid \in 1 .. Len(t) + 1 /\ At(t, mid, S)
                    /\ cred \in 1 .. Len(t) + 1 /\ At(t, cred, c)
                    /\ q = cred + Len(c) - 1
    BY <2>8, <2>9, <2>10, <2>11, <2>12
  <2> HIDE DEF whole
  <2> QED BY <2>5, <2>6, <2>7, <2>12, <2>13
<1>3. ASSUME DocumentedHeader(w)
      PROVE  \E s \in Schemes, m \in Nat :
                HeaderAt(t, p, m, s) /\ q = p + Len(Auth) + m + Len(s) + MinCred
  <2> DEFINE u(k, l) == SubSeq(w, k + 1, l)
             c(l, s) == SubSeq(w, l + Len(s) + 2, Len(w))
  <2>1. PICK s \in Schemes, k \in 0 .. Len(w), l \in 0 .. Len(w) :
            /\ SubSeq(w, 1, k) = Auth /\ All(u(k, l), Blanks)
            /\ w = whole(u(k, l), s, c(l, s))
            /\ Len(c(l, s)) = MinCred /\ All(c(l, s), CredChars)
    BY <1>3 DEF DocumentedHeader
  <2> HIDE DEF w
  <2>2. u(k, l) \in Seq(Chars) /\ c(l, s) \in Seq(Chars)
    <3>1. k + 1 \in 1 .. Len(w) + 1 /\ l \in 0 .. Len(w) /\ l + Len(s) + 2 \in Nat \ {0}
      BY <1>1, HeaderFacts
    <3>2. u(k, l) \in Seq(Chars)
      BY <1>1, <3>1, PieceOf
    <3>3. \A j \in l + Len(s) + 2 .. Len(w) : w[j] \in Chars
      BY <1>1, <3>1
    <3>4. c(l, s) \in Seq(Chars)
      BY <1>1, <3>1, <3>3, SubSeqProperties
    <3> QED BY <3>2, <3>4
  <2> HIDE DEF u, c, whole
  <2> DEFINE m == Len(u(k, l))
             behind == p + Len(Auth)
             mid == behind + m
             cred == mid + Len(s) + 1
  <2>3. /\ At(t, p, Auth) /\ behind \in 1 .. Len(t) + 1 /\ At(t, behind, u(k, l))
        /\ mid \in 1 .. Len(t) + 1 /\ At(t, mid, s \o <<Space>>)
        /\ cred \in 1 .. Len(t) + 1 /\ At(t, cred, c(l, s))
        /\ q = cred + Len(c(l, s)) - 1
    BY <1>2, <2>1, <2>2
  <2>4. m \in Nat
    BY <2>2
  <2> HIDE DEF m
  <2>5. Follow(t, behind, m, Blanks)
    BY <2>1, <2>2, <2>3, <2>4, FollowIs DEF m
  <2>6. Follow(t, cred, MinCred, CredChars)
    BY <2>1, <2>2, <2>3, HeaderFacts, FollowIs
  <2>7. q = p + Len(Auth) + m + Len(s) + MinCred
    <3>1. Len(s) \in Nat /\ MinCred \in Nat /\ Len(Auth) \in Nat /\ p \in Nat
      BY <1>0, HeaderFacts
    <3>2. q = cred + MinCred - 1
      BY <2>1, <2>3
    <3> QED BY <2>4, <3>1, <3>2
  <2> QED BY <2>3, <2>4, <2>5, <2>6, <2>7 DEF HeaderAt
<1>4. ASSUME NEW s \in Schemes, NEW m \in Nat,
             HeaderAt(t, p, m, s), q = p + Len(Auth) + m + Len(s) + MinCred
      PROVE  DocumentedHeader(w)
  <2> DEFINE behind == p + Len(Auth)
             mid == behind + m
             cred == mid + Len(s) + 1
  <2>1. /\ At(t, p, Auth) /\ behind \in 1 .. Len(t) + 1 /\ Follow(t, behind, m, Blanks)
        /\ mid \in 1 .. Len(t) + 1 /\ At(t, mid, s \o <<Space>>)
        /\ cred \in 1 .. Len(t) + 1 /\ Follow(t, cred, MinCred, CredChars)
    BY <1>4 DEF HeaderAt
  <2>2. PICK u \in Seq(Chars) : Len(u) = m /\ All(u, Blanks) /\ At(t, behind, u)
    BY <2>1, FollowIs
  <2>3. PICK c \in Seq(Chars) : Len(c) = MinCred /\ All(c, CredChars) /\ At(t, cred, c)
    BY <2>1, HeaderFacts, FollowIs
  <2>4. q = cred + MinCred - 1
    BY <1>0, <1>4, HeaderFacts
  <2> HIDE DEF w, whole
  <2>5. w = whole(u, s, c)
    BY <1>2, <2>1, <2>2, <2>3, <2>4
  <2>6. Len(w) = Len(Auth) + m + Len(s) + 1 + MinCred
    BY <1>2, <2>2, <2>3, <2>5
  <2> DEFINE k == Len(Auth)
             l == Len(Auth) + m
  <2>7. k \in 0 .. Len(w) /\ l \in 0 .. Len(w)
    BY <1>1, <2>6, HeaderFacts
  <2>8. /\ SubSeq(w, 1, k) = Auth /\ SubSeq(w, k + 1, l) = u
        /\ SubSeq(w, l + Len(s) + 2, Len(w)) = c
    <3>1. /\ SubSeq(w, Len(Auth) + 1, Len(Auth) + Len(u)) = u
          /\ SubSeq(w, Len(Auth) + Len(u) + Len(s) + 2, Len(w)) = c
          /\ SubSeq(w, 1, Len(Auth)) = Auth
      <4> DEFINE W == whole(u, s, c)
      <4>1. /\ SubSeq(W, Len(Auth) + 1, Len(Auth) + Len(u)) = u
            /\ SubSeq(W, Len(Auth) + Len(u) + Len(s) + 2, Len(W)) = c
            /\ SubSeq(W, 1, Len(Auth)) = Auth
        BY ZenonT(60), <1>2
      <4> HIDE DEF W
      <4>2. w = W
        BY <2>5 DEF W
      <4> QED BY <4>1, <4>2
    <3> QED BY <2>2, <3>1
  <2>9. w = Auth \o SubSeq(w, k + 1, l) \o s \o <<Space>> \o SubSeq(w, l + Len(s) + 2, Len(w))
    BY <2>5, <2>8 DEF whole
  <2> HIDE DEF k, l
  <2> QED BY <2>2, <2>3, <2>7, <2>8, <2>9 DEF DocumentedHeader
<1> QED BY <1>3, <1>4

LEMMA HeaderTells ==
    ASSUME NEW t \in Seq(Chars), NEW p \in 1 .. Len(t)
    PROVE  /\ Header(t, p) \in Nat
           /\ Header(t, p) # 0 <=> \E q \in p .. Len(t) : DocumentedHeader(SubSeq(t, p, q))
<1> DEFINE behind == p + Len(Auth)
           blanks == Run(t, behind, Blanks)
           q == behind + blanks
           schemes == {s \in Schemes : At(t, q, s \o <<Space>>)}
           first == CHOOSE s \in schemes : TRUE
           cred == q + Len(first) + 1
           n == Run(t, cred, CredChars)
           Found == At(t, p, Auth) /\ schemes # {} /\ n >= MinCred
<1>0. /\ Len(t) \in Nat /\ p \in 1 .. Len(t) + 1 /\ Auth \in Seq(Chars)
      /\ Len(Auth) \in Nat /\ Len(Auth) > 0 /\ MinCred \in Nat
  BY HeaderFacts
<1>1. Header(t, p) = IF Found THEN cred + n - p ELSE 0
  BY DEF Header
<1>2. ASSUME At(t, p, Auth)
      PROVE  /\ behind \in 1 .. Len(t) + 1 /\ blanks \in Nat /\ q \in 1 .. Len(t) + 1
             /\ Follow(t, behind, blanks, Blanks)
  <2>1. behind \in 1 .. Len(t) + 1
    BY <1>0, <1>2, Behind
  <2> HIDE DEF behind
  <2>2. blanks \in Nat /\ behind + blanks <= Len(t) + 1
    BY <2>1, RunIs
  <2>3. blanks >= blanks
    BY <2>2
  <2>4. Follow(t, behind, blanks, Blanks)
    BY <2>1, <2>2, <2>3, RunAtLeast
  <2> QED BY <1>0, <2>1, <2>2, <2>4
<1>3. ASSUME At(t, p, Auth), schemes # {}
      PROVE  /\ first \in Schemes /\ At(t, q, first \o <<Space>>)
             /\ Len(first) \in Nat /\ cred \in 1 .. Len(t) + 1 /\ n \in Nat
             /\ n >= MinCred <=> Follow(t, cred, MinCred, CredChars)
  <2>1. q \in 1 .. Len(t) + 1
    BY <1>2, <1>3
  <2> HIDE DEF q
  <2>2. first \in Schemes /\ At(t, q, first \o <<Space>>)
    <3>1. first \in schemes
      <4> HIDE DEF schemes
      <4> QED BY <1>3
    <3> HIDE DEF first
    <3> QED BY <3>1
  <2> HIDE DEF first
  <2>3. Len(first) \in Nat /\ q + Len(first) <= Len(t)
    BY <2>1, <2>2, HeaderFacts, SchemeAt
  <2>4. cred \in 1 .. Len(t) + 1
    BY <1>0, <2>1, <2>3
  <2> HIDE DEF cred
  <2> QED BY <1>0, <2>2, <2>3, <2>4, RunIs, RunAtLeast
<1>4. Header(t, p) \in Nat /\ (Header(t, p) # 0 <=> Found)
  <2>1. CASE Found
    <3>1. Header(t, p) = cred + n - p
      BY <1>1, <2>1
    <3>2. blanks \in Nat /\ Len(first) \in Nat /\ n \in Nat
      BY <1>2, <1>3, <2>1
    <3> HIDE DEF blanks, first, n, Found
    <3> QED BY <1>0, <2>1, <3>1, <3>2
  <2>2. CASE ~Found
    <3> HIDE DEF Found
    <3> QED BY <1>1, <2>2
  <2> QED BY <2>1, <2>2
<1>5. ASSUME Found PROVE \E s \in Schemes, m \in Nat : HeaderAt(t, p, m, s)
  <2>1. HeaderAt(t, p, blanks, first)
    BY <1>2, <1>3, <1>5 DEF HeaderAt
  <2> QED BY <1>2, <1>3, <1>5, <2>1
<1>6. ASSUME NEW s \in Schemes, NEW m \in Nat, HeaderAt(t, p, m, s) PROVE Found
  <2>0. Len(s) \in Nat /\ Len(s) > 0 /\ s[1] \notin Blanks
    BY HeaderFacts
  <2>1. /\ At(t, p, Auth) /\ behind \in 1 .. Len(t) + 1 /\ Follow(t, behind, m, Blanks)
        /\ behind + m \in 1 .. Len(t) + 1 /\ At(t, behind + m, s \o <<Space>>)
        /\ behind + m + Len(s) + 1 \in 1 .. Len(t) + 1
        /\ Follow(t, behind + m + Len(s) + 1, MinCred, CredChars)
    BY <1>6 DEF HeaderAt
  <2>2. blanks = m
    <3>1. /\ blanks \in Nat /\ \A k \in 0 .. blanks - 1 : t[behind + k] \in Blanks
          /\ blanks >= m
      BY <2>1, RunIs, RunAtLeast
    <3>2. t[behind + m] = s[1]
      <4>1. \A k \in 1 .. Len(s) : t[behind + m + k - 1] = s[k]
        BY <2>1, SchemeAt
      <4>2. 1 \in 1 .. Len(s) /\ behind + m + 1 - 1 = behind + m
        BY <1>0, <2>0
      <4> QED BY <4>1, <4>2
    <3> HIDE DEF blanks, behind
    <3>3. ASSUME blanks > m PROVE FALSE
      <4>1. m \in 0 .. blanks - 1
        BY <3>1, <3>3
      <4> QED BY <2>0, <3>1, <3>2, <4>1
    <3> QED BY <3>1, <3>3
  <2>3. s \in schemes
    BY <2>1, <2>2
  <2>4. /\ first \in Schemes /\ At(t, q, first \o <<Space>>) /\ Len(first) \in Nat
        /\ n >= MinCred <=> Follow(t, cred, MinCred, CredChars)
    BY <1>3, <2>1, <2>3
  <2>5. q = behind + m /\ q \in 1 .. Len(t) + 1
    BY <2>1, <2>2
  <2> HIDE DEF q, first
  <2>6. Len(first) = Len(s)
    <3>1. Len(first) <= Len(s) /\ Len(s) <= Len(first)
      BY <2>1, <2>4, <2>5, OneScheme
    <3> QED BY <2>0, <2>4, <3>1
  <2>7. cred = behind + m + Len(s) + 1
    BY <2>5, <2>6
  <2> HIDE DEF cred, n, schemes
  <2> QED BY <2>1, <2>3, <2>4, <2>7
<1> HIDE DEF Found
<1>7. ASSUME NEW s \in Schemes, NEW m \in Nat, HeaderAt(t, p, m, s)
      PROVE  \E r \in p .. Len(t) : DocumentedHeader(SubSeq(t, p, r))
  <2> DEFINE r == p + Len(Auth) + m + Len(s) + MinCred
  <2>1. behind + m + Len(s) + 1 \in 1 .. Len(t) + 1 /\ Follow(t, behind + m + Len(s) + 1, MinCred, CredChars)
    BY <1>7 DEF HeaderAt
  <2>2. Len(s) \in Nat
    BY HeaderFacts
  <2>3. r \in p .. Len(t)
    BY <1>0, <2>1, <2>2 DEF Follow
  <2> HIDE DEF r
  <2>4. DocumentedHeader(SubSeq(t, p, r))
    BY <1>7, <2>3, HeaderIs DEF r
  <2> QED BY <2>3, <2>4
<1>8. ASSUME NEW r \in p .. Len(t), DocumentedHeader(SubSeq(t, p, r))
      PROVE  \E s \in Schemes, m \in Nat : HeaderAt(t, p, m, s)
  BY <1>8, HeaderIs
<1> QED BY <1>4, <1>5, <1>6, <1>7, <1>8

-----------------------------------------------------------------------------
(* All the patterns.                                                       *)

LEMMA LiteralsAre ==
    /\ Gh \in Word /\ Pat \in Word /\ XAccess \in Word /\ Base64 \in Word
    /\ MinGh \in Nat /\ MinPat \in Nat /\ MinCred \in Nat
BY CredentialAssumption DEF Word

\* One of the documented patterns is in these places of a text.
Shown(t, p, q) ==
    LET w == SubSeq(t, p, q) IN
    \/ Documented(w, Gh, Alnum, MinGh)
    \/ Documented(w, Pat, TokenChars, MinPat)
    \/ DocumentedHeader(w)
    \/ DocumentedAws(t, p, q)
    \/ Documented(w, XAccess, CredChars, MinCred)
    \/ Documented(w, Base64, CredChars, 0)
    \/ DocumentedPem(w)

LEMMA MatchesTell ==
    ASSUME NEW t \in Seq(Chars), NEW p \in 1 .. Len(t)
    PROVE  /\ Matches(t, p) \subseteq Nat \ {0}
           /\ Matches(t, p) # {} <=> \E q \in p .. Len(t) : Shown(t, p, q)
<1> DEFINE W(q) == SubSeq(t, p, q)
           m1 == Token(t, p, Gh, Alnum, MinGh)
           m2 == Token(t, p, Pat, TokenChars, MinPat)
           m3 == Header(t, p)
           m4 == AwsKey(t, p)
           m5 == Token(t, p, XAccess, CredChars, MinCred)
           m6 == Token(t, p, Base64, CredChars, 0)
           m7 == PemKey(t, p)
           d1 == \E q \in p .. Len(t) : Documented(W(q), Gh, Alnum, MinGh)
           d2 == \E q \in p .. Len(t) : Documented(W(q), Pat, TokenChars, MinPat)
           d3 == \E q \in p .. Len(t) : DocumentedHeader(W(q))
           d4 == \E q \in p .. Len(t) : DocumentedAws(t, p, q)
           d5 == \E q \in p .. Len(t) : Documented(W(q), XAccess, CredChars, MinCred)
           d6 == \E q \in p .. Len(t) : Documented(W(q), Base64, CredChars, 0)
           d7 == \E q \in p .. Len(t) : DocumentedPem(W(q))
<1>1. m1 \in Nat /\ (m1 # 0 <=> d1)
  BY LiteralsAre, TokenTells
<1>2. m2 \in Nat /\ (m2 # 0 <=> d2)
  BY LiteralsAre, TokenTells
<1>3. m3 \in Nat /\ (m3 # 0 <=> d3)
  BY HeaderTells
<1>4. m4 \in Nat /\ (m4 # 0 <=> d4)
  BY AwsTells
<1>5. m5 \in Nat /\ (m5 # 0 <=> d5)
  BY LiteralsAre, TokenTells
<1>6. m6 \in Nat /\ (m6 # 0 <=> d6)
  BY LiteralsAre, TokenTells
<1>7. m7 \in Nat /\ (m7 # 0 <=> d7)
  BY PemTells
<1>8. (\E q \in p .. Len(t) : Shown(t, p, q)) <=> d1 \/ d2 \/ d3 \/ d4 \/ d5 \/ d6 \/ d7
  <2> DEFINE s1(q) == Documented(W(q), Gh, Alnum, MinGh)
             s2(q) == Documented(W(q), Pat, TokenChars, MinPat)
             s3(q) == DocumentedHeader(W(q))
             s4(q) == DocumentedAws(t, p, q)
             s5(q) == Documented(W(q), XAccess, CredChars, MinCred)
             s6(q) == Documented(W(q), Base64, CredChars, 0)
             s7(q) == DocumentedPem(W(q))
  <2>1. \A q : Shown(t, p, q) <=> s1(q) \/ s2(q) \/ s3(q) \/ s4(q) \/ s5(q) \/ s6(q) \/ s7(q)
    BY DEF Shown
  <2> HIDE DEF s1, s2, s3, s4, s5, s6, s7
  <2>2. (\E q \in p .. Len(t) : Shown(t, p, q)) <=>
            \/ \E q \in p .. Len(t) : s1(q)
            \/ \E q \in p .. Len(t) : s2(q)
            \/ \E q \in p .. Len(t) : s3(q)
            \/ \E q \in p .. Len(t) : s4(q)
            \/ \E q \in p .. Len(t) : s5(q)
            \/ \E q \in p .. Len(t) : s6(q)
            \/ \E q \in p .. Len(t) : s7(q)
    BY <2>1
  <2> QED BY <2>2 DEF s1, s2, s3, s4, s5, s6, s7
<1>9. Matches(t, p) = {m1, m2, m3, m4, m5, m6, m7} \ {0}
  BY DEF Matches
<1> HIDE DEF m1, m2, m3, m4, m5, m6, m7, d1, d2, d3, d4, d5, d6, d7
<1> QED BY <1>1, <1>2, <1>3, <1>4, <1>5, <1>6, <1>7, <1>8, <1>9

\* A text carries a documented pattern exactly when a pattern matches at a place.
LEMMA CarriesTells ==
    ASSUME NEW t \in Seq(Chars)
    PROVE  Carries(t) <=> \E p \in 1 .. Len(t) : Matches(t, p) # {}
<1>1. Carries(t) <=> \E p \in 1 .. Len(t) : \E q \in p .. Len(t) : Shown(t, p, q)
  BY DEF Carries, Shown
<1> QED BY <1>1, MatchesTell

LEMMA MatchedTells ==
    ASSUME NEW t \in Seq(Chars), NEW p \in 1 .. Len(t)
    PROVE  Matched(t, p) \in Nat /\ (Matched(t, p) = 0 <=> Matches(t, p) = {})
<1>1. Matches(t, p) \subseteq Nat \ {0}
  BY MatchesTell
<1>2. CASE Matches(t, p) = {}
  BY <1>2 DEF Matched
<1>3. CASE Matches(t, p) # {}
  <2>1. Matched(t, p) \in Matches(t, p)
    BY <1>3 DEF Matched
  <2> QED BY <1>1, <1>3, <2>1
<1> QED BY <1>2, <1>3

-----------------------------------------------------------------------------
(* The levels of a buffer's frames.                                        *)

Below(x) == ToSet(x.frames)

\* The first levels of a buffer as a function.
Levels(b, depth, f) ==
    f = [d \in 0 .. depth |-> IF d = 0 THEN {b} ELSE UNION {Below(x) : x \in f[d - 1]}]

LEMMA LevelsExist ==
    ASSUME NEW b, NEW depth \in Nat
    PROVE  \E f : Levels(b, depth, f)
<1> DEFINE S == {n \in Nat : \E f : Levels(b, n, f)}
<1>1. 0 \in S
  <2> DEFINE g == [d \in 0 .. 0 |-> {b}]
  <2>1. g = [d \in 0 .. 0 |-> IF d = 0 THEN {b} ELSE UNION {Below(x) : x \in g[d - 1]}]
    OBVIOUS
  <2> HIDE DEF g
  <2> QED BY <2>1 DEF Levels
<1>2. ASSUME NEW n \in Nat, n \in S PROVE n + 1 \in S
  <2>1. PICK f : Levels(b, n, f)
    BY <1>2
  <2> DEFINE next == UNION {Below(x) : x \in f[n]}
             g == [d \in 0 .. n + 1 |-> IF d = n + 1 THEN next ELSE f[d]]
  <2>2. \A d \in 0 .. n : f[d] = IF d = 0 THEN {b} ELSE UNION {Below(x) : x \in f[d - 1]}
    BY <2>1 DEF Levels
  <2>3. ASSUME NEW d \in 0 .. n + 1
        PROVE  g[d] = IF d = 0 THEN {b} ELSE UNION {Below(x) : x \in g[d - 1]}
    <3>1. CASE d = n + 1
      <4>1. d - 1 = n /\ d - 1 \in 0 .. n + 1 /\ n # n + 1 /\ d # 0
        BY <3>1
      <4>2. g[d - 1] = f[n] /\ g[d] = next
        BY <3>1, <4>1
      <4> HIDE DEF g
      <4> QED BY <4>1, <4>2
    <3>2. CASE d # n + 1
      <4>1. d \in 0 .. n
        BY <3>2
      <4>2. g[d] = f[d]
        BY <3>2
      <4>3. CASE d = 0
        <5> HIDE DEF g
        <5> QED BY <2>2, <4>1, <4>2, <4>3
      <4>4. CASE d # 0
        <5>1. d - 1 \in 0 .. n + 1 /\ d - 1 # n + 1
          BY <4>1, <4>4
        <5>2. g[d - 1] = f[d - 1]
          BY <5>1
        <5> HIDE DEF g
        <5> QED BY <2>2, <4>1, <4>2, <4>4, <5>2
      <4> QED BY <4>3, <4>4
    <3> QED BY <3>1, <3>2
  <2>4. g = [d \in 0 .. n + 1 |-> g[d]]
    OBVIOUS
  <2> HIDE DEF g
  <2>5. Levels(b, n + 1, g)
    BY <2>3, <2>4 DEF Levels
  <2> QED BY <2>5
<1> HIDE DEF S
<1>3. depth \in S
  BY <1>1, <1>2, InductionOverSet
<1> QED BY <1>3 DEF S

\* One level of them.
Level(b, d) == (CHOOSE f : Levels(b, d, f))[d]

LEMMA LevelsAgree ==
    ASSUME NEW b, NEW m \in Nat, NEW n \in Nat, NEW f, NEW g, Levels(b, m, f), Levels(b, n, g),
           NEW d \in Nat, d <= m, d <= n
    PROVE  f[d] = g[d]
<1> DEFINE S == {k \in Nat : k <= m /\ k <= n => f[k] = g[k]}
<1>1. /\ \A k \in 0 .. m : f[k] = IF k = 0 THEN {b} ELSE UNION {Below(x) : x \in f[k - 1]}
      /\ \A k \in 0 .. n : g[k] = IF k = 0 THEN {b} ELSE UNION {Below(x) : x \in g[k - 1]}
  BY DEF Levels
<1>2. 0 \in S
  <2>1. 0 \in 0 .. m /\ 0 \in 0 .. n
    OBVIOUS
  <2>2. f[0] = {b} /\ g[0] = {b}
    BY <1>1, <2>1
  <2> QED BY <2>2
<1>3. ASSUME NEW k \in Nat, k \in S PROVE k + 1 \in S
  <2>1. SUFFICES ASSUME k + 1 <= m, k + 1 <= n PROVE f[k + 1] = g[k + 1]
    OBVIOUS
  <2>2. f[k] = g[k]
    BY <1>3, <2>1
  <2>3. k + 1 \in 0 .. m /\ k + 1 \in 0 .. n /\ k + 1 # 0 /\ (k + 1) - 1 = k
    BY <2>1
  <2>4. f[k + 1] = UNION {Below(x) : x \in f[k]}
    BY <1>1, <2>3
  <2>5. g[k + 1] = UNION {Below(x) : x \in g[k]}
    BY <1>1, <2>3
  <2> QED BY <2>2, <2>4, <2>5
<1> HIDE DEF S
<1>4. d \in S
  BY <1>2, <1>3, InductionOverSet
<1> QED BY <1>4 DEF S

LEMMA LevelIs ==
    ASSUME NEW b, NEW n \in Nat, NEW f, Levels(b, n, f), NEW d \in 0 .. n
    PROVE  f[d] = Level(b, d)
<1> DEFINE g == CHOOSE h : Levels(b, d, h)
<1>1. d \in Nat
  OBVIOUS
<1>2. Levels(b, d, g)
  BY <1>1, LevelsExist
<1> HIDE DEF g
<1>3. f[d] = g[d]
  BY <1>1, <1>2, LevelsAgree
<1> QED BY <1>3 DEF Level, g

LEMMA LevelStep ==
    ASSUME NEW b, NEW d \in Nat
    PROVE  Level(b, 0) = {b} /\ Level(b, d + 1) = UNION {Below(x) : x \in Level(b, d)}
<1>1. PICK f : Levels(b, d + 1, f)
  BY LevelsExist
<1>2. \A k \in 0 .. d + 1 : f[k] = IF k = 0 THEN {b} ELSE UNION {Below(x) : x \in f[k - 1]}
  BY <1>1 DEF Levels
<1>3. 0 \in 0 .. d + 1 /\ d \in 0 .. d + 1 /\ d + 1 \in 0 .. d + 1 /\ d + 1 # 0 /\ (d + 1) - 1 = d
  OBVIOUS
<1>4. f[0] = Level(b, 0) /\ f[d] = Level(b, d) /\ f[d + 1] = Level(b, d + 1)
  BY <1>1, <1>3, LevelIs
<1>5. f[0] = {b}
  BY <1>2, <1>3
<1>6. f[d + 1] = UNION {Below(x) : x \in f[d]}
  BY <1>2, <1>3
<1> QED BY <1>4, <1>5, <1>6

\* The levels of a buffer are those of its frames, one deeper.
LEMMA LevelOfFrames ==
    ASSUME NEW b, NEW d \in Nat
    PROVE  Level(b, d + 1) = UNION {Level(x, d) : x \in Below(b)}
<1> DEFINE S == {n \in Nat : Level(b, n + 1) = UNION {Level(x, n) : x \in Below(b)}}
<1>1. 0 \in S
  <2>1. Level(b, 0 + 1) = UNION {Below(x) : x \in Level(b, 0)} /\ Level(b, 0) = {b}
    BY LevelStep
  <2>2. UNION {Level(x, 0) : x \in Below(b)} = Below(b)
    <3>1. \A x : Level(x, 0) = {x}
      BY LevelStep
    <3> QED BY <3>1
  <2>3. Level(b, 0 + 1) = Below(b)
    BY <2>1
  <2> QED BY <2>2, <2>3
<1>2. ASSUME NEW n \in Nat, n \in S PROVE n + 1 \in S
  <2>1. Level(b, n + 1) = UNION {Level(x, n) : x \in Below(b)}
    BY <1>2
  <2>2. Level(b, (n + 1) + 1) = UNION {Below(y) : y \in Level(b, n + 1)}
    BY LevelStep
  <2>3. \A x : Level(x, n + 1) = UNION {Below(y) : y \in Level(x, n)}
    BY LevelStep
  <2>4. UNION {Below(y) : y \in UNION {Level(x, n) : x \in Below(b)}} =
            UNION {UNION {Below(y) : y \in Level(x, n)} : x \in Below(b)}
    OBVIOUS
  <2>5. UNION {Level(x, n + 1) : x \in Below(b)} =
            UNION {UNION {Below(y) : y \in Level(x, n)} : x \in Below(b)}
    BY <2>3
  <2> QED BY <2>1, <2>2, <2>4, <2>5
<1> HIDE DEF S
<1>3. d \in S
  BY <1>1, <1>2, InductionOverSet
<1> QED BY <1>3 DEF S

LEMMA WithinIs ==
    ASSUME NEW b, NEW depth \in Nat
    PROVE  Within(b, depth) = {x.text : x \in UNION {Level(b, d) : d \in 0 .. depth}}
<1> DEFINE f == CHOOSE g : g = [d \in 0 .. depth |->
                    IF d = 0 THEN {b} ELSE UNION {ToSet(x.frames) : x \in g[d - 1]}]
<1>1. Levels(b, depth, f)
  <2> DEFINE Is(g) == g = [d \in 0 .. depth |-> IF d = 0 THEN {b} ELSE UNION {ToSet(x.frames) : x \in g[d - 1]}]
  <2>1. \A g : Levels(b, depth, g) <=> Is(g)
    BY DEF Levels, Below
  <2>2. \E g : Is(g)
    <3> HIDE DEF Is
    <3> QED BY <2>1, LevelsExist
  <2>3. Is(CHOOSE g : Is(g))
    <3> HIDE DEF Is
    <3> QED BY <2>2
  <2>4. Is(f)
    BY <2>3
  <2> QED BY <2>1, <2>4
<1>2. Within(b, depth) = {x.text : x \in UNION {f[d] : d \in 0 .. depth}}
  BY DEF Within
<1> HIDE DEF f
<1>3. \A d \in 0 .. depth : f[d] = Level(b, d)
  BY <1>1, LevelIs
<1>4. {f[d] : d \in 0 .. depth} = {Level(b, d) : d \in 0 .. depth}
  BY <1>3
<1> QED BY <1>2, <1>4

\* What is in a buffer: its text, and what is in its frames.
LEMMA WithinStep ==
    ASSUME NEW b, NEW depth \in Nat
    PROVE  /\ Within(b, 0) = {b.text}
           /\ Within(b, depth + 1) = {b.text} \cup UNION {Within(x, depth) : x \in Below(b)}
<1>1. Within(b, 0) = {b.text}
  <2>1. Level(b, 0) = {b}
    BY LevelStep
  <2>2. Within(b, 0) = {x.text : x \in UNION {Level(b, d) : d \in 0 .. 0}}
    BY WithinIs
  <2>3. UNION {Level(b, d) : d \in 0 .. 0} = {b}
    BY <2>1
  <2> QED BY <2>2, <2>3
<1>2. UNION {Level(b, d) : d \in 0 .. depth + 1} =
        {b} \cup UNION {UNION {Level(x, d) : d \in 0 .. depth} : x \in Below(b)}
  <2>1. Level(b, 0) = {b} /\ 0 \in 0 .. depth + 1
    BY LevelStep
  <2>2. \A d \in 0 .. depth : /\ d + 1 \in 0 .. depth + 1
                              /\ Level(b, d + 1) = UNION {Level(x, d) : x \in Below(b)}
    BY LevelOfFrames
  <2>3. \A d \in 0 .. depth + 1 : d = 0 \/ (d - 1 \in 0 .. depth /\ (d - 1) + 1 = d)
    OBVIOUS
  <2>4. ASSUME NEW y \in UNION {Level(b, d) : d \in 0 .. depth + 1}
        PROVE  y = b \/ \E x \in Below(b), d \in 0 .. depth : y \in Level(x, d)
    <3>1. PICK d \in 0 .. depth + 1 : y \in Level(b, d)
      OBVIOUS
    <3>2. CASE d = 0
      BY <2>1, <3>1, <3>2
    <3>3. CASE d # 0
      <4>1. d - 1 \in 0 .. depth /\ (d - 1) + 1 = d
        BY <2>3, <3>3
      <4>2. y \in UNION {Level(x, d - 1) : x \in Below(b)}
        BY <2>2, <3>1, <4>1
      <4> QED BY <4>1, <4>2
    <3> QED BY <3>2, <3>3
  <2>5. ASSUME NEW x \in Below(b), NEW d \in 0 .. depth, NEW y \in Level(x, d)
        PROVE  y \in UNION {Level(b, e) : e \in 0 .. depth + 1}
    <3>1. y \in Level(b, d + 1) /\ d + 1 \in 0 .. depth + 1
      BY <2>2
    <3> QED BY <3>1
  <2>6. b \in UNION {Level(b, d) : d \in 0 .. depth + 1}
    BY <2>1
  <2> QED BY <2>4, <2>5, <2>6
<1>3. Within(b, depth + 1) =
        {y.text : y \in {b} \cup UNION {UNION {Level(x, d) : d \in 0 .. depth} : x \in Below(b)}}
  BY <1>2, WithinIs
<1>4. \A x : Within(x, depth) = {y.text : y \in UNION {Level(x, d) : d \in 0 .. depth}}
  BY WithinIs
<1> DEFINE all(x) == UNION {Level(x, d) : d \in 0 .. depth}
<1> HIDE DEF all
<1>5. {y.text : y \in {b} \cup UNION {all(x) : x \in Below(b)}} =
        {b.text} \cup UNION {{y.text : y \in all(x)} : x \in Below(b)}
  OBVIOUS
<1> QED BY <1>1, <1>3, <1>4, <1>5 DEF all

-----------------------------------------------------------------------------
(* What the work still holds.                                              *)

Items == [data : Buffers \cup Files, depth : 0 .. MaxDepth + 1]

HoldsIn(w) == \E k \in DOMAIN w : Holds(Reach(w[k]))

LEMMA BuffersAre ==
    /\ MaxDepth \in Nat
    /\ \A b \in Buffers : b.text \in Seq(Chars) /\ b.frames \in Seq(Buffers)
    /\ \A f \in Files : f.text \in Seq(Chars) /\ f.frames \in Seq(Buffers) /\ f.members \in Seq(Buffers)
<1>1. MaxDepth \in Nat /\ Layered \subseteq [text : Seq(Chars), frames : Seq(Buffers), readable : BOOLEAN]
  BY CredentialAssumption
<1>2. ASSUME NEW b \in Buffers PROVE b.text \in Seq(Chars) /\ b.frames \in Seq(Buffers)
  <2>1. CASE b \in Layered
    BY <1>1, <2>1
  <2>2. CASE b \in [text : Seq(Chars), frames : {<<>>}, readable : BOOLEAN]
    <3>1. b.text \in Seq(Chars) /\ b.frames = <<>>
      BY <2>2
    <3>2. <<>> \in Seq(Buffers)
      OBVIOUS
    <3> QED BY <3>1, <3>2
  <2> QED BY <2>1, <2>2 DEF Buffers
<1>3. \A f \in Files : f.text \in Seq(Chars) /\ f.frames \in Seq(Buffers) /\ f.members \in Seq(Buffers)
  BY DEF Files
<1> QED BY <1>1, <1>2, <1>3

LEMMA ItemIs ==
    ASSUME NEW b \in Items
    PROVE  /\ b.data.text \in Seq(Chars) /\ b.data.frames \in Seq(Buffers) /\ b.depth \in 0 .. MaxDepth + 1
           /\ Frames(b) \in Seq(Items)
           /\ b.depth > MaxDepth => Frames(b) = <<>>
           /\ ~(b.depth > MaxDepth) => Frames(b) = [k \in DOMAIN b.data.frames |-> Buffer(b.data.frames[k], b.depth + 1)]
<1>1. b.data.text \in Seq(Chars) /\ b.data.frames \in Seq(Buffers) /\ b.depth \in 0 .. MaxDepth + 1
  BY BuffersAre DEF Items
<1>2. CASE b.depth > MaxDepth
  <2>1. Frames(b) = <<>>
    BY <1>2 DEF Frames
  <2> QED BY <1>1, <1>2, <2>1
<1>3. CASE ~(b.depth > MaxDepth)
  <2> DEFINE fs == b.data.frames
             s == [k \in DOMAIN fs |-> Buffer(fs[k], b.depth + 1)]
  <2>1. Frames(b) = s
    BY <1>3 DEF Frames
  <2>2. b.depth + 1 \in 0 .. MaxDepth + 1
    BY <1>1, <1>3, BuffersAre
  <2>3. DOMAIN fs = 1 .. Len(fs) /\ Len(fs) \in Nat /\ \A k \in 1 .. Len(fs) : fs[k] \in Buffers
    BY <1>1
  <2>4. \A k \in 1 .. Len(fs) : Buffer(fs[k], b.depth + 1) \in Items
    BY <2>2, <2>3 DEF Buffer, Items
  <2> HIDE DEF fs
  <2>5. s \in Seq(Items)
    BY <2>3, <2>4
  <2> QED BY <1>1, <1>3, <2>1, <2>5 DEF fs
<1> QED BY <1>2, <1>3

\* A buffer holds something when its text carries it or its frames hold it.
LEMMA ItemHolds ==
    ASSUME NEW b \in Items
    PROVE  Holds(Reach(b)) <=> Carries(b.data.text) \/ HoldsIn(Frames(b))
<1> DEFINE data == b.data
           n == MaxDepth + 1 - b.depth
<1>1. MaxDepth \in Nat /\ b.depth \in 0 .. MaxDepth + 1 /\ data.frames \in Seq(Buffers)
  BY BuffersAre, ItemIs
<1>2. CASE b.depth > MaxDepth
  <2>1. n = 0 /\ Frames(b) = <<>>
    BY <1>1, <1>2, ItemIs
  <2>2. Reach(b) = {data.text}
    BY <2>1, WithinStep DEF Reach
  <2>3. ~HoldsIn(Frames(b))
    BY <2>1 DEF HoldsIn
  <2> QED BY <2>2, <2>3 DEF Holds
<1>3. CASE ~(b.depth > MaxDepth)
  <2> DEFINE m == MaxDepth - b.depth
             fs == data.frames
  <2>1. m \in Nat /\ n = m + 1 /\ MaxDepth + 1 - (b.depth + 1) = m
    BY <1>1, <1>3
  <2>2. Within(data, m + 1) = {data.text} \cup UNION {Within(x, m) : x \in Below(data)}
    BY <2>1, WithinStep
  <2>3. Reach(b) = {data.text} \cup UNION {Within(x, m) : x \in Below(data)}
    BY <2>1, <2>2 DEF Reach
  <2>4. Below(data) = {fs[k] : k \in DOMAIN fs}
    BY DEF Below, ToSet
  <2>5. /\ Frames(b) = [k \in DOMAIN fs |-> Buffer(fs[k], b.depth + 1)]
        /\ DOMAIN Frames(b) = DOMAIN fs
    BY <1>3, ItemIs
  <2>6. \A k \in DOMAIN fs : Reach(Frames(b)[k]) = Within(fs[k], m)
    BY <2>1, <2>5 DEF Reach, Buffer
  <2> HIDE DEF m, n, fs, data
  <2>7. HoldsIn(Frames(b)) <=> \E k \in DOMAIN fs : Holds(Within(fs[k], m))
    BY <2>5, <2>6 DEF HoldsIn
  <2>8. Holds(Reach(b)) <=> Carries(data.text) \/ \E k \in DOMAIN fs : Holds(Within(fs[k], m))
    BY <2>3, <2>4 DEF Holds
  <2> QED BY <2>7, <2>8 DEF data
<1> QED BY <1>2, <1>3

LEMMA HoldsInJoin ==
    ASSUME NEW u \in Seq(Items), NEW v \in Seq(Items)
    PROVE  HoldsIn(u \o v) <=> HoldsIn(u) \/ HoldsIn(v)
<1> DEFINE w == u \o v
<1>0. Len(u) \in Nat /\ Len(v) \in Nat /\ DOMAIN u = 1 .. Len(u) /\ DOMAIN v = 1 .. Len(v)
  OBVIOUS
<1>1. /\ w \in Seq(Items) /\ Len(w) = Len(u) + Len(v)
      /\ \A k \in 1 .. Len(u) + Len(v) : w[k] = IF k <= Len(u) THEN u[k] ELSE v[k - Len(u)]
  BY ConcatProperties
<1> HIDE DEF w
<1>2. DOMAIN w = 1 .. Len(u) + Len(v)
  BY <1>1
<1>3. ASSUME NEW k \in DOMAIN u PROVE k \in DOMAIN w /\ w[k] = u[k]
  <2>1. k \in 1 .. Len(u) + Len(v) /\ k <= Len(u)
    BY <1>0
  <2> QED BY <1>1, <1>2, <2>1
<1>4. ASSUME NEW k \in DOMAIN v PROVE Len(u) + k \in DOMAIN w /\ w[Len(u) + k] = v[k]
  <2>1. Len(u) + k \in 1 .. Len(u) + Len(v) /\ ~(Len(u) + k <= Len(u)) /\ (Len(u) + k) - Len(u) = k
    BY <1>0
  <2> QED BY <1>1, <1>2, <2>1
<1>5. ASSUME NEW k \in DOMAIN w
      PROVE  \/ k \in DOMAIN u /\ w[k] = u[k]
             \/ k - Len(u) \in DOMAIN v /\ w[k] = v[k - Len(u)]
  BY <1>0, <1>1, <1>2
<1>6. ASSUME HoldsIn(w) PROVE HoldsIn(u) \/ HoldsIn(v)
  <2>1. PICK k \in DOMAIN w : Holds(Reach(w[k]))
    BY <1>6 DEF HoldsIn
  <2>2. CASE k \in DOMAIN u /\ w[k] = u[k]
    BY <2>1, <2>2 DEF HoldsIn
  <2>3. CASE k - Len(u) \in DOMAIN v /\ w[k] = v[k - Len(u)]
    BY <2>1, <2>3 DEF HoldsIn
  <2> QED BY <1>5, <2>2, <2>3
<1>7. ASSUME HoldsIn(u) PROVE HoldsIn(w)
  BY <1>3, <1>7 DEF HoldsIn
<1>8. ASSUME HoldsIn(v) PROVE HoldsIn(w)
  BY <1>4, <1>8 DEF HoldsIn
<1> QED BY <1>6, <1>7, <1>8 DEF w

LEMMA HoldsInOne ==
    ASSUME NEW b \in Items
    PROVE  <<b>> \in Seq(Items) /\ (HoldsIn(<<b>>) <=> Holds(Reach(b)))
<1>1. DOMAIN <<b>> = {1} /\ <<b>>[1] = b /\ <<b>> \in Seq(Items)
  OBVIOUS
<1> QED BY <1>1 DEF HoldsIn

\* Taking a buffer from the work when its text was searched.
LEMMA WorkIs ==
    ASSUME NEW w \in Seq(Items), w # <<>>
    PROVE  /\ Head(w) \in Items /\ Tail(w) \in Seq(Items) /\ Frames(Head(w)) \o Tail(w) \in Seq(Items)
           /\ HoldsIn(w) <=> Carries(Head(w).data.text) \/ HoldsIn(Frames(Head(w)) \o Tail(w))
<1>1. Head(w) \in Items /\ Tail(w) \in Seq(Items) /\ w = <<Head(w)>> \o Tail(w)
  BY HeadTailProperties
<1> DEFINE h == Head(w)
           r == Tail(w)
<1> HIDE DEF h, r
<1>2. h \in Items /\ r \in Seq(Items) /\ w = <<h>> \o r /\ Frames(h) \in Seq(Items) /\ <<h>> \in Seq(Items)
  BY <1>1, ItemIs, HoldsInOne DEF h, r
<1>3. HoldsIn(<<h>> \o r) <=> HoldsIn(<<h>>) \/ HoldsIn(r)
  BY <1>2, HoldsInJoin
<1>4. HoldsIn(<<h>>) <=> Carries(h.data.text) \/ HoldsIn(Frames(h))
  BY <1>2, HoldsInOne, ItemHolds
<1>5. HoldsIn(Frames(h) \o r) <=> HoldsIn(Frames(h)) \/ HoldsIn(r)
  BY <1>2, HoldsInJoin
<1>6. Frames(h) \o r \in Seq(Items)
  BY <1>2, ConcatProperties
<1>7. HoldsIn(w) <=> HoldsIn(<<h>> \o r)
  BY <1>2
<1> QED BY <1>2, <1>3, <1>4, <1>5, <1>6, <1>7 DEF h, r

-----------------------------------------------------------------------------
(* The inductive invariant.                                                *)

\* In the rest of the buffer that is searched, or in what comes behind it.
InWork ==
    work # <<>> /\ ((\E p \in pos .. Len(Text) : Matches(Text, p) # {}) \/ HoldsIn(Later))

InMembers(f, m) == \E k \in m .. Len(f.members) : Holds(Within(f.members[k], MaxDepth + 1))

LEMMA AheadIs == Ahead <=> InWork \/ InMembers(files[at], member)
BY DEF Ahead, InWork, InMembers, HoldsIn

\* Before a buffer is begun, what it holds is ahead.
LEMMA BeginWork ==
    ASSUME work \in Seq(Items), work # <<>>, pos = 1
    PROVE  InWork <=> HoldsIn(work)
<1>1. Head(work) \in Items
  BY WorkIs
<1>2. Text \in Seq(Chars)
  BY <1>1, ItemIs DEF Text
<1>3. Carries(Text) <=> \E p \in pos .. Len(Text) : Matches(Text, p) # {}
  BY <1>2, CarriesTells
<1> QED BY <1>3, WorkIs DEF InWork, Later, Text

LEMMA FileIs ==
    ASSUME WorkInv, member > 0
    PROVE  /\ files[at] \in Files /\ at \in 1 .. Len(files)
           /\ Len(files) \in Nat /\ Len(files[at].members) \in Nat
           /\ Buffer(files[at], 0) \in Items
           /\ \A k \in 1 .. Len(files[at].members) : Buffer(files[at].members[k], 0) \in Items
<1>1. Len(files) \in Nat /\ at \in 1 .. Len(files)
  BY DEF WorkInv
<1>2. files[at] \in Files
  BY <1>1 DEF WorkInv
<1>3. files[at].members \in Seq(Buffers)
  BY <1>2, BuffersAre
<1>4. 0 \in 0 .. MaxDepth + 1
  BY BuffersAre
<1> QED BY <1>1, <1>2, <1>3, <1>4 DEF Items, Buffer

\* What a file holds, its raw bytes and its members.
LEMMA FileHolds ==
    ASSUME NEW f \in Files
    PROVE  Holds(Texts(f)) <=> Holds(Within(f, MaxDepth + 1)) \/ InMembers(f, 1)
<1>1. f.members \in Seq(Buffers)
  BY BuffersAre
<1>2. ToSet(f.members) = {f.members[k] : k \in 1 .. Len(f.members)}
  BY <1>1 DEF ToSet
<1>3. Texts(f) = Within(f, MaxDepth + 1) \cup UNION {Within(f.members[k], MaxDepth + 1) : k \in 1 .. Len(f.members)}
  BY <1>2 DEF Texts
<1> QED BY <1>3 DEF Holds, InMembers

LEMMA WorkItems == WorkInv <=>
    /\ files \in Seq(Files) /\ at \in 1 .. Len(files) + 1 /\ pos \in Nat \ {0} /\ member \in Nat
    /\ work \in Seq(Items)
    /\ work = <<>> => pos = 1
    /\ member = 0 => work = <<>> /\ hits = {}
    /\ member > 0 =>
        /\ at <= Len(files) /\ member <= Len(files[at].members) + 1
        /\ files[at].file # "absent" /\ (member > 1 => files[at].file = "container")
        /\ \A k \in 1 .. member - 1 : files[at].members[k].readable
BY DEF WorkInv, Items

LEMMA ScanInit == Init => ScanInv
<1>1. SUFFICES ASSUME Init PROVE ScanInv
  OBVIOUS
<1>2. files \in Seq(Files)
  BY <1>1, CredentialAssumption DEF Init
<1>3. Len(files) \in Nat
  BY <1>2
<1>4. WorkInv
  BY <1>1, <1>2, <1>3, WorkItems DEF Init
<1>5. FoundInv
  BY <1>1 DEF Init, FoundInv
<1>6. VerdictInv
  BY <1>1 DEF Init, VerdictInv
<1> QED BY <1>4, <1>5, <1>6 DEF ScanInv

\* A file's verdict is given.
LEMMA FileIsJudged ==
    ASSUME ScanInv, files[at] \in Files, at <= Len(files), exit = 9,
           verdicts' = Append(verdicts, VerdictOf(files[at])), at' = at + 1,
           work' = <<>>, pos' = 1, member' = 0, hits' = {}, files' = files, exit' = exit
    PROVE  ScanInv'
<1>1. /\ files \in Seq(Files) /\ at \in 1 .. Len(files) + 1 /\ Len(files) \in Nat
      /\ verdicts \in Seq({"clean", "credential", "error"}) /\ Len(verdicts) = at - 1
      /\ \A k \in DOMAIN verdicts : verdicts[k] = VerdictOf(files[k])
  BY DEF ScanInv, WorkInv, VerdictInv
<1>2. WorkInv'
  BY <1>1 DEF WorkInv
<1>3. FoundInv'
  BY DEF FoundInv
<1>4. VerdictInv'
  <2> DEFINE v == VerdictOf(files[at])
  <2>1. v \in {"clean", "credential", "error"}
    BY DEF VerdictOf
  <2> HIDE DEF v
  <2>2. /\ verdicts' \in Seq({"clean", "credential", "error"}) /\ Len(verdicts') = at
        /\ \A k \in 1 .. at - 1 : verdicts'[k] = verdicts[k]
        /\ verdicts'[at] = v
    BY <1>1, <2>1 DEF v
  <2>3. ASSUME NEW k \in DOMAIN verdicts' PROVE verdicts'[k] = VerdictOf(files[k])
    <3>1. k \in 1 .. at
      BY <2>2
    <3>2. CASE k = at
      BY <2>2, <3>2 DEF v
    <3>3. CASE k # at
      <4>1. k \in 1 .. at - 1 /\ k \in DOMAIN verdicts
        BY <1>1, <3>1, <3>3
      <4> QED BY <1>1, <2>2, <4>1
    <3> QED BY <3>2, <3>3
  <2>4. \A k \in DOMAIN verdicts' : verdicts'[k] = VerdictOf(files'[k])
    BY <2>3
  <2>5. Len(verdicts') = at' - 1
    BY <1>1, <2>2
  <2> QED BY <2>2, <2>4, <2>5 DEF VerdictInv, VerdictOf
<1> QED BY <1>2, <1>3, <1>4 DEF ScanInv

LEMMA StartFileKeeps == ScanInv /\ StartFile => ScanInv'
<1> SUFFICES ASSUME ScanInv, StartFile PROVE ScanInv'
  OBVIOUS
<1> DEFINE f == files[at]
<1>1. /\ files \in Seq(Files) /\ at \in 1 .. Len(files) + 1 /\ Len(files) \in Nat
      /\ at <= Len(files) /\ exit = 9 /\ work = <<>> /\ member = 0 /\ hits = {} /\ pos = 1
      /\ files' = files /\ exit' = exit
  BY DEF ScanInv, WorkInv, StartFile, Running
<1>2. f \in Files
  BY <1>1
<1>3. CASE f.file = "absent"
  <2>1. VerdictOf(f) = "error"
    BY <1>3 DEF VerdictOf, Unreadable
  <2>2. FileFails
    BY <1>3 DEF StartFile
  <2>3. verdicts' = Append(verdicts, VerdictOf(f)) /\ at' = at + 1 /\ work' = <<>>
        /\ pos' = 1 /\ member' = 0 /\ hits' = {}
    BY <2>1, <2>2 DEF FileFails
  <2> QED BY <1>1, <1>2, <2>3, FileIsJudged
<1>4. CASE f.file # "absent"
  <2>1. /\ work' = <<Buffer(f, 0)>> /\ pos' = 1 /\ member' = 1
        /\ at' = at /\ hits' = hits /\ verdicts' = verdicts
    BY <1>4 DEF StartFile
  <2>2. f.members \in Seq(Buffers) /\ Len(f.members) \in Nat
    BY <1>2, BuffersAre
  <2>3. Buffer(f, 0) \in Items /\ Reach(Buffer(f, 0)) = Within(f, MaxDepth + 1)
    <3>1. 0 \in 0 .. MaxDepth + 1 /\ MaxDepth + 1 - 0 = MaxDepth + 1
      BY BuffersAre
    <3> QED BY <1>2, <3>1 DEF Buffer, Items, Reach
  <2>4. work' \in Seq(Items) /\ work' # <<>> /\ (HoldsIn(work') <=> Holds(Within(f, MaxDepth + 1)))
    <3> DEFINE b == Buffer(f, 0)
    <3>1. <<b>> \in Seq(Items) /\ (HoldsIn(<<b>>) <=> Holds(Reach(b)))
      BY <2>3, HoldsInOne
    <3> HIDE DEF b
    <3>2. <<b>> # <<>>
      OBVIOUS
    <3> QED BY <2>1, <2>3, <3>1, <3>2 DEF b
  <2>5. WorkInv'
    BY <1>1, <1>4, <2>1, <2>2, <2>4 DEF WorkInv, Items
  <2>6. Holds(Texts(f)) <=> HoldsIn(work') \/ InMembers(f, 1)
    BY <1>2, <2>4, FileHolds
  <2>7. FoundInv'
    <3>1. InWork' <=> HoldsIn(work')
      <4>1. (work \in Seq(Items) /\ work # <<>> /\ pos = 1 => (InWork <=> HoldsIn(work)))'
        BY BeginWork, PTL
      <4> QED BY <2>1, <2>4, <4>1
    <3>2. (Ahead <=> InWork \/ InMembers(files[at], member))'
      BY AheadIs, PTL
    <3>3. Ahead' <=> HoldsIn(work') \/ InMembers(f, 1)
      BY <1>1, <2>1, <3>1, <3>2
    <3> QED BY <1>1, <2>1, <2>6, <3>3 DEF FoundInv
  <2>8. VerdictInv'
    BY <1>1, <2>1 DEF ScanInv, VerdictInv, VerdictOf
  <2> QED BY <2>5, <2>7, <2>8 DEF ScanInv
<1> QED BY <1>3, <1>4

\* The buffer that is searched.
LEMMA TextIs ==
    ASSUME ScanInv, work # <<>>
    PROVE  /\ work \in Seq(Items) /\ Head(work) \in Items /\ Text \in Seq(Chars) /\ Len(Text) \in Nat
           /\ Later \in Seq(Items) /\ pos \in Nat \ {0} /\ member > 0 /\ member \in Nat
<1>1. work \in Seq(Items) /\ pos \in Nat \ {0} /\ member \in Nat /\ member > 0
  BY DEF ScanInv, WorkInv, Items
<1>2. Head(work) \in Items /\ Later \in Seq(Items)
  BY <1>1, WorkIs DEF Later
<1>3. Text \in Seq(Chars)
  BY <1>2, ItemIs DEF Text
<1> QED BY <1>1, <1>2, <1>3

LEMMA LookKeeps == ScanInv /\ Look => ScanInv'
<1> SUFFICES ASSUME ScanInv, Look PROVE ScanInv'
  OBVIOUS
<1> DEFINE n == Matched(Text, pos)
<1>1. /\ work # <<>> /\ pos <= Len(Text) /\ files' = files /\ at' = at /\ work' = work
      /\ member' = member /\ verdicts' = verdicts /\ exit' = exit
      /\ hits' = IF n = 0 THEN hits ELSE hits \cup {<<Text, pos, n>>}
      /\ pos' = IF n = 0 THEN pos + 1 ELSE pos + n
  BY DEF Look
<1>2. /\ work \in Seq(Items) /\ Text \in Seq(Chars) /\ Len(Text) \in Nat
      /\ pos \in 1 .. Len(Text) /\ member > 0 /\ member \in Nat
  BY <1>1, TextIs
<1>3. n \in Nat /\ (n = 0 <=> Matches(Text, pos) = {})
  BY <1>2, MatchedTells
<1> HIDE DEF n
<1>4. WorkInv'
  <2>1. pos' \in Nat \ {0}
    BY <1>1, <1>2, <1>3
  <2> QED BY <1>1, <1>2, <2>1 DEF ScanInv, WorkInv
<1>5. FoundInv'
  <2>1. Holds(Texts(files[at])) <=> hits # {} \/ Ahead
    BY <1>2 DEF ScanInv, FoundInv
  <2>2. (Ahead <=> InWork \/ InMembers(files[at], member))'
    BY AheadIs, PTL
  <2>3. Text' = Text /\ Later' = Later
    BY <1>1 DEF Text, Later
  <2>4. CASE n = 0
    <3>1. hits' = hits /\ pos' = pos + 1
      BY <1>1, <2>4
    <3>2. (\E p \in pos .. Len(Text) : Matches(Text, p) # {}) <=> \E p \in pos + 1 .. Len(Text) : Matches(Text, p) # {}
      BY <1>2, <1>3, <2>4
    <3>3. InWork' <=> InWork
      BY <1>1, <2>3, <3>1, <3>2 DEF InWork
    <3> QED BY <1>1, <2>1, <2>2, <3>1, <3>3, AheadIs DEF FoundInv
  <2>5. CASE n # 0
    <3>1. InWork
      BY <1>1, <1>2, <1>3, <2>5 DEF InWork
    <3>2. Holds(Texts(files[at]))
      BY <2>1, <3>1, AheadIs
    <3>3. hits' # {}
      BY <1>1, <2>5
    <3> QED BY <1>1, <3>2, <3>3 DEF FoundInv
  <2> QED BY <2>4, <2>5
<1>6. VerdictInv'
  BY <1>1 DEF ScanInv, VerdictInv, VerdictOf
<1> QED BY <1>4, <1>5, <1>6 DEF ScanInv

LEMMA BufferDoneKeeps == ScanInv /\ BufferDone => ScanInv'
<1> SUFFICES ASSUME ScanInv, BufferDone PROVE ScanInv'
  OBVIOUS
<1>1. /\ work # <<>> /\ pos > Len(Text) /\ files' = files /\ at' = at /\ work' = Later /\ pos' = 1
      /\ member' = member /\ verdicts' = verdicts /\ exit' = exit /\ hits' = hits
  BY DEF BufferDone, Later
<1>2. /\ Text \in Seq(Chars) /\ Len(Text) \in Nat
      /\ pos \in Nat /\ member > 0 /\ member \in Nat /\ Later \in Seq(Items)
  BY <1>1, TextIs
<1>3. WorkInv'
  BY <1>1, <1>2 DEF ScanInv, WorkInv, Items
<1>4. FoundInv'
  <2>1. Holds(Texts(files[at])) <=> hits # {} \/ InWork \/ InMembers(files[at], member)
    BY <1>2, AheadIs DEF ScanInv, FoundInv
  <2>2. (Ahead <=> InWork \/ InMembers(files[at], member))'
    BY AheadIs, PTL
  <2>3. InWork <=> HoldsIn(work')
    <3>1. ~\E p \in pos .. Len(Text) : Matches(Text, p) # {}
      BY <1>1, <1>2
    <3> QED BY <1>1, <3>1 DEF InWork
  <2>4. InWork' <=> HoldsIn(work')
    <3>1. CASE work' = <<>>
      <4>1. ~HoldsIn(work')
        BY <3>1 DEF HoldsIn
      <4> QED BY <3>1, <4>1 DEF InWork
    <3>2. CASE work' # <<>>
      <4>1. (work \in Seq(Items) /\ work # <<>> /\ pos = 1 => (InWork <=> HoldsIn(work)))'
        BY BeginWork, PTL
      <4> QED BY <1>1, <1>2, <3>2, <4>1
    <3> QED BY <3>1, <3>2
  <2> QED BY <1>1, <2>1, <2>2, <2>3, <2>4 DEF FoundInv
<1>5. VerdictInv'
  BY <1>1 DEF ScanInv, VerdictInv, VerdictOf
<1> QED BY <1>3, <1>4, <1>5 DEF ScanInv

LEMMA NextMemberKeeps == ScanInv /\ NextMember => ScanInv'
<1> SUFFICES ASSUME ScanInv, NextMember PROVE ScanInv'
  OBVIOUS
<1> DEFINE f == files[at]
           broken == f.file = "notContainer" \/ (member <= Len(f.members) /\ ~f.members[member].readable)
<1>1. /\ work = <<>> /\ member > 0 /\ files' = files /\ exit' = exit /\ exit = 9
      /\ pos = 1 /\ member \in Nat /\ member <= Len(f.members) + 1 /\ f.file # "absent"
      /\ \A k \in 1 .. member - 1 : f.members[k].readable
  BY DEF ScanInv, WorkInv, NextMember, Running
<1>2. /\ f \in Files /\ at \in 1 .. Len(files) /\ Len(files) \in Nat /\ Len(f.members) \in Nat
      /\ \A k \in 1 .. Len(f.members) : Buffer(f.members[k], 0) \in Items
  BY <1>1, FileIs DEF ScanInv
<1>3. DOMAIN f.members = 1 .. Len(f.members)
  BY <1>2, BuffersAre
<1>4. f.file \in {"container", "notContainer", "absent"}
  BY <1>2 DEF Files
<1>5. Holds(Texts(f)) <=> hits # {} \/ InMembers(f, member)
  <2>1. ~InWork
    BY <1>1 DEF InWork
  <2> QED BY <1>1, <2>1, AheadIs DEF ScanInv, FoundInv
<1>6. CASE broken
  <2>1. VerdictOf(f) = "error"
    <3>1. Unreadable(f)
      BY <1>1, <1>3, <1>6 DEF Unreadable
    <3> QED BY <3>1 DEF VerdictOf
  <2>2. FileFails
    BY <1>6 DEF NextMember
  <2>3. verdicts' = Append(verdicts, VerdictOf(f)) /\ at' = at + 1 /\ work' = <<>>
        /\ pos' = 1 /\ member' = 0 /\ hits' = {}
    BY <2>1, <2>2 DEF FileFails
  <2> QED BY <1>1, <1>2, <2>3, FileIsJudged
<1>7. CASE ~broken /\ member <= Len(f.members)
  <2> DEFINE m == f.members[member]
             b == Buffer(m, 0)
  <2>1. /\ work' = <<b>> /\ member' = member + 1 /\ pos' = pos
        /\ at' = at /\ hits' = hits /\ verdicts' = verdicts
    BY <1>7 DEF NextMember
  <2>2. f.file = "container" /\ m.readable /\ member \in 1 .. Len(f.members)
    BY <1>1, <1>2, <1>4, <1>7
  <2>3. b \in Items /\ Reach(b) = Within(m, MaxDepth + 1)
    <3>1. MaxDepth + 1 - 0 = MaxDepth + 1
      BY BuffersAre
    <3> QED BY <1>2, <2>2, <3>1 DEF Buffer, Reach
  <2>4. work' \in Seq(Items) /\ work' # <<>> /\ (HoldsIn(work') <=> Holds(Within(m, MaxDepth + 1)))
    <3> HIDE DEF b
    <3>1. <<b>> \in Seq(Items) /\ (HoldsIn(<<b>>) <=> Holds(Reach(b)))
      BY <2>3, HoldsInOne
    <3>2. <<b>> # <<>>
      OBVIOUS
    <3> QED BY <2>1, <2>3, <3>1, <3>2
  <2>5. WorkInv'
    <3>1. \A k \in 1 .. member' - 1 : f.members[k].readable
      BY <1>1, <2>1, <2>2
    <3>2. member' \in Nat /\ member' > 0 /\ member' <= Len(f.members) + 1
      BY <1>1, <1>2, <1>7, <2>1
    <3> HIDE DEF f, m, b
    <3> QED BY <1>1, <1>2, <2>1, <2>2, <2>4, <3>1, <3>2 DEF ScanInv, WorkInv, Items, f
  <2>6. InMembers(f, member) <=> HoldsIn(work') \/ InMembers(f, member + 1)
    <3>1. \A k : k \in member .. Len(f.members) <=> k = member \/ k \in member + 1 .. Len(f.members)
      BY <1>1, <1>2, <2>2
    <3> QED BY <2>4, <3>1 DEF InMembers
  <2>7. FoundInv'
    <3>1. (work \in Seq(Items) /\ work # <<>> /\ pos = 1 => (InWork <=> HoldsIn(work)))'
      BY BeginWork, PTL
    <3>2. InWork' <=> HoldsIn(work')
      BY <1>1, <2>1, <2>4, <3>1
    <3>3. (Ahead <=> InWork \/ InMembers(files[at], member))'
      BY AheadIs, PTL
    <3> QED BY <1>1, <1>5, <2>1, <2>6, <3>2, <3>3 DEF FoundInv
  <2>8. VerdictInv'
    BY <1>1, <2>1 DEF ScanInv, VerdictInv, VerdictOf
  <2> QED BY <2>5, <2>7, <2>8 DEF ScanInv
<1>8. CASE ~broken /\ ~(member <= Len(f.members))
  <2>1. /\ verdicts' = Append(verdicts, IF hits = {} THEN "clean" ELSE "credential")
        /\ at' = at + 1 /\ member' = 0 /\ hits' = {} /\ work' = work /\ pos' = pos
    BY <1>8 DEF NextMember
  <2>2. ~InMembers(f, member)
    BY <1>1, <1>2, <1>8 DEF InMembers
  <2>3. ~Unreadable(f)
    <3>1. f.file = "container"
      BY <1>1, <1>4, <1>8
    <3>2. \A k \in DOMAIN f.members : f.members[k].readable
      BY <1>1, <1>2, <1>3, <1>8
    <3> QED BY <3>1, <3>2 DEF Unreadable
  <2>4. VerdictOf(f) = IF hits = {} THEN "clean" ELSE "credential"
    BY <1>5, <2>2, <2>3 DEF VerdictOf
  <2>5. verdicts' = Append(verdicts, VerdictOf(f)) /\ at' = at + 1 /\ work' = <<>>
        /\ pos' = 1 /\ member' = 0 /\ hits' = {}
    BY <1>1, <2>1, <2>4
  <2> QED BY <1>1, <1>2, <2>5, FileIsJudged
<1> QED BY <1>6, <1>7, <1>8

LEMMA ScanQuit == ScanInv /\ Quit => ScanInv'
<1> SUFFICES ASSUME ScanInv, Quit PROVE ScanInv'
  OBVIOUS
<1>1. /\ work = <<>> /\ member = 0 /\ at > Len(files) /\ exit' = ExitCode(ToSet(verdicts))
      /\ files' = files /\ at' = at /\ work' = work /\ pos' = pos /\ member' = member
      /\ hits' = hits /\ verdicts' = verdicts
  BY DEF Quit
<1>2. WorkInv'
  BY <1>1 DEF ScanInv, WorkInv
<1>3. FoundInv'
  BY <1>1 DEF FoundInv
<1>4. VerdictInv'
  <2>1. at = Len(files) + 1
    BY <1>1 DEF ScanInv, WorkInv
  <2>2. exit' \in {0, 1, 2, 9}
    BY <1>1 DEF ExitCode
  <2> QED BY <1>1, <2>1, <2>2 DEF ScanInv, VerdictInv, VerdictOf
<1> QED BY <1>2, <1>3, <1>4 DEF ScanInv

LEMMA ScanStuttering == ScanInv /\ UNCHANGED vars => ScanInv'
<1> SUFFICES ASSUME ScanInv, UNCHANGED vars PROVE ScanInv'
  OBVIOUS
<1>1. /\ files' = files /\ at' = at /\ work' = work /\ pos' = pos /\ member' = member
      /\ hits' = hits /\ verdicts' = verdicts /\ exit' = exit
  BY DEF vars
<1>2. WorkInv'
  BY <1>1 DEF ScanInv, WorkInv
<1>3. FoundInv'
  BY <1>1 DEF ScanInv, FoundInv, Ahead, Text, Later
<1>4. VerdictInv'
  BY <1>1 DEF ScanInv, VerdictInv, VerdictOf
<1> QED BY <1>2, <1>3, <1>4 DEF ScanInv

-----------------------------------------------------------------------------

\* Whatever the files, their frames and the literals are, a file carries a pattern
\* exactly when one was found in it already or is ahead of the scan, and a verdict
\* says what its file carries (findCredential, scanFrames, scanFile).
THEOREM ScanInvariant == Spec => []ScanInv
<1>1. ScanInv /\ [Next]_vars => ScanInv'
  BY StartFileKeeps, LookKeeps, BufferDoneKeeps, NextMemberKeeps, ScanQuit, ScanStuttering DEF Next
<1> QED BY ScanInit, <1>1, PTL DEF Spec

\* A verdict of clean says that no text of the file, to the third level of its
\* frames, carries a documented pattern, and only then is it given: the loop, which
\* goes on behind a match, hides none (findCredential).
THEOREM CleanIsClean == Spec => []CleanHoldsNoCredential
<1>1. ScanInv => CleanHoldsNoCredential
  <2> SUFFICES ASSUME ScanInv, NEW k \in DOMAIN verdicts, verdicts[k] # "error"
               PROVE  verdicts[k] = "clean" <=> \A t \in Texts(files[k]) : ~Carries(t)
    BY DEF CleanHoldsNoCredential
  <2>1. verdicts[k] = VerdictOf(files[k])
    BY DEF ScanInv, VerdictInv
  <2>2. verdicts[k] = IF Holds(Texts(files[k])) THEN "credential" ELSE "clean"
    BY <2>1 DEF VerdictOf
  <2> QED BY <2>2 DEF Holds
<1> QED BY <1>1, ScanInvariant, PTL

\* The exit code is 2 exactly when a file could not be read, whatever was found in
\* others, and 0 only when nothing is carried by any (main).
THEOREM UnreadableIsReported == Spec => []UnreadableIsNeverClean
<1>1. ScanInv => UnreadableIsNeverClean
  <2> SUFFICES ASSUME ScanInv, exit # 9
               PROVE  /\ exit = 2 <=> \E k \in DOMAIN files : Unreadable(files[k])
                      /\ exit = 0 => \A k \in DOMAIN files : \A t \in Texts(files[k]) : ~Carries(t)
    BY DEF UnreadableIsNeverClean
  <2>1. /\ files \in Seq(Files) /\ verdicts \in Seq({"clean", "credential", "error"})
        /\ at = Len(files) + 1 /\ Len(verdicts) = at - 1 /\ exit = ExitCode(ToSet(verdicts))
        /\ \A k \in DOMAIN verdicts : verdicts[k] = VerdictOf(files[k])
    BY DEF ScanInv, WorkInv, VerdictInv
  <2>2. DOMAIN verdicts = DOMAIN files
    BY <2>1
  <2>3. ToSet(verdicts) = {VerdictOf(files[k]) : k \in DOMAIN files}
    BY <2>1, <2>2 DEF ToSet
  <2>4. "error" \in ToSet(verdicts) <=> \E k \in DOMAIN files : Unreadable(files[k])
    BY <2>3 DEF VerdictOf
  <2>5. exit = 2 <=> "error" \in ToSet(verdicts)
    BY <2>1 DEF ExitCode
  <2>6. ASSUME exit = 0, NEW k \in DOMAIN files PROVE ~Holds(Texts(files[k]))
    <3>1. "error" \notin ToSet(verdicts) /\ "credential" \notin ToSet(verdicts)
      BY <2>1, <2>6 DEF ExitCode
    <3>2. VerdictOf(files[k]) \in ToSet(verdicts)
      BY <2>3
    <3> QED BY <3>1, <3>2 DEF VerdictOf
  <2> QED BY <2>4, <2>5, <2>6 DEF Holds
<1> QED BY <1>1, ScanInvariant, PTL

-----------------------------------------------------------------------------
(* MemberNames: the codec.                                                 *)

\* What is left of a key behind its first k digits.
Rest(key, r) == r = [k \in 0 .. Length |-> IF k = 0 THEN key ELSE r[k - 1] \div Base]

LEMMA RestExists ==
    ASSUME NEW key \in Nat PROVE \E r : Rest(key, r)
<1> DEFINE S == {n \in Nat : \E r : r = [k \in 0 .. n |-> IF k = 0 THEN key ELSE r[k - 1] \div Base]}
<1>1. 0 \in S
  <2>1. [k \in 0 .. 0 |-> key] = [k \in 0 .. 0 |-> IF k = 0 THEN key ELSE [l \in 0 .. 0 |-> key][k - 1] \div Base]
    OBVIOUS
  <2> QED BY <2>1
<1>2. ASSUME NEW n \in Nat, n \in S PROVE n + 1 \in S
  <2>1. PICK r : r = [k \in 0 .. n |-> IF k = 0 THEN key ELSE r[k - 1] \div Base]
    BY <1>2
  <2> DEFINE q == [k \in 0 .. n + 1 |-> IF k = n + 1 THEN r[n] \div Base ELSE r[k]]
  <2>2. \A k \in 0 .. n + 1 : q[k] = IF k = 0 THEN key ELSE q[k - 1] \div Base
    BY <2>1
  <2>3. q = [k \in 0 .. n + 1 |-> IF k = 0 THEN key ELSE q[k - 1] \div Base]
    BY <2>2
  <2> HIDE DEF q
  <2> QED BY <2>3
<1> HIDE DEF S
<1>3. Length \in S
  BY <1>1, <1>2, InductionOverSet, NamesAssumption
<1> QED BY <1>3 DEF S, Rest

LEMMA DigitsAre ==
    ASSUME NEW key \in Nat
    PROVE  \E r : /\ r \in [0 .. Length -> Nat] /\ r[0] = key
                  /\ \A k \in 1 .. Length : r[k] = r[k - 1] \div Base
                  /\ Digits(key) = [k \in 1 .. Length |-> r[k - 1] % Base]
<1> DEFINE r == CHOOSE h : h = [k \in 0 .. Length |-> IF k = 0 THEN key ELSE h[k - 1] \div Base]
<1>1. r = [k \in 0 .. Length |-> IF k = 0 THEN key ELSE r[k - 1] \div Base]
  BY RestExists DEF Rest
<1>2. Digits(key) = [k \in 1 .. Length |-> r[k - 1] % Base]
  BY DEF Digits
<1> HIDE DEF r
<1>3. r[0] = key /\ \A k \in 1 .. Length : r[k] = r[k - 1] \div Base
  BY <1>1, NamesAssumption
<1>4. \A k \in 0 .. Length : r[k] \in Nat
  <2> DEFINE S == {k \in Nat : k <= Length => r[k] \in Nat}
  <2>1. 0 \in S
    BY <1>3
  <2>2. ASSUME NEW k \in Nat, k \in S PROVE k + 1 \in S
    <3>1. \A a \in Nat : a \div Base \in Nat
      BY NamesAssumption
    <3>2. CASE k + 1 <= Length
      <4>1. k + 1 \in 1 .. Length /\ (k + 1) - 1 = k /\ r[k] \in Nat
        BY <2>2, <3>2, NamesAssumption
      <4>2. r[k + 1] = r[k] \div Base
        BY <1>3, <4>1
      <4> QED BY <3>1, <4>1, <4>2
    <3> QED BY <3>2
  <2> HIDE DEF S
  <2>3. Nat \subseteq S
    BY <2>1, <2>2, InductionOverSet
  <2> QED BY <2>3 DEF S
<1>5. r \in [0 .. Length -> Nat]
  BY <1>1, <1>4
<1> QED BY <1>2, <1>3, <1>5

LEMMA DigitsType ==
    ASSUME NEW key \in Nat PROVE Digits(key) \in [1 .. Length -> 0 .. Base - 1]
<1>1. PICK r : r \in [0 .. Length -> Nat] /\ Digits(key) = [k \in 1 .. Length |-> r[k - 1] % Base]
  BY DigitsAre
<1>2. \A k \in 1 .. Length : r[k - 1] % Base \in 0 .. Base - 1
  BY <1>1, NamesAssumption
<1> QED BY <1>1, <1>2

\* The last digit that is not padding ends the name.
LEMMA DecodeIs ==
    ASSUME NEW key \in Nat
    PROVE  \E n \in 0 .. Length :
            /\ n > 0 => Digits(key)[n] # 0
            /\ \A k \in n + 1 .. Length : Digits(key)[k] = 0
            /\ Decode(key) = [k \in 1 .. n |-> Digits(key)[k]]
<1> DEFINE d == Digits(key)
           T == {n \in 0 .. Length : \A k \in n + 1 .. Length : d[k] = 0}
           length == CHOOSE n \in 0 .. Length : (n > 0 => d[n] # 0) /\ \A k \in n + 1 .. Length : d[k] = 0
<1>1. T \in SUBSET Nat /\ Length \in T
  BY NamesAssumption
<1>2. PICK n \in T : \A k \in T : n <= k
  <2> HIDE DEF T
  <2> QED BY <1>1, LeastOf
<1>3. n > 0 => d[n] # 0
  <2> SUFFICES ASSUME n > 0, d[n] = 0 PROVE FALSE
    OBVIOUS
  <2> HIDE DEF d
  <2>1. n - 1 \in T
    BY NamesAssumption
  <2> QED BY <1>2, <2>1
<1>4. n \in 0 .. Length /\ \A k \in n + 1 .. Length : d[k] = 0
  OBVIOUS
<1> HIDE DEF d, T
<1>5. length \in 0 .. Length /\ (length > 0 => d[length] # 0) /\ \A k \in length + 1 .. Length : d[k] = 0
  BY <1>3, <1>4
<1>6. Decode(key) = [k \in 1 .. length |-> d[k]]
  BY DEF Decode, d
<1> HIDE DEF length
<1> QED BY <1>5, <1>6 DEF d

\* The value of the last k characters of a name.
Value(name, v) == v = [k \in 0 .. Len(name) |-> IF k = 0 THEN 0 ELSE name[Len(name) + 1 - k] + Base * v[k - 1]]

LEMMA ValueExists ==
    ASSUME NEW name \in Seq(Nat) PROVE \E v : Value(name, v)
<1> DEFINE c(k) == name[Len(name) + 1 - k]
           S == {n \in Nat : \E v : v = [k \in 0 .. n |-> IF k = 0 THEN 0 ELSE c(k) + Base * v[k - 1]]}
<1> HIDE DEF c
<1>1. 0 \in S
  <2>1. [k \in 0 .. 0 |-> 0] = [k \in 0 .. 0 |-> IF k = 0 THEN 0 ELSE c(k) + Base * [l \in 0 .. 0 |-> 0][k - 1]]
    OBVIOUS
  <2> QED BY <2>1
<1>2. ASSUME NEW n \in Nat, n \in S PROVE n + 1 \in S
  <2>1. PICK v : v = [k \in 0 .. n |-> IF k = 0 THEN 0 ELSE c(k) + Base * v[k - 1]]
    BY <1>2
  <2> DEFINE q == [k \in 0 .. n + 1 |-> IF k = n + 1 THEN c(n + 1) + Base * v[n] ELSE v[k]]
  <2>2. \A k \in 0 .. n + 1 : q[k] = IF k = 0 THEN 0 ELSE c(k) + Base * q[k - 1]
    BY <2>1
  <2>3. q = [k \in 0 .. n + 1 |-> IF k = 0 THEN 0 ELSE c(k) + Base * q[k - 1]]
    BY <2>2
  <2> HIDE DEF q
  <2> QED BY <2>3
<1> HIDE DEF S
<1>3. Len(name) \in S
  BY <1>1, <1>2, InductionOverSet
<1> QED BY <1>3 DEF S, Value, c

LEMMA OneMore ==
    ASSUME NEW c \in Nat, NEW n \in Nat PROVE c + Base * n \in Nat
BY NamesAssumption

LEMMA EncodeIs ==
    ASSUME NEW name \in Seq(Nat)
    PROVE  \E v : /\ v \in [0 .. Len(name) -> Nat] /\ v[0] = 0 /\ v[Len(name)] = Encode(name)
                  /\ \A k \in 1 .. Len(name) : v[k] = name[Len(name) + 1 - k] + Base * v[k - 1]
<1> DEFINE v == CHOOSE h : h = [k \in 0 .. Len(name) |-> IF k = 0 THEN 0 ELSE name[Len(name) + 1 - k] + Base * h[k - 1]]
<1>1. v = [k \in 0 .. Len(name) |-> IF k = 0 THEN 0 ELSE name[Len(name) + 1 - k] + Base * v[k - 1]]
  BY ValueExists DEF Value
<1>2. v[Len(name)] = Encode(name)
  BY DEF Encode
<1> HIDE DEF v
<1>3. v[0] = 0 /\ \A k \in 1 .. Len(name) : v[k] = name[Len(name) + 1 - k] + Base * v[k - 1]
  <2> DEFINE step(k) == name[Len(name) + 1 - k] + Base * v[k - 1]
  <2>1. v = [k \in 0 .. Len(name) |-> IF k = 0 THEN 0 ELSE step(k)]
    BY <1>1
  <2> HIDE DEF step
  <2>2. v[0] = 0 /\ \A k \in 1 .. Len(name) : v[k] = step(k)
    BY <2>1
  <2> QED BY <2>2 DEF step
<1>4. \A k \in 0 .. Len(name) : v[k] \in Nat
  <2> DEFINE S == {k \in Nat : k <= Len(name) => v[k] \in Nat}
  <2>1. 0 \in S
    BY <1>3
  <2>2. ASSUME NEW k \in Nat, k \in S PROVE k + 1 \in S
    <3>1. CASE k + 1 <= Len(name)
      <4>1. k + 1 \in 1 .. Len(name) /\ (k + 1) - 1 = k
        BY <3>1
      <4>2. v[k + 1] = name[Len(name) + 1 - (k + 1)] + Base * v[k]
        BY <1>3, <4>1
      <4>3. name[Len(name) + 1 - (k + 1)] \in Nat /\ v[k] \in Nat
        BY <2>2, <4>1
      <4>4. v[k + 1] \in Nat
        <5> HIDE DEF S
        <5> QED BY <4>2, <4>3, OneMore
      <4> QED BY <4>4
    <3> QED BY <3>1
  <2> HIDE DEF S
  <2>3. Nat \subseteq S
    BY <2>1, <2>2, InductionOverSet
  <2> QED BY <2>3 DEF S
<1>5. v \in [0 .. Len(name) -> Nat]
  BY <1>1, <1>4
<1> QED BY <1>2, <1>3, <1>5

\* One digit put before a number and taken off again.
LEMMA OneDigit ==
    ASSUME NEW c \in Nat, c < Base, NEW n \in Nat
    PROVE  (c + Base * n) \div Base = n /\ (c + Base * n) % Base = c
BY NamesAssumption

\* The digits of a name's key are its characters, and padding behind them.
LEMMA DigitsOfKey ==
    ASSUME NEW name \in Seq(0 .. Base - 1), Len(name) <= Length
    PROVE  /\ Encode(name) \in Nat
           /\ \A k \in 1 .. Length : Digits(Encode(name))[k] = IF k <= Len(name) THEN name[k] ELSE 0
<1>0. name \in Seq(Nat) /\ Len(name) \in Nat
  BY NamesAssumption
<1>1. PICK v : /\ v \in [0 .. Len(name) -> Nat] /\ v[0] = 0 /\ v[Len(name)] = Encode(name)
               /\ \A k \in 1 .. Len(name) : v[k] = name[Len(name) + 1 - k] + Base * v[k - 1]
  BY <1>0, EncodeIs
<1>2. Encode(name) \in Nat
  BY <1>0, <1>1
<1>3. PICK r : /\ r \in [0 .. Length -> Nat] /\ r[0] = Encode(name)
               /\ \A k \in 1 .. Length : r[k] = r[k - 1] \div Base
               /\ Digits(Encode(name)) = [k \in 1 .. Length |-> r[k - 1] % Base]
  BY <1>2, DigitsAre
<1> DEFINE n == Len(name)
           w(k) == IF k <= n THEN v[n - k] ELSE 0
<1>4. ASSUME NEW k \in 0 .. Length, k < Length
      PROVE  w(k + 1) = w(k) \div Base /\ w(k) % Base = IF k + 1 <= n THEN name[k + 1] ELSE 0
  <2>1. CASE k + 1 <= n
    <3>1. n - k \in 1 .. n /\ n + 1 - (n - k) = k + 1 /\ (n - k) - 1 = n - (k + 1) /\ k + 1 \in 1 .. n
      BY <1>0, <2>1
    <3>2. v[n - k] = name[k + 1] + Base * v[n - (k + 1)]
      BY <1>1, <3>1
    <3>3. name[k + 1] \in Nat /\ name[k + 1] < Base
      BY <3>1, NamesAssumption
    <3>4. v[n - (k + 1)] \in Nat
      <4>1. n - (k + 1) \in 0 .. n
        BY <1>0, <2>1
      <4> QED BY <1>1, <4>1
    <3> QED BY <2>1, <3>2, <3>3, <3>4, OneDigit
  <2>2. CASE ~(k + 1 <= n)
    <3>1. w(k) = 0 /\ w(k + 1) = 0
      BY <1>0, <1>1, <2>2
    <3>2. 0 \div Base = 0 /\ 0 % Base = 0
      BY NamesAssumption
    <3> QED BY <2>2, <3>1, <3>2
  <2> QED BY <2>1, <2>2
<1>5. w(0) = Encode(name)
  BY <1>0, <1>1
<1> HIDE DEF w
<1>6. \A k \in 0 .. Length : r[k] = w(k)
  <2> DEFINE S == {k \in Nat : k <= Length => r[k] = w(k)}
  <2>1. 0 \in S
    BY <1>3, <1>5
  <2>2. ASSUME NEW k \in Nat, k \in S PROVE k + 1 \in S
    <3>1. CASE k + 1 <= Length
      <4>1. k + 1 \in 1 .. Length /\ (k + 1) - 1 = k /\ k \in 0 .. Length /\ k < Length
        BY <3>1, NamesAssumption
      <4>2. r[k + 1] = r[k] \div Base
        BY <1>3, <4>1
      <4> QED BY <1>4, <2>2, <4>1, <4>2
    <3> QED BY <3>1
  <2> HIDE DEF S
  <2>3. Nat \subseteq S
    BY <2>1, <2>2, InductionOverSet
  <2> QED BY <2>3 DEF S
<1>7. ASSUME NEW k \in 1 .. Length
      PROVE  Digits(Encode(name))[k] = IF k <= Len(name) THEN name[k] ELSE 0
  <2>1. k - 1 \in 0 .. Length /\ k - 1 < Length /\ (k - 1) + 1 = k
    BY NamesAssumption
  <2>2. Digits(Encode(name))[k] = w(k - 1) % Base
    BY <1>3, <1>6, <2>1
  <2>3. w(k - 1) % Base = IF (k - 1) + 1 <= n THEN name[(k - 1) + 1] ELSE 0
    BY <1>4, <2>1
  <2> QED BY <2>1, <2>2, <2>3
<1> QED BY <1>2, <1>7

\* The test of a key accepts the keys of names, and no other number.
LEMMA StorableKeyTells ==
    ASSUME NEW key \in Nat PROVE StorableKey(key) <=> key \in StorableKeys
<1>1. ASSUME StorableKey(key) PROVE key \in StorableKeys
  <2>1. PICK n \in 0 .. Length : Decode(key) = [k \in 1 .. n |-> Digits(key)[k]]
    BY DecodeIs
  <2>2. \A k \in 1 .. n : Digits(key)[k] \in 0 .. Base - 1
    <3>1. \A k \in 1 .. n : k \in 1 .. Length
      BY NamesAssumption
    <3>2. \A k \in 1 .. Length : Digits(key)[k] \in 0 .. Base - 1
      BY DigitsType
    <3> QED BY <3>1, <3>2
  <2>3. n # 0
    BY <1>1, <2>1 DEF StorableKey
  <2>4. \A k \in 1 .. n : Digits(key)[k] # 0
    BY <1>1, <2>1 DEF StorableKey, ToSet
  <2>5. Decode(key) \in [1 .. n -> 1 .. Base - 1]
    BY <2>1, <2>2, <2>4, NamesAssumption
  <2>6. Decode(key) \in Names
    <3>1. n \in 1 .. Length
      BY <2>3, NamesAssumption
    <3> QED BY <2>5, <3>1 DEF Names
  <2> QED BY <1>1, <2>6 DEF StorableKey, StorableKeys
<1>2. ASSUME key \in StorableKeys PROVE StorableKey(key)
  <2>1. PICK name \in Names : key = Encode(name)
    BY <1>2 DEF StorableKeys
  <2>2. PICK n \in 1 .. Length : name \in [1 .. n -> 1 .. Base - 1]
    BY DEF Names
  <2>3. name \in Seq(0 .. Base - 1) /\ Len(name) = n /\ DOMAIN name = 1 .. n /\ n <= Length /\ n \in Nat
    BY <2>2, NamesAssumption
  <2>4. \A k \in 1 .. Length : Digits(key)[k] = IF k <= n THEN name[k] ELSE 0
    BY <2>1, <2>3, DigitsOfKey
  <2>5. PICK m \in 0 .. Length :
            /\ m > 0 => Digits(key)[m] # 0
            /\ \A k \in m + 1 .. Length : Digits(key)[k] = 0
            /\ Decode(key) = [k \in 1 .. m |-> Digits(key)[k]]
    BY DecodeIs
  <2>6. m = n
    <3>1. name[n] # 0
      BY <2>2
    <3>2. ~(m < n)
      BY <2>3, <2>4, <2>5, <3>1, NamesAssumption
    <3>3. ~(m > n)
      BY <2>3, <2>4, <2>5, NamesAssumption
    <3> QED BY <3>2, <3>3, NamesAssumption
  <2>7. Decode(key) = name
    BY <2>2, <2>4, <2>5, <2>6, NamesAssumption
  <2>8. name # <<>> /\ 0 \notin ToSet(name) /\ Encodable(name)
    BY <2>2, <2>3, NamesAssumption DEF ToSet, Encodable
  <2> QED BY <2>1, <2>7, <2>8 DEF StorableKey
<1> QED BY <1>1, <1>2

-----------------------------------------------------------------------------
(* MemberNames: the program.                                               *)

LEMMA ListedIs ==
    ASSUME NamesInv, NEW k \in 1 .. Len(listed)
    PROVE  /\ listed[k] \in Directories /\ listed[k].container \in BOOLEAN
           /\ listed[k].declared \in Nat /\ listed[k].slots \in Seq(Slots)
<1>1. listed[k] \in Directories
  BY DEF NamesInv
<1> QED BY <1>1 DEF Directories

\* The members of a directory that cannot be found by name are those its slots
\* end up being bad for.
LEMMA VerdictTells ==
    ASSUME NEW f \in Directories
    PROVE  BadBefore(f, Len(f.slots) + 1) <=> \E m \in Members(f) : m.key \notin StorableKeys
<1>1. f.slots \in Seq(Slots) /\ f.declared \in Nat /\ DOMAIN f.slots = 1 .. Len(f.slots) /\ Len(f.slots) \in Nat
  BY DEF Directories
<1>2. ASSUME NEW k \in DOMAIN f.slots
      PROVE  /\ f.slots[k].key \in Nat /\ k < Len(f.slots) + 1
             /\ ~Free(f.slots[k]) <=> f.slots[k].key + f.slots[k].size > 0
  <2>1. f.slots[k] \in Slots
    BY <1>1
  <2> QED BY <1>1, <2>1 DEF Slots, Free
<1> QED BY <1>2, StorableKeyTells DEF BadBefore, Members

LEMMA FileEndsKeeps ==
    ASSUME NamesInv, code = 9, nth <= Len(listed), FileEnds(ListingVerdict(listed[nth]))
    PROVE  NamesInv'
<1> USE DEF NamesInv
<1>1. /\ listed' = listed /\ code' = 9 /\ nth' = nth + 1 /\ slot' = 0 /\ bad' = FALSE
      /\ told' = Append(told, ListingVerdict(listed[nth]))
  BY DEF FileEnds
<1>2. ListingVerdict(listed[nth]) \in {"ok", "bad", "error"}
  BY DEF ListingVerdict
<1>3. /\ told' \in Seq({"ok", "bad", "error"}) /\ Len(told') = nth' - 1
      /\ \A k \in DOMAIN told' : told'[k] = ListingVerdict(listed[k])
  BY <1>1, <1>2
<1>4. \A k \in DOMAIN told' : ListingVerdict(listed[k])' = ListingVerdict(listed[k])
  BY <1>1
<1> QED BY <1>1, <1>3, <1>4

LEMMA NamesInitKeeps == NamesInit => NamesInv
<1> SUFFICES ASSUME NamesInit PROVE NamesInv
  OBVIOUS
<1>1. listed \in Seq(Directories)
  BY NamesAssumption DEF NamesInit
<1> QED BY <1>1 DEF NamesInit, NamesInv

LEMMA NamesNextKeeps == NamesInv /\ [NamesNext]_namesVars => NamesInv'
<1> SUFFICES ASSUME NamesInv, [NamesNext]_namesVars PROVE NamesInv'
  OBVIOUS
<1>1. CASE Open
  <2>1. code = 9 /\ slot = 0 /\ nth <= Len(listed)
    BY <1>1 DEF Open, Listing
  <2>2. CASE ~listed[nth].container /\ FileEnds("error")
    BY <2>1, <2>2, FileEndsKeeps DEF ListingVerdict
  <2>3. CASE listed[nth].container /\ slot' = 1 /\ UNCHANGED <<listed, nth, bad, told, code>>
    <3>1. /\ nth \in 1 .. Len(listed) /\ Len(listed[nth].slots) \in Nat
      BY <2>1, ListedIs DEF NamesInv
    <3>2. bad' = BadBefore(listed[nth], 1)
      <4>1. DOMAIN listed[nth].slots = 1 .. Len(listed[nth].slots)
        BY <3>1, ListedIs
      <4>2. ~BadBefore(listed[nth], 1)
        BY <3>1, <4>1 DEF BadBefore
      <4>3. bad = FALSE
        BY <2>1 DEF NamesInv
      <4>4. bad' = FALSE
        BY <2>3, <4>3
      <4>5. BadBefore(listed[nth], 1) \in BOOLEAN
        BY DEF BadBefore
      <4> QED BY <4>2, <4>4, <4>5
    <3> QED BY <2>1, <2>3, <3>1, <3>2 DEF NamesInv
  <2> QED BY <1>1, <2>2, <2>3 DEF Open
<1>2. CASE ReadSlot
  <2>1. /\ code = 9 /\ slot > 0 /\ slot' = slot + 1 /\ UNCHANGED <<listed, nth, told, code>>
        /\ slot <= listed[nth].declared /\ slot <= Len(listed[nth].slots)
    BY <1>2 DEF ReadSlot, Listing, MoreSlots
  <2>2. bad' = (bad \/ (~Free(listed[nth].slots[slot]) /\ ~StorableKey(listed[nth].slots[slot].key)))
    BY <1>2 DEF ReadSlot
  <2>3. nth \in 1 .. Len(listed) /\ slot \in Nat /\ bad = BadBefore(listed[nth], slot)
    BY <2>1 DEF NamesInv
  <2>4. listed[nth].slots \in Seq(Slots) /\ slot \in DOMAIN listed[nth].slots
    BY <2>1, <2>3, ListedIs
  <2>5. bad' = BadBefore(listed[nth], slot + 1)
    <3>1. \A k \in DOMAIN listed[nth].slots : k < slot + 1 <=> (k < slot \/ k = slot)
      BY <2>3, <2>4
    <3> QED BY <2>1, <2>2, <2>3, <2>4, <3>1 DEF BadBefore
  <2> QED BY <2>1, <2>3, <2>4, <2>5 DEF NamesInv
<1>3. CASE FileDone
  <2>1. code = 9 /\ slot > 0 /\ ~MoreSlots /\ FileEnds(IF bad THEN "bad" ELSE "ok")
    BY <1>3 DEF FileDone, Listing
  <2>2. nth \in 1 .. Len(listed) /\ slot \in Nat /\ bad = BadBefore(listed[nth], slot) /\ listed[nth].container
    BY <2>1 DEF NamesInv
  <2>3. bad <=> BadBefore(listed[nth], Len(listed[nth].slots) + 1)
    <3>1. listed[nth].declared \in Nat /\ DOMAIN listed[nth].slots = 1 .. Len(listed[nth].slots)
      BY <2>2, ListedIs
    <3>2. \A k \in DOMAIN listed[nth].slots : k <= listed[nth].declared => k < slot
      BY <2>1, <2>2, <3>1 DEF MoreSlots
    <3> QED BY <2>2, <3>1, <3>2 DEF BadBefore
  <2>4. ListingVerdict(listed[nth]) = IF bad THEN "bad" ELSE "ok"
    BY <2>2, <2>3 DEF ListingVerdict
  <2> QED BY <2>1, <2>2, <2>4, FileEndsKeeps
<1>4. CASE NamesQuit
  <2>1. /\ code = 9 /\ slot = 0 /\ nth > Len(listed) /\ UNCHANGED <<listed, nth, slot, bad, told>>
        /\ code' = IF "error" \in ToSet(told) THEN 2 ELSE IF "bad" \in ToSet(told) THEN 1 ELSE 0
    BY <1>4 DEF NamesQuit, Listing
  <2> QED BY <2>1 DEF NamesInv
<1>5. CASE UNCHANGED namesVars
  BY <1>5 DEF namesVars, NamesInv
<1> QED BY <1>1, <1>2, <1>3, <1>4, <1>5 DEF NamesNext

\* Every verdict is what the file's directory says, whatever files come before
\* it on the command line.
THEOREM NamesInvariant == NamesSpec => []NamesInv
BY NamesInitKeeps, NamesNextKeeps, PTL DEF NamesSpec

\* A file passes exactly when each of its members has the key of a name that a
\* writer may be given, and the exit code says so of all of them.
THEOREM MembersAreFoundByName == NamesSpec => []PassedAreFoundByName
<1>1. NamesInv => PassedAreFoundByName
  <2> SUFFICES ASSUME NamesInv PROVE PassedAreFoundByName
    OBVIOUS
  <2>1. ASSUME NEW k \in 1 .. Len(listed)
        PROVE  /\ listed[k].container \in BOOLEAN
               /\ ListingVerdict(listed[k]) = "error" <=> ~listed[k].container
               /\ ListingVerdict(listed[k]) = "bad" <=>
                    listed[k].container /\ \E m \in Members(listed[k]) : m.key \notin StorableKeys
               /\ ListingVerdict(listed[k]) \in {"ok", "bad", "error"}
    BY ListedIs, VerdictTells DEF ListingVerdict
  <2>2. DOMAIN told \subseteq 1 .. Len(listed) /\ \A k \in DOMAIN told : told[k] = ListingVerdict(listed[k])
    BY DEF NamesInv
  <2>3. code # 9 => DOMAIN told = 1 .. Len(listed) /\ DOMAIN listed = 1 .. Len(listed)
    BY DEF NamesInv
  <2>4. \A x : x \in ToSet(told) <=> \E k \in DOMAIN told : told[k] = x
    BY DEF ToSet
  <2>5. code # 9 => code = IF "error" \in ToSet(told) THEN 2 ELSE IF "bad" \in ToSet(told) THEN 1 ELSE 0
    BY DEF NamesInv
  <2> QED BY <2>1, <2>2, <2>3, <2>4, <2>5 DEF PassedAreFoundByName
<1> QED BY <1>1, NamesInvariant, PTL
=============================================================================
