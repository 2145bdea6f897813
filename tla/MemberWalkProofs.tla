-------------------------- MODULE MemberWalkProofs --------------------------
(***************************************************************************)
(* Proofs about MemberWalk: for every container, block size and number of  *)
(* levels, the walk reads inside the container, copies inside the member   *)
(* and reads exactly the blocks the mapping names.                         *)
(*                                                                         *)
(* The mapping is defined by recursion and flattening.  What that comes to *)
(* is proved by induction, over the set of the numbers a statement is true *)
(* of: an element of a flattened sequence is found at the sum of the       *)
(* lengths before it, a tree has its blocks where division says.           *)
(***************************************************************************)
EXTENDS MemberWalk, SequenceTheorems, WellFoundedInduction, TLAPS

\* Induction over a set: for a statement about numbers, the set of those it is
\* true of.
LEMMA InductionOverSet ==
    ASSUME NEW S, 0 \in S, \A n \in Nat : n \in S => n + 1 \in S
    PROVE  Nat \subseteq S
<1> DEFINE T == Nat \ S
           R == OpToRel(<, Nat)
<1>1. SUFFICES ASSUME T # {} PROVE FALSE
  OBVIOUS
<1>2. IsWellFoundedOn(R, Nat)
  BY NatLessThanWellFounded
<1>3. PICK x \in T : \A y \in T : <<y, x>> \notin R
  <2> HIDE DEF R
  <2>1. T \subseteq Nat
    OBVIOUS
  <2> HIDE DEF T
  <2> QED BY <1>1, <1>2, <2>1, WFMin
<1>4. x \in Nat /\ x # 0
  OBVIOUS
<1>5. x - 1 \in Nat /\ x - 1 \notin S
  <2>1. x - 1 \in Nat /\ x = (x - 1) + 1
    BY <1>4
  <2> QED BY <1>4, <2>1
<1>6. <<x - 1, x>> \in R
  BY <1>4, <1>5 DEF OpToRel
<1> QED BY <1>3, <1>5, <1>6

-----------------------------------------------------------------------------
(* Recursive definitions.                                                  *)

\* The first n applications of g to x.
Iterated(S, x, g, n, f) ==
    /\ f \in [0..n -> S] /\ f[0] = x
    /\ \A k \in 0..(n - 1) : f[k + 1] = g[f[k]]

\* There is such a function for every number of applications.
LEMMA IteratedExists ==
    ASSUME NEW S, NEW x \in S, NEW g \in [S -> S], NEW n \in Nat
    PROVE  \E f : Iterated(S, x, g, n, f)
<1> DEFINE T == {m \in Nat : \E f : Iterated(S, x, g, m, f)}
<1>1. 0 \in T
  <2> DEFINE f == [k \in 0..0 |-> x]
  <2>1. Iterated(S, x, g, 0, f)
    BY DEF Iterated
  <2> HIDE DEF f
  <2> QED BY <2>1
<1>2. ASSUME NEW m \in Nat, m \in T PROVE m + 1 \in T
  <2>1. PICK f : Iterated(S, x, g, m, f)
    BY <1>2
  <2>2. f \in [0..m -> S] /\ f[0] = x /\ \A k \in 0..(m - 1) : f[k + 1] = g[f[k]]
    BY <2>1 DEF Iterated
  <2> DEFINE h == [k \in 0..(m + 1) |-> IF k = m + 1 THEN g[f[m]] ELSE f[k]]
  <2>3. f[m] \in S /\ g[f[m]] \in S
    BY <2>2
  <2>4. h[m + 1] = g[f[m]] /\ \A k \in 0..m : h[k] = f[k]
    OBVIOUS
  <2>5. h \in [0..(m + 1) -> S]
    BY <2>2, <2>3
  <2> HIDE DEF h
  <2>6. ASSUME NEW k \in 0..m PROVE h[k + 1] = g[h[k]]
    <3>1. CASE k = m
      BY <2>4, <3>1
    <3>2. CASE k # m
      <4>1. k \in 0..(m - 1) /\ k + 1 \in 0..m
        BY <3>2
      <4> QED BY <2>2, <2>4, <4>1
    <3> QED BY <3>1, <3>2
  <2>7. h[0] = x /\ (m + 1) - 1 = m
    BY <2>2, <2>4
  <2>8. Iterated(S, x, g, m + 1, h)
    BY <2>5, <2>6, <2>7 DEF Iterated
  <2> QED BY <2>8
<1> HIDE DEF T
<1>3. n \in T
  BY <1>1, <1>2, InductionOverSet
<1> QED BY <1>3 DEF T

\* Two of them are equal as far as both go.
LEMMA IteratedAgree ==
    ASSUME NEW S, NEW x, NEW g, NEW m \in Nat, NEW n \in Nat, NEW f, NEW h,
           Iterated(S, x, g, m, f), Iterated(S, x, g, n, h),
           NEW d \in Nat, d <= m, d <= n
    PROVE  f[d] = h[d]
<1> DEFINE T == {k \in Nat : k <= m /\ k <= n => f[k] = h[k]}
<1>0. /\ f[0] = x /\ \A k \in 0..(m - 1) : f[k + 1] = g[f[k]]
      /\ h[0] = x /\ \A k \in 0..(n - 1) : h[k + 1] = g[h[k]]
  BY DEF Iterated
<1>1. 0 \in T
  BY <1>0
<1>2. ASSUME NEW k \in Nat, k \in T PROVE k + 1 \in T
  <2>1. SUFFICES ASSUME k + 1 <= m, k + 1 <= n PROVE f[k + 1] = h[k + 1]
    OBVIOUS
  <2>2. f[k] = h[k] /\ k \in 0..(m - 1) /\ k \in 0..(n - 1)
    BY <1>2, <2>1
  <2>3. f[k + 1] = g[f[k]] /\ h[k + 1] = g[h[k]]
    BY <1>0, <2>2
  <2> QED BY <2>2, <2>3
<1> HIDE DEF T
<1>3. d \in T
  BY <1>1, <1>2, InductionOverSet
<1> QED BY <1>3 DEF T

\* Every number of applications of g to x.
Iterates(S, x, g, f) == f \in [Nat -> S] /\ f[0] = x /\ \A k \in Nat : f[k + 1] = g[f[k]]

\* What iteration comes to, for every number of applications at once.
LEMMA Iteration ==
    ASSUME NEW S, NEW x \in S, NEW g \in [S -> S]
    PROVE  \E f : Iterates(S, x, g, f)
<1> DEFINE It(n) == CHOOSE f : Iterated(S, x, g, n, f)
           f == [n \in Nat |-> It(n)[n]]
<1>1. ASSUME NEW n \in Nat PROVE Iterated(S, x, g, n, It(n))
  BY IteratedExists
<1> HIDE DEF It
<1>2. ASSUME NEW n \in Nat
      PROVE  /\ It(n) \in [0..n -> S] /\ It(n)[0] = x
             /\ \A k \in 0..(n - 1) : It(n)[k + 1] = g[It(n)[k]]
  BY <1>1 DEF Iterated
<1>3. f \in [Nat -> S]
  <2>1. ASSUME NEW n \in Nat PROVE It(n)[n] \in S
    BY <1>2
  <2> QED BY <2>1
<1>4. f[0] = x
  BY <1>2
<1>5. ASSUME NEW k \in Nat PROVE f[k + 1] = g[f[k]]
  <2>1. k + 1 \in Nat /\ k \in 0..((k + 1) - 1)
    OBVIOUS
  <2>2. It(k + 1)[k + 1] = g[It(k + 1)[k]]
    BY <1>2, <2>1
  <2>3. It(k)[k] = It(k + 1)[k]
    <3>1. Iterated(S, x, g, k, It(k)) /\ Iterated(S, x, g, k + 1, It(k + 1))
      BY <1>1, <2>1
    <3>2. k <= k /\ k <= k + 1
      OBVIOUS
    <3> QED BY <2>1, <3>1, <3>2, IteratedAgree
  <2>4. f[k + 1] = It(k + 1)[k + 1] /\ f[k] = It(k)[k]
    BY <2>1
  <2> HIDE DEF f
  <2> QED BY <2>2, <2>3, <2>4
<1> HIDE DEF f
<1>6. Iterates(S, x, g, f)
  BY <1>3, <1>4, <1>5 DEF Iterates
<1> QED BY <1>6

\* A place behind the first a of a + b.
LEMMA BehindFirst ==
    ASSUME NEW a \in Nat, NEW b \in Nat, NEW j \in 1..b
    PROVE  a + j \in 1..(a + b) /\ ~(a + j <= a) /\ (a + j) - a = j
OBVIOUS

\* The sums of the first numbers of c.
Summed(c, n, off) ==
    /\ off \in [1..(n + 1) -> Nat] /\ off[1] = 0
    /\ \A k \in 1..n : off[k + 1] = off[k] + c[k]

\* There are running sums for every row of numbers.
LEMMA Sums ==
    ASSUME NEW n \in Nat, NEW c \in [1..n -> Nat]
    PROVE  \E off : Summed(c, n, off)
<1> DEFINE T == {m \in Nat : m <= n => \E off : Summed(c, m, off)}
<1>1. 0 \in T
  <2> DEFINE off == [k \in 1..(0 + 1) |-> 0]
  <2>1. Summed(c, 0, off)
    BY DEF Summed
  <2> HIDE DEF off
  <2> QED BY <2>1
<1>2. ASSUME NEW m \in Nat, m \in T PROVE m + 1 \in T
  <2>1. SUFFICES ASSUME m + 1 <= n PROVE \E off : Summed(c, m + 1, off)
    OBVIOUS
  <2>0. m <= n
    BY <2>1
  <2>2. PICK off : Summed(c, m, off)
    BY <1>2, <2>0
  <2>s. /\ off \in [1..(m + 1) -> Nat] /\ off[1] = 0
        /\ \A k \in 1..m : off[k + 1] = off[k] + c[k]
    BY <2>2 DEF Summed
  <2> DEFINE new == [k \in 1..((m + 1) + 1) |->
                        IF k = (m + 1) + 1 THEN off[m + 1] + c[m + 1] ELSE off[k]]
  <2>3. off[m + 1] \in Nat /\ c[m + 1] \in Nat
    BY <2>1, <2>s
  <2>4. new[(m + 1) + 1] = off[m + 1] + c[m + 1] /\ \A k \in 1..(m + 1) : new[k] = off[k]
    OBVIOUS
  <2>5. new \in [1..((m + 1) + 1) -> Nat]
    BY <2>3, <2>s
  <2> HIDE DEF new
  <2>6. ASSUME NEW k \in 1..(m + 1) PROVE new[k + 1] = new[k] + c[k]
    <3>1. CASE k = m + 1
      BY <2>4, <3>1
    <3>2. CASE k # m + 1
      <4>1. k \in 1..m /\ k + 1 \in 1..(m + 1)
        BY <3>2
      <4> QED BY <2>s, <2>4, <4>1
    <3> QED BY <3>1, <3>2
  <2>7. new[1] = 0
    BY <2>s, <2>4
  <2>8. Summed(c, m + 1, new)
    BY <2>5, <2>6, <2>7 DEF Summed
  <2> QED BY <2>8
<1> HIDE DEF T
<1>3. n \in T
  BY <1>1, <1>2, InductionOverSet
<1> QED BY <1>3 DEF T

\* The first sequences of ss, concatenated.
Cat(ss, m, f) == f = [i \in 1..m |-> IF i = 1 THEN ss[i] ELSE f[i - 1] \o ss[i]]

\* There is such a function for every row of sequences.
LEMMA CatExists ==
    ASSUME NEW ss, NEW n \in Nat
    PROVE  \E f : Cat(ss, n, f)
<1> DEFINE S == {m \in Nat : \E h : Cat(ss, m, h)}
<1>1. 0 \in S
  <2> DEFINE h == [i \in 1..0 |-> <<>>]
  <2>1. h = [i \in 1..0 |-> IF i = 1 THEN ss[i] ELSE h[i - 1] \o ss[i]]
    OBVIOUS
  <2> HIDE DEF h
  <2>2. Cat(ss, 0, h)
    BY <2>1 DEF Cat
  <2> QED BY <2>2
<1>2. ASSUME NEW m \in Nat, m \in S PROVE m + 1 \in S
  <2>1. PICK h : Cat(ss, m, h)
    BY <1>2
  <2>2. \A i \in 1..m : h[i] = IF i = 1 THEN ss[i] ELSE h[i - 1] \o ss[i]
    BY <2>1 DEF Cat
  <2> DEFINE last == IF m + 1 = 1 THEN ss[m + 1] ELSE h[m] \o ss[m + 1]
             g == [i \in 1..(m + 1) |-> IF i = m + 1 THEN last ELSE h[i]]
  <2>3. g[m + 1] = last /\ \A i \in 1..m : g[i] = h[i]
    <3>1. m + 1 \in 1..(m + 1) /\ \A i \in 1..m : i \in 1..(m + 1) /\ i # m + 1
      OBVIOUS
    <3> HIDE DEF last
    <3> QED BY <3>1, Zenon
  <2>4. g = [i \in 1..(m + 1) |-> g[i]]
    OBVIOUS
  <2> HIDE DEF g
  <2>5. ASSUME NEW i \in 1..(m + 1)
        PROVE  g[i] = IF i = 1 THEN ss[i] ELSE g[i - 1] \o ss[i]
    <3>1. CASE i = m + 1
      <4>1. CASE i = 1
        BY <2>3, <3>1, <4>1
      <4>2. CASE i # 1
        <5>1. i - 1 = m /\ m \in 1..m
          BY <3>1, <4>2
        <5> QED BY <2>3, <3>1, <4>2, <5>1
      <4> QED BY <4>1, <4>2
    <3>2. CASE i # m + 1
      <4>1. i \in 1..m
        BY <3>2
      <4>2. h[i] = IF i = 1 THEN ss[i] ELSE h[i - 1] \o ss[i]
        BY <2>2, <4>1
      <4>3. i # 1 => i - 1 \in 1..m
        BY <4>1
      <4> QED BY <2>3, <4>1, <4>2, <4>3
    <3> QED BY <3>1, <3>2
  <2>6. Cat(ss, m + 1, g)
    BY <2>4, <2>5 DEF Cat
  <2> QED BY <2>6
<1> HIDE DEF S
<1>3. n \in S
  BY <1>1, <1>2, InductionOverSet
<1> QED BY <1>3 DEF S

\* A flattened sequence, element by element.
LEMMA FlattenIs ==
    ASSUME NEW T, NEW ss \in Seq(Seq(T)), NEW off,
           Summed([k \in 1..Len(ss) |-> Len(ss[k])], Len(ss), off)
    PROVE  /\ FlattenSeq(ss) \in Seq(T) /\ Len(FlattenSeq(ss)) = off[Len(ss) + 1]
           /\ \A k \in 1..Len(ss) : \A j \in 1..Len(ss[k]) : FlattenSeq(ss)[off[k] + j] = ss[k][j]
<1> DEFINE N == Len(ss)
<1>0. N \in Nat /\ \A k \in 1..N : ss[k] \in Seq(T) /\ Len(ss[k]) \in Nat
  OBVIOUS
<1>s. /\ off \in [1..(N + 1) -> Nat] /\ off[1] = 0
      /\ \A k \in 1..N : off[k + 1] = off[k] + Len(ss[k])
  BY <1>0 DEF Summed
<1>1. CASE N = 0
  <2>1. FlattenSeq(ss) = ss /\ ss = <<>>
    BY <1>1 DEF FlattenSeq
  <2> QED BY <1>1, <1>s, <2>1
<1>2. CASE N # 0
  <2> DEFINE f == CHOOSE h : h = [i \in 1..N |-> IF i = 1 THEN ss[i] ELSE h[i - 1] \o ss[i]]
  <2>1. FlattenSeq(ss) = f[N]
    BY <1>2 DEF FlattenSeq
  <2>2. \E h : h = [i \in 1..N |-> IF i = 1 THEN ss[i] ELSE h[i - 1] \o ss[i]]
    BY <1>0, CatExists DEF Cat
  <2>3. f = [i \in 1..N |-> IF i = 1 THEN ss[i] ELSE f[i - 1] \o ss[i]]
    BY <2>2
  <2> HIDE DEF f
  <2>f. \A i \in 1..N : f[i] = IF i = 1 THEN ss[i] ELSE f[i - 1] \o ss[i]
    BY <2>3
  <2>4. f[1] = ss[1] /\ \A i \in 2..N : f[i] = f[i - 1] \o ss[i]
    <3>1. 1 \in 1..N /\ \A i \in 2..N : i \in 1..N /\ i # 1
      BY <1>0, <1>2
    <3> HIDE DEF N
    <3> QED BY <3>1, <2>f
  <2> DEFINE Right(m) == /\ f[m] \in Seq(T) /\ Len(f[m]) = off[m + 1]
                         /\ \A k \in 1..m : \A j \in 1..Len(ss[k]) :
                                off[k] + j \in 1..off[m + 1] /\ f[m][off[k] + j] = ss[k][j]
             S == {m \in Nat : m + 1 <= N => Right(m + 1)}
  <2>5. 0 \in S
    <3>1. 1 \in 1..N
      BY <1>0, <1>2
    <3>2. off[1 + 1] = off[1] + Len(ss[1])
      BY <1>s, <3>1
    <3> QED BY <1>0, <1>s, <2>4, <3>1, <3>2
  <2>6. ASSUME NEW m \in Nat, m \in S PROVE m + 1 \in S
    <3>1. SUFFICES ASSUME (m + 1) + 1 <= N PROVE Right((m + 1) + 1)
      OBVIOUS
    <3>2. Right(m + 1)
      BY <2>6, <3>1, <1>0
    <3> DEFINE q == (m + 1) + 1
               s == f[m + 1]
               t == ss[q]
               u == f[q]
    <3>3. /\ q \in 2..N /\ q \in 1..N /\ m + 1 \in Nat /\ q - 1 = m + 1 /\ q \in 1..(N + 1)
          /\ q + 1 \in 1..(N + 1)
      BY <3>1, <1>0
    <3>4. u = s \o t /\ s \in Seq(T) /\ t \in Seq(T) /\ Len(s) = off[q]
      BY <1>0, <2>4, <3>2, <3>3
    <3>5. off[q + 1] = off[q] + Len(t) /\ off[q] \in Nat /\ off[q + 1] \in Nat /\ Len(t) \in Nat
      BY <3>3, <1>0, <1>s
    <3>6. \A k \in 1..(m + 1) : \A j \in 1..Len(ss[k]) :
                off[k] + j \in 1..off[q] /\ s[off[k] + j] = ss[k][j]
      BY <3>2
    <3> HIDE DEF s, t, u, Right, S
    <3>c. /\ s \o t \in Seq(T) /\ Len(s \o t) = Len(s) + Len(t)
          /\ \A i \in 1..(Len(s) + Len(t)) :
                 (s \o t)[i] = IF i <= Len(s) THEN s[i] ELSE t[i - Len(s)]
      BY <3>4, ConcatProperties
    <3>7. u \in Seq(T) /\ Len(u) = off[q + 1]
      BY <3>4, <3>5, <3>c
    <3>8. ASSUME NEW k \in 1..q, NEW j \in 1..Len(ss[k])
          PROVE  off[k] + j \in 1..off[q + 1] /\ u[off[k] + j] = ss[k][j]
      <4>1. CASE k = q
        <5>0. ss[k] = t /\ off[k] = Len(s)
          BY <3>4, <4>1 DEF t
        <5>1. j \in 1..Len(t) /\ off[k] + j = Len(s) + j
          BY <5>0
        <5>2. u[Len(s) + j] = t[j]
          <6>0. Len(s) \in Nat /\ Len(t) \in Nat /\ j \in 1..Len(t)
            BY <3>4, <3>5, <5>1
          <6>1. /\ Len(s) + j \in 1..(Len(s) + Len(t)) /\ ~(Len(s) + j <= Len(s))
                /\ (Len(s) + j) - Len(s) = j
            BY <6>0, BehindFirst
          <6> QED BY <3>4, <3>c, <6>1
        <5>3. off[k] + j \in 1..off[q + 1]
          BY <3>4, <3>5, <4>1, <5>1
        <5> QED BY <5>0, <5>1, <5>2, <5>3
      <4>2. CASE k # q
        <5>1. k \in 1..(m + 1)
          BY <4>2
        <5>2. off[k] + j \in 1..off[q] /\ s[off[k] + j] = ss[k][j]
          BY <3>6, <5>1
        <5> DEFINE p == off[k] + j
        <5> HIDE DEF p
        <5>3. p \in 1..off[q] /\ s[p] = ss[k][j]
          BY <5>2 DEF p
        <5>4. p \in 1..off[q + 1] /\ p \in 1..(Len(s) + Len(t)) /\ p <= Len(s)
          BY <3>4, <3>5, <5>3
        <5>5. u[p] = s[p]
          BY <3>4, <3>c, <5>4
        <5> QED BY <5>3, <5>4, <5>5 DEF p
      <4> QED BY <4>1, <4>2
    <3> QED BY <3>7, <3>8 DEF Right, u
  <2> HIDE DEF S
  <2>n. N - 1 \in Nat /\ (N - 1) + 1 = N
    BY <1>0, <1>2
  <2>7. N - 1 \in S
    <3>1. Nat \subseteq S
      BY <2>5, <2>6, InductionOverSet
    <3> QED BY <2>n, <3>1
  <2> HIDE DEF Right
  <2>8. Right(N)
    BY <1>0, <2>n, <2>7 DEF S
  <2> USE DEF Right
  <2> QED BY <2>1, <2>8
<1> QED BY <1>0, <1>1, <1>2

-----------------------------------------------------------------------------
(* The mapping of a member.                                                *)

\* What a container is.
LEMMA ContainerFacts ==
    ASSUME NEW c \in Containers
    PROVE  /\ c.blocks \in Nat /\ c.root \in Nat /\ c.size \in Nat /\ Usable \in Nat
           /\ \A b, s : IsBlock(c, b) /\ s \in 0..Usable => c.slots[b][s] \in Nat
           /\ \A b : \A s \in 0..Usable : Pointer(c, b, s) \in Nat
<1>1. /\ c.blocks \in Nat /\ c.root \in Nat /\ c.size \in Nat /\ Usable \in Nat
      /\ c.slots \in [1..(c.blocks - 1) -> [0..Usable -> Nat]]
  BY WalkAssumption
<1>2. ASSUME NEW b, NEW s, IsBlock(c, b), s \in 0..Usable PROVE c.slots[b][s] \in Nat
  BY <1>1, <1>2 DEF IsBlock
<1>3. \A b : \A s \in 0..Usable : Pointer(c, b, s) \in Nat
  BY <1>2 DEF Pointer
<1> QED BY <1>1, <1>2, <1>3

\* The pointers of some blocks, in order.
LEMMA ChildrenAre ==
    ASSUME NEW c \in Containers, NEW bs \in Seq(Nat)
    PROVE  /\ Children(c, bs) \in Seq(Nat) /\ Len(Children(c, bs)) = Len(bs) * Usable
           /\ \A m \in Nat : \A s \in 0..(Usable - 1) : m < Len(bs) =>
                  Children(c, bs)[m * Usable + s + 1] = Pointer(c, bs[m + 1], s)
<1> DEFINE N == Len(bs)
           of(b) == [s \in 1..Usable |-> Pointer(c, b, s - 1)]
           ss == [i \in DOMAIN bs |-> of(bs[i])]
           off == [k \in 1..(N + 1) |-> (k - 1) * Usable]
<1>1. N \in Nat /\ Usable \in Nat /\ DOMAIN bs = 1..N
  BY WalkAssumption
<1>2. ASSUME NEW b PROVE of(b) \in Seq(Nat) /\ Len(of(b)) = Usable
  <2>1. \A s \in 1..Usable : s - 1 \in 0..Usable
    BY <1>1
  <2>2. \A s \in 1..Usable : Pointer(c, b, s - 1) \in Nat
    BY <2>1, ContainerFacts
  <2> QED BY <1>1, <2>2
<1>3. ss \in Seq(Seq(Nat)) /\ Len(ss) = N
  <2> HIDE DEF of
  <2> QED BY <1>1, <1>2
<1>4. \A k \in 1..N : ss[k] = of(bs[k])
  BY <1>1
<1>5. Children(c, bs) = FlattenSeq(ss)
  BY DEF Children
<1>6. Summed([k \in 1..Len(ss) |-> Len(ss[k])], Len(ss), off)
  <2> DEFINE lens == [k \in 1..Len(ss) |-> Len(ss[k])]
  <2>1. \A k \in 1..N : lens[k] = Usable
    <3> HIDE DEF of, ss
    <3> QED BY <1>2, <1>3, <1>4
  <2>2. off \in [1..(N + 1) -> Nat] /\ off[1] = 0
    <3>1. \A k \in 1..(N + 1) : (k - 1) * Usable \in Nat
      <4>1. \A a, b \in Nat : a * b \in Nat
        OBVIOUS
      <4> QED BY <1>1, <4>1
    <3> QED BY <1>1, <3>1
  <2>3. ASSUME NEW k \in 1..N PROVE off[k + 1] = off[k] + Usable
    <3>1. off[k + 1] = ((k + 1) - 1) * Usable /\ off[k] = (k - 1) * Usable
      BY <1>1
    <3>2. ((k + 1) - 1) * Usable = (k - 1) * Usable + Usable
      BY <1>1
    <3> HIDE DEF off
    <3> QED BY <3>1, <3>2
  <2>4. ASSUME NEW k \in 1..N PROVE off[k + 1] = off[k] + lens[k]
    BY <2>1, <2>3
  <2> HIDE DEF off, lens
  <2>5. Summed(lens, N, off)
    BY <2>2, <2>4 DEF Summed
  <2> QED BY <1>3, <2>5 DEF lens
<1>7. \A k \in 1..(N + 1) : off[k] = (k - 1) * Usable
  OBVIOUS
<1> HIDE DEF off, ss
<1>8. /\ FlattenSeq(ss) \in Seq(Nat) /\ Len(FlattenSeq(ss)) = off[N + 1]
      /\ \A k \in 1..N : \A j \in 1..Len(ss[k]) : FlattenSeq(ss)[off[k] + j] = ss[k][j]
  BY <1>3, <1>6, FlattenIs
<1>9. off[N + 1] = N * Usable
  BY <1>1, <1>7
<1>10. ASSUME NEW m \in Nat, NEW s \in 0..(Usable - 1), m < N
       PROVE  FlattenSeq(ss)[m * Usable + s + 1] = Pointer(c, bs[m + 1], s)
  <2>1. m + 1 \in 1..N /\ s + 1 \in 1..Usable /\ (m + 1) - 1 = m /\ (s + 1) - 1 = s
        /\ m + 1 \in 1..(N + 1)
    BY <1>1, <1>10
  <2>2. off[m + 1] = m * Usable
    BY <1>7, <2>1
  <2>3. ss[m + 1] = of(bs[m + 1])
    BY <1>4, <2>1
  <2>4. Len(ss[m + 1]) = Usable
    BY <1>2, <2>3
  <2>5. FlattenSeq(ss)[off[m + 1] + (s + 1)] = ss[m + 1][s + 1]
    BY <1>8, <2>1, <2>4
  <2>6. of(bs[m + 1])[s + 1] = Pointer(c, bs[m + 1], s)
    BY <2>1
  <2>7. m * Usable + (s + 1) = m * Usable + s + 1
    <3>1. m * Usable \in Nat
      BY <1>1
    <3> QED BY <3>1
  <2> HIDE DEF of
  <2> QED BY <2>2, <2>3, <2>5, <2>6, <2>7
<1> QED BY <1>5, <1>8, <1>9, <1>10

\* The blocks of a tree, level by level.
LEMMA DataBlocksAre ==
    ASSUME NEW c \in Containers, NEW root \in Nat
    PROVE  /\ DataBlocks(c, root, 0) = <<root>>
           /\ \A n \in Nat : /\ DataBlocks(c, root, n) \in Seq(Nat)
                             /\ DataBlocks(c, root, n + 1) = Children(c, DataBlocks(c, root, n))
<1> DEFINE S == Seq(Nat)
           g == [bs \in S |-> Children(c, bs)]
           below(n) == CHOOSE f : f = [k \in 0..n |-> IF k = 0 THEN <<root>> ELSE Children(c, f[k - 1])]
<1>1. g \in [S -> S] /\ <<root>> \in S
  BY ChildrenAre
<1>2. \A bs \in S : g[bs] = Children(c, bs)
  OBVIOUS
<1> HIDE DEF g, S
<1>p. PICK f : Iterates(S, <<root>>, g, f)
  BY <1>1, Iteration
<1>3. f \in [Nat -> S] /\ f[0] = <<root>> /\ \A k \in Nat : f[k + 1] = g[f[k]]
  BY <1>p DEF Iterates
<1>4. \A k \in Nat : f[k + 1] = Children(c, f[k])
  BY <1>2, <1>3
<1>5. ASSUME NEW n \in Nat PROVE DataBlocks(c, root, n) = f[n]
  <2>1. DataBlocks(c, root, n) = below(n)[n]
    BY DEF DataBlocks
  <2> DEFINE h == [k \in 0..n |-> f[k]]
  <2>2. \A k \in 0..n : h[k] = IF k = 0 THEN <<root>> ELSE Children(c, h[k - 1])
    <3> SUFFICES ASSUME NEW k \in 0..n
                 PROVE  h[k] = IF k = 0 THEN <<root>> ELSE Children(c, h[k - 1])
      OBVIOUS
    <3>1. CASE k = 0
      BY <1>3, <3>1
    <3>2. CASE k # 0
      <4>1. k - 1 \in Nat /\ k - 1 \in 0..n /\ (k - 1) + 1 = k
        BY <3>2
      <4>2. h[k] = f[k] /\ h[k - 1] = f[k - 1]
        BY <4>1
      <4>3. f[k] = Children(c, f[k - 1])
        BY <1>4, <4>1
      <4> HIDE DEF h
      <4> QED BY <3>2, <4>2, <4>3
    <3> QED BY <3>1, <3>2
  <2>3. h = [k \in 0..n |-> h[k]]
    OBVIOUS
  <2>4. h[n] = f[n]
    OBVIOUS
  <2> HIDE DEF h
  <2>5. h = [k \in 0..n |-> IF k = 0 THEN <<root>> ELSE Children(c, h[k - 1])]
    BY <2>2, <2>3
  <2>6. below(n) = [k \in 0..n |-> IF k = 0 THEN <<root>> ELSE Children(c, below(n)[k - 1])]
    BY <2>5
  <2> DEFINE b == below(n)
  <2> HIDE DEF below
  <2> HIDE DEF b
  <2>7. \A k \in 0..n : b[k] = IF k = 0 THEN <<root>> ELSE Children(c, b[k - 1])
    BY <2>6 DEF b
  <2> DEFINE T == {k \in Nat : k <= n => b[k] = f[k]}
  <2>8. 0 \in T
    BY <1>3, <2>7
  <2>9. ASSUME NEW k \in Nat, k \in T PROVE k + 1 \in T
    <3>1. SUFFICES ASSUME k + 1 <= n PROVE b[k + 1] = f[k + 1]
      OBVIOUS
    <3>2. k + 1 \in 0..n /\ k + 1 # 0 /\ (k + 1) - 1 = k /\ b[k] = f[k]
      BY <2>9, <3>1
    <3>3. b[k + 1] = Children(c, b[k])
      BY <2>7, <3>2
    <3> QED BY <1>4, <3>2, <3>3
  <2> HIDE DEF T
  <2>10. n \in T
    BY <2>8, <2>9, InductionOverSet
  <2>11. b[n] = f[n]
    BY <2>10 DEF T
  <2> QED BY <2>1, <2>11 DEF b
<1>6. ASSUME NEW n \in Nat
      PROVE  /\ DataBlocks(c, root, n) \in Seq(Nat)
             /\ DataBlocks(c, root, n + 1) = Children(c, DataBlocks(c, root, n))
  <2>1. n + 1 \in Nat /\ f[n] \in S
    BY <1>3
  <2>2. DataBlocks(c, root, n + 1) = f[n + 1]
    BY <1>5, <2>1
  <2> QED BY <1>4, <1>5, <2>1, <2>2 DEF S
<1> QED BY <1>3, <1>5, <1>6

\* The blocks that head the levels.
LEMMA LevelRootsAre ==
    ASSUME NEW c \in Containers
    PROVE  /\ LevelRoot(c, 1) = c.root
           /\ \A n \in Nat \ {0} : /\ LevelRoot(c, n) \in Nat
                                   /\ LevelRoot(c, n + 1) = Pointer(c, LevelRoot(c, n), Usable)
<1> DEFINE g == [b \in Nat |-> Pointer(c, b, Usable)]
           roots(n) == CHOOSE f : f = [k \in 1..n |-> IF k = 1 THEN c.root ELSE Pointer(c, f[k - 1], Usable)]
<1>1. g \in [Nat -> Nat] /\ c.root \in Nat
  <2>1. Usable \in 0..Usable /\ c.root \in Nat
    BY ContainerFacts
  <2>2. \A b \in Nat : Pointer(c, b, Usable) \in Nat
    BY <2>1, ContainerFacts
  <2> QED BY <2>1, <2>2
<1>2. \A b \in Nat : g[b] = Pointer(c, b, Usable)
  OBVIOUS
<1> HIDE DEF g
<1>p. PICK f : Iterates(Nat, c.root, g, f)
  BY <1>1, Iteration
<1>3. f \in [Nat -> Nat] /\ f[0] = c.root /\ \A k \in Nat : f[k + 1] = g[f[k]]
  BY <1>p DEF Iterates
<1>4. \A k \in Nat : f[k + 1] = Pointer(c, f[k], Usable)
  BY <1>2, <1>3
<1>5. ASSUME NEW n \in Nat \ {0} PROVE LevelRoot(c, n) = f[n - 1]
  <2>1. LevelRoot(c, n) = roots(n)[n]
    BY DEF LevelRoot
  <2> DEFINE h == [k \in 1..n |-> f[k - 1]]
  <2>2. \A k \in 1..n : h[k] = IF k = 1 THEN c.root ELSE Pointer(c, h[k - 1], Usable)
    <3> SUFFICES ASSUME NEW k \in 1..n
                 PROVE  h[k] = IF k = 1 THEN c.root ELSE Pointer(c, h[k - 1], Usable)
      OBVIOUS
    <3>1. CASE k = 1
      BY <1>3, <3>1
    <3>2. CASE k # 1
      <4>1. (k - 1) - 1 \in Nat /\ k - 1 \in 1..n /\ ((k - 1) - 1) + 1 = k - 1
        BY <3>2
      <4>2. h[k] = f[k - 1] /\ h[k - 1] = f[(k - 1) - 1]
        BY <4>1
      <4>3. f[k - 1] = Pointer(c, f[(k - 1) - 1], Usable)
        BY <1>4, <4>1
      <4> HIDE DEF h
      <4> QED BY <3>2, <4>2, <4>3
    <3> QED BY <3>1, <3>2
  <2>3. h = [k \in 1..n |-> h[k]]
    OBVIOUS
  <2> HIDE DEF h
  <2>5. h = [k \in 1..n |-> IF k = 1 THEN c.root ELSE Pointer(c, h[k - 1], Usable)]
    BY <2>2, <2>3
  <2>6. roots(n) = [k \in 1..n |-> IF k = 1 THEN c.root ELSE Pointer(c, roots(n)[k - 1], Usable)]
    BY <2>5
  <2> DEFINE b == roots(n)
  <2> HIDE DEF roots
  <2> HIDE DEF b
  <2>7. \A k \in 1..n : b[k] = IF k = 1 THEN c.root ELSE Pointer(c, b[k - 1], Usable)
    BY <2>6 DEF b
  <2> DEFINE T == {k \in Nat : k + 1 <= n => b[k + 1] = f[k]}
  <2>8. 0 \in T
    <3>1. b[1] = f[0]
      BY <1>3, <2>7
    <3> QED BY <3>1
  <2>9. ASSUME NEW k \in Nat, k \in T PROVE k + 1 \in T
    <3>1. SUFFICES ASSUME (k + 1) + 1 <= n PROVE b[(k + 1) + 1] = f[k + 1]
      OBVIOUS
    <3>2. (k + 1) + 1 \in 1..n /\ (k + 1) + 1 # 1 /\ ((k + 1) + 1) - 1 = k + 1 /\ b[k + 1] = f[k]
      BY <2>9, <3>1
    <3>3. b[(k + 1) + 1] = Pointer(c, b[k + 1], Usable)
      BY <2>7, <3>2
    <3> QED BY <1>4, <3>2, <3>3
  <2> HIDE DEF T
  <2>n. n - 1 \in Nat /\ (n - 1) + 1 = n
    OBVIOUS
  <2>10. n - 1 \in T
    BY <2>8, <2>9, <2>n, InductionOverSet
  <2>11. b[n] = f[n - 1]
    BY <2>10, <2>n DEF T
  <2> QED BY <2>1, <2>11 DEF b
<1>6. LevelRoot(c, 1) = c.root
  BY <1>3, <1>5
<1>7. ASSUME NEW n \in Nat \ {0}
      PROVE  /\ LevelRoot(c, n) \in Nat
             /\ LevelRoot(c, n + 1) = Pointer(c, LevelRoot(c, n), Usable)
  <2>1. n + 1 \in Nat \ {0} /\ (n + 1) - 1 = n /\ n - 1 \in Nat /\ (n - 1) + 1 = n /\ n \in Nat
    OBVIOUS
  <2>2. LevelRoot(c, n + 1) = f[n] /\ LevelRoot(c, n) = f[n - 1]
    BY <1>5, <2>1
  <2>3. f[n] = Pointer(c, f[n - 1], Usable) /\ f[n - 1] \in Nat
    BY <1>3, <1>4, <2>1
  <2> QED BY <2>2, <2>3
<1> QED BY <1>6, <1>7

-----------------------------------------------------------------------------
(* Indexes into it.                                                        *)

\* The slot and the rest of an index within a tree (the div and mod of
\* ctfs_v4_to_v5.nim:106-114).
LEMMA SlotOfIndex ==
    ASSUME NEW i \in Nat, NEW c \in Nat, NEW u \in Nat, i < u * c
    PROVE  /\ c > 0
           /\ i \div c \in 0..(u - 1)
           /\ i % c \in Nat /\ i % c < c
<1>1. c > 0
  BY SMT
<1>2. /\ i = c * (i \div c) + (i % c)
      /\ i \div c \in Nat /\ i % c \in 0..(c - 1)
  BY <1>1, SMT
<1>3. i \div c < u
  <2> DEFINE q == i \div c
  <2>1. q \in Nat /\ c * q <= i
    BY <1>2
  <2> HIDE DEF q
  <2> SUFFICES ASSUME q >= u PROVE FALSE
    BY <2>1 DEF q
  <2>2. c * q >= u * c
    BY <1>1, <2>1, SMT
  <2> QED
    BY <2>1, <2>2, SMT
<1> QED
  BY <1>1, <1>2, <1>3

\* A number has one quotient and one rest.
LEMMA Quotient ==
    ASSUME NEW b \in Nat, NEW q \in Nat, NEW r \in Nat, r < b
    PROVE  (b * q + r) \div b = q /\ (b * q + r) % b = r
<1> DEFINE a == b * q + r
           d == a \div b
           m == a % b
<1>1. b > 0 /\ b * q \in Nat /\ a \in Nat
  OBVIOUS
<1>2. a = b * d + m /\ d \in Nat /\ m \in 0..(b - 1)
  BY <1>1, SMT
<1> HIDE DEF d, m
<1>3. b * q + r = b * d + m
  BY <1>2
<1>4. d = q
  <2>1. CASE d < q
    <3>1. b * (d + 1) <= b * q
      BY <1>2, <2>1, SMT
    <3>2. b * (d + 1) = b * d + b
      BY <1>2, SMT
    <3>3. b * d \in Nat
      BY <1>2, SMT
    <3> QED BY <1>1, <1>2, <1>3, <3>1, <3>2, <3>3
  <2>2. CASE d > q
    <3>1. b * (q + 1) <= b * d
      BY <1>2, <2>2, SMT
    <3>2. b * (q + 1) = b * q + b
      BY <1>2, SMT
    <3>3. b * d \in Nat
      BY <1>2, SMT
    <3> QED BY <1>1, <1>2, <1>3, <3>1, <3>2, <3>3
  <2> QED BY <1>2, <2>1, <2>2
<1>5. m = r
  BY <1>1, <1>2, <1>3, <1>4
<1> QED BY <1>4, <1>5 DEF d, m

\* An index within a tree: the index of its subtree, the slot in the block above
\* it and the index within the subtree.
LEMMA SubtreeOfIndex ==
    ASSUME NEW i \in Nat, NEW u \in Nat, NEW c \in Nat, u * c > 0
    PROVE  /\ i \div c \in Nat /\ i \div (u * c) \in Nat
           /\ (i \div c) \div u = i \div (u * c)
           /\ (i \div c) % u = (i % (u * c)) \div c
           /\ (i % (u * c)) \div c \in 0..(u - 1)
           /\ i % c = (i % (u * c)) % c
           /\ i \div c = u * (i \div (u * c)) + (i % (u * c)) \div c
<1> DEFINE b == u * c
           Q == i \div b
           R == i % b
           s == R \div c
           t == R % c
<1>1. b \in Nat /\ b > 0
  BY SMT
<1>2. i = b * Q + R /\ Q \in Nat /\ R \in Nat /\ R < b
  <2> HIDE DEF b
  <2> QED BY <1>1, SMT
<1>3. c > 0 /\ s \in 0..(u - 1) /\ t \in Nat /\ t < c
  <2> HIDE DEF R
  <2> QED BY <1>2, SlotOfIndex DEF b
<1>4. R = c * s + t
  <2> HIDE DEF R
  <2> QED BY <1>2, <1>3, SMT
<1> HIDE DEF Q, R, s, t
<1>5. i = c * (u * Q + s) + t
  <2>1. s \in Nat
    BY <1>3
  <2>2. c * (u * Q + s) = (u * c) * Q + c * s
    BY <1>2, <2>1, SMT
  <2>3. (u * c) * Q \in Nat /\ c * s \in Nat
    BY <1>2, <2>1, SMT
  <2> QED BY <1>2, <1>3, <1>4, <2>2, <2>3 DEF b
<1>6. u * Q + s \in Nat /\ s \in Nat /\ s < u
  BY <1>2, <1>3, SMT
<1>7. i \div c = u * Q + s /\ i % c = t
  <2> DEFINE q == u * Q + s
  <2>1. q \in Nat /\ i = c * q + t
    BY <1>5, <1>6
  <2> HIDE DEF q
  <2>2. (c * q + t) \div c = q /\ (c * q + t) % c = t
    BY <1>3, <2>1, Quotient
  <2>3. i \div c = q /\ i % c = t
    BY <2>1, <2>2
  <2> QED BY <2>3 DEF q
<1>8. (u * Q + s) \div u = Q /\ (u * Q + s) % u = s
  BY <1>2, <1>6, Quotient
<1>9. (i \div c) \div u = Q /\ (i \div c) % u = s /\ i \div c \in Nat
  BY <1>6, <1>7, <1>8
<1>10. Q = i \div (u * c) /\ s = (i % (u * c)) \div c /\ t = (i % (u * c)) % c
  BY DEF Q, s, t, R, b
<1> QED BY <1>2, <1>3, <1>7, <1>9, <1>10

\* What the assumption says of the levels.
LEMMA Levels ==
    /\ MaxChainLevels \in Nat \ {0} /\ Usable \in Nat /\ Cap[0] = 1
    /\ \A n \in 0..MaxChainLevels : Cap[n] \in Nat
    /\ \A n \in 1..MaxChainLevels : Cap[n] = Usable * Cap[n - 1]
BY WalkAssumption

\* A level that has blocks has pointers, and so have those below it.
LEMMA CapPositive ==
    ASSUME NEW n \in 1..MaxChainLevels, Cap[n] > 0
    PROVE  Usable > 0 /\ \A k \in 0..MaxChainLevels : Cap[k] > 0
<1>1. Cap[n] = Usable * Cap[n - 1] /\ n - 1 \in 0..MaxChainLevels
  BY Levels
<1>2. Usable > 0
  <2>1. Cap[n - 1] \in Nat /\ Usable \in Nat
    BY <1>1, Levels
  <2>2. ASSUME Usable = 0 PROVE FALSE
    <3>1. Usable * Cap[n - 1] = 0
      BY <2>1, <2>2
    <3> QED BY <1>1, <3>1
  <2> QED BY <2>1, <2>2
<1> DEFINE T == {k \in Nat : k <= MaxChainLevels => Cap[k] > 0}
<1>3. 0 \in T
  BY Levels
<1>4. ASSUME NEW k \in Nat, k \in T PROVE k + 1 \in T
  <2>1. SUFFICES ASSUME k + 1 <= MaxChainLevels PROVE Cap[k + 1] > 0
    OBVIOUS
  <2>2. Cap[k] > 0 /\ Cap[k] \in Nat /\ k + 1 \in 1..MaxChainLevels /\ (k + 1) - 1 = k
    BY <1>4, <2>1, Levels
  <2>3. Cap[k + 1] = Usable * Cap[k]
    BY <2>2, Levels
  <2>4. \A a, b \in Nat : a > 0 /\ b > 0 => a * b > 0
    BY SMT
  <2> QED BY <1>2, <2>2, <2>3, <2>4, Levels
<1> HIDE DEF T
<1>5. Nat \subseteq T
  BY <1>3, <1>4, InductionOverSet
<1> QED BY <1>2, <1>5, Levels DEF T

\* The tree of a level has as many blocks as the level.
LEMMA TreeSize ==
    ASSUME NEW c \in Containers, NEW root \in Nat, NEW n \in 0..MaxChainLevels
    PROVE  Len(DataBlocks(c, root, n)) = Cap[n]
<1> DEFINE T == {k \in Nat : k <= MaxChainLevels => Len(DataBlocks(c, root, k)) = Cap[k]}
<1>1. 0 \in T
  <2>1. Len(DataBlocks(c, root, 0)) = 1
    BY DataBlocksAre
  <2> QED BY <2>1, Levels
<1>2. ASSUME NEW k \in Nat, k \in T PROVE k + 1 \in T
  <2>1. SUFFICES ASSUME k + 1 <= MaxChainLevels PROVE Len(DataBlocks(c, root, k + 1)) = Cap[k + 1]
    OBVIOUS
  <2> DEFINE b == DataBlocks(c, root, k)
  <2>2. Len(b) = Cap[k] /\ k + 1 \in 1..MaxChainLevels /\ (k + 1) - 1 = k /\ Cap[k] \in Nat
    BY <1>2, <2>1, Levels
  <2>3. b \in Seq(Nat) /\ DataBlocks(c, root, k + 1) = Children(c, b)
    BY DataBlocksAre
  <2> HIDE DEF b
  <2>4. Len(Children(c, b)) = Len(b) * Usable
    BY <2>3, ChildrenAre
  <2>5. Cap[k + 1] = Usable * Cap[k]
    BY <2>2, Levels
  <2>6. Cap[k] * Usable = Usable * Cap[k]
    BY <2>2, Levels
  <2> QED BY <2>2, <2>3, <2>4, <2>5, <2>6
<1> HIDE DEF T
<1>3. n \in T
  BY <1>1, <1>2, InductionOverSet, Levels
<1> QED BY <1>3, Levels DEF T

\* The way down to a data block: the block it is under at each depth.
LEMMA PathStep ==
    ASSUME NEW c \in Containers, NEW root \in Nat, NEW n \in 1..MaxChainLevels,
           NEW i \in Nat, i < Cap[n], NEW k \in 0..(n - 1)
    PROVE  /\ i \div Cap[n - k] \in Nat /\ i \div Cap[n - k] < Cap[k]
           /\ (i % Cap[n - k]) \div Cap[n - (k + 1)] \in 0..(Usable - 1)
           /\ i % Cap[n - (k + 1)] = (i % Cap[n - k]) % Cap[n - (k + 1)]
           /\ i \div Cap[n - (k + 1)] \in Nat /\ i \div Cap[n - (k + 1)] < Cap[k + 1]
           /\ DataBlocks(c, root, k + 1)[i \div Cap[n - (k + 1)] + 1] =
                 Pointer(c, DataBlocks(c, root, k)[i \div Cap[n - k] + 1],
                         (i % Cap[n - k]) \div Cap[n - (k + 1)])
<1>0. Usable > 0 /\ \A j \in 0..MaxChainLevels : Cap[j] > 0 /\ Cap[j] \in Nat
  BY CapPositive, Levels
<1>1. ASSUME NEW j \in 0..(n - 1)
      PROVE  /\ i \div Cap[n - (j + 1)] \in Nat /\ i \div Cap[n - j] \in Nat
             /\ (i \div Cap[n - (j + 1)]) \div Usable = i \div Cap[n - j]
             /\ (i \div Cap[n - (j + 1)]) % Usable = (i % Cap[n - j]) \div Cap[n - (j + 1)]
             /\ (i % Cap[n - j]) \div Cap[n - (j + 1)] \in 0..(Usable - 1)
             /\ i % Cap[n - (j + 1)] = (i % Cap[n - j]) % Cap[n - (j + 1)]
             /\ i \div Cap[n - (j + 1)] =
                   Usable * (i \div Cap[n - j]) + (i % Cap[n - j]) \div Cap[n - (j + 1)]
  <2>1. /\ n - j \in 1..MaxChainLevels /\ (n - j) - 1 = n - (j + 1)
        /\ n - (j + 1) \in 0..MaxChainLevels /\ n - j \in 0..MaxChainLevels
    BY Levels
  <2> DEFINE a == Cap[n - j]
             b == Cap[n - (j + 1)]
  <2>2. a = Usable * b /\ b \in Nat /\ a > 0
    BY <1>0, <2>1, Levels
  <2> HIDE DEF a, b
  <2>3. Usable * b > 0 /\ Usable \in Nat
    BY <2>2, Levels
  <2>4. /\ i \div b \in Nat /\ i \div a \in Nat
        /\ (i \div b) \div Usable = i \div a
        /\ (i \div b) % Usable = (i % a) \div b
        /\ (i % a) \div b \in 0..(Usable - 1)
        /\ i % b = (i % a) % b
        /\ i \div b = Usable * (i \div a) + (i % a) \div b
    BY <2>2, <2>3, SubtreeOfIndex
  <2> QED BY <2>4 DEF a, b
<1> DEFINE T == {j \in Nat : j <= n => i \div Cap[n - j] \in Nat /\ i \div Cap[n - j] < Cap[j]}
<1>2. 0 \in T
  <2>1. n - 0 = n /\ Cap[n] \in Nat
    BY Levels
  <2>2. Cap[n] * 0 + i = i
    BY <2>1
  <2>3. (Cap[n] * 0 + i) \div Cap[n] = 0
    BY <2>1, Quotient
  <2>4. i \div Cap[n - 0] = 0
    BY <2>1, <2>2, <2>3
  <2>5. Cap[0] = 1
    BY Levels
  <2> QED BY <2>4, <2>5
<1>3. ASSUME NEW j \in Nat, j \in T PROVE j + 1 \in T
  <2>1. SUFFICES ASSUME j + 1 <= n
                 PROVE  i \div Cap[n - (j + 1)] \in Nat /\ i \div Cap[n - (j + 1)] < Cap[j + 1]
    OBVIOUS
  <2> DEFINE q == i \div Cap[n - j]
             s == (i % Cap[n - j]) \div Cap[n - (j + 1)]
             p == i \div Cap[n - (j + 1)]
  <2>2. j \in 0..(n - 1) /\ j \in 0..MaxChainLevels /\ j + 1 \in 1..MaxChainLevels /\ (j + 1) - 1 = j
    BY <2>1, Levels
  <2>3. q \in Nat /\ q < Cap[j] /\ Cap[j] \in Nat
    BY <1>0, <1>3, <2>1, <2>2
  <2>4. p \in Nat /\ p = Usable * q + s /\ s \in 0..(Usable - 1)
    BY <1>1, <2>2
  <2>5. Cap[j + 1] = Usable * Cap[j]
    BY <2>2, Levels
  <2> HIDE DEF q, s, p
  <2>6. Usable * (q + 1) <= Usable * Cap[j] /\ Usable * (q + 1) = Usable * q + Usable
        /\ Usable * q \in Nat /\ Usable * Cap[j] \in Nat
    BY <2>3, Levels, SMT
  <2>7. p < Cap[j + 1]
    BY <2>4, <2>5, <2>6, Levels
  <2> QED BY <2>4, <2>7 DEF p
<1> HIDE DEF T
<1>4. Nat \subseteq T
  BY <1>2, <1>3, InductionOverSet
<1>5. ASSUME NEW j \in 0..n PROVE i \div Cap[n - j] \in Nat /\ i \div Cap[n - j] < Cap[j]
  BY <1>4 DEF T
<1> DEFINE q == i \div Cap[n - k]
           p == i \div Cap[n - (k + 1)]
           s == (i % Cap[n - k]) \div Cap[n - (k + 1)]
           b == DataBlocks(c, root, k)
<1>6. k \in 0..n /\ k + 1 \in 0..n /\ k \in Nat /\ k \in 0..MaxChainLevels
  BY Levels
<1>7. /\ q \in Nat /\ q < Cap[k] /\ p \in Nat /\ p < Cap[k + 1]
      /\ s \in 0..(Usable - 1) /\ p = Usable * q + s
      /\ i % Cap[n - (k + 1)] = (i % Cap[n - k]) % Cap[n - (k + 1)]
  BY <1>1, <1>5, <1>6
<1>8. b \in Seq(Nat) /\ Len(b) = Cap[k] /\ DataBlocks(c, root, k + 1) = Children(c, b)
  BY <1>6, DataBlocksAre, TreeSize
<1> HIDE DEF q, p, s, b
<1>9. Children(c, b)[q * Usable + s + 1] = Pointer(c, b[q + 1], s)
  BY <1>7, <1>8, ChildrenAre
<1>10. p + 1 = q * Usable + s + 1
  <2>1. Usable * q = q * Usable /\ q * Usable \in Nat
    BY <1>7, Levels
  <2> QED BY <1>7, <2>1
<1>11. DataBlocks(c, root, k + 1)[p + 1] = Pointer(c, b[q + 1], s)
  BY <1>8, <1>9, <1>10
<1> QED BY <1>7, <1>11 DEF q, p, s, b

\* Under a pointer that names no block there are no blocks.
LEMMA NothingUnder ==
    ASSUME NEW c \in Containers, NEW root \in Nat, NEW n \in 1..MaxChainLevels,
           NEW i \in Nat, i < Cap[n], NEW d \in 0..n,
           ~ IsBlock(c, DataBlocks(c, root, d)[i \div Cap[n - d] + 1])
    PROVE  ~ IsBlock(c, DataBlocks(c, root, n)[i + 1])
<1> DEFINE at(k) == DataBlocks(c, root, k)[i \div Cap[n - k] + 1]
           T == {j \in Nat : d + j <= n => ~ IsBlock(c, at(d + j))}
<1>1. 0 \in T
  BY d + 0 = d
<1>2. ASSUME NEW j \in Nat, j \in T PROVE j + 1 \in T
  <2>1. SUFFICES ASSUME d + (j + 1) <= n PROVE ~ IsBlock(c, at(d + (j + 1)))
    OBVIOUS
  <2>2. d + j \in 0..(n - 1) /\ d + j <= n /\ d + (j + 1) = (d + j) + 1
    BY <2>1
  <2> DEFINE k == d + j
             s == (i % Cap[n - k]) \div Cap[n - (k + 1)]
  <2>3. ~ IsBlock(c, at(k))
    BY <1>2, <2>2
  <2> HIDE DEF k
  <2>4. at(k + 1) = Pointer(c, at(k), s)
    BY <2>2, PathStep DEF k
  <2> HIDE DEF at, s
  <2>5. at(k + 1) = 0 /\ ~ IsBlock(c, 0)
    <3>1. c.blocks \in Nat
      BY ContainerFacts
    <3> QED BY <2>3, <2>4, <3>1 DEF Pointer, IsBlock
  <2> QED BY <2>2, <2>5 DEF k
<1> HIDE DEF T, at
<1>3. n - d \in Nat /\ d + (n - d) = n
  OBVIOUS
<1>4. n - d \in T
  BY <1>1, <1>2, <1>3, InductionOverSet
<1>5. ~ IsBlock(c, at(n))
  BY <1>3, <1>4 DEF T
<1>6. i \div Cap[n - n] = i
  <2>1. n - n = 0 /\ Cap[0] = 1
    BY Levels
  <2>2. (1 * i + 0) \div 1 = i
    BY Quotient
  <2> QED BY <2>1, <2>2
<1> QED BY <1>5, <1>6 DEF at

-----------------------------------------------------------------------------
(* The levels in a row.                                                    *)

\* The start of a level is the sum of the levels before it.
LEMMA LevelStartIs ==
    /\ \A n \in 1..(MaxChainLevels + 1) : LevelStart[n] \in Nat
    /\ LevelStart[1] = 0
    /\ \A n \in 1..MaxChainLevels : LevelStart[n + 1] = LevelStart[n] + Cap[n]
<1> DEFINE N == MaxChainLevels
           caps == [n \in 1..N |-> Cap[n]]
<1>1. N \in Nat /\ caps \in [1..N -> Nat]
  BY Levels
<1>2. \A n \in 1..N : caps[n] = Cap[n]
  OBVIOUS
<1> HIDE DEF caps
<1>3. PICK off : Summed(caps, N, off)
  BY <1>1, Sums
<1>4. off \in [1..(N + 1) -> Nat] /\ off[1] = 0 /\ \A k \in 1..N : off[k + 1] = off[k] + Cap[k]
  BY <1>2, <1>3 DEF Summed
<1>5. \A n \in 1..(N + 1) : off[n] = IF n = 1 THEN 0 ELSE off[n - 1] + Cap[n - 1]
  <2> SUFFICES ASSUME NEW n \in 1..(N + 1), n # 1 PROVE off[n] = off[n - 1] + Cap[n - 1]
    BY <1>4
  <2>1. n - 1 \in 1..N /\ (n - 1) + 1 = n
    BY <1>1
  <2> QED BY <1>4, <2>1
<1>6. off = [n \in 1..(N + 1) |-> IF n = 1 THEN 0 ELSE off[n - 1] + Cap[n - 1]]
  BY <1>4, <1>5
<1>7. LevelStart = [n \in 1..(N + 1) |-> IF n = 1 THEN 0 ELSE LevelStart[n - 1] + Cap[n - 1]]
  BY <1>6 DEF LevelStart
<1>8. \A n \in 1..(N + 1) : LevelStart[n] = IF n = 1 THEN 0 ELSE LevelStart[n - 1] + Cap[n - 1]
  BY <1>7
<1>9. LevelStart[1] = 0
  BY <1>1, <1>8
<1>10. ASSUME NEW n \in 1..N PROVE LevelStart[n + 1] = LevelStart[n] + Cap[n]
  <2>1. n + 1 \in 1..(N + 1) /\ n + 1 # 1 /\ (n + 1) - 1 = n
    BY <1>1
  <2> QED BY <1>8, <2>1
<1> DEFINE T == {n \in Nat : n + 1 <= N + 1 => LevelStart[n + 1] \in Nat}
<1>11. 0 \in T
  BY <1>9
<1>12. ASSUME NEW n \in Nat, n \in T PROVE n + 1 \in T
  <2>1. SUFFICES ASSUME (n + 1) + 1 <= N + 1 PROVE LevelStart[(n + 1) + 1] \in Nat
    OBVIOUS
  <2>2. n + 1 \in 1..N /\ LevelStart[n + 1] \in Nat /\ Cap[n + 1] \in Nat
    BY <1>1, <1>12, <2>1, Levels
  <2> QED BY <1>10, <2>2
<1> HIDE DEF T
<1>13. Nat \subseteq T
  BY <1>11, <1>12, InductionOverSet
<1>14. ASSUME NEW n \in 1..(N + 1) PROVE LevelStart[n] \in Nat
  <2>1. n - 1 \in Nat /\ (n - 1) + 1 = n /\ n <= N + 1
    BY <1>1
  <2>2. n - 1 \in T
    BY <1>13, <2>1
  <2> QED BY <2>1, <2>2 DEF T
<1> QED BY <1>9, <1>10, <1>14

\* The blocks of the mapping, level by level.
LEMMA MemberBlocksAre ==
    ASSUME NEW c \in Containers
    PROVE  /\ MemberBlocks(c) \in Seq(Nat) /\ Len(MemberBlocks(c)) = LevelStart[MaxChainLevels + 1]
           /\ \A n \in 1..MaxChainLevels : \A j \in 1..Cap[n] :
                  MemberBlocks(c)[LevelStart[n] + j] = DataBlocks(c, LevelRoot(c, n), n)[j]
<1> DEFINE N == MaxChainLevels
           of(n) == DataBlocks(c, LevelRoot(c, n), n)
           ss == [n \in 1..N |-> of(n)]
           off == [n \in 1..(N + 1) |-> LevelStart[n]]
<1>1. N \in Nat
  BY Levels
<1>2. ASSUME NEW n \in 1..N PROVE of(n) \in Seq(Nat) /\ Len(of(n)) = Cap[n]
  <2>1. n \in Nat \ {0} /\ n \in Nat /\ n \in 0..N
    OBVIOUS
  <2>2. LevelRoot(c, n) \in Nat
    BY <2>1, LevelRootsAre
  <2> QED BY <2>1, <2>2, DataBlocksAre, TreeSize
<1> HIDE DEF of
<1>3. ss \in Seq(Seq(Nat)) /\ Len(ss) = N /\ \A n \in 1..N : ss[n] = of(n)
  BY <1>1, <1>2
<1>4. MemberBlocks(c) = FlattenSeq(ss)
  BY DEF MemberBlocks, of
<1> HIDE DEF ss
<1>5. Summed([k \in 1..Len(ss) |-> Len(ss[k])], Len(ss), off)
  <2> DEFINE lens == [k \in 1..Len(ss) |-> Len(ss[k])]
  <2>1. \A k \in 1..N : lens[k] = Cap[k]
    BY <1>2, <1>3
  <2>2. off \in [1..(N + 1) -> Nat] /\ off[1] = 0
    BY <1>1, LevelStartIs
  <2>3. ASSUME NEW k \in 1..N PROVE off[k + 1] = off[k] + lens[k]
    <3>1. k \in 1..(N + 1) /\ k + 1 \in 1..(N + 1)
      BY <1>1
    <3>2. off[k + 1] = LevelStart[k + 1] /\ off[k] = LevelStart[k]
      BY <3>1
    <3> HIDE DEF off, lens
    <3> QED BY <2>1, <3>2, LevelStartIs
  <2> HIDE DEF off, lens
  <2>4. Summed(lens, N, off)
    BY <2>2, <2>3 DEF Summed
  <2> QED BY <1>3, <2>4 DEF lens
<1>6. \A n \in 1..(N + 1) : off[n] = LevelStart[n]
  OBVIOUS
<1> HIDE DEF off
<1>7. /\ FlattenSeq(ss) \in Seq(Nat) /\ Len(FlattenSeq(ss)) = off[N + 1]
      /\ \A k \in 1..N : \A j \in 1..Len(ss[k]) : FlattenSeq(ss)[off[k] + j] = ss[k][j]
  <2>1. ss \in Seq(Seq(Nat))
    BY <1>3
  <2>2. /\ FlattenSeq(ss) \in Seq(Nat) /\ Len(FlattenSeq(ss)) = off[Len(ss) + 1]
        /\ \A k \in 1..Len(ss) : \A j \in 1..Len(ss[k]) : FlattenSeq(ss)[off[k] + j] = ss[k][j]
    BY <1>5, <2>1, FlattenIs
  <2> QED BY <1>3, <2>2
<1>8. off[N + 1] = LevelStart[N + 1]
  BY <1>1, <1>6
<1>9. ASSUME NEW n \in 1..N, NEW j \in 1..Cap[n]
      PROVE  FlattenSeq(ss)[LevelStart[n] + j] = of(n)[j]
  <2>1. n \in 1..(N + 1) /\ Len(ss[n]) = Cap[n] /\ ss[n] = of(n)
    BY <1>1, <1>2, <1>3
  <2>2. off[n] = LevelStart[n]
    BY <1>6, <2>1
  <2>3. FlattenSeq(ss)[off[n] + j] = ss[n][j]
    BY <1>7, <2>1
  <2> QED BY <2>1, <2>2, <2>3
<1> QED BY <1>4, <1>7, <1>8, <1>9 DEF of

\* Every place of the mapping is in a level.
LEMMA LevelOfPlace ==
    ASSUME NEW m \in 1..(MaxChainLevels + 1), NEW p \in Nat,
           LevelStart[m] <= p, p < LevelStart[MaxChainLevels + 1]
    PROVE  \E n \in m..MaxChainLevels : LevelStart[n] <= p /\ p < LevelStart[n] + Cap[n]
<1> DEFINE N == MaxChainLevels
           Found(k) == \E n \in m..k : LevelStart[n] <= p /\ p < LevelStart[n] + Cap[n]
           T == {j \in Nat : m + j <= N + 1 /\ p < LevelStart[m + j] => Found(m + j - 1)}
<1>0. N \in Nat /\ m \in Nat
  BY Levels
<1>1. 0 \in T
  <2>1. m + 0 = m /\ LevelStart[m] \in Nat
    BY <1>0, LevelStartIs
  <2> QED BY <2>1
<1>2. ASSUME NEW j \in Nat, j \in T PROVE j + 1 \in T
  <2>1. SUFFICES ASSUME m + (j + 1) <= N + 1, p < LevelStart[m + (j + 1)]
                 PROVE  Found(m + (j + 1) - 1)
    OBVIOUS
  <2> DEFINE n == m + j
  <2>2. /\ n \in 1..N /\ n \in 1..(N + 1) /\ m + (j + 1) = n + 1 /\ m + (j + 1) - 1 = n /\ n \in m..n
        /\ n <= N + 1
    BY <1>0, <2>1
  <2>3. CASE p < LevelStart[n]
    <3>1. Found(n - 1)
      BY <1>2, <2>2, <2>3
    <3>2. \A k \in m..(n - 1) : k \in m..n
      OBVIOUS
    <3> HIDE DEF n
    <3>3. Found(n)
      BY <3>1, <3>2
    <3> QED BY <2>2, <3>3
  <2>4. CASE ~ (p < LevelStart[n])
    <3> HIDE DEF n
    <3>1. LevelStart[n + 1] = LevelStart[n] + Cap[n] /\ LevelStart[n] \in Nat
      BY <2>2, LevelStartIs
    <3>2. LevelStart[n] <= p /\ p < LevelStart[n] + Cap[n]
      BY <2>1, <2>2, <2>4, <3>1
    <3>3. Found(n)
      BY <2>2, <3>2
    <3> QED BY <2>2, <3>3
  <2> QED BY <2>3, <2>4
<1> HIDE DEF T
<1>3. N + 1 - m \in Nat /\ m + (N + 1 - m) = N + 1 /\ m + (N + 1 - m) - 1 = N
  BY <1>0
<1>4. N + 1 - m \in T
  BY <1>1, <1>2, <1>3, InductionOverSet
<1> HIDE DEF Found
<1>5. Found(N)
  BY <1>3, <1>4 DEF T
<1> QED BY <1>5 DEF Found

\* Where the chain of levels has ended, the mapping names no blocks.
LEMMA NothingBehind ==
    ASSUME NEW c \in Containers, NEW m \in 1..(MaxChainLevels + 1), NEW p \in Nat,
           LevelStart[m] <= p,
           m = MaxChainLevels + 1 \/ ~ IsBlock(c, LevelRoot(c, m))
    PROVE  ~ (p + 1 <= Len(MemberBlocks(c)) /\ IsBlock(c, MemberBlocks(c)[p + 1]))
<1> DEFINE N == MaxChainLevels
<1>0. N \in Nat \ {0} /\ m \in Nat \ {0}
  BY Levels
<1>1. SUFFICES ASSUME p + 1 <= Len(MemberBlocks(c)) PROVE ~ IsBlock(c, MemberBlocks(c)[p + 1])
  OBVIOUS
<1>2. p < LevelStart[N + 1] /\ LevelStart[N + 1] \in Nat
  <2>1. N + 1 \in 1..(N + 1)
    BY <1>0
  <2>2. LevelStart[N + 1] \in Nat /\ Len(MemberBlocks(c)) = LevelStart[N + 1]
    BY <2>1, LevelStartIs, MemberBlocksAre
  <2> QED BY <1>1, <2>2
<1>3. PICK n \in m..N : LevelStart[n] <= p /\ p < LevelStart[n] + Cap[n]
  BY <1>2, LevelOfPlace
<1>4. ~ IsBlock(c, LevelRoot(c, m))
  BY <1>0, <1>3
<1>5. ~ IsBlock(c, LevelRoot(c, n))
  <2> DEFINE T == {j \in Nat : ~ IsBlock(c, LevelRoot(c, m + j))}
  <2>1. 0 \in T
    BY <1>0, <1>4, m + 0 = m
  <2>2. ASSUME NEW j \in Nat, j \in T PROVE j + 1 \in T
    <3>1. m + j \in Nat \ {0} /\ m + (j + 1) = (m + j) + 1
      BY <1>0
    <3> DEFINE k == m + j
    <3>2. ~ IsBlock(c, LevelRoot(c, k))
      BY <2>2
    <3> HIDE DEF k
    <3>3. LevelRoot(c, k + 1) = Pointer(c, LevelRoot(c, k), Usable)
      BY <3>1, LevelRootsAre DEF k
    <3>4. LevelRoot(c, k + 1) = 0
      BY <3>2, <3>3 DEF Pointer
    <3>5. ~ IsBlock(c, 0)
      <4>1. c.blocks \in Nat
        BY ContainerFacts
      <4> QED BY <4>1 DEF IsBlock
    <3>6. ~ IsBlock(c, LevelRoot(c, m + (j + 1)))
      BY <3>1, <3>4, <3>5 DEF k
    <3> QED BY <3>6
  <2> HIDE DEF T
  <2>3. n - m \in Nat /\ m + (n - m) = n
    BY <1>0
  <2>4. n - m \in T
    BY <2>1, <2>2, <2>3, InductionOverSet
  <2> QED BY <2>3, <2>4 DEF T
<1> DEFINE i == p - LevelStart[n]
           root == LevelRoot(c, n)
<1>6. /\ n \in 1..N /\ n \in Nat \ {0} /\ n \in 1..(N + 1) /\ 0 \in 0..n
  BY <1>0
<1>7. i \in Nat /\ i < Cap[n] /\ LevelStart[n] + (i + 1) = p + 1 /\ i + 1 \in 1..Cap[n]
  <2>1. LevelStart[n] \in Nat /\ Cap[n] \in Nat
    BY <1>6, LevelStartIs, Levels
  <2> QED BY <1>3, <2>1
<1>8. root \in Nat
  BY <1>6, LevelRootsAre
<1> HIDE DEF i, root
<1>9. MemberBlocks(c)[LevelStart[n] + (i + 1)] = DataBlocks(c, root, n)[i + 1]
  BY <1>6, <1>7, MemberBlocksAre DEF root
<1>10. ~ IsBlock(c, DataBlocks(c, root, 0)[i \div Cap[n - 0] + 1])
  <2>0. DataBlocks(c, root, 0) = <<root>>
    BY <1>8, DataBlocksAre
  <2>1. n - 0 = n /\ Cap[n] \in Nat
    BY <1>6, Levels
  <2>2. Cap[n] * 0 + i = i
    BY <1>7, <2>1
  <2>3. (Cap[n] * 0 + i) \div Cap[n] = 0
    BY <1>7, <2>1, Quotient
  <2>4. DataBlocks(c, root, 0)[i \div Cap[n - 0] + 1] = root
    BY <2>0, <2>1, <2>2, <2>3
  <2> QED BY <1>5, <2>4 DEF root
<1>11. ~ IsBlock(c, DataBlocks(c, root, n)[i + 1])
  BY <1>6, <1>7, <1>8, <1>10, NothingUnder
<1> QED BY <1>7, <1>9, <1>11

\* How many blocks a member has.
LEMMA CountIs ==
    ASSUME NEW c \in Containers, NEW p \in Nat
    PROVE  /\ BlockCount(c) \in Nat /\ BlockSize \in Nat \ {0} /\ p * BlockSize \in Nat
           /\ c.size = 0 => BlockCount(c) = 0
           /\ p * BlockSize < c.size => p + 1 <= BlockCount(c)
           /\ p * BlockSize < c.size /\ c.size - p * BlockSize <= BlockSize => BlockCount(c) = p + 1
<1> DEFINE b == BlockSize
           n == BlockCount(c)
           a == c.size + b - 1
<1>1. b \in Nat /\ b > 0 /\ c.size \in Nat /\ a \in Nat
  BY ContainerFacts DEF BlockSize
<1>2. n = a \div b
  BY DEF BlockCount
<1> HIDE DEF b, n, a
<1>d. a = b * (a \div b) + (a % b) /\ a \div b \in Nat /\ a % b \in 0..(b - 1)
  BY <1>1, SMT
<1>3. n \in Nat /\ \E rest \in 0..(b - 1) : a = b * n + rest
  BY <1>2, <1>d
<1>4. p * b \in Nat /\ b * n \in Nat /\ p * b = b * p
  BY <1>1, <1>3, SMT
<1>5. ASSUME c.size = 0 PROVE n = 0
  <2>1. b - 1 \in Nat /\ b - 1 < b /\ b * 0 + (b - 1) = a
    BY <1>1, <1>5 DEF a
  <2>2. (b * 0 + (b - 1)) \div b = 0
    BY <1>1, <2>1, Quotient
  <2> QED BY <1>2, <2>1, <2>2
<1>6. ASSUME p * b < c.size PROVE p + 1 <= n
  <2>1. SUFFICES ASSUME n <= p PROVE FALSE
    BY <1>3
  <2>2. b * n <= b * p
    BY <1>1, <1>3, <2>1, SMT
  <2> QED BY <1>1, <1>3, <1>4, <1>6, <2>2 DEF a
<1>7. ASSUME p * b < c.size, c.size - p * b <= b PROVE n = p + 1
  <2> DEFINE r == c.size - p * b - 1
  <2>1. r \in Nat /\ r < b /\ p + 1 \in Nat
    BY <1>1, <1>4, <1>7
  <2>2. b * (p + 1) + r = a
    <3>1. b * (p + 1) = b * p + b
      BY <1>1, SMT
    <3> QED BY <1>1, <1>4, <3>1 DEF a
  <2> HIDE DEF r
  <2>3. (b * (p + 1) + r) \div b = p + 1
    BY <1>1, <2>1, Quotient
  <2> QED BY <1>2, <2>2, <2>3
<1> QED BY <1>1, <1>3, <1>4, <1>5, <1>6, <1>7 DEF b, n

-----------------------------------------------------------------------------
(* The walk stays where it belongs.                                        *)

\* The capacities of the levels are numbers, and those of two neighbours differ
\* by the factor Usable.
LEMMA CapFacts ==
    ASSUME NEW n \in 1..MaxChainLevels
    PROVE  /\ Cap[n] \in Nat /\ Cap[n - 1] \in Nat
           /\ Cap[n] = Usable * Cap[n - 1]
BY WalkAssumption

\* A slot the walk may read holds a number, and a pointer that passes the check
\* names a whole block (readU64LE and the check after each).
LEMMA SlotFacts ==
    ASSUME TypeOK
    PROVE  /\ container.blocks \in Nat /\ container.size \in Nat /\ container.root \in Nat
           /\ \A b, s : InContainer(b) /\ s \in 0..Usable => container.slots[b][s] \in Nat
           /\ \A p \in Nat : ~Bad(p) => InContainer(p)
<1>1. /\ container.blocks \in Nat /\ container.size \in Nat /\ container.root \in Nat
      /\ container.slots \in [1..(container.blocks - 1) -> [0..Usable -> Nat]]
  BY WalkAssumption DEF TypeOK
<1>2. \A p \in Nat : ~Bad(p) => InContainer(p)
  BY <1>1 DEF Bad, InContainer
<1>3. ASSUME NEW b, NEW s, InContainer(b), s \in 0..Usable
      PROVE  container.slots[b][s] \in Nat
  BY <1>1, <1>3 DEF InContainer
<1> QED
  BY <1>1, <1>2, <1>3

\* The bytes still to be read, and the place of the next block in the member.
LEMMA RemainingFacts ==
    ASSUME TypeOK, CopiesInMember, step = "descend"
    PROVE  /\ BlockSize \in Nat /\ BlockSize > 0
           /\ blockIdx * BlockSize \in Nat
           /\ remaining \in Nat /\ remaining > 0
           /\ blockIdx * BlockSize + remaining = container.size
           /\ (blockIdx + 1) * BlockSize = blockIdx * BlockSize + BlockSize
<1>1. BlockSize \in Nat /\ BlockSize > 0
  BY WalkAssumption DEF BlockSize
<1>2. blockIdx \in Nat /\ container.size \in Nat
  BY WalkAssumption DEF TypeOK
<1>3. blockIdx * BlockSize \in Nat
  BY <1>1, <1>2
<1>4. blockIdx * BlockSize < container.size
  BY DEF CopiesInMember
<1>5. (blockIdx + 1) * BlockSize = blockIdx * BlockSize + BlockSize
  BY <1>1, <1>2
<1> QED
  BY <1>1, <1>2, <1>3, <1>4, <1>5 DEF remaining

\* A refused walk keeps everything it had.
LEMMA RefuseInv ==
    ASSUME WalkInv, Refuse
    PROVE  WalkInv'
<1>1. TypeOK'
  BY DEF WalkInv, Refuse, walk, TypeOK
<1>2. CopiesInMember'
  BY DEF WalkInv, Refuse, walk, CopiesInMember
<1> QED
  BY <1>1, <1>2 DEF WalkInv, Refuse

\* The invariant holds initially.
LEMMA InitInv == Init => WalkInv
<1> SUFFICES ASSUME Init PROVE WalkInv
  OBVIOUS
<1>1. TypeOK
  BY WalkAssumption DEF Init, TypeOK
<1>2. CopiesInMember
  BY DEF Init, CopiesInMember
<1> QED
  BY <1>1, <1>2 DEF Init, WalkInv

\* Every step keeps it.
LEMMA StepInv == WalkInv /\ [Next]_vars => WalkInv'
<1> SUFFICES ASSUME WalkInv, [Next]_vars PROVE WalkInv'
  OBVIOUS
<1>t. TypeOK /\ CopiesInMember
  BY DEF WalkInv
<1>l. level \in 1..MaxChainLevels /\ MaxChainLevels \in Nat \ {0} /\ Usable \in Nat
  BY <1>t, WalkAssumption DEF TypeOK
<1>1. CASE Empty
  <2>1. TypeOK' /\ CopiesInMember'
    BY <1>1, <1>t DEF Empty, walk, TypeOK, CopiesInMember
  <2> QED
    BY <1>1, <2>1 DEF Empty, WalkInv
<1>2. CASE Root
  <2>1. CASE ~Refuse
    <3>1. InContainer(container.root)
      BY <1>2, <1>t, <2>1, SlotFacts DEF Root
    <3>2. /\ step = "start" /\ step' = "locate" /\ current' = container.root
          /\ UNCHANGED <<container, blockIdx, level, idx, out>>
      BY <1>2, <2>1 DEF Root
    <3>3. container.size \in Nat /\ container.size # 0 /\ container.root \in Nat
      BY <1>2, <1>t, SlotFacts DEF Root
    <3>4. TypeOK'
      BY <3>2, <3>3, <1>t DEF TypeOK
    <3>5. blockIdx * BlockSize < container.size
      <4>1. blockIdx = 0 /\ BlockSize \in Nat
        BY <3>2, WalkAssumption DEF WalkInv, BlockSize
      <4> QED
        BY <4>1, <3>3
    <3> QED
      BY <3>1, <3>2, <3>4, <3>5, <1>t DEF WalkInv, CopiesInMember, InContainer
  <2> QED
    BY <2>1, RefuseInv
<1>3. CASE NextLevel
  <2> DEFINE chain == container.slots[current][Usable]
  <2>1. CASE ~Refuse
    <3>1. /\ step = "locate" /\ idx >= Cap[level] /\ ~LastLevel /\ ~Bad(chain)
          /\ current' = chain /\ level' = level + 1 /\ idx' = idx - Cap[level]
          /\ UNCHANGED <<container, step, blockIdx, out>>
      BY <1>3, <2>1 DEF NextLevel
    <3>2. InContainer(container.root) /\ InContainer(current)
      BY <3>1 DEF WalkInv
    <3>3. chain \in Nat
      BY <3>2, <1>t, <1>l, SlotFacts
    <3>4. InContainer(chain)
      BY <3>1, <3>3, <1>t, SlotFacts
    <3>5. level' \in 1..MaxChainLevels
      BY <3>1, <1>l DEF LastLevel
    <3>6. idx' \in Nat
      <4>1. idx \in Nat /\ Cap[level] \in Nat
        BY <1>l, <1>t, CapFacts DEF TypeOK
      <4> QED
        BY <3>1, <4>1
    <3> HIDE DEF chain
    <3>7. TypeOK'
      BY <3>1, <3>3, <3>5, <3>6, <1>t DEF TypeOK
    <3>8. CopiesInMember'
      BY <3>1, <1>t DEF CopiesInMember
    <3> QED
      BY <3>1, <3>2, <3>4, <3>7, <3>8 DEF WalkInv, InContainer
  <2> QED
    BY <2>1, RefuseInv
<1>4. CASE LevelFound
  <2>1. TypeOK' /\ CopiesInMember'
    BY <1>4, <1>t DEF LevelFound, walk, TypeOK, CopiesInMember
  <2> QED
    BY <1>4, <2>1 DEF LevelFound, walk, WalkInv, InContainer
<1>5. CASE Descend
  <2> DEFINE child == container.slots[current][idx \div Cap[level - 1]]
  <2>1. CASE ~Refuse
    <3>1. /\ step = "descend" /\ level > 1 /\ ~Bad(child)
          /\ current' = child /\ level' = level - 1 /\ idx' = idx % Cap[level - 1]
          /\ UNCHANGED <<container, step, blockIdx, out>>
      BY <1>5, <2>1 DEF Descend
    <3>2. InContainer(container.root) /\ InContainer(current) /\ idx < Cap[level] /\ idx \in Nat
      BY <3>1, <1>t DEF WalkInv, TypeOK
    <3>3. Cap[level - 1] \in Nat /\ idx < Usable * Cap[level - 1]
      BY <3>2, <1>l, CapFacts
    <3>4. /\ idx \div Cap[level - 1] \in 0..(Usable - 1)
          /\ idx % Cap[level - 1] \in Nat /\ idx % Cap[level - 1] < Cap[level - 1]
      BY <3>2, <3>3, <1>l, SlotOfIndex
    <3>5. child \in Nat
      BY <3>2, <3>4, <1>t, <1>l, SlotFacts
    <3>6. InContainer(child)
      BY <3>1, <3>5, <1>t, SlotFacts
    <3>7. level' \in 1..MaxChainLevels
      BY <3>1, <1>l
    <3> HIDE DEF child
    <3>8. TypeOK'
      BY <3>1, <3>4, <3>5, <3>7, <1>t DEF TypeOK
    <3>9. CopiesInMember'
      BY <3>1, <1>t DEF CopiesInMember
    <3>10. (idx < Cap[level])'
      BY <3>1, <3>4
    <3> QED
      BY <3>1, <3>2, <3>6, <3>8, <3>9, <3>10 DEF WalkInv, InContainer
  <2> QED
    BY <2>1, RefuseInv
<1>6. CASE CopyBlock
  <2> DEFINE data == container.slots[current][idx]
             toCopy == IF remaining < BlockSize THEN remaining ELSE BlockSize
             copied == [block |-> data, bytes |-> toCopy]
  <2>1. CASE ~Refuse
    <3>1. /\ step = "descend" /\ level = 1 /\ ~Bad(data)
          /\ out' = Append(out, copied)
          /\ blockIdx' = blockIdx + 1
          /\ step' = IF remaining <= BlockSize THEN "done" ELSE "locate"
          /\ current' = container.root /\ level' = 1 /\ idx' = blockIdx'
          /\ UNCHANGED container
      BY <1>6, <2>1 DEF CopyBlock
    <3>2. InContainer(container.root) /\ InContainer(current) /\ idx < Cap[1] /\ idx \in Nat
      BY <3>1, <1>t DEF WalkInv, TypeOK
    <3>3. Cap[1] = Usable
      <4>1. 1 \in 1..MaxChainLevels
        BY <1>l
      <4>2. Cap[1] = Usable * Cap[0] /\ Cap[0] = 1
        BY <4>1, WalkAssumption
      <4> QED
        BY <4>2, <1>l
    <3>4. idx \in 0..Usable
      BY <3>2, <3>3, <1>l
    <3>5. data \in Nat
      BY <3>2, <3>4, <1>t, SlotFacts
    <3>6. data \in 1..(container.blocks - 1)
      BY <3>1, <3>5, <1>t, SlotFacts DEF InContainer
    <3>7. /\ BlockSize \in Nat /\ BlockSize > 0
          /\ blockIdx * BlockSize \in Nat
          /\ remaining \in Nat /\ remaining > 0
          /\ blockIdx * BlockSize + remaining = container.size
          /\ (blockIdx + 1) * BlockSize = blockIdx * BlockSize + BlockSize
      BY <3>1, <1>t, RemainingFacts
    <3>8. toCopy \in 1..BlockSize /\ toCopy <= remaining
      BY <3>7
    <3> HIDE DEF data, toCopy
    <3>9. copied \in Copied /\ copied.block = data /\ copied.bytes = toCopy
      BY <3>5, <3>8 DEF Copied
    <3> HIDE DEF copied
    <3>10. /\ blockIdx \in Nat /\ out \in Seq(Copied) /\ Len(out) = blockIdx
           /\ container.root \in Nat
      BY <1>t, SlotFacts DEF TypeOK, CopiesInMember
    <3>11. /\ out' \in Seq(Copied) /\ Len(out') = blockIdx + 1
           /\ \A k \in 1..blockIdx : out'[k] = out[k]
           /\ out'[blockIdx + 1] = copied
      BY <3>1, <3>9, <3>10
    <3>12. TypeOK'
      BY <3>1, <3>10, <3>11, <1>t, <1>l DEF TypeOK
    <3>13. step' = "locate" => blockIdx' * BlockSize < container.size
      BY <3>1, <3>7
    <3>14. ASSUME NEW k \in 1..(blockIdx + 1)
           PROVE  /\ (k - 1) * BlockSize + out'[k].bytes <= container.size
                  /\ out'[k].block \in 1..(container.blocks - 1)
      <4>1. CASE k \in 1..blockIdx
        <5>1. out'[k] = out[k]
          BY <3>11, <4>1
        <5>2. k \in 1..Len(out)
          BY <3>10, <4>1
        <5>3. /\ (k - 1) * BlockSize + out[k].bytes <= container.size
              /\ out[k].block \in 1..(container.blocks - 1)
          BY <5>2, <1>t DEF CopiesInMember
        <5> QED
          BY <5>1, <5>3
      <4>2. CASE k = blockIdx + 1
        <5>1. out'[k] = copied /\ k - 1 = blockIdx
          BY <3>10, <3>11, <4>2
        <5>2. blockIdx * BlockSize + toCopy <= container.size
          BY <3>7, <3>8
        <5> QED
          BY <5>1, <5>2, <3>6, <3>9
      <4> QED
        BY <4>1, <4>2, <3>10
    <3>15. CopiesInMember'
      <4>1. step' \in {"locate", "descend"} => blockIdx' * BlockSize < container.size
        BY <3>1, <3>13
      <4> QED
        BY <4>1, <3>1, <3>11, <3>14 DEF CopiesInMember, BlockSize
    <3> QED
      BY <3>1, <3>2, <3>12, <3>15 DEF WalkInv, InContainer
  <2> QED
    BY <2>1, RefuseInv
<1>7. CASE UNCHANGED vars
  BY <1>7, <1>t DEF vars, walk, WalkInv, TypeOK, CopiesInMember, InContainer
<1> QED
  BY <1>1, <1>2, <1>3, <1>4, <1>5, <1>6, <1>7 DEF Next

\* The walk stays inside the container and the member it reads into.
THEOREM WalkInvariant == Spec => []WalkInv
BY InitInv, StepInv, PTL DEF Spec

\* Every slot read lies in a block of the container and is a pointer of the
\* mapping, for every content of the container (ctfs_v4_to_v5.nim:90-121).
THEOREM ReadsAreInContainer == Spec => []ReadsInContainer
<1>1. WalkInv => ReadsInContainer
  <2> SUFFICES ASSUME WalkInv PROVE ReadsInContainer
    OBVIOUS
  <2>1. step \in {"locate", "descend"} => InContainer(current)
    BY DEF WalkInv
  <2>2. ASSUME step = "descend"
        PROVE  Cap[level - 1] > 0 /\ idx \div Cap[level - 1] \in 0..(Usable - 1)
    <3>1. idx \in Nat /\ idx < Cap[level] /\ level \in 1..MaxChainLevels /\ Usable \in Nat
      BY <2>2, WalkAssumption DEF WalkInv, TypeOK
    <3>2. Cap[level - 1] \in Nat /\ idx < Usable * Cap[level - 1]
      BY <3>1, CapFacts
    <3> QED
      BY <3>1, <3>2, SlotOfIndex
  <2> QED
    BY <2>1, <2>2 DEF ReadsInContainer
<1> QED
  BY <1>1, WalkInvariant, PTL

\* No byte is copied past the end of the member (ctfs_v4_to_v5.nim:124-130).
THEOREM CopiesAreInMember == Spec => []CopiesInMember
<1>1. WalkInv => CopiesInMember
  BY DEF WalkInv
<1> QED
  BY <1>1, WalkInvariant, PTL

-----------------------------------------------------------------------------
(* The walk reads the mapping.                                             *)

\* Where a descent is: the pointer it reads next is the one of the tree that the
\* next data block stands under; where it names no block, there is none.
LEMMA DescentIs ==
    ASSUME WalkInv, MappingInv, step = "descend", NEW child,
           child = container.slots[current][idx \div Cap[level - 1]]
    PROVE  \E n \in level..MaxChainLevels :
              LET i == blockIdx - LevelStart[n]
              IN  /\ i \in Nat /\ i < Cap[n]
                  /\ child = DataBlocks(container, LevelRoot(container, n), n - (level - 1))
                                 [i \div Cap[level - 1] + 1]
                  /\ idx % Cap[level - 1] = i % Cap[level - 1]
                  /\ level = 1 => /\ blockIdx + 1 <= Len(MemberBlocks(container))
                                  /\ MemberBlocks(container)[blockIdx + 1] = child
                  /\ ~ IsBlock(container, child) =>
                        ~ IsBlock(container, MemberBlocks(container)[blockIdx + 1])
<1> DEFINE c == container
           N == MaxChainLevels
<1>1. /\ c \in Containers /\ level \in 1..N /\ N \in Nat \ {0} /\ idx \in Nat /\ blockIdx \in Nat
      /\ IsBlock(c, current)
  BY Levels DEF WalkInv, TypeOK, InContainer, IsBlock
<1>2. PICK n \in level..N : DownLevel(n)
  BY DEF MappingInv
<1> DEFINE i == blockIdx - LevelStart[n]
           root == LevelRoot(c, n)
           k == n - level
<1>3. /\ i \in Nat /\ i < Cap[n] /\ idx = i % Cap[level]
      /\ current = DataBlocks(c, root, k)[i \div Cap[level] + 1]
  BY <1>2 DEF DownLevel
<1>4. /\ n \in 1..N /\ n \in Nat \ {0} /\ k \in 0..(n - 1) /\ n - k = level
      /\ n - (k + 1) = level - 1 /\ n - (level - 1) = k + 1 /\ k + 1 \in 0..n
  BY <1>1
<1>5. root \in Nat
  BY <1>1, <1>4, LevelRootsAre
<1>6. LevelStart[n] \in Nat /\ Cap[n] \in Nat
  BY <1>1, <1>4, LevelStartIs, Levels
<1>7. i + 1 \in 1..Cap[n] /\ LevelStart[n] + (i + 1) = blockIdx + 1
  BY <1>1, <1>3, <1>6
<1> HIDE DEF c, N, i, root, k
<1>8. MemberBlocks(c)[LevelStart[n] + (i + 1)] = DataBlocks(c, root, n)[i + 1]
  BY <1>1, <1>4, <1>7, MemberBlocksAre DEF root, N
<1>9. blockIdx + 1 <= Len(MemberBlocks(c))
  <2> DEFINE T == {j \in Nat : n + j <= N => LevelStart[n + 1] <= LevelStart[(n + j) + 1]}
  <2>1. 0 \in T
    <3>1. n + 0 = n /\ n + 1 \in 1..(N + 1)
      BY <1>1, <1>4
    <3>2. LevelStart[n + 1] \in Nat
      BY <3>1, LevelStartIs DEF N
    <3> QED BY <3>1, <3>2
  <2>2. ASSUME NEW j \in Nat, j \in T PROVE j + 1 \in T
    <3>1. SUFFICES ASSUME n + (j + 1) <= N PROVE LevelStart[n + 1] <= LevelStart[(n + (j + 1)) + 1]
      OBVIOUS
    <3> DEFINE m == (n + j) + 1
    <3>2. m \in 1..N /\ m \in 1..(N + 1) /\ (n + (j + 1)) + 1 = m + 1 /\ n + 1 \in 1..(N + 1)
      BY <1>1, <1>4, <3>1
    <3>3. LevelStart[n + 1] <= LevelStart[m]
      BY <1>1, <1>4, <2>2, <3>1
    <3> HIDE DEF m
    <3>4. /\ LevelStart[m + 1] = LevelStart[m] + Cap[m] /\ LevelStart[m] \in Nat
          /\ Cap[m] \in Nat /\ LevelStart[n + 1] \in Nat
      BY <1>1, <3>2, LevelStartIs, Levels DEF N
    <3> QED BY <3>2, <3>3, <3>4
  <2> HIDE DEF T
  <2>3. N - n \in Nat /\ n + (N - n) = N
    BY <1>1, <1>4
  <2>4. N - n \in T
    BY <2>1, <2>2, <2>3, InductionOverSet
  <2>5. LevelStart[n + 1] <= LevelStart[N + 1]
    BY <1>1, <2>3, <2>4 DEF T
  <2>6. LevelStart[n + 1] = LevelStart[n] + Cap[n] /\ LevelStart[N + 1] \in Nat
    <3>1. N + 1 \in 1..(N + 1)
      BY <1>1
    <3> QED BY <1>4, <3>1, LevelStartIs DEF N
  <2>7. Len(MemberBlocks(c)) = LevelStart[N + 1]
    BY <1>1, MemberBlocksAre DEF N
  <2> QED BY <1>6, <1>7, <2>5, <2>6, <2>7
<1> DEFINE s == (i % Cap[n - k]) \div Cap[n - (k + 1)]
           named == DataBlocks(c, root, k + 1)[i \div Cap[n - (k + 1)] + 1]
<1>10. /\ s \in 0..(Usable - 1)
       /\ i % Cap[n - (k + 1)] = (i % Cap[n - k]) % Cap[n - (k + 1)]
       /\ named = Pointer(c, DataBlocks(c, root, k)[i \div Cap[n - k] + 1], s)
  BY <1>1, <1>3, <1>4, <1>5, PathStep DEF N
<1>11. child = named
  <2>1. s = idx \div Cap[level - 1]
    BY <1>3, <1>4
  <2>2. named = Pointer(c, current, s)
    BY <1>3, <1>4, <1>10
  <2> HIDE DEF s, named
  <2>3. named = c.slots[current][s]
    BY <1>1, <2>2 DEF Pointer
  <2> QED BY <2>1, <2>3 DEF c
<1>12. idx % Cap[level - 1] = i % Cap[level - 1]
  BY <1>3, <1>4, <1>10
<1>13. level = 1 => MemberBlocks(c)[blockIdx + 1] = child
  <2> SUFFICES ASSUME level = 1 PROVE MemberBlocks(c)[blockIdx + 1] = child
    OBVIOUS
  <2>1. k + 1 = n /\ n - (k + 1) = 0 /\ Cap[0] = 1
    BY <1>1, <1>4, Levels
  <2>2. (1 * i + 0) \div 1 = i /\ 1 * i + 0 = i
    BY <1>3, Quotient
  <2>3. named = DataBlocks(c, root, n)[i + 1]
    BY <2>1, <2>2
  <2> HIDE DEF named
  <2> QED BY <1>7, <1>8, <1>11, <2>3
<1>14. ASSUME ~ IsBlock(c, child) PROVE ~ IsBlock(c, MemberBlocks(c)[blockIdx + 1])
  <2>1. ~ IsBlock(c, DataBlocks(c, root, k + 1)[i \div Cap[n - (k + 1)] + 1])
    BY <1>11, <1>14
  <2>2. ~ IsBlock(c, DataBlocks(c, root, n)[i + 1])
    BY <1>1, <1>3, <1>4, <1>5, <2>1, NothingUnder DEF N
  <2> QED BY <1>7, <1>8, <2>2
<1>15. child = DataBlocks(c, root, n - (level - 1))[i \div Cap[level - 1] + 1]
  BY <1>4, <1>11
<1> HIDE DEF named, s
<1> QED BY <1>2, <1>3, <1>9, <1>12, <1>13, <1>14, <1>15 DEF c, N, i, root

\* A member is refused where the next block it needs is not there.
LEMMA RefusedRightly ==
    ASSUME WalkInv, MappingInv, Refuse, blockIdx * BlockSize < container.size,
           ~ (/\ blockIdx + 1 <= Len(MemberBlocks(container))
              /\ IsBlock(container, MemberBlocks(container)[blockIdx + 1]))
    PROVE  MappingInv'
<1>1. container \in Containers /\ blockIdx \in Nat
  BY DEF WalkInv, TypeOK
<1>2. BlockCount(container) \in Nat /\ blockIdx + 1 <= BlockCount(container)
  BY <1>1, CountIs
<1>3. blockIdx + 1 \in 1..BlockCount(container)
  BY <1>1, <1>2
<1>4. Len(MemberBlocks(container)) \in Nat
  <2>1. MemberBlocks(container) \in Seq(Nat)
    BY <1>1, MemberBlocksAre
  <2> QED BY <2>1
<1>5. ~ Complete(container)
  BY <1>1, <1>2, <1>3, <1>4 DEF Complete
<1>6. step' = "refused" /\ container' = container
  BY DEF Refuse
<1>7. WalkReadsTheMapping'
  BY <1>5, <1>6 DEF WalkReadsTheMapping
<1> QED BY <1>6, <1>7 DEF MappingInv

\* Initially nothing has been read.
LEMMA InitMapping == Init => MappingInv
BY DEF Init, MappingInv, WalkReadsTheMapping

\* An empty member has no block, whatever its mapping names.
LEMMA EmptyMapping == WalkInv /\ MappingInv /\ Empty => MappingInv'
<1> SUFFICES ASSUME WalkInv, MappingInv, Empty PROVE MappingInv'
  OBVIOUS
<1>1. /\ container.size = 0 /\ step' = "done" /\ container' = container /\ out' = out
      /\ container \in Containers /\ blockIdx = 0 /\ out \in Seq(Copied) /\ Len(out) = 0
  BY DEF Empty, WalkInv, TypeOK, CopiesInMember
<1>2. BlockCount(container) = 0
  BY <1>1, CountIs
<1>3. Len(MemberBlocks(container)) \in Nat
  <2>1. MemberBlocks(container) \in Seq(Nat)
    BY <1>1, MemberBlocksAre
  <2> QED BY <2>1
<1>4. Complete(container)
  BY <1>2, <1>3 DEF Complete
<1>5. out = <<>>
  BY <1>1
<1>6. WalkReadsTheMapping'
  BY <1>1, <1>2, <1>4, <1>5 DEF WalkReadsTheMapping
<1> QED BY <1>1, <1>6 DEF MappingInv

\* A bad root heads no level.
LEMMA RootMapping == WalkInv /\ MappingInv /\ Root => MappingInv'
<1> SUFFICES ASSUME WalkInv, MappingInv, Root PROVE MappingInv'
  OBVIOUS
<1>1. /\ container \in Containers /\ blockIdx = 0 /\ step = "start" /\ container.size # 0
      /\ container.blocks \in Nat /\ container.root \in Nat /\ container.size \in Nat
  BY ContainerFacts DEF Root, WalkInv, TypeOK
<1>2. LevelRoot(container, 1) = container.root
  BY <1>1, LevelRootsAre
<1>3. LevelStart[1] = 0
  BY LevelStartIs
<1>4. CASE Bad(container.root) /\ Refuse
  <2>1. ~ IsBlock(container, LevelRoot(container, 1))
    BY <1>1, <1>2, <1>4 DEF Bad, IsBlock
  <2>2. 1 \in 1..(MaxChainLevels + 1) /\ LevelStart[1] <= blockIdx
    BY <1>1, <1>3, Levels
  <2>3. blockIdx * BlockSize < container.size
    <3>1. BlockSize \in Nat
      BY <1>1, CountIs
    <3> QED BY <1>1, <3>1
  <2>4. blockIdx \in Nat
    BY <1>1
  <2>5. ~ (/\ blockIdx + 1 <= Len(MemberBlocks(container))
           /\ IsBlock(container, MemberBlocks(container)[blockIdx + 1]))
    BY <1>1, <2>1, <2>2, <2>4, NothingBehind
  <2> QED BY <1>4, <2>3, <2>5, RefusedRightly
<1>5. CASE ~ (Bad(container.root) /\ Refuse)
  <2>1. /\ step' = "locate" /\ current' = container.root
        /\ UNCHANGED <<container, blockIdx, level, idx, out>>
    BY <1>5 DEF Root
  <2>2. level = 1 /\ idx = 0
    BY <1>1 DEF MappingInv
  <2> QED BY <1>1, <1>2, <1>3, <2>1, <2>2 DEF MappingInv, CopiedSoFar, WalkReadsTheMapping
<1> QED BY <1>4, <1>5

\* One level further along the chain, or behind its end.
LEMMA NextLevelMapping == WalkInv /\ MappingInv /\ NextLevel => MappingInv'
<1> SUFFICES ASSUME WalkInv, MappingInv, NextLevel PROVE MappingInv'
  OBVIOUS
<1> DEFINE chain == container.slots[current][Usable]
<1>1. /\ container \in Containers /\ blockIdx \in Nat /\ step = "locate" /\ idx >= Cap[level]
      /\ container.blocks \in Nat /\ level \in 1..MaxChainLevels /\ IsBlock(container, current)
      /\ idx \in Nat /\ Cap[level] \in Nat /\ MaxChainLevels \in Nat
      /\ blockIdx = LevelStart[level] + idx /\ current = LevelRoot(container, level)
      /\ CopiedSoFar /\ blockIdx * BlockSize < container.size
  <2>1. level \in 0..MaxChainLevels
    BY Levels DEF WalkInv, TypeOK
  <2> QED
    BY <2>1, ContainerFacts, Levels
    DEF NextLevel, WalkInv, TypeOK, CopiesInMember, MappingInv, InContainer, IsBlock
<1>2. chain = LevelRoot(container, level + 1) /\ chain \in Nat
  <2>1. level \in Nat \ {0} /\ Usable \in 0..Usable
    BY <1>1, Levels
  <2>2. LevelRoot(container, level + 1) = Pointer(container, current, Usable)
    BY <1>1, <2>1, LevelRootsAre
  <2>3. chain \in Nat
    BY <1>1, <2>1, ContainerFacts
  <2> QED BY <1>1, <2>2, <2>3 DEF Pointer
<1>3. /\ LevelStart[level + 1] = LevelStart[level] + Cap[level] /\ LevelStart[level] \in Nat
      /\ level + 1 \in 1..(MaxChainLevels + 1)
  BY <1>1, LevelStartIs
<1> HIDE DEF chain
<1>4. CASE (LastLevel \/ Bad(chain)) /\ Refuse
  <2>1. level + 1 = MaxChainLevels + 1 \/ ~ IsBlock(container, LevelRoot(container, level + 1))
    BY <1>1, <1>2, <1>4 DEF LastLevel, Bad, IsBlock
  <2>2. LevelStart[level + 1] <= blockIdx
    BY <1>1, <1>3
  <2>3. ~ (/\ blockIdx + 1 <= Len(MemberBlocks(container))
           /\ IsBlock(container, MemberBlocks(container)[blockIdx + 1]))
    BY <1>1, <1>3, <2>1, <2>2, NothingBehind
  <2> QED BY <1>1, <1>4, <2>3, RefusedRightly
<1>5. CASE ~ ((LastLevel \/ Bad(chain)) /\ Refuse)
  <2>1. /\ current' = chain /\ level' = level + 1 /\ idx' = idx - Cap[level]
        /\ UNCHANGED <<container, step, blockIdx, out>>
    BY <1>5 DEF NextLevel, chain
  <2>2. blockIdx = LevelStart[level + 1] + (idx - Cap[level])
    BY <1>1, <1>3
  <2>3. CopiedSoFar'
    BY <1>1, <2>1 DEF CopiedSoFar, InContainer
  <2>4. WalkReadsTheMapping'
    BY <1>1, <2>1 DEF WalkReadsTheMapping
  <2> QED BY <1>1, <1>2, <2>1, <2>2, <2>3, <2>4 DEF MappingInv
<1> QED BY <1>4, <1>5

\* The head of a level is the root of its tree.
LEMMA LevelFoundMapping == WalkInv /\ MappingInv /\ LevelFound => MappingInv'
<1> SUFFICES ASSUME WalkInv, MappingInv, LevelFound PROVE MappingInv'
  OBVIOUS
<1>1. /\ container \in Containers /\ blockIdx \in Nat /\ step = "locate" /\ idx < Cap[level]
      /\ step' = "descend" /\ UNCHANGED <<container, blockIdx, current, level, idx, out>>
      /\ level \in 1..MaxChainLevels /\ idx \in Nat
      /\ blockIdx = LevelStart[level] + idx /\ current = LevelRoot(container, level)
      /\ CopiedSoFar
  BY DEF LevelFound, WalkInv, TypeOK, MappingInv, walk
<1>2. level \in 0..MaxChainLevels /\ level \in 1..(MaxChainLevels + 1) /\ MaxChainLevels \in Nat
  BY <1>1, Levels
<1>3. LevelStart[level] \in Nat /\ Cap[level] \in Nat /\ blockIdx - LevelStart[level] = idx
  BY <1>1, <1>2, LevelStartIs, Levels
<1>4. idx \div Cap[level] = 0 /\ idx % Cap[level] = idx
  <2>1. Cap[level] * 0 + idx = idx
    BY <1>1, <1>3
  <2>2. (Cap[level] * 0 + idx) \div Cap[level] = 0 /\ (Cap[level] * 0 + idx) % Cap[level] = idx
    BY <1>1, <1>3, Quotient
  <2> QED BY <2>1, <2>2
<1>5. DataBlocks(container, LevelRoot(container, level), 0) = <<current>>
  <2>1. level \in Nat \ {0}
    BY <1>1
  <2>2. LevelRoot(container, level) \in Nat
    BY <1>1, <2>1, LevelRootsAre
  <2> QED BY <1>1, <2>2, DataBlocksAre
<1>6. level - level = 0 /\ level \in level..MaxChainLevels
  BY <1>1, <1>2
<1>7. DownLevel(level)
  <2>1. current = <<current>>[0 + 1]
    OBVIOUS
  <2> QED BY <1>1, <1>3, <1>4, <1>5, <1>6, <2>1 DEF DownLevel
<1>9. CopiedSoFar'
  BY <1>1 DEF CopiedSoFar, InContainer
<1>10. WalkReadsTheMapping'
  BY <1>1 DEF WalkReadsTheMapping
<1>11. \E n \in level'..MaxChainLevels : DownLevel(n)'
  <2>1. level' \in level'..MaxChainLevels
    BY <1>1, <1>6
  <2>2. ASSUME NEW n, n = level PROVE DownLevel(n)'
    BY <1>1, <1>7, <2>2 DEF DownLevel
  <2> QED BY <1>1, <2>1, <2>2
<1> QED BY <1>1, <1>9, <1>10, <1>11 DEF MappingInv

\* One level down the tree, or nothing under it.
LEMMA DescendMapping == WalkInv /\ MappingInv /\ Descend => MappingInv'
<1> SUFFICES ASSUME WalkInv, MappingInv, Descend PROVE MappingInv'
  OBVIOUS
<1> DEFINE child == container.slots[current][idx \div Cap[level - 1]]
<1>1. /\ container \in Containers /\ blockIdx \in Nat /\ step = "descend" /\ level > 1
      /\ level \in 1..MaxChainLevels /\ MaxChainLevels \in Nat /\ idx \in Nat /\ idx < Cap[level]
      /\ container.blocks \in Nat /\ IsBlock(container, current)
      /\ CopiedSoFar /\ blockIdx * BlockSize < container.size
  BY ContainerFacts, Levels
  DEF Descend, WalkInv, TypeOK, CopiesInMember, MappingInv, InContainer, IsBlock
<1> DEFINE Place(n) == blockIdx - LevelStart[n]
<1>2. PICK n \in level..MaxChainLevels :
        /\ Place(n) \in Nat /\ Place(n) < Cap[n]
        /\ child = DataBlocks(container, LevelRoot(container, n), n - (level - 1))
                       [Place(n) \div Cap[level - 1] + 1]
        /\ idx % Cap[level - 1] = Place(n) % Cap[level - 1]
        /\ ~ IsBlock(container, child) => ~ IsBlock(container, MemberBlocks(container)[blockIdx + 1])
  <2> HIDE DEF child
  <2>1. child = container.slots[current][idx \div Cap[level - 1]]
    BY DEF child
  <2> QED BY <1>1, <2>1, DescentIs
<1>3. child \in Nat
  <2>1. /\ level - 1 \in 0..MaxChainLevels /\ Cap[level] = Usable * Cap[level - 1] /\ Usable \in Nat
        /\ Cap[level - 1] \in Nat
    BY <1>1, Levels
  <2>2. idx \div Cap[level - 1] \in 0..(Usable - 1)
    BY <1>1, <2>1, SlotOfIndex
  <2>3. idx \div Cap[level - 1] \in 0..Usable
    BY <2>1, <2>2
  <2> QED BY <1>1, <2>3, ContainerFacts
<1> HIDE DEF child
<1>4. CASE Bad(child) /\ Refuse
  <2>1. ~ IsBlock(container, child)
    BY <1>1, <1>3, <1>4 DEF Bad, IsBlock
  <2> QED BY <1>1, <1>2, <1>4, <2>1, RefusedRightly
<1>5. CASE ~ (Bad(child) /\ Refuse)
  <2>1. /\ current' = child /\ level' = level - 1 /\ idx' = idx % Cap[level - 1]
        /\ UNCHANGED <<container, step, blockIdx, out>>
    BY <1>5 DEF Descend, child
  <2>2. CopiedSoFar' /\ WalkReadsTheMapping'
    BY <1>1, <2>1 DEF CopiedSoFar, WalkReadsTheMapping, InContainer
  <2>3. n \in (level - 1)..MaxChainLevels
    BY <1>1
  <2>4. DownLevel(n)'
    BY <1>2, <2>1 DEF DownLevel
  <2>5. \E m \in level'..MaxChainLevels : DownLevel(m)'
    BY <2>1, <2>3, <2>4
  <2> QED BY <1>1, <2>1, <2>2, <2>5 DEF MappingInv
<1> QED BY <1>4, <1>5

\* The next block of the mapping is copied, the last one in part.
LEMMA CopyMapping == WalkInv /\ MappingInv /\ CopyBlock => MappingInv'
<1> SUFFICES ASSUME WalkInv, MappingInv, CopyBlock PROVE MappingInv'
  OBVIOUS
<1> DEFINE data == container.slots[current][idx]
           toCopy == IF remaining < BlockSize THEN remaining ELSE BlockSize
           blocks == MemberBlocks(container)
           count == BlockCount(container)
<1>1. /\ container \in Containers /\ blockIdx \in Nat /\ step = "descend" /\ level = 1
      /\ level \in 1..MaxChainLevels /\ MaxChainLevels \in Nat /\ idx \in Nat /\ idx < Cap[level]
      /\ container.blocks \in Nat /\ container.size \in Nat /\ IsBlock(container, current)
      /\ out \in Seq(Copied) /\ Len(out) = blockIdx
      /\ CopiedSoFar /\ blockIdx * BlockSize < container.size
  BY ContainerFacts, Levels
  DEF CopyBlock, WalkInv, TypeOK, CopiesInMember, MappingInv, InContainer, IsBlock
<1>2. idx \div Cap[level - 1] = idx
  <2>1. level - 1 = 0 /\ Cap[0] = 1
    BY <1>1, Levels
  <2>2. (1 * idx + 0) \div 1 = idx /\ 1 * idx + 0 = idx
    BY <1>1, Quotient
  <2> QED BY <2>1, <2>2
<1>3. /\ blockIdx + 1 <= Len(blocks) /\ blocks[blockIdx + 1] = data
      /\ ~ IsBlock(container, data) => ~ IsBlock(container, blocks[blockIdx + 1])
  <2>1. data = container.slots[current][idx \div Cap[level - 1]]
    BY <1>2
  <2> HIDE DEF data
  <2> QED BY <1>1, <2>1, DescentIs
<1>4. data \in Nat
  <2>1. Cap[1] = Usable * Cap[1 - 1] /\ 1 - 1 = 0 /\ Cap[0] = 1 /\ Usable \in Nat
    BY <1>1, Levels
  <2>2. idx \in 0..Usable
    BY <1>1, <2>1
  <2> QED BY <1>1, <2>2, ContainerFacts
<1> HIDE DEF data, toCopy, blocks, count
<1>5. CASE Bad(data) /\ Refuse
  <2>1. ~ IsBlock(container, data)
    BY <1>1, <1>4, <1>5 DEF Bad, IsBlock
  <2> QED BY <1>1, <1>3, <1>5, <2>1, RefusedRightly DEF blocks
<1>6. CASE ~ (Bad(data) /\ Refuse)
  <2>1. /\ ~ Bad(data)
        /\ out' = Append(out, [block |-> data, bytes |-> toCopy])
        /\ blockIdx' = blockIdx + 1
        /\ step' = IF remaining <= BlockSize THEN "done" ELSE "locate"
        /\ current' = container.root /\ level' = 1 /\ idx' = blockIdx' /\ container' = container
    BY <1>6 DEF CopyBlock, data, toCopy
  <2>2. IsBlock(container, data)
    BY <1>1, <1>4, <2>1 DEF Bad, IsBlock
  <2>3. /\ count \in Nat /\ BlockSize \in Nat \ {0} /\ blockIdx * BlockSize \in Nat
        /\ blockIdx + 1 <= count
        /\ remaining <= BlockSize => count = blockIdx + 1
    BY <1>1, CountIs DEF count, remaining
  <2>4. remaining \in Nat
    BY <1>1, <2>3 DEF remaining
  <2>5. /\ out' \in Seq([block : Nat, bytes : Nat]) /\ Len(out') = blockIdx + 1
        /\ \A k \in 1..blockIdx : out'[k] = out[k]
        /\ out'[blockIdx + 1] = [block |-> data, bytes |-> toCopy]
    <3> DEFINE R == [block : Nat, bytes : Nat]
               new == [block |-> data, bytes |-> toCopy]
    <3>1. toCopy \in Nat
      BY <2>3, <2>4 DEF toCopy
    <3>2. new \in R
      BY <1>4, <3>1
    <3>3. out \in Seq(R)
      <4>1. Copied \subseteq R
        BY <2>3 DEF Copied
      <4> HIDE DEF R
      <4> QED BY <1>1, <4>1
    <3> HIDE DEF R, new
    <3>4. out' = Append(out, new)
      BY <2>1 DEF new
    <3>5. /\ out' \in Seq(R) /\ Len(out') = blockIdx + 1
          /\ \A k \in 1..blockIdx : out'[k] = out[k]
          /\ out'[blockIdx + 1] = new
      BY <1>1, <3>2, <3>3, <3>4
    <3> QED BY <3>5 DEF R, new
  <2>6. Len(blocks) \in Nat
    <3>1. MemberBlocks(container) \in Seq(Nat)
      BY <1>1, MemberBlocksAre
    <3> QED BY <3>1 DEF blocks
  <2>7. \A k \in 1..blockIdx : /\ k <= Len(blocks) /\ IsBlock(container, blocks[k])
                               /\ out[k] = [block |-> blocks[k], bytes |-> BlockSize]
    BY <1>1 DEF CopiedSoFar, InContainer, IsBlock, blocks
  <2>8. CASE remaining <= BlockSize
    <3>1. step' = "done" /\ count = blockIdx + 1
      BY <2>1, <2>3, <2>8
    <3>2. \A k \in 1..count : IsBlock(container, blocks[k])
      <4> SUFFICES ASSUME NEW k \in 1..count PROVE IsBlock(container, blocks[k])
        OBVIOUS
      <4>1. k \in 1..blockIdx \/ k = blockIdx + 1
        BY <1>1, <3>1
      <4> QED BY <1>3, <2>2, <2>7, <4>1
    <3>3. Complete(container)
      BY <1>3, <3>1, <3>2 DEF Complete, blocks, count
    <3>4. toCopy = remaining
      BY <2>3, <2>4, <2>8 DEF toCopy
    <3> DEFINE want == [k \in 1..count |->
                          [block |-> blocks[k],
                           bytes |-> IF k < count THEN BlockSize
                                     ELSE container.size - (k - 1) * BlockSize]]
    <3>5. ASSUME NEW k \in 1..count PROVE out'[k] = want[k]
      <4>1. CASE k \in 1..blockIdx
        <5>1. k < count
          BY <1>1, <3>1, <4>1
        <5>2. out'[k] = [block |-> blocks[k], bytes |-> BlockSize]
          BY <2>5, <2>7, <4>1
        <5> QED BY <5>1, <5>2
      <4>2. CASE k = blockIdx + 1
        <5>1. ~ (k < count) /\ k - 1 = blockIdx
          BY <1>1, <3>1, <4>2
        <5>2. out'[k] = [block |-> blocks[k], bytes |-> container.size - (k - 1) * BlockSize]
          BY <1>3, <2>5, <3>4, <4>2, <5>1 DEF remaining
        <5> QED BY <5>1, <5>2
      <4> QED BY <1>1, <3>1, <4>1, <4>2
    <3>6. want = [k \in 1..count |-> want[k]]
      OBVIOUS
    <3> HIDE DEF want
    <3>7. out' = [k \in 1..count |-> out'[k]]
      <4>1. DOMAIN out' = 1..count
        BY <2>5, <3>1
      <4>2. out' = [k \in DOMAIN out' |-> out'[k]]
        BY <2>5
      <4> QED BY <4>1, <4>2
    <3>8. out' = want
      BY <3>5, <3>6, <3>7
    <3>9. WalkReadsTheMapping'
      BY <2>1, <3>1, <3>3, <3>8 DEF WalkReadsTheMapping, want, blocks, count
    <3> QED BY <3>1, <3>9 DEF MappingInv
  <2>9. CASE ~ (remaining <= BlockSize)
    <3>1. step' = "locate" /\ toCopy = BlockSize
      BY <2>1, <2>3, <2>4, <2>9 DEF toCopy
    <3>2. LevelStart[1] = 0 /\ LevelRoot(container, 1) = container.root
      BY <1>1, LevelStartIs, LevelRootsAre
    <3>3. \A k \in 1..(blockIdx + 1) :
            /\ k <= Len(blocks) /\ IsBlock(container, blocks[k])
            /\ out'[k] = [block |-> blocks[k], bytes |-> BlockSize]
      <4> SUFFICES ASSUME NEW k \in 1..(blockIdx + 1)
                   PROVE  /\ k <= Len(blocks) /\ IsBlock(container, blocks[k])
                          /\ out'[k] = [block |-> blocks[k], bytes |-> BlockSize]
        OBVIOUS
      <4>1. CASE k \in 1..blockIdx
        BY <2>5, <2>7, <4>1
      <4>2. CASE k = blockIdx + 1
        BY <1>3, <2>2, <2>5, <3>1, <4>2
      <4> QED BY <1>1, <4>1, <4>2
    <3>4. CopiedSoFar'
      BY <2>1, <3>3 DEF CopiedSoFar, InContainer, IsBlock, blocks
    <3>5. blockIdx' = LevelStart[level'] + idx' /\ current' = LevelRoot(container, level')
      BY <1>1, <2>1, <3>2
    <3>6. WalkReadsTheMapping'
      BY <3>1 DEF WalkReadsTheMapping
    <3> QED BY <2>1, <3>1, <3>4, <3>5, <3>6 DEF MappingInv
  <2> QED BY <2>8, <2>9
<1> QED BY <1>5, <1>6

\* Every step keeps to the mapping.
LEMMA StepMapping == WalkInv /\ MappingInv /\ [Next]_vars => MappingInv'
<1> SUFFICES ASSUME WalkInv, MappingInv, [Next]_vars PROVE MappingInv'
  OBVIOUS
<1>1. CASE UNCHANGED vars
  BY <1>1 DEF vars, walk, MappingInv, CopiedSoFar, DownLevel, WalkReadsTheMapping, InContainer
<1> QED
  BY <1>1, EmptyMapping, RootMapping, NextLevelMapping, LevelFoundMapping, DescendMapping,
     CopyMapping DEF Next

\* Where the walk is, in terms of the mapping, at every step of it.
THEOREM MappingInvariant == Spec => []MappingInv
BY InitMapping, StepMapping, WalkInvariant, PTL DEF Spec

\* Exactly the blocks the mapping names are read, in their order, whatever the
\* container holds; a member is refused exactly when one is missing
\* (readV4MemberBytes, ctfs_v4_to_v5.nim:55-132).
THEOREM ReadsTheMapping == Spec => []WalkReadsTheMapping
<1>1. MappingInv => WalkReadsTheMapping
  BY DEF MappingInv
<1> QED BY <1>1, MappingInvariant, PTL
=============================================================================
