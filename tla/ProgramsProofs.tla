--------------------------- MODULE ProgramsProofs ---------------------------
(***************************************************************************)
(* Proofs about the programs: CtspClient, for every number of batches,     *)
(* every payload length and every size of the socket buffers, and          *)
(* FixtureProgram, for any number of workers and iterations.  StreamInv and*)
(* ProgramInv are inductive; the properties follow from them.              *)
(***************************************************************************)
EXTENDS CtspClient, FixtureProgram, SequenceTheorems, TLAPS

-----------------------------------------------------------------------------
(* The client.                                                             *)

Byte == [msg : Messages, at : Nat]

\* Payload and message lengths are natural numbers, and a message is never
\* shorter than its header.
LEMMA SizeType ==
    /\ NumMessages \in Nat /\ NumMessages >= 2
    /\ HeaderLen \in Nat /\ HeaderLen > 0
    /\ PayloadLen(NumMessages) = 0
    /\ \A m \in 1..(NumMessages + 1) :
          /\ PayloadLen(m) \in Nat
          /\ Size(m) \in Nat /\ Size(m) >= HeaderLen /\ Size(m) = HeaderLen + PayloadLen(m)
BY ClientAssumption DEF PayloadLen, Size, NumMessages

\* Bytes(m, from, n) is a sequence of n bytes of message m.
LEMMA BytesType ==
    ASSUME NEW m \in Messages, NEW from \in Nat, NEW n \in Nat
    PROVE  /\ Bytes(m, from, n) \in Seq(Byte)
           /\ Len(Bytes(m, from, n)) = n
           /\ \A k \in 1..n : Bytes(m, from, n)[k] = [msg |-> m, at |-> from + k - 1]
<1>1. Bytes(m, from, n) \in [1..n -> Byte]
    BY DEF Bytes, Byte
<1>2. Bytes(m, from, n) \in Seq(Byte)
    BY <1>1, SeqDef
<1>3. Len(Bytes(m, from, n)) = n
    BY <1>1, <1>2, LenProperties
<1>. QED
    BY <1>2, <1>3 DEF Bytes

\* Handing over n more bytes of message m from offset o keeps the pipe gapless.
LEMMA ExtendRun ==
    ASSUME NEW s \in Seq(Byte), NEW first,
           NEW m \in Messages, NEW o \in Nat, NEW n \in Nat \ {0},
           o + n <= Size(m),
           Gapless(s, first, [msg |-> m, at |-> o])
    PROVE  LET t == s \o Bytes(m, o, n)
           IN  /\ t \in Seq(Byte)
               /\ Len(t) = Len(s) + n
               /\ Gapless(t, first, Succ([msg |-> m, at |-> o + n - 1]))
<1>. DEFINE t == s \o Bytes(m, o, n)
            next == Succ([msg |-> m, at |-> o + n - 1])
<1>1. /\ t \in Seq(Byte)
      /\ Len(t) = Len(s) + n
      /\ Len(s) \in Nat
      /\ \A k \in 1..Len(s) : t[k] = s[k]
      /\ \A k \in (Len(s) + 1)..(Len(s) + n) : t[k] = [msg |-> m, at |-> o + (k - Len(s)) - 1]
    <2>1. Len(s) \in Nat
        BY LenProperties
    <2>2. /\ Bytes(m, o, n) \in Seq(Byte)
          /\ Len(Bytes(m, o, n)) = n
          /\ \A k \in 1..n : Bytes(m, o, n)[k] = [msg |-> m, at |-> o + k - 1]
        BY BytesType
    <2>3. /\ t \in Seq(Byte)
          /\ Len(t) = Len(s) + n
          /\ \A k \in 1..(Len(s) + n) :
                t[k] = IF k <= Len(s) THEN s[k] ELSE Bytes(m, o, n)[k - Len(s)]
        <3>. DEFINE b == Bytes(m, o, n)
        <3>1. s \in Seq(Byte) /\ b \in Seq(Byte) /\ Len(b) = n
            BY <2>2
        <3>. HIDE DEF b
        <3>2. /\ s \o b \in Seq(Byte)
              /\ Len(s \o b) = Len(s) + Len(b)
              /\ \A k \in 1..(Len(s) + Len(b)) :
                    (s \o b)[k] = IF k <= Len(s) THEN s[k] ELSE b[k - Len(s)]
            BY <3>1, ConcatProperties
        <3>. QED
            BY <3>1, <3>2 DEF b
    <2>. HIDE DEF t
    <2>4. ASSUME NEW k \in (Len(s) + 1)..(Len(s) + n)
          PROVE  t[k] = [msg |-> m, at |-> o + (k - Len(s)) - 1]
        <3>1. k \in 1..(Len(s) + n) /\ ~(k <= Len(s)) /\ k - Len(s) \in 1..n
            BY <2>1
        <3>2. t[k] = Bytes(m, o, n)[k - Len(s)]
            BY <2>3, <3>1
        <3>. QED
            BY <2>2, <3>1, <3>2
    <2>5. ASSUME NEW k \in 1..Len(s)
          PROVE  t[k] = s[k]
        <3>1. k \in 1..(Len(s) + n) /\ k <= Len(s)
            BY <2>1
        <3>. QED
            BY <2>3, <3>1
    <2>. QED
        BY <2>1, <2>3, <2>4, <2>5
<1>. HIDE DEF t
<1>2. \A k \in 1..Len(s) : /\ s[k].msg \in Nat /\ s[k].at \in Nat
                           /\ s[k].at < Size(s[k].msg)
                           /\ Before(s[k], [msg |-> m, at |-> o])
    <2>. SUFFICES ASSUME NEW k \in 1..Len(s)
                  PROVE  /\ s[k].msg \in Nat /\ s[k].at \in Nat
                         /\ s[k].at < Size(s[k].msg)
                         /\ Before(s[k], [msg |-> m, at |-> o])
        OBVIOUS
    <2>1. s[k] \in Byte
        BY ElementOfSeq
    <2>2. s[k].msg \in Nat /\ s[k].at \in Nat
        BY <2>1, SizeType DEF Byte, Messages
    <2>. QED
        BY <2>2 DEF Gapless
<1>3. Size(m) \in Nat /\ m \in Nat
    BY SizeType DEF Messages
<1>4. /\ next.msg \in Nat /\ next.at \in Nat
      /\ o + n < Size(m) => next.msg = m /\ next.at = o + n
      /\ o + n >= Size(m) => next.msg = m + 1 /\ next.at = 0
    BY <1>3 DEF Succ
<1>5. \A k \in 1..Len(s) : s[k].msg < m \/ (s[k].msg = m /\ s[k].at < o)
    BY <1>2 DEF Before
<1>6. ASSUME NEW k \in (Len(s) + 1)..(Len(s) + n)
      PROVE  t[k].msg = m /\ t[k].at = o + (k - Len(s)) - 1
    <2>1. t[k] = [msg |-> m, at |-> o + (k - Len(s)) - 1]
        BY <1>1
    <2>. QED
        BY <2>1
<1>. HIDE DEF next
<1>7. ASSUME NEW k \in 1..Len(t)
      PROVE  t[k].at < Size(t[k].msg) /\ Before(t[k], next)
    <2>1. CASE k \in 1..Len(s)
        <3>1. t[k] = s[k]
            BY <2>1, <1>1
        <3>. QED
            BY <2>1, <3>1, <1>2, <1>3, <1>4, <1>5 DEF Before
    <2>2. CASE k \in (Len(s) + 1)..(Len(s) + n)
        <3>1. t[k].msg = m /\ t[k].at = o + (k - Len(s)) - 1
            BY <2>2, <1>6
        <3>. QED
            BY <2>2, <3>1, <1>1, <1>3, <1>4 DEF Before
    <2>. QED
        BY <2>1, <2>2, <1>1
<1>8. ASSUME NEW k \in 1..Len(t), k < Len(t)
      PROVE  t[k + 1] = Succ(t[k])
    <2>1. CASE k < Len(s)
        <3>1. k \in 1..Len(s) /\ k + 1 \in 1..Len(s)
            BY <2>1, <1>1
        <3>2. t[k] = s[k] /\ t[k + 1] = s[k + 1]
            BY <3>1, <1>1
        <3>. QED
            BY <2>1, <3>1, <3>2 DEF Gapless
    <2>2. CASE k = Len(s)
        <3>1. s # <<>> /\ k + 1 \in (Len(s) + 1)..(Len(s) + n)
            BY <2>2, <1>1, EmptySeq
        <3>2. t[k + 1] = [msg |-> m, at |-> o]
            BY <2>2, <3>1, <1>1
        <3>3. Succ(s[Len(s)]) = [msg |-> m, at |-> o] /\ t[k] = s[Len(s)]
            BY <2>2, <3>1, <1>1 DEF Gapless
        <3>. QED
            BY <3>2, <3>3
    <2>3. CASE k > Len(s)
        <3>1. k \in (Len(s) + 1)..(Len(s) + n) /\ k + 1 \in (Len(s) + 1)..(Len(s) + n)
            BY <2>3, <1>1, <1>8
        <3>2. /\ t[k] = [msg |-> m, at |-> o + (k - Len(s)) - 1]
              /\ t[k + 1] = [msg |-> m, at |-> o + ((k + 1) - Len(s)) - 1]
            BY <3>1, <1>1
        <3>3. o + (k - Len(s)) < Size(m)
            BY <2>3, <1>1, <1>3, <1>8
        <3>. QED
            BY <3>2, <3>3, <1>1, <1>3 DEF Succ
    <2>. QED
        BY <2>1, <2>2, <2>3, <1>1
<1>9. ASSUME NEW k \in 1..Len(t), NEW j \in 1..Len(t), k < j
      PROVE  Before(t[k], t[j])
    <2>1. CASE j <= Len(s)
        <3>1. k \in 1..Len(s) /\ j \in 1..Len(s)
            BY <2>1, <1>1, <1>9
        <3>2. t[k] = s[k] /\ t[j] = s[j]
            BY <3>1, <1>1
        <3>. QED
            BY <3>1, <3>2, <1>9 DEF Gapless
    <2>2. CASE k <= Len(s) /\ j > Len(s)
        <3>1. /\ t[j].msg = m /\ t[j].at = o + (j - Len(s)) - 1
              /\ t[k] = s[k] /\ k \in 1..Len(s)
            BY <2>2, <1>1, <1>6
        <3>. QED
            BY <2>2, <3>1, <1>1, <1>2, <1>3, <1>5 DEF Before
    <2>3. CASE k > Len(s)
        <3>1. k \in (Len(s) + 1)..(Len(s) + n) /\ j \in (Len(s) + 1)..(Len(s) + n)
            BY <2>3, <1>1, <1>9
        <3>2. /\ t[k].msg = m /\ t[k].at = o + (k - Len(s)) - 1
              /\ t[j].msg = m /\ t[j].at = o + (j - Len(s)) - 1
            BY <3>1, <1>6
        <3>. QED
            BY <3>2, <1>1, <1>3, <1>9 DEF Before
    <2>. QED
        BY <2>1, <2>2, <2>3, <1>1
<1>10. t # <<>> /\ t[1] = first /\ Succ(t[Len(t)]) = next
    <2>1. t # <<>>
        BY <1>1, EmptySeq
    <2>2. t[Len(t)] = [msg |-> m, at |-> o + n - 1]
        BY <1>1
    <2>3. t[1] = first
        <3>1. CASE s = <<>>
            <4>1. Len(s) = 0 /\ first = [msg |-> m, at |-> o]
                BY <3>1 DEF Gapless
            <4>2. t[1] = [msg |-> m, at |-> o + (1 - Len(s)) - 1]
                BY <4>1, <1>1
            <4>. QED
                BY <4>1, <4>2
        <3>2. CASE s # <<>>
            <4>1. Len(s) > 0
                BY <3>2, EmptySeq, <1>1
            <4>. QED
                BY <3>2, <4>1, <1>1 DEF Gapless
        <3>. QED
            BY <3>1, <3>2
    <2>. QED
        BY <2>1, <2>2, <2>3 DEF next
<1>11. Gapless(t, first, next)
    BY <1>7, <1>8, <1>9, <1>10 DEF Gapless
<1>. QED
    BY <1>1, <1>11 DEF t, next

\* Reading the first byte of a gapless run leaves a gapless run.
LEMMA ShrinkRun ==
    ASSUME NEW s \in Seq(Byte), s # <<>>, NEW first, NEW next, Gapless(s, first, next)
    PROVE  /\ Head(s) = first
           /\ first \in Byte /\ first.at < Size(first.msg)
           /\ Tail(s) \in Seq(Byte)
           /\ Len(Tail(s)) = Len(s) - 1
           /\ Gapless(Tail(s), Succ(first), next)
<1>1. /\ Tail(s) \in Seq(Byte)
      /\ Len(Tail(s)) = Len(s) - 1
      /\ \A k \in 1..Len(Tail(s)) : Tail(s)[k] = s[k + 1]
      /\ Len(s) \in Nat \ {0}
    BY HeadTailProperties, EmptySeq
<1>2. Head(s) = first /\ first = s[1] /\ first \in Byte /\ first.at < Size(first.msg)
    <2>1. s[1] \in Byte
        BY <1>1, ElementOfSeq
    <2>. QED
        BY <1>1, <2>1 DEF Gapless
<1>3. Tail(s) = <<>> <=> Len(s) = 1
    <2>1. Tail(s) # <<>> => Len(Tail(s)) \in Nat \ {0}
        BY <1>1, EmptySeq
    <2>2. Tail(s) = <<>> => Len(Tail(s)) = 0
        BY EmptySeq
    <2>. QED
        BY <1>1, <2>1, <2>2
<1>. DEFINE t == Tail(s)
<1>4. /\ Len(t) = Len(s) - 1 /\ Len(s) \in Nat \ {0}
      /\ \A k \in 1..Len(t) : t[k] = s[k + 1] /\ k + 1 \in 1..Len(s)
    BY <1>1
<1>. HIDE DEF t
<1>5. \A k \in 1..Len(t) : t[k].at < Size(t[k].msg) /\ Before(t[k], next)
    BY <1>4 DEF Gapless
<1>6. ASSUME NEW k \in 1..Len(t), k < Len(t)
      PROVE  t[k + 1] = Succ(t[k])
    <2>1. /\ t[k] = s[k + 1] /\ t[k + 1] = s[k + 1 + 1]
          /\ k + 1 \in 1..Len(s) /\ k + 1 < Len(s)
        <3>1. k + 1 \in 1..Len(t)
            BY <1>4, <1>6
        <3>. QED
            BY <1>4, <1>6, <3>1
    <2>. QED
        BY <2>1 DEF Gapless
<1>7. ASSUME NEW k \in 1..Len(t), NEW j \in 1..Len(t), k < j
      PROVE  Before(t[k], t[j])
    <2>1. /\ t[k] = s[k + 1] /\ t[j] = s[j + 1]
          /\ k + 1 \in 1..Len(s) /\ j + 1 \in 1..Len(s) /\ k + 1 < j + 1
        BY <1>4, <1>7
    <2>. QED
        BY <2>1 DEF Gapless
<1>8. ASSUME t # <<>>
      PROVE  t[1] = Succ(first) /\ Succ(t[Len(t)]) = next
    <2>1. Len(t) = Len(s) - 1 /\ Len(s) > 1 /\ Len(s) \in Nat
        BY <1>1, <1>3, <1>8 DEF t
    <2>2. t[1] = s[1 + 1] /\ t[Len(t)] = s[Len(s)]
        BY <1>4, <2>1
    <2>3. s[1 + 1] = Succ(s[1])
        BY <2>1 DEF Gapless
    <2>. QED
        BY <1>2, <2>2, <2>3 DEF Gapless
<1>9. ASSUME t = <<>>
      PROVE  Succ(first) = next
    <2>1. Len(s) = 1
        BY <1>3, <1>9 DEF t
    <2>2. Succ(s[Len(s)]) = next
        BY DEF Gapless
    <2>. QED
        BY <1>2, <2>1, <2>2
<1>10. Gapless(t, Succ(first), next)
    BY <1>5, <1>6, <1>7, <1>8, <1>9 DEF Gapless
<1>. QED
    BY <1>1, <1>2, <1>10 DEF t

\* The receiver takes the first bytes of message r for a whole message exactly
\* when it has all of them, and then for message r.
LEMMA WholeMessage ==
    ASSUME NEW r \in Messages, NEW buf \in Seq(Byte),
           Len(buf) \in 1..Size(r),
           \A k \in 1..Len(buf) : buf[k] = [msg |-> r, at |-> k - 1]
    PROVE  /\ Complete(buf) <=> Len(buf) = Size(r)
           /\ Len(buf) = Size(r) => Decode(buf) = r
<1>1. /\ HeaderLen \in Nat /\ HeaderLen > 0
      /\ PayloadLen(r) \in Nat /\ Size(r) \in Nat /\ Size(r) = HeaderLen + PayloadLen(r)
    BY SizeType DEF Messages
<1>2. ASSUME Len(buf) >= HeaderLen
      PROVE  Announced(buf) = PayloadLen(r)
    <2>1. HeaderLen \in 1..Len(buf)
        BY <1>1, <1>2
    <2>2. buf[HeaderLen] = [msg |-> r, at |-> HeaderLen - 1]
        BY <2>1
    <2>. QED
        BY <2>2 DEF Announced
<1>3. Complete(buf) <=> Len(buf) = Size(r)
    <2>1. CASE Len(buf) >= HeaderLen
        <3>1. Announced(buf) = PayloadLen(r)
            BY <2>1, <1>2
        <3>. QED
            BY <2>1, <3>1, <1>1 DEF Complete
    <2>2. CASE Len(buf) < HeaderLen
        BY <2>2, <1>1 DEF Complete
    <2>. QED
        BY <2>1, <2>2, <1>1
<1>4. ASSUME Len(buf) = Size(r)
      PROVE  Decode(buf) = r
    <2>1. /\ Bytes(r, 0, Size(r)) \in Seq(Byte)
          /\ Len(Bytes(r, 0, Size(r))) = Size(r)
          /\ \A k \in 1..Size(r) : Bytes(r, 0, Size(r))[k] = [msg |-> r, at |-> 0 + k - 1]
        BY <1>1, BytesType
    <2>2. \A k \in 1..Len(buf) : buf[k] = Bytes(r, 0, Size(r))[k]
        BY <2>1, <1>1, <1>4
    <2>3. buf = Bytes(r, 0, Size(r))
        BY <2>1, <2>2, <1>4, SeqEqual
    <2>4. buf[1].msg = r
        <3>1. 1 \in 1..Len(buf)
            BY <1>1, <1>4
        <3>2. buf[1] = [msg |-> r, at |-> 1 - 1]
            BY <3>1
        <3>. QED
            BY <3>2
    <2>. QED
        BY <2>3, <2>4 DEF Decode
<1>. QED
    BY <1>3, <1>4

\* What is recorded lies behind the client: a consequence of the gapless pipe.
LEMMA RecordedBehind ==
    ASSUME NEW s, NEW r \in Nat, NEW k, NEW m \in Nat, NEW o,
           Len(s) \in Nat, s = <<>> \/ Len(s) > 0,
           Gapless(s, [msg |-> r + 1, at |-> k], [msg |-> m, at |-> o])
    PROVE  r < m
<1>1. CASE s = <<>>
    <2>1. [msg |-> r + 1, at |-> k] = [msg |-> m, at |-> o]
        BY <1>1 DEF Gapless
    <2>2. [msg |-> r + 1, at |-> k].msg = [msg |-> m, at |-> o].msg
        BY <2>1
    <2>. QED
        BY <2>2
<1>2. CASE s # <<>>
    <2>1. s[1] = [msg |-> r + 1, at |-> k] /\ 1 \in 1..Len(s)
        BY <1>2 DEF Gapless
    <2>2. Before(s[1], [msg |-> m, at |-> o])
        BY <2>1 DEF Gapless
    <2>. QED
        BY <2>1, <2>2 DEF Before
<1>. QED
    BY <1>1, <1>2

LEMMA InitEstablishes == Init => StreamInv
<1>. SUFFICES ASSUME Init PROVE StreamInv
    OBVIOUS
<1>. USE DEF Init
<1>1. TypeOK
    BY SizeType, ClientAssumption, EmptySeq DEF TypeOK
<1>2. ClientOK
    BY SizeType DEF ClientOK, PartLen
<1>3. PipeOK
    BY EmptySeq DEF PipeOK, Gapless, Expected, Position, Offset
<1>4. RecordedInOrder /\ ReceiverOK
    BY SizeType, EmptySeq DEF RecordedInOrder, ReceiverOK
<1>. QED
    BY <1>1, <1>2, <1>3, <1>4 DEF StreamInv

\* Every step in which send accepts bytes preserves the invariant, given where
\* the client goes next.
LEMMA AcceptPreserves ==
    ASSUME StreamInv, NEW n \in Nat \ {0}, Accept(n),
           Offset + n <= Size(msg),
           Position' = Succ([msg |-> msg, at |-> Offset + n - 1]),
           ClientOK', msg' \in 1..(NumMessages + 1), msg' >= msg,
           part' \in {"header", "payload"}, sent' \in Nat
    PROVE  StreamInv'
<1>. USE DEF StreamInv
<1>1. /\ msg \in Messages /\ Offset \in Nat /\ NumMessages \in Nat
      /\ SockBuf \in Nat /\ pipe \in Seq(Byte) /\ Len(pipe) \in Nat
      /\ UNCHANGED <<pc, receiver, rxbuf, recorded>>
      /\ pc = "sending"
    BY SizeType, ClientAssumption, LenProperties DEF TypeOK, Accept, Offset, Messages, Byte
<1>2. /\ pipe' \in Seq(Byte)
      /\ Len(pipe') = Len(pipe) + n
      /\ Gapless(pipe', Expected, Position')
    <2>1. Gapless(pipe, Expected, [msg |-> msg, at |-> Offset])
        BY DEF PipeOK, Position
    <2>2. LET t == pipe \o Bytes(msg, Offset, n)
          IN  /\ t \in Seq(Byte)
              /\ Len(t) = Len(pipe) + n
              /\ Gapless(t, Expected, Succ([msg |-> msg, at |-> Offset + n - 1]))
        BY <1>1, <2>1, ExtendRun
    <2>3. pipe' = pipe \o Bytes(msg, Offset, n)
        BY DEF Accept
    <2>. QED
        BY <2>2, <2>3
<1>3. TypeOK'
    BY <1>1, <1>2 DEF TypeOK, Accept, Byte
<1>4. PipeOK'
    BY <1>1, <1>2 DEF PipeOK, Expected
<1>5. RecordedInOrder'
    <2>1. recorded' = recorded /\ Len(recorded) \in Nat /\ msg \in Nat
        BY <1>1, LenProperties DEF TypeOK, Messages
    <2>. QED
        BY <2>1, <1>1 DEF RecordedInOrder
<1>6. ReceiverOK'
    BY <1>1 DEF ReceiverOK, Complete, Announced
<1>. QED
    BY <1>3, <1>4, <1>5, <1>6

\* When the client is done and the receiver still reads, END_RECORDING is not
\* read to its end, and its last byte is at the end of the pipe.
LEMMA DoneStillExpects ==
    ASSUME StreamInv, pc = "done", receiver = "reading"
    PROVE  /\ pipe # <<>>
           /\ pipe[Len(pipe)] = [msg |-> NumMessages, at |-> Size(NumMessages) - 1]
<1>. USE DEF StreamInv
<1>1. /\ NumMessages \in Nat /\ NumMessages \in Messages
      /\ msg = NumMessages + 1 /\ Position = [msg |-> NumMessages + 1, at |-> 0]
      /\ Len(recorded) \in Nat /\ Len(recorded) < NumMessages
      /\ pipe \in Seq(Byte) /\ Len(pipe) \in Nat
    BY SizeType, LenProperties
       DEF TypeOK, ClientOK, ReceiverOK, Position, Offset, Messages, Byte
<1>2. pipe # <<>>
    <2>1. SUFFICES ASSUME pipe = <<>> PROVE FALSE
        OBVIOUS
    <2>2. Expected = Position
        BY <2>1 DEF PipeOK, Gapless
    <2>3. Expected.msg = Position.msg
        BY <2>2
    <2>. QED
        BY <2>3, <1>1 DEF Expected
<1>3. Len(pipe) \in 1..Len(pipe) /\ pipe[Len(pipe)] \in Byte
    BY <1>1, <1>2, EmptySeq, ElementOfSeq
<1>. DEFINE last == pipe[Len(pipe)]
<1>4. last.at < Size(last.msg) /\ Succ(last) = [msg |-> NumMessages + 1, at |-> 0]
    BY <1>1, <1>2, <1>3 DEF PipeOK, Gapless
<1>5. last.msg \in Messages /\ last.at \in Nat /\ last = [msg |-> last.msg, at |-> last.at]
    BY <1>3 DEF Byte
<1>. HIDE DEF last
<1>6. Size(last.msg) \in Nat
    BY <1>5, SizeType DEF Messages
<1>7. last.at + 1 >= Size(last.msg)
    <2>1. SUFFICES ASSUME last.at + 1 < Size(last.msg) PROVE FALSE
        BY <1>5, <1>6
    <2>2. Succ(last) = [msg |-> last.msg, at |-> last.at + 1]
        BY <2>1 DEF Succ
    <2>3. Succ(last).at = last.at + 1
        BY <2>2
    <2>. QED
        BY <2>3, <1>4, <1>5
<1>8. last.msg = NumMessages
    <2>1. Succ(last) = [msg |-> last.msg + 1, at |-> 0]
        BY <1>5, <1>6, <1>7 DEF Succ
    <2>2. Succ(last).msg = last.msg + 1
        BY <2>1
    <2>. QED
        BY <2>2, <1>1, <1>4, <1>5 DEF Messages
<1>9. last.at = Size(NumMessages) - 1
    BY <1>4, <1>5, <1>6, <1>7, <1>8
<1>. QED
    BY <1>2, <1>5, <1>8, <1>9 DEF last

\* A step that leaves the stream alone preserves the invariant.
LEMMA QuietPreserves ==
    ASSUME StreamInv,
           UNCHANGED <<msg, part, sent, pipe, rxbuf, recorded>>,
           pc' \in {"connecting", "sending", "done", "failed"},
           pc' = "done" => msg = NumMessages + 1,
           \/ receiver' = receiver
           \/ receiver' = "gone"
           \/ receiver' = "eof" /\ pc' = "failed",
           receiver = "eof" => pc' = "failed"
    PROVE  StreamInv'
<1>. USE DEF StreamInv
<1>1. TypeOK'
    BY DEF TypeOK
<1>2. PipeOK' /\ ClientOK' /\ RecordedInOrder'
    BY DEF PipeOK, Expected, Position, Offset, ClientOK, PartLen, RecordedInOrder
<1>3. ReceiverOK'
    BY DEF ReceiverOK, Complete, Announced
<1>. QED
    BY <1>1, <1>2, <1>3

\* The receiver's step: it reads the byte it expects, and a message it
\* completes is the next of the client's.
LEMMA ReadBytePreserves == StreamInv /\ ReadByte => StreamInv'
<1>. SUFFICES ASSUME StreamInv, ReadByte
              PROVE  StreamInv'
    OBVIOUS
<1>. USE DEF StreamInv
<1>. DEFINE buf == Append(rxbuf, Head(pipe))
            r == Len(recorded) + 1
<1>1. /\ receiver = "reading" /\ pipe # <<>> /\ pipe' = Tail(pipe)
      /\ UNCHANGED <<pc, msg, part, sent>>
      /\ \/ /\ ~Complete(buf) /\ rxbuf' = buf
            /\ UNCHANGED <<recorded, receiver>>
         \/ /\ Complete(buf) /\ rxbuf' = <<>>
            /\ recorded' = Append(recorded, Decode(buf))
            /\ receiver' = IF Decode(buf) = NumMessages THEN "finished" ELSE "reading"
    BY DEF ReadByte
<1>2. /\ pipe \in Seq(Byte) /\ rxbuf \in Seq(Byte) /\ recorded \in Seq(0..NumMessages)
      /\ Len(pipe) \in Nat /\ Len(rxbuf) \in Nat /\ Len(recorded) \in Nat
      /\ NumMessages \in Nat /\ SockBuf \in Nat /\ msg \in Nat
    BY SizeType, ClientAssumption, LenProperties DEF TypeOK, Byte
<1>3. /\ Head(pipe) = Expected /\ Expected \in Byte /\ Expected.at < Size(Expected.msg)
      /\ Tail(pipe) \in Seq(Byte) /\ Len(Tail(pipe)) = Len(pipe) - 1
      /\ Gapless(Tail(pipe), Succ(Expected), Position)
    BY <1>1, <1>2, ShrinkRun DEF PipeOK
<1>4. /\ r \in Messages /\ Len(rxbuf) < Size(r) /\ Size(r) \in Nat
      /\ Head(pipe) = [msg |-> r, at |-> Len(rxbuf)]
    BY <1>3, SizeType DEF Expected, Byte, Messages
<1>5. /\ buf \in Seq(Byte) /\ Len(buf) = Len(rxbuf) + 1
      /\ \A k \in 1..Len(buf) : buf[k] = [msg |-> r, at |-> k - 1]
    <2>1. /\ buf \in Seq(Byte) /\ Len(buf) = Len(rxbuf) + 1
          /\ \A k \in 1..Len(rxbuf) : buf[k] = rxbuf[k]
          /\ buf[Len(rxbuf) + 1] = Head(pipe)
        BY <1>2, <1>3, AppendProperties
    <2>. QED
        BY <2>1, <1>2, <1>4 DEF ReceiverOK
<1>6. /\ Complete(buf) <=> Len(buf) = Size(r)
      /\ Len(buf) = Size(r) => Decode(buf) = r
    <2>. HIDE DEF buf, r
    <2>1. Len(buf) \in 1..Size(r)
        BY <1>2, <1>4, <1>5
    <2>. QED
        BY <1>4, <1>5, <2>1, WholeMessage
<1>. HIDE DEF buf, r
<1>7. CASE ~Complete(buf)
    <2>1. rxbuf' = buf /\ UNCHANGED <<recorded, receiver>>
        BY <1>1, <1>7
    <2>2. TypeOK'
        BY <1>1, <1>2, <1>3, <1>5, <2>1 DEF TypeOK, Byte
    <2>3. Succ(Expected) = Expected'
        BY <1>2, <1>4, <1>5, <1>6, <1>7, <2>1 DEF Succ, Expected, r
    <2>4. PipeOK'
        BY <1>1, <1>3, <2>3 DEF PipeOK, Position, Offset
    <2>5. ReceiverOK'
        BY <1>1, <1>5, <1>7, <2>1 DEF ReceiverOK, Complete, Announced, r
    <2>6. RecordedInOrder' /\ ClientOK'
        BY <1>1, <2>1 DEF RecordedInOrder, ClientOK, PartLen
    <2>. QED
        BY <2>2, <2>4, <2>5, <2>6
<1>8. CASE Complete(buf)
    <2>1. /\ rxbuf' = <<>>
          /\ recorded' = Append(recorded, r)
          /\ receiver' = IF r = NumMessages THEN "finished" ELSE "reading"
        BY <1>1, <1>6, <1>8
    <2>2. /\ recorded' \in Seq(0..NumMessages) /\ Len(recorded') = Len(recorded) + 1
          /\ \A k \in 1..Len(recorded) : recorded'[k] = recorded[k]
          /\ recorded'[Len(recorded) + 1] = r
        BY <1>2, <1>4, <2>1, AppendProperties DEF Messages
    <2>3. TypeOK'
        BY <1>1, <1>2, <1>3, <2>1, <2>2, EmptySeq DEF TypeOK, Byte
    <2>4. Succ(Expected) = Expected'
        BY <1>2, <1>4, <1>5, <1>6, <1>8, <2>1, <2>2, EmptySeq DEF Succ, Expected, r
    <2>5. PipeOK'
        BY <1>1, <1>3, <2>4 DEF PipeOK, Position, Offset
    <2>6. RecordedInOrder'
        <3>1. Gapless(Tail(pipe), [msg |-> Len(recorded) + 1 + 1, at |-> 0], [msg |-> msg, at |-> Offset])
            BY <1>3, <2>1, <2>2, <2>4, EmptySeq DEF Expected, Position
        <3>2. /\ Len(Tail(pipe)) \in Nat /\ Len(recorded) + 1 \in Nat
              /\ Tail(pipe) = <<>> \/ Len(Tail(pipe)) > 0
            BY <1>2, <1>3, EmptySeq, LenProperties
        <3>3. Len(recorded) + 1 < msg
            BY <1>2, <3>1, <3>2, RecordedBehind
        <3>4. ASSUME NEW k \in 1..Len(recorded')
              PROVE  recorded'[k] = k
            <4>1. k \in 1..Len(recorded) \/ k = Len(recorded) + 1
                BY <1>2, <2>2
            <4>2. \A j \in 1..Len(recorded) : recorded[j] = j
                BY DEF RecordedInOrder
            <4>. QED
                BY <2>2, <4>1, <4>2 DEF r
        <3>5. Len(recorded') < msg'
            BY <1>1, <2>2, <3>3
        <3>. QED
            BY <3>4, <3>5 DEF RecordedInOrder
    <2>7. ReceiverOK'
        BY <1>1, <1>2, <1>4, <2>1, <2>2, EmptySeq DEF ReceiverOK, Messages, r
    <2>8. ClientOK'
        BY <1>1 DEF ClientOK, PartLen
    <2>. QED
        BY <2>3, <2>5, <2>6, <2>7, <2>8
<1>. QED
    BY <1>7, <1>8

LEMMA NextPreserves == StreamInv /\ [Next]_vars => StreamInv'
<1>. SUFFICES ASSUME StreamInv, [Next]_vars
              PROVE  StreamInv'
    OBVIOUS
<1>1. /\ msg \in 1..(NumMessages + 1) /\ sent \in Nat /\ NumMessages \in Nat
      /\ part \in {"header", "payload"}
      /\ msg <= NumMessages => sent < PartLen
    BY SizeType DEF StreamInv, TypeOK, ClientOK
<1>2. ASSUME msg <= NumMessages
      PROVE  /\ msg \in Messages
             /\ PartLen \in Nat /\ Offset \in Nat
             /\ HeaderLen \in Nat /\ PayloadLen(msg) \in Nat
             /\ Size(msg) = HeaderLen + PayloadLen(msg)
             /\ part = "header" => Offset = sent /\ PartLen = HeaderLen
             /\ part = "payload" => Offset = HeaderLen + sent /\ PartLen = PayloadLen(msg)
    BY <1>1, <1>2, SizeType DEF PartLen, Offset, Messages
<1>pc. /\ pc \in {"connecting", "sending", "done", "failed"}
       /\ pc = "done" => msg = NumMessages + 1
       /\ receiver = "eof" => pc = "failed"
    BY DEF StreamInv, TypeOK, ClientOK, ReceiverOK
<1>3. CASE ShortSend
    <2>1. PICK n \in 1..(PartLen - sent - 1) :
              Accept(n) /\ sent' = sent + n /\ UNCHANGED <<msg, part>>
        BY <1>3 DEF ShortSend
    <2>2. msg <= NumMessages
        BY <2>1 DEF Accept
    <2>3. n \in Nat \ {0} /\ sent + n < PartLen
        BY <2>1, <2>2, <1>1, <1>2
    <2>4. Offset + n <= Size(msg) /\ Offset + n < Size(msg)
        BY <2>2, <2>3, <1>1, <1>2
    <2>5. Position' = Succ([msg |-> msg, at |-> Offset + n - 1])
        BY <2>1, <2>2, <2>3, <2>4, <1>1, <1>2 DEF Position, Offset, Succ
    <2>6. ClientOK'
        BY <2>1, <2>2, <2>3, <1>1, <1>2 DEF ClientOK, PartLen, Accept, StreamInv
    <2>. QED
        BY <2>1, <2>3, <2>4, <2>5, <2>6, <1>1, AcceptPreserves
<1>4. CASE HeaderSent
    <2>1. /\ part = "header" /\ PayloadLen(msg) > 0 /\ Accept(PartLen - sent)
          /\ part' = "payload" /\ sent' = 0 /\ msg' = msg
        BY <1>4 DEF HeaderSent
    <2>2. msg <= NumMessages
        BY <2>1 DEF Accept
    <2>. DEFINE n == PartLen - sent
    <2>3. n \in Nat \ {0} /\ Offset + n = HeaderLen /\ HeaderLen < Size(msg)
        BY <2>1, <2>2, <1>1, <1>2
    <2>4. Position' = Succ([msg |-> msg, at |-> Offset + n - 1])
        BY <2>1, <2>2, <2>3, <1>1, <1>2 DEF Position, Offset, Succ
    <2>5. ClientOK'
        BY <2>1, <2>2, <1>1, <1>2 DEF ClientOK, PartLen, Accept, StreamInv
    <2>. QED
        BY <2>1, <2>2, <2>3, <2>4, <2>5, <1>1, <1>2, AcceptPreserves
<1>5. CASE MessageSent
    <2>1. /\ part = "payload" \/ PayloadLen(msg) = 0
          /\ Accept(PartLen - sent)
          /\ part' = "header" /\ sent' = 0 /\ msg' = msg + 1
        BY <1>5 DEF MessageSent
    <2>2. msg <= NumMessages
        BY <2>1 DEF Accept
    <2>. DEFINE n == PartLen - sent
    <2>3. n \in Nat \ {0} /\ Offset + n = Size(msg)
        BY <2>1, <2>2, <1>1, <1>2
    <2>4. Position' = Succ([msg |-> msg, at |-> Offset + n - 1])
        BY <2>1, <2>2, <2>3, <1>1, <1>2 DEF Position, Offset, Succ
    <2>5. ClientOK'
        BY <2>1, <2>2, <1>1, <1>2, SizeType DEF ClientOK, PartLen, Accept
    <2>. QED
        BY <2>1, <2>2, <2>3, <2>4, <2>5, <1>1, <1>2, AcceptPreserves
<1>6. CASE ReadByte
    BY <1>6, ReadBytePreserves
<1>7. CASE Connect \/ ConnectFails \/ SendFails \/ ClientKilled
    <2>1. /\ UNCHANGED <<msg, part, sent, pipe, receiver, rxbuf, recorded>>
          /\ pc' \in {"sending", "failed"}
          /\ pc \in {"connecting", "sending"}
        BY <1>7 DEF Connect, ConnectFails, SendFails, ClientKilled
    <2>. QED
        BY <2>1, <1>pc, QuietPreserves
<1>8. CASE PrintDone
    <2>1. /\ UNCHANGED <<msg, part, sent, pipe, receiver, rxbuf, recorded>>
          /\ pc = "sending" /\ pc' = "done" /\ msg = NumMessages + 1
        BY <1>8, <1>1 DEF PrintDone
    <2>. QED
        BY <2>1, <1>pc, QuietPreserves
<1>9. CASE LinkLost
    BY <1>9, <1>pc, QuietPreserves DEF LinkLost
<1>10. CASE ReadEof
    <2>1. /\ UNCHANGED <<pc, msg, part, sent, pipe, rxbuf, recorded>>
          /\ receiver = "reading" /\ receiver' = "eof" /\ pipe = <<>>
          /\ pc \in {"done", "failed"}
        BY <1>10 DEF ReadEof
    <2>2. pc # "done"
        BY <2>1, DoneStillExpects
    <2>. QED
        BY <2>1, <2>2, <1>pc, QuietPreserves
<1>11. CASE UNCHANGED vars
    <2>1. UNCHANGED <<pc, msg, part, sent, pipe, receiver, rxbuf, recorded>>
        BY <1>11 DEF vars
    <2>. QED
        BY <2>1, <1>pc, QuietPreserves
<1>. QED
    BY <1>3, <1>4, <1>5, <1>6, <1>7, <1>8, <1>9, <1>10, <1>11 DEF Next, Client, Receiver

-----------------------------------------------------------------------------
\* The recorded, half-read and in-flight bytes are always the client's stream up
\* to where send_all is, for any lengths and any socket buffers.
THEOREM StreamAlwaysWhole == Spec => []StreamInv
<1>1. Init => StreamInv
    BY InitEstablishes
<1>2. StreamInv /\ [Next]_vars => StreamInv'
    BY NextPreserves
<1>. QED
    BY <1>1, <1>2, PTL DEF Spec

\* Every variable keeps its type.
THEOREM TypeCorrect == Spec => []TypeOK
<1>1. StreamInv => TypeOK
    BY DEF StreamInv
<1>. QED
    BY <1>1, StreamAlwaysWhole, PTL

\* The receiver records the client's messages in order, none torn, doubled or
\* skipped, however send splits them (send_all, send_ctsp).
THEOREM RecordingInOrder == Spec => []RecordedInOrder
<1>1. StreamInv => RecordedInOrder
    BY DEF StreamInv
<1>. QED
    BY <1>1, StreamAlwaysWhole, PTL

\* DONE means the whole recording is made, on its way, or lost with the
\* receiver; the receiver never takes it for ended early.
THEOREM DoneIsOnItsWay == Spec => []DoneMeansOnItsWay
<1>1. StreamInv => DoneMeansOnItsWay
    <2>. SUFFICES ASSUME StreamInv, pc = "done", receiver # "gone", receiver # "finished"
                  PROVE  /\ receiver = "reading"
                         /\ pipe # <<>>
                         /\ pipe[Len(pipe)] = [msg |-> NumMessages, at |-> Size(NumMessages) - 1]
        BY DEF DoneMeansOnItsWay, StreamInv, ReceiverOK
    <2>1. receiver = "reading"
        BY DEF StreamInv, TypeOK, ReceiverOK
    <2>. QED
        BY <2>1, DoneStillExpects
<1>. QED
    BY <1>1, StreamAlwaysWhole, PTL

-----------------------------------------------------------------------------
\* What the receiver records next, if this byte completes a message.
LEMMA ReadByteRecordsNext ==
    ASSUME StreamInv, ReadByte
    PROVE  \/ recorded' = recorded
           \/ Len(recorded) < msg - 1 /\ recorded' = Append(recorded, Len(recorded) + 1)
<1>1. StreamInv'
    BY ReadBytePreserves
<1>2. /\ recorded \in Seq(0..NumMessages) /\ Len(recorded) \in Nat /\ msg \in Nat
      /\ recorded' \in Seq(0..NumMessages)
      /\ \A k \in 1..Len(recorded') : recorded'[k] = k
      /\ Len(recorded') < msg'
      /\ NumMessages \in Nat
    BY <1>1, SizeType, LenProperties DEF StreamInv, TypeOK, RecordedInOrder
<1>3. /\ msg' = msg
      /\ recorded' = recorded \/ \E d : recorded' = Append(recorded, d)
    BY DEF ReadByte
<1>4. ASSUME NEW d, recorded' = Append(recorded, d)
      PROVE  Len(recorded) < msg - 1 /\ recorded' = Append(recorded, Len(recorded) + 1)
    <2>1. Len(recorded') = Len(recorded) + 1 /\ recorded'[Len(recorded) + 1] = d
        BY <1>2, <1>4
    <2>2. d = Len(recorded) + 1
        BY <1>2, <2>1
    <2>. QED
        BY <1>2, <1>3, <1>4, <2>1, <2>2
<1>. QED
    BY <1>3, <1>4

\* Every step of the byte stream is a step of the message-level specification,
\* or none: the client that hands bytes over and the receiver that parses them
\* implement an in-order transfer of whole messages.
THEOREM StreamImplementsRecording == Spec => ImplementsRecording
<1>1. Init => Abstract!AbstractInit
    BY DEF Init, Abstract!AbstractInit
<1>2. StreamInv /\ [Next]_vars => [Abstract!AbstractNext]_Abstract!abstractVars
    <2>. SUFFICES ASSUME StreamInv, [Next]_vars
                  PROVE  Abstract!AbstractNext \/ UNCHANGED Abstract!abstractVars
        OBVIOUS
    <2>. USE DEF Abstract!AbstractNext, Abstract!abstractVars
    <2>1. msg \in Nat /\ NumMessages \in Nat /\ (pc = "done" => msg = NumMessages + 1)
        BY SizeType DEF StreamInv, TypeOK, ClientOK
    <2>2. CASE MessageSent
        <3>1. /\ pc = "sending" /\ pc' = pc /\ msg <= NumMessages
              /\ msg' = msg + 1 /\ recorded' = recorded
            BY <2>2 DEF MessageSent, Accept
        <3>. QED
            BY <3>1, <2>1 DEF Abstract!HandOver
    <2>3. CASE ReadByte
        <3>1. pc' = pc /\ msg' = msg
            BY <2>3 DEF ReadByte
        <3>2. \/ recorded' = recorded
              \/ Len(recorded) < msg - 1 /\ recorded' = Append(recorded, Len(recorded) + 1)
            BY <2>3, ReadByteRecordsNext
        <3>. QED
            BY <3>1, <3>2 DEF Abstract!Record
    <2>4. CASE PrintDone
        <3>1. /\ pc = "sending" /\ pc' = "done" /\ msg > NumMessages
              /\ msg' = msg /\ recorded' = recorded
            BY <2>4 DEF PrintDone
        <3>2. msg - 1 = NumMessages
            BY <2>1, <3>1, SizeType DEF StreamInv, TypeOK
        <3>. QED
            BY <3>1, <3>2 DEF Abstract!Succeed
    <2>5. CASE ConnectFails \/ SendFails \/ ClientKilled
        <3>1. /\ pc \in {"connecting", "sending"} /\ pc' = "failed"
              /\ msg' = msg /\ recorded' = recorded
            BY <2>5 DEF ConnectFails, SendFails, ClientKilled
        <3>. QED
            BY <3>1 DEF Abstract!GiveUp
    <2>6. CASE Connect
        BY <2>6 DEF Connect
    <2>7. CASE ShortSend \/ HeaderSent
        BY <2>7 DEF ShortSend, HeaderSent, Accept
    <2>8. CASE ReadEof \/ LinkLost
        BY <2>8 DEF ReadEof, LinkLost
    <2>9. CASE UNCHANGED vars
        BY <2>9 DEF vars
    <2>. QED
        BY <2>2, <2>3, <2>4, <2>5, <2>6, <2>7, <2>8, <2>9 DEF Next, Client, Receiver
<1>. QED
    BY <1>1, <1>2, StreamAlwaysWhole, PTL DEF Spec, ImplementsRecording, Abstract!AbstractSpec

-----------------------------------------------------------------------------
(* The fixture program: what main prints of a worker.                      *)

ProgramTypes ==
    /\ platform \in {"posix", "windows"}
    /\ mainAt \in {"create", "wait", "join", "print", "add", "done", "crashed"}
    /\ i \in Workers
    /\ thread \in [Workers -> {"none", "running", "ended", "refused"}]
    /\ sum \in [Workers -> Nat] /\ at \in [Workers -> Nat]
    /\ result \in [Workers -> Nat]
    /\ printed \in Seq(Nat)

\* Main creates the threads first, in order; a thread that has ended has left its
\* sum where main reads it.
ThreadInv ==
    /\ \A w \in Workers : thread[w] = "none" <=> mainAt = "create" /\ i <= w
    /\ \A w \in Workers : thread[w] = "ended" => result[w] = sum[w]

\* How far the lines are, and that main got there by waiting.
LineInv ==
    /\ mainAt \in {"create", "wait"} => printed = <<>>
    /\ mainAt = "wait" => i = 1
    /\ mainAt \in {"join", "print"} => Len(printed) = i - 1
    /\ mainAt \in {"wait", "join"} => platform = IF mainAt = "wait" THEN "windows" ELSE "posix"
    /\ mainAt = "print" /\ platform = "posix" => thread[i] \in {"ended", "refused"}
    /\ mainAt = "print" /\ platform = "windows" => Refused \/ \A w \in Workers : thread[w] = "ended"
    /\ Len(printed) <= NumWorkers

ProgramInv == ProgramTypes /\ ThreadInv /\ LineInv /\ LinesAreComplete

LEMMA Constants == NumWorkers \in Nat \ {0} /\ Iterations \in Nat /\ Platforms \subseteq {"posix", "windows"}
BY ProgramAssumption

LEMMA ProductType == \A a, b \in Nat : a * b \in Nat
OBVIOUS

\* The lines printed are of workers.
LEMMA LinesOfWorkers == ProgramTypes /\ LineInv => 1..Len(printed) \subseteq Workers
BY Constants DEF ProgramTypes, LineInv, Workers

LEMMA ProgramInitial == ProgramInit => ProgramInv
<1> SUFFICES ASSUME ProgramInit PROVE ProgramInv
  OBVIOUS
<1> QED
  BY Constants DEF ProgramInit, ProgramInv, ProgramTypes, ThreadInv, LineInv, LinesAreComplete, Workers, Garbage

\* A step of a worker leaves main's waiting and what it printed as they were.
LEMMA WorkerStep ==
    ASSUME ProgramInv, NEW w \in Workers, Worker(w)
    PROVE  ProgramInv'
<1>0. ProgramTypes /\ ThreadInv /\ LineInv /\ LinesAreComplete
  BY DEF ProgramInv
<1>1. thread[w] = "running" /\ UNCHANGED <<platform, mainVars>>
  BY DEF Worker, Work, Return
<1>2. CASE Work(w)
  <2>1. /\ UNCHANGED <<thread, result, platform, mainAt, i, printed>>
        /\ \A v \in Workers : v # w => sum'[v] = sum[v]
    BY <1>0, <1>2 DEF Work, mainVars, ProgramTypes
  <2>2. ProgramTypes'
    <3>1. sum[w] + at[w] * w \in Nat /\ at[w] + 1 \in Nat
      <4>1. sum[w] \in Nat /\ at[w] \in Nat /\ w \in Nat
        BY <1>0, Constants DEF ProgramTypes, Workers
      <4> QED
        BY <4>1, ProductType
    <3> QED
      BY <1>0, <1>2, <2>1, <3>1 DEF Work, ProgramTypes
  <2>3. ThreadInv' /\ LineInv'
    BY <1>0, <1>1, <2>1 DEF ThreadInv, LineInv, Refused
  <2>4. LinesAreComplete'
    BY <1>0, <1>1, <2>1, LinesOfWorkers DEF LinesAreComplete, Refused
  <2> QED
    BY <2>2, <2>3, <2>4 DEF ProgramInv
<1>3. CASE Return(w)
  <2>1. UNCHANGED <<sum, at, platform, mainAt, i, printed>>
    BY <1>3 DEF Return, mainVars
  <2>2. thread' = [thread EXCEPT ![w] = "ended"] /\ result' = [result EXCEPT ![w] = sum[w]]
    BY <1>3 DEF Return
  <2>3. ProgramTypes'
    BY <1>0, <2>1, <2>2 DEF ProgramTypes
  <2>4. ThreadInv'
    BY <1>0, <1>1, <2>1, <2>2 DEF ThreadInv, ProgramTypes
  <2>5. Refused' = Refused
    BY <1>0, <1>1, <2>2 DEF Refused, ProgramTypes
  <2>6. LineInv'
    BY <1>0, <1>1, <2>1, <2>2, <2>5 DEF LineInv, ProgramTypes
  <2>7. LinesAreComplete'
    BY <1>0, <1>1, <2>1, <2>2, <2>5, LinesOfWorkers DEF LinesAreComplete, ProgramTypes
  <2> QED
    BY <2>3, <2>4, <2>6, <2>7 DEF ProgramInv
<1> QED
  BY <1>2, <1>3 DEF Worker

LEMMA CreateStep == ProgramInv /\ Create => ProgramInv'
<1> SUFFICES ASSUME ProgramInv, Create PROVE ProgramInv'
  OBVIOUS
<1>0. ProgramTypes /\ ThreadInv /\ LineInv /\ mainAt = "create" /\ printed = <<>>
  BY DEF ProgramInv, Create, LineInv
<1>1. PICK made \in {"running", "refused"} : thread' = [thread EXCEPT ![i] = made]
  BY DEF Create
<1>2. /\ result' = [result EXCEPT ![i] = 0]
      /\ UNCHANGED <<platform, sum, at, printed>>
      /\ IF i < NumWorkers THEN i' = i + 1 /\ mainAt' = "create" ELSE i' = 1 /\ mainAt' = Waits
  BY <1>0 DEF Create, Turn
<1>3. ProgramTypes'
  <2>1. i' \in Workers /\ mainAt' \in {"create", "wait", "join"}
    BY <1>0, <1>2, Constants DEF ProgramTypes, Waits, Workers
  <2> QED
    BY <1>0, <1>1, <1>2, <2>1 DEF ProgramTypes
<1>4. ThreadInv'
  <2>1. /\ i \in Workers /\ thread \in [Workers -> {"none", "running", "ended", "refused"}]
        /\ \A w \in Workers : thread[w] = "none" <=> i <= w
        /\ \A w \in Workers : thread[w] = "ended" => result[w] = sum[w]
    BY <1>0 DEF ThreadInv, ProgramTypes
  <2>2. ASSUME NEW w \in Workers PROVE thread'[w] = "none" <=> i < w
    <3>1. CASE w = i
      BY <1>1, <2>1, <3>1, Constants DEF Workers
    <3>2. CASE w # i
      <4>1. thread'[w] = thread[w] /\ (i <= w <=> i < w)
        BY <1>1, <2>1, <3>2, Constants DEF Workers
      <4> QED
        BY <4>1, <2>1
    <3> QED
      BY <3>1, <3>2
  <2>3. ASSUME NEW w \in Workers, thread'[w] = "ended" PROVE w # i /\ thread[w] = "ended"
    BY <1>1, <2>1, <2>3
  <2>4. ASSUME NEW w \in Workers, thread'[w] = "ended" PROVE result'[w] = sum'[w]
    <3>1. w # i /\ result[w] = sum[w]
      BY <2>1, <2>3, <2>4
    <3>2. result \in [Workers -> Nat] /\ sum' = sum /\ result' = [result EXCEPT ![i] = 0]
      BY <1>0, <1>2 DEF ProgramTypes
    <3> QED
      BY <3>1, <3>2
  <2>5. \A w \in Workers : (thread'[w] = "none" <=> mainAt' = "create" /\ i' <= w)
    BY <1>2, <2>1, <2>2, Constants DEF Workers, Waits
  <2> QED
    BY <2>4, <2>5 DEF ThreadInv
<1>5. LineInv' /\ LinesAreComplete'
  BY <1>0, <1>2, Constants DEF LineInv, LinesAreComplete, Waits, ProgramTypes
<1> QED
  BY <1>3, <1>4, <1>5 DEF ProgramInv

LEMMA WaitStep == ProgramInv /\ (WaitForAll \/ Join) => ProgramInv'
<1> SUFFICES ASSUME ProgramInv, WaitForAll \/ Join PROVE ProgramInv'
  OBVIOUS
<1>0. ProgramTypes /\ ThreadInv /\ LineInv /\ LinesAreComplete
  BY DEF ProgramInv
<1>1. UNCHANGED <<platform, i, thread, sum, at, result, printed>> /\ mainAt' \in {"print", "crashed"}
      /\ mainAt \in {"wait", "join"}
  BY DEF WaitForAll, Join
<1>2. ProgramTypes' /\ ThreadInv' /\ LinesAreComplete'
  BY <1>0, <1>1 DEF ProgramTypes, ThreadInv, LinesAreComplete, Refused
<1>3. LineInv'
  <2>1. CASE WaitForAll
    <3>1. mainAt = "wait" /\ mainAt' = "print" /\ platform = "windows" /\ i = 1 /\ printed = <<>>
      BY <1>0, <2>1 DEF WaitForAll, LineInv
    <3>2. Refused \/ \A w \in Workers : thread[w] = "ended"
      BY <2>1 DEF WaitForAll, Refused
    <3> QED
      BY <1>0, <1>1, <3>1, <3>2 DEF LineInv, Refused
  <2>2. CASE Join
    BY <1>0, <1>1, <2>2 DEF Join, LineInv, Refused
  <2> QED
    BY <2>1, <2>2
<1> QED
  BY <1>2, <1>3 DEF ProgramInv

LEMMA PrintStep == ProgramInv /\ PrintResult => ProgramInv'
<1> SUFFICES ASSUME ProgramInv, PrintResult PROVE ProgramInv'
  OBVIOUS
<1>0. ProgramTypes /\ ThreadInv /\ LineInv /\ LinesAreComplete /\ mainAt = "print"
  BY DEF ProgramInv, PrintResult
<1>1. /\ printed' = Append(printed, result[i])
      /\ UNCHANGED <<platform, thread, sum, at, result>>
      /\ IF i < NumWorkers
         THEN i' = i + 1 /\ mainAt' = IF platform = "windows" THEN "print" ELSE "join"
         ELSE i' = 1 /\ mainAt' = "add"
  BY DEF PrintResult
<1>2. Len(printed) = i - 1 /\ Len(printed') = i /\ Refused' = Refused
  BY <1>0, <1>1, Constants DEF LineInv, ProgramTypes, Workers, Refused
<1>3. ProgramTypes'
  <2>1. i' \in Workers /\ mainAt' \in {"print", "join", "add"}
    BY <1>0, <1>1, Constants DEF ProgramTypes, Workers
  <2> QED
    BY <1>0, <1>1, <2>1 DEF ProgramTypes
<1>4. ThreadInv'
  BY <1>0, <1>1 DEF ThreadInv
<1>5. LineInv'
  <2>0. i \in 1..NumWorkers /\ NumWorkers \in Nat /\ platform \in {"posix", "windows"}
    BY <1>0, Constants DEF ProgramTypes, Workers
  <2>1. CASE i < NumWorkers
    <3>1. i' = i + 1 /\ Len(printed') = i' - 1 /\ Len(printed') <= NumWorkers
      BY <1>1, <1>2, <2>0, <2>1
    <3>2. CASE platform = "windows"
      <4>1. mainAt' = "print"
        BY <1>1, <2>1, <3>2
      <4>2. Refused \/ \A w \in Workers : thread[w] = "ended"
        BY <1>0, <3>2 DEF LineInv
      <4> QED
        BY <1>1, <1>2, <3>1, <3>2, <4>1, <4>2 DEF LineInv
    <3>3. CASE platform = "posix"
      <4>1. mainAt' = "join"
        BY <1>1, <2>1, <3>3
      <4> QED
        BY <1>1, <3>1, <3>3, <4>1 DEF LineInv
    <3> QED
      BY <2>0, <3>2, <3>3
  <2>2. CASE ~(i < NumWorkers)
    <3>1. mainAt' = "add" /\ Len(printed') <= NumWorkers
      BY <1>1, <1>2, <2>0, <2>2
    <3> QED
      BY <3>1 DEF LineInv
  <2> QED
    BY <2>1, <2>2
<1>6. LinesAreComplete'
  <2> SUFFICES ASSUME NEW w \in 1..Len(printed'), thread[w] # "refused",
                      platform = "posix" \/ ~Refused
               PROVE  thread[w] = "ended" /\ printed'[w] = sum[w]
    BY <1>1, <1>2 DEF LinesAreComplete
  <2>1. CASE w = i
    <3>1. printed'[i] = result[i]
      BY <1>0, <1>1, <1>2 DEF ProgramTypes
    <3>2. thread[i] = "ended"
      BY <1>0, <2>1 DEF LineInv, ProgramTypes
    <3> QED
      BY <1>0, <2>1, <3>1, <3>2 DEF ThreadInv, ProgramTypes
  <2>2. CASE w # i
    <3>1. w \in 1..Len(printed) /\ printed'[w] = printed[w]
      BY <1>0, <1>1, <1>2, <2>2, Constants DEF ProgramTypes, Workers
    <3> QED
      BY <1>0, <3>1 DEF LinesAreComplete
  <2> QED
    BY <2>1, <2>2
<1> QED
  BY <1>3, <1>4, <1>5, <1>6 DEF ProgramInv

LEMMA AddStep == ProgramInv /\ AddResult => ProgramInv'
<1> SUFFICES ASSUME ProgramInv, AddResult PROVE ProgramInv'
  OBVIOUS
<1>1. /\ mainAt = "add" /\ UNCHANGED <<platform, thread, sum, at, result, printed>>
      /\ IF i < NumWorkers THEN i' = i + 1 /\ mainAt' = "add" ELSE i' = 1 /\ mainAt' = "done"
  BY DEF AddResult, Turn
<1>2. ProgramTypes /\ ThreadInv /\ LineInv /\ LinesAreComplete
  BY DEF ProgramInv
<1>3. ProgramTypes'
  <2>1. i' \in Workers /\ mainAt' \in {"add", "done"}
    BY <1>1, <1>2, Constants DEF ProgramTypes, Workers
  <2> QED
    BY <1>1, <1>2, <2>1 DEF ProgramTypes
<1> QED
  BY <1>1, <1>2, <1>3 DEF ProgramInv, ThreadInv, LineInv, LinesAreComplete, Refused

LEMMA ProgramStep == ProgramInv /\ [ProgramNext]_programVars => ProgramInv'
<1> SUFFICES ASSUME ProgramInv, [ProgramNext]_programVars PROVE ProgramInv'
  OBVIOUS
<1>1. CASE UNCHANGED programVars
  BY <1>1 DEF programVars, mainVars, ProgramInv, ProgramTypes, ThreadInv, LineInv, LinesAreComplete, Refused
<1> QED
  BY <1>1, WorkerStep, CreateStep, WaitStep, PrintStep, AddStep DEF ProgramNext, Main, Ended

\* For any number of workers, what main prints of one is its whole sum: the join,
\* or the wait for all when all were created, is enough to order the worker's
\* write before main's read (ct_fixture_prog.c:168-195).
THEOREM PrintedLinesAreComplete == ProgramSpec => []LinesAreComplete
<1>1. ProgramInv => LinesAreComplete
  BY DEF ProgramInv
<1> QED
  BY <1>1, ProgramInitial, ProgramStep, PTL DEF ProgramSpec
=============================================================================
