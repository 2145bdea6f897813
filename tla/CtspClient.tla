----------------------------- MODULE CtspClient -----------------------------
(***************************************************************************)
(* programs/ctsp_client.c beside the stream receiver it connects to.  The  *)
(* client sends METADATA, NumBatches EVENT_BATCH messages and              *)
(* END_RECORDING, each an 8-byte header (HeaderLen here) announcing the    *)
(* payload that follows, through send(), which may accept any part of what *)
(* it is given.  A byte is named by the message it belongs to and its      *)
(* offset there, so a repeated, skipped or misplaced byte can be told from *)
(* the right one.  An interrupted send (EINTR) changes nothing and is      *)
(* tried again: it is a stuttering step.                                   *)
(*                                                                         *)
(* The receiver is external: it reads the stream by the header, as the     *)
(* format at the top of the client's source says.  It may die, or the link *)
(* may break, at any time; bytes accepted by then are lost, and the client *)
(* learns of it at a later send.                                           *)
(***************************************************************************)
EXTENDS Naturals, Sequences

CONSTANTS
    NumBatches,         \* NUM_BATCHES
    HeaderLen,          \* length of a CTSP header
    MetaLen,            \* length of the METADATA payload
    BatchLen,           \* BATCH_SIZE
    SockBuf             \* how many bytes the sockets hold in flight

ASSUME ClientAssumption ==
    /\ NumBatches \in Nat
    /\ HeaderLen \in Nat \ {0}
    /\ MetaLen \in Nat \ {0}
    /\ BatchLen \in Nat \ {0}
    /\ SockBuf \in Nat \ {0}

NumMessages == NumBatches + 2
Messages == 1..NumMessages

PayloadLen(m) ==
    IF m = 1 THEN MetaLen ELSE IF m = NumMessages THEN 0 ELSE BatchLen

Size(m) == HeaderLen + PayloadLen(m)

\* The bytes of message m from offset `from', n of them.
Bytes(m, from, n) == [i \in 1..n |-> [msg |-> m, at |-> from + i - 1]]

VARIABLES
    pc,         \* the client: "connecting", "sending", "done" or "failed"
    msg,        \* the message being sent; NumMessages + 1 when none is left
    part,       \* which half of it send_all is at: "header" or "payload"
    sent,       \* send_all's `sent': bytes of that half accepted so far
    pipe,       \* bytes accepted by send and not yet read
    receiver,   \* "reading", "finished" (END_RECORDING), "eof" or "gone"
    rxbuf,      \* the bytes of the message the receiver is reading
    recorded    \* the messages the receiver has recorded

vars == <<pc, msg, part, sent, pipe, receiver, rxbuf, recorded>>

Init ==
    /\ pc = "connecting"
    /\ msg = 1
    /\ part = "header"
    /\ sent = 0
    /\ pipe = <<>>
    /\ receiver \in {"reading", "gone"}
    /\ rxbuf = <<>>
    /\ recorded = <<>>

-----------------------------------------------------------------------------
(* The client. *)

\* connect succeeds even without a receiver: behind `adb reverse' it is the
\* phone's adb daemon that accepts.
Connect ==
    /\ pc = "connecting"
    /\ pc' = "sending"
    /\ UNCHANGED <<msg, part, sent, pipe, receiver, rxbuf, recorded>>

\* No socket, an address or a port that is none, no connection.
ConnectFails ==
    /\ pc = "connecting"
    /\ pc' = "failed"
    /\ UNCHANGED <<msg, part, sent, pipe, receiver, rxbuf, recorded>>

PartLen == IF part = "header" THEN HeaderLen ELSE PayloadLen(msg)

\* Bug for Offset: every retry sends from buf instead of buf + sent.
OffsetFromStart == IF part = "header" THEN 0 ELSE HeaderLen

Offset == IF part = "header" THEN sent ELSE HeaderLen + sent

\* send accepts n bytes from buf + sent.
Accept(n) ==
    /\ pc = "sending"
    /\ msg <= NumMessages
    /\ n <= SockBuf - Len(pipe)
    /\ pipe' = pipe \o Bytes(msg, Offset, n)
    /\ UNCHANGED <<pc, receiver, rxbuf, recorded>>

ShortSend ==
    \E n \in 1..(PartLen - sent - 1) :
        /\ Accept(n)
        /\ sent' = sent + n
        /\ UNCHANGED <<msg, part>>

\* send_all(hdr) returns and the message has a payload.
HeaderSent ==
    /\ part = "header"
    /\ PayloadLen(msg) > 0
    /\ Accept(PartLen - sent)
    /\ part' = "payload"
    /\ sent' = 0
    /\ UNCHANGED msg

\* Bug for MessageSent: the rest of the message is not sent before the next.
MessageSentShort ==
    /\ part = "payload" \/ PayloadLen(msg) = 0
    /\ Accept(PartLen - sent - 1)
    /\ part' = "header"
    /\ sent' = 0
    /\ msg' = msg + 1

\* send_ctsp returns 0.
MessageSent ==
    /\ part = "payload" \/ PayloadLen(msg) = 0
    /\ Accept(PartLen - sent)
    /\ part' = "header"
    /\ sent' = 0
    /\ msg' = msg + 1

\* Bug for SendFails: every error of send is retried, not only EINTR.
SendFailsRetried == FALSE

SendFails ==
    /\ pc = "sending"
    /\ msg <= NumMessages
    /\ receiver = "gone"
    /\ pc' = "failed"
    /\ UNCHANGED <<msg, part, sent, pipe, receiver, rxbuf, recorded>>

\* The phone or its adb session goes away; the kernel closes the socket.
ClientKilled ==
    /\ pc = "sending"
    /\ pc' = "failed"
    /\ UNCHANGED <<msg, part, sent, pipe, receiver, rxbuf, recorded>>

PrintDone ==
    /\ pc = "sending"
    /\ msg > NumMessages
    /\ pc' = "done"
    /\ UNCHANGED <<msg, part, sent, pipe, receiver, rxbuf, recorded>>

Client ==
    \/ Connect \/ ConnectFails
    \/ ShortSend \/ HeaderSent \/ MessageSent \/ SendFails
    \/ PrintDone

-----------------------------------------------------------------------------
(* The receiver. *)

\* The payload length announced by the header in buf.
Announced(buf) ==
    IF buf[HeaderLen].at = HeaderLen - 1 THEN PayloadLen(buf[HeaderLen].msg) ELSE 0

Complete(buf) ==
    /\ Len(buf) >= HeaderLen
    /\ Len(buf) >= HeaderLen + Announced(buf)

\* The message buf holds; 0 if it is none of the client's.
Decode(buf) ==
    IF buf = Bytes(buf[1].msg, 0, Size(buf[1].msg)) THEN buf[1].msg ELSE 0

ReadByte ==
    /\ receiver = "reading"
    /\ pipe # <<>>
    /\ pipe' = Tail(pipe)
    /\ LET buf == Append(rxbuf, Head(pipe))
       IN  \/ /\ ~Complete(buf)
              /\ rxbuf' = buf
              /\ UNCHANGED <<recorded, receiver>>
           \/ /\ Complete(buf)
              /\ rxbuf' = <<>>
              /\ recorded' = Append(recorded, Decode(buf))
              /\ receiver' = IF Decode(buf) = NumMessages THEN "finished" ELSE "reading"
    /\ UNCHANGED <<pc, msg, part, sent>>

ReadEof ==
    /\ receiver = "reading"
    /\ pipe = <<>>
    /\ pc \in {"done", "failed"}
    /\ receiver' = "eof"
    /\ UNCHANGED <<pc, msg, part, sent, pipe, rxbuf, recorded>>

Receiver == ReadByte \/ ReadEof

\* The receiver is killed or the link breaks.
LinkLost ==
    /\ receiver = "reading"
    /\ receiver' = "gone"
    /\ UNCHANGED <<pc, msg, part, sent, pipe, rxbuf, recorded>>

-----------------------------------------------------------------------------
Stopped ==
    /\ pc \in {"done", "failed"}
    /\ receiver # "reading"

Next == Client \/ ClientKilled \/ Receiver \/ LinkLost \/ (Stopped /\ UNCHANGED vars)

Spec == Init /\ [][Next]_vars

\* The client is scheduled, and a send blocked on a broken connection returns.  That
\* the receiver goes on reading is not assumed.
FairSpec == Spec /\ WF_vars(Client)

-----------------------------------------------------------------------------
(* Properties. *)

\* Every variable keeps its type; nothing in flight exceeds the socket buffers.
TypeOK ==
    /\ pc \in {"connecting", "sending", "done", "failed"}
    /\ msg \in 1..(NumMessages + 1)
    /\ part \in {"header", "payload"}
    /\ sent \in Nat
    /\ pipe \in Seq([msg : Messages, at : Nat])
    /\ Len(pipe) <= SockBuf
    /\ receiver \in {"reading", "finished", "eof", "gone"}
    /\ rxbuf \in Seq([msg : Messages, at : Nat])
    /\ recorded \in Seq(0..NumMessages)

\* However send splits a message and whenever the receiver runs, the receiver
\* records the client's messages in order, none torn, doubled or skipped, and
\* none before its last byte was handed over (send_all, send_ctsp).
RecordedInOrder ==
    /\ Len(recorded) < msg
    /\ \A i \in 1..Len(recorded) : recorded[i] = i

\* DONE is a promise about the client's side only: every message was handed
\* over, so, unless the receiver or the link is lost, the whole recording is
\* made or the end of END_RECORDING is still on its way.  The receiver never
\* takes the stream for ended by the client's close instead.
DoneMeansOnItsWay ==
    pc = "done" =>
        \/ receiver = "gone"
        \/ receiver = "finished" /\ Len(recorded) = NumMessages
        \/ /\ receiver = "reading"
           /\ pipe # <<>>
           /\ pipe[Len(pipe)] = [msg |-> NumMessages, at |-> Size(NumMessages) - 1]

\* The sockets are full and the receiver, still there, does not read.
Blocked == pc = "sending" /\ Len(pipe) = SockBuf /\ receiver = "reading"

\* The client comes to an end, also when the receiver dies with the sockets full;
\* nothing holds it but a receiver that is alive and for good reads no more: send has
\* no time limit (ctsp_client.c:68-80).
ClientStops == <>(pc \in {"done", "failed"}) \/ <>[]Blocked

\* Once the client printed DONE the recording is finished, unless the receiver
\* or the link is lost, if the receiver goes on reading.
DoneLeadsToFinished ==
    WF_vars(Receiver) => ((pc = "done") ~> (receiver \in {"finished", "gone"}))

(***************************************************************************)
(* The inductive invariant behind RecordedInOrder and DoneMeansOnItsWay:   *)
(* what the receiver has recorded, what it has of the next message and     *)
(* what is in flight make up, without a gap, the stream up to the client's *)
(* position.                                                               *)
(***************************************************************************)
Succ(b) ==
    IF b.at + 1 < Size(b.msg) THEN [msg |-> b.msg, at |-> b.at + 1]
                              ELSE [msg |-> b.msg + 1, at |-> 0]

Before(b, c) == b.msg < c.msg \/ (b.msg = c.msg /\ b.at < c.at)

Position == [msg |-> msg, at |-> Offset]        \* of the client
Expected == [msg |-> Len(recorded) + 1, at |-> Len(rxbuf)]      \* by the receiver

ClientOK ==
    /\ msg <= NumMessages => sent < PartLen
    /\ msg = NumMessages + 1 => part = "header" /\ sent = 0
    /\ pc = "done" => msg = NumMessages + 1

\* s is a gapless run of the stream: it starts at the byte `first' and the
\* byte after it is `next'.
Gapless(s, first, next) ==
    /\ \A i \in 1..Len(s) : s[i].at < Size(s[i].msg) /\ Before(s[i], next)
    /\ \A i \in 1..Len(s) : i < Len(s) => s[i + 1] = Succ(s[i])
    /\ \A i, j \in 1..Len(s) : i < j => Before(s[i], s[j])
    /\ s # <<>> => s[1] = first /\ Succ(s[Len(s)]) = next
    /\ s = <<>> => first = next

PipeOK == Gapless(pipe, Expected, Position)

ReceiverOK ==
    /\ \A i \in 1..Len(rxbuf) : rxbuf[i] = [msg |-> Len(recorded) + 1, at |-> i - 1]
    /\ rxbuf # <<>> => ~Complete(rxbuf)
    /\ receiver = "reading" => Len(recorded) < NumMessages
    /\ receiver = "finished" => Len(recorded) = NumMessages
    /\ receiver = "eof" => pc = "failed"

\* Recorded, half-read and in-flight bytes are the client's stream so far, each
\* byte once and in order, whatever send accepts at a time (send_all).
StreamInv == TypeOK /\ RecordedInOrder /\ ClientOK /\ PipeOK /\ ReceiverOK

-----------------------------------------------------------------------------
\* The byte stream implements the message-level specification.
Abstract ==
    INSTANCE CtspRecording WITH
        handed <- msg - 1,
        client <- IF pc \in {"done", "failed"} THEN pc ELSE "running"

ImplementsRecording == Abstract!AbstractSpec
=============================================================================
