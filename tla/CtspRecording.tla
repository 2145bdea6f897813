---------------------------- MODULE CtspRecording ----------------------------
(***************************************************************************)
(* What a recording over CTSP promises, a message at a time: the client    *)
(* hands over NumMessages messages in order, the receiver records messages *)
(* in that order and only ones wholly handed over, and the client reports  *)
(* success only once it has handed over all of them.  The byte stream that *)
(* carries them is in CtspClient, which implements this specification.     *)
(***************************************************************************)
EXTENDS Naturals, Sequences

CONSTANT NumMessages    \* a natural number

VARIABLES
    handed,     \* how many messages the client has wholly handed over
    recorded,   \* the messages the receiver has recorded, by number
    client      \* "running", "done" (it printed DONE) or "failed"

abstractVars == <<handed, recorded, client>>

AbstractInit ==
    /\ handed = 0
    /\ recorded = <<>>
    /\ client = "running"

HandOver ==
    /\ client = "running"
    /\ handed < NumMessages
    /\ handed' = handed + 1
    /\ UNCHANGED <<recorded, client>>

Record ==
    /\ Len(recorded) < handed
    /\ recorded' = Append(recorded, Len(recorded) + 1)
    /\ UNCHANGED <<handed, client>>

Succeed ==
    /\ client = "running"
    /\ handed = NumMessages
    /\ client' = "done"
    /\ UNCHANGED <<handed, recorded>>

GiveUp ==
    /\ client = "running"
    /\ client' = "failed"
    /\ UNCHANGED <<handed, recorded>>

AbstractNext == HandOver \/ Record \/ Succeed \/ GiveUp

AbstractSpec == AbstractInit /\ [][AbstractNext]_abstractVars
=============================================================================
