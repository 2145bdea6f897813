---------------------------- MODULE MemberNames ----------------------------
(***************************************************************************)
(* ct_member_names: refuse a recording with a member whose stored key is no*)
(* storable name.  A key is a number that holds a name's characters as     *)
(* digits, the first character the lowest; digit 0 pads a short name.  The *)
(* codec is not in this repository and is modelled as the checker uses it. *)
(***************************************************************************)
EXTENDS Naturals, Sequences, SequencesExt

CONSTANTS
    Base,           \* 40: the padding and 39 characters, the digits 1 .. Base - 1
    Length,         \* 12: the longest name
    Listings        \* the files named on a command line, as their directories

Slots == [key : Nat, size : Nat]
Directories == [container : BOOLEAN, declared : Nat, slots : Seq(Slots)]

\* A directory declares some slots and holds some, perhaps fewer.
ASSUME NamesAssumption ==
    /\ Base \in Nat /\ Base > 1 /\ Length \in Nat \ {0}
    /\ \A line \in Listings : line \in Seq(Directories)

VARIABLES
    listed,     \* whether each is a container, the slots it declares and holds
    nth,        \* the file being read
    slot,       \* the next slot of its root directory, or 0
    bad,        \* whether a member of it has no storable name
    told,       \* the verdicts on the files before it
    code        \* the exit code, or 9

namesVars == <<listed, nth, slot, bad, told, code>>

NamesInit ==
    /\ listed \in Listings
    /\ nth = 1 /\ slot = 0 /\ bad = FALSE /\ told = <<>> /\ code = 9

-----------------------------------------------------------------------------
(* The codec.  A character is its digit.                                    *)

\* The digits of a key, the lowest first.
Digits(key) ==
    LET rest[k \in 0 .. Length] == IF k = 0 THEN key ELSE rest[k - 1] \div Base
    IN  [k \in 1 .. Length |-> rest[k - 1] % Base]

\* base40Decode: Length characters, without the padding at the end.
Decode(key) ==
    LET digits == Digits(key)
        length == CHOOSE n \in 0 .. Length :
                    /\ n > 0 => digits[n] # 0
                    /\ \A k \in n + 1 .. Length : digits[k] = 0
    IN  [k \in 1 .. length |-> digits[k]]

\* base40Encodable
Encodable(name) == Len(name) <= Length /\ \A k \in DOMAIN name : name[k] < Base

\* base40Encode: from the last character to the first.
Encode(name) ==
    LET value[k \in 0 .. Len(name)] ==
            IF k = 0 THEN 0 ELSE name[Len(name) + 1 - k] + Base * value[k - 1]
    IN  value[Len(name)]

\* Bug for StorableKey: the key is not compared with that of the name.
StorableKeyAnyRest(key) ==
    LET name == Decode(key)
    IN  name # <<>> /\ 0 \notin ToSet(name) /\ Encodable(name)

StorableKey(key) ==
    LET name == Decode(key)
    IN  /\ name # <<>>
        /\ 0 \notin ToSet(name)
        /\ Encodable(name)
        /\ Encode(name) = key

-----------------------------------------------------------------------------
Listing == code = 9

FileEnds(verdict) ==
    /\ told' = Append(told, verdict)
    /\ nth' = nth + 1 /\ slot' = 0 /\ bad' = FALSE
    /\ UNCHANGED <<listed, code>>

Open ==
    /\ Listing /\ slot = 0 /\ nth <= Len(listed)
    /\ \/ listed[nth].container /\ slot' = 1 /\ UNCHANGED <<listed, nth, bad, told, code>>
       \/ ~listed[nth].container /\ FileEnds("error")

\* The directory's slots, as far as they are declared and inside the file.
MoreSlots == slot <= listed[nth].declared /\ slot <= Len(listed[nth].slots)

\* A slot of zeros holds no member; size stands for its size and its mapping.
Free(e) == e.key = 0 /\ e.size = 0

\* A slot: its member's key has to be that of a name.
ReadSlot ==
    /\ Listing /\ slot > 0 /\ MoreSlots
    /\ LET e == listed[nth].slots[slot]
       IN  bad' = (bad \/ (~Free(e) /\ ~StorableKey(e.key)))
    /\ slot' = slot + 1
    /\ UNCHANGED <<listed, nth, told, code>>

FileDone ==
    /\ Listing /\ slot > 0 /\ ~MoreSlots
    /\ FileEnds(IF bad THEN "bad" ELSE "ok")

NamesQuit ==
    /\ Listing /\ slot = 0 /\ nth > Len(listed)
    /\ code' = IF "error" \in ToSet(told) THEN 2 ELSE IF "bad" \in ToSet(told) THEN 1 ELSE 0
    /\ UNCHANGED <<listed, nth, slot, bad, told>>

NamesNext == Open \/ ReadSlot \/ FileDone \/ NamesQuit

NamesSpec == NamesInit /\ [][NamesNext]_namesVars

-----------------------------------------------------------------------------
Names == UNION {[1 .. n -> 1 .. Base - 1] : n \in 1 .. Length}
StorableKeys == {Encode(n) : n \in Names}

\* The members a reader of the directory sees.
Members(f) ==
    {f.slots[k] : k \in {l \in DOMAIN f.slots : l <= f.declared /\ f.slots[l].key + f.slots[l].size > 0}}

\* A file passes exactly when each of its members is stored under the key of a
\* name a writer may be given, padding inside, keys beyond the last name and the
\* empty name being none (storableKey, listMembers); and exit 0 is given exactly
\* when all files pass, exit 2 when one cannot be read (main).
PassedAreFoundByName ==
    /\ \A k \in DOMAIN told : told[k] # "error" =>
        (told[k] = "ok" <=> \A m \in Members(listed[k]) : m.key \in StorableKeys)
    /\ code = 0 <=> (code # 9 /\ \A k \in DOMAIN listed :
                        listed[k].container /\ \A m \in Members(listed[k]) : m.key \in StorableKeys)
    /\ code = 2 <=> (code # 9 /\ \E k \in DOMAIN listed : ~listed[k].container)

-----------------------------------------------------------------------------
(* The inductive invariant: the verdicts on the files read, and what has    *)
(* been seen of the one that is open.                                       *)

\* The slots of f before place l hold a member with another key.
BadBefore(f, l) ==
    \E k \in DOMAIN f.slots : k < l /\ k <= f.declared /\ ~Free(f.slots[k]) /\ ~StorableKey(f.slots[k].key)

ListingVerdict(f) ==
    IF ~f.container THEN "error" ELSE IF BadBefore(f, Len(f.slots) + 1) THEN "bad" ELSE "ok"

NamesInv ==
    /\ listed \in Seq(Directories) /\ nth \in Nat /\ slot \in Nat /\ code \in {0, 1, 2, 9}
    /\ nth \in 1 .. Len(listed) + 1
    /\ told \in Seq({"ok", "bad", "error"}) /\ Len(told) = nth - 1
    /\ \A k \in DOMAIN told : told[k] = ListingVerdict(listed[k])
    /\ slot = 0 => bad = FALSE
    /\ slot > 0 =>
        /\ nth <= Len(listed) /\ listed[nth].container
        /\ slot <= Len(listed[nth].slots) + 1
        /\ bad = BadBefore(listed[nth], slot)
    /\ code # 9 =>
        /\ nth = Len(listed) + 1
        /\ code = IF "error" \in ToSet(told) THEN 2 ELSE IF "bad" \in ToSet(told) THEN 1 ELSE 0
=============================================================================
