---------------------------- MODULE RecordedText ----------------------------
(***************************************************************************)
(* What there is to read in a .ct file: the reference the leak scan is     *)
(* compared with.  A buffer is a record                                    *)
(*   text       its own bytes, those of a compressed frame standing as one *)
(*              unit that matches nothing                                  *)
(*   frames     the contents of its zstd frames, in order                  *)
(*   container  "no", "readable" or "broken": what the trace-format reader *)
(*              says of it                                                 *)
(*   members    its members, when it is a container                        *)
(*   rest       <<b>>: a container's bytes outside every member, or all of *)
(*              them when some member's blocks cannot be located           *)
(* A part is a buffer with the place it is found at and with how many more *)
(* levels of frames and of containers are opened below it.                 *)
(* A stream is a text a reader of the recording can put together: the      *)
(* bytes of a buffer, or the contents of its frames joined, since the      *)
(* recorder seals frames at byte counts and not at record boundaries.      *)
(***************************************************************************)
EXTENDS Naturals, Sequences, SequencesExt

CONSTANTS
    MaxFrameDepth,      \* how deep frames within frames are decompressed
    Units,              \* what a text is made of
    Data                \* the buffers there are: files and all that is in them

\* A buffer, as described above.
Described ==
    [text : Seq(Units), frames : Seq(Data), members : Seq(Data), rest : Seq(Data),
     container : {"no", "readable", "broken"}]

ASSUME RecordedAssumption ==
    /\ MaxFrameDepth \in Nat
    /\ Data \subseteq Described
    /\ \A b \in Data : b.container = "readable" => Len(b.rest) = 1

AllParts == [data : Data, place : {"file", "frame", "member", "rest"},
             frames : 0 .. MaxFrameDepth, containers : Nat]

Part(b, place, frames, containers) ==
    [data |-> b, place |-> place, frames |-> frames, containers |-> containers]

Framed(p) == p.place # "file" /\ p.frames > 0
Opened(p) == p.place # "rest" /\ p.containers > 0 /\ p.data.container # "no"

\* What a container holds.
Contents(b, containers) ==
    {Part(x, "member", MaxFrameDepth, containers) : x \in ToSet(b.members)}
        \cup {Part(x, "rest", MaxFrameDepth, containers) : x \in ToSet(b.rest)}

\* The parts just below p.
Inside(p) ==
    (IF Framed(p)
     THEN {Part(x, "frame", p.frames - 1, p.containers) : x \in ToSet(p.data.frames)} ELSE {})
    \cup (IF Opened(p) THEN Contents(p.data, p.containers - 1) ELSE {})

\* p and all that is in it, at most so many levels below.
PartsTo[levels \in Nat] ==
    [p \in AllParts |->
        {p} \cup (IF levels = 0 THEN {} ELSE UNION {PartsTo[levels - 1][q] : q \in Inside(p)})]

\* As many levels as the limits allow.
Levels(p) == p.containers * (MaxFrameDepth + 1) + p.frames
PartsOf(p) == PartsTo[Levels(p)][p]

FileParts(file, containers) == PartsOf(Part(file, "file", MaxFrameDepth, containers))

JoinedTo(b, n) == FlattenSeq([k \in 1 .. n |-> b.frames[k].text])
Joined(b) == JoinedTo(b, Len(b.frames))

StreamsOf(p) == {p.data.text} \cup (IF Framed(p) THEN {Joined(p.data)} ELSE {})
Streams(file, containers) ==
    UNION {StreamsOf(p) : p \in {q \in FileParts(file, containers) : q.place # "file"}}

Broken(p) == Opened(p) /\ p.data.container = "broken"
CannotBeRead(file, containers) ==
    file.container = "no" \/ \E p \in FileParts(file, containers) : Broken(p)
=============================================================================
