------------------------------ MODULE LeakScan ------------------------------
(***************************************************************************)
(* ct_leak_scan: refuse a recording that carries a user's name.  The scan  *)
(* is a recursion over containers, members and compressed frames; `stack'  *)
(* holds its calls.  Two of its rules are modelled, the home-directory one *)
(* and the forbidden literal, because they differ where the data is cut    *)
(* into frames: a literal matches or does not, a name ends where the buffer*)
(* ends.  Text is a sequence of units; letter case and the second encoding *)
(* (UTF-16LE) are abstracted, both being searched the same way.            *)
(***************************************************************************)
EXTENDS RecordedText

CONSTANTS
    Sep,                \* what stands before a name: /home/ and the like
    Stops,              \* the units that end a name
    Openers, Wildcards, \* the units that make it a placeholder: first, anywhere
    MaxName,            \* the longest name read (64)
    Allowed,            \* the names that may be published
    Literals,           \* --forbid
    SeamBytes,          \* the content kept on each side of a frame seam (1024)
    MaxContainerDepth,  \* how deep containers within containers are opened (4)
    LeakLines           \* the files named on a command line: sequences of buffers

\* A separator and a name fit into the content kept at a seam, and so does each
\* literal, of which a command line gives finitely many.
ASSUME LeakAssumption ==
    /\ MaxContainerDepth \in Nat \ {0} /\ MaxName \in Nat \ {0} /\ SeamBytes \in Nat
    /\ Sep \in Seq(Units) \ {<<>>} /\ Len(Sep) + MaxName <= SeamBytes
    /\ Literals \subseteq Seq(Units) \ {<<>>} /\ IsFiniteSet(Literals)
    /\ \A v \in Literals : Len(v) <= SeamBytes
    /\ LeakLines \subseteq Seq(Data)

VARIABLES
    leakFiles,      \* the command line
    leakAt,         \* the file being scanned
    stack,          \* the calls of scanBuffer and scanContainer
    found,          \* the refusals in this file
    leakVerdicts,   \* of the files before it
    leakExit        \* the exit code, or 9

leakVars == <<leakFiles, leakAt, stack, found, leakVerdicts, leakExit>>

LeakInit ==
    /\ leakFiles \in LeakLines
    /\ leakAt = 1 /\ stack = <<>> /\ found = {} /\ leakVerdicts = <<>> /\ leakExit = 9
-----------------------------------------------------------------------------
(* Matching in one buffer *)

Positions(t, word) ==
    {p \in 1..(Len(t) - Len(word) + 1) : SubSeq(t, p, p + Len(word) - 1) = word}

\* Bug for Crosses: a match that ends at the seam is taken to cross it.
CrossesAtEnd(seam, p, len) == seam = 0 \/ (p <= seam /\ p + len - 1 >= seam)
\* In a seam buffer, a match that does not cross was counted in its frame.
Crosses(seam, p, len) == seam = 0 \/ (p <= seam /\ p + len - 1 > seam)

ReadSegment(t, p) ==
    LET ends == {e \in p..(Len(t) + 1) :
                    e = Len(t) + 1 \/ e = p + MaxName \/ t[e] \in Stops}
    IN  SubSeq(t, p, Min(ends) - 1)

IsPlaceholder(name) == name[1] \in Openers \/ \E k \in DOMAIN name : name[k] \in Wildcards

Refused(name) == name # <<>> /\ ~ IsPlaceholder(name) /\ name \notin Allowed

HomeDirs(t, seam) ==
    LET name(p) == ReadSegment(t, p + Len(Sep))
    IN  {<<"home-dir", name(p)>> : p \in {q \in Positions(t, Sep) :
            Refused(name(q)) /\ Crosses(seam, q, Len(Sep) + Len(name(q)))}}

Hits(t, seam) ==
    {h \in Literals \X (1..Len(t)) :
        h[2] \in Positions(t, h[1]) /\ Crosses(seam, h[2], Len(h[1]))}

ScanText(t, seam) == HomeDirs(t, seam) \cup {<<"forbidden", h[1]>> : h \in Hits(t, seam)}
-----------------------------------------------------------------------------
(* The walk.  top is the innermost call; next is the frame or the member it *)
(* comes to, carry the end of the content its frames have given so far.     *)

top == Last(stack)
Return == Front(stack)

BufferCall(b, frameDepth, containerDepth, isMember) ==
    [call |-> "buffer", data |-> b, next |-> 1, carry |-> <<>>, hits |-> 0,
     frameDepth |-> frameDepth, depth |-> containerDepth, isMember |-> isMember]

ContainerCall(b, depth) ==
    [call |-> "container", data |-> b, next |-> 1, carry |-> <<>>, hits |-> 0,
     frameDepth |-> 0, depth |-> depth, isMember |-> FALSE]

Scanning == leakExit = 9
In(call) == Scanning /\ stack # <<>> /\ top.call = call

\* A file that cannot be read is an error, whatever was found in it before.
GiveUp ==
    /\ leakVerdicts' = Append(leakVerdicts, "error")
    /\ leakAt' = leakAt + 1 /\ stack' = <<>> /\ found' = {}
    /\ UNCHANGED <<leakFiles, leakExit>>

StartScan ==
    /\ Scanning /\ stack = <<>> /\ leakAt <= Len(leakFiles)
    /\ IF leakFiles[leakAt].container = "no" THEN GiveUp
       ELSE /\ stack' = <<ContainerCall(leakFiles[leakAt], 1)>>
            /\ UNCHANGED <<leakFiles, leakAt, found, leakVerdicts, leakExit>>

ReaderRefuses == In("container") /\ top.data.container = "broken" /\ GiveUp

\* The next member's bytes, as one buffer.
ScanMember ==
    /\ In("container") /\ top.data.container = "readable"
    /\ top.next <= Len(top.data.members)
    /\ LET m == top.data.members[top.next]
       IN  /\ stack' = Return \o <<[top EXCEPT !.next = @ + 1], BufferCall(m, 0, top.depth, TRUE)>>
           /\ found' = found \cup ScanText(m.text, 0)
    /\ UNCHANGED <<leakFiles, leakAt, leakVerdicts, leakExit>>

\* Then the bytes outside every member; the container's call ends with it.
ScanRest ==
    /\ In("container") /\ top.data.container = "readable"
    /\ top.next > Len(top.data.members)
    /\ LET r == top.data.rest[1]
       IN  /\ stack' = Append(Return, BufferCall(r, 0, top.depth, FALSE))
           /\ found' = found \cup ScanText(r.text, 0)
    /\ UNCHANGED <<leakFiles, leakAt, leakVerdicts, leakExit>>

\* Bug for Carried: only the last frame's end is kept.
CarriedLast(carry, t) == SubSeq(t, Max({1, Len(t) - SeamBytes + 1}), Len(t))
\* The last SeamBytes of the content before the next frame.
Carried(carry, t) ==
    LET c == carry \o t IN SubSeq(c, Max({1, Len(c) - SeamBytes + 1}), Len(c))

SeamText(carry, t) == carry \o SubSeq(t, 1, Min({Len(t), SeamBytes}))

MoreFrames == top.frameDepth < MaxFrameDepth /\ top.next <= Len(top.data.frames)

\* A frame: its seam with the content before it, then its content.
NextFrame ==
    /\ In("buffer") /\ MoreFrames
    /\ LET f == top.data.frames[top.next]
           seam == IF top.carry = <<>> \/ f.text = <<>> THEN <<>> ELSE SeamText(top.carry, f.text)
           across == IF seam = <<>> THEN {} ELSE Hits(seam, Len(top.carry))
       IN  /\ found' = found \cup ScanText(f.text, 0)
                \cup (IF seam = <<>> THEN {} ELSE ScanText(seam, Len(top.carry)))
           /\ stack' = Return \o
                <<[top EXCEPT !.next = @ + 1, !.carry = Carried(@, f.text),
                              !.hits = @ + Cardinality(across) + Cardinality(Hits(f.text, 0))],
                  BufferCall(f, top.frameDepth + 1, top.depth, FALSE)>>
    /\ UNCHANGED <<leakFiles, leakAt, leakVerdicts, leakExit>>

IsNested ==
    /\ top.isMember \/ top.frameDepth > 0
    /\ top.depth < MaxContainerDepth
    /\ top.data.container # "no"

OpenNested ==
    /\ In("buffer") /\ ~ MoreFrames /\ IsNested
    /\ stack' = Append(Return, ContainerCall(top.data, top.depth + 1))
    /\ UNCHANGED <<leakFiles, leakAt, found, leakVerdicts, leakExit>>

Verdict == IF found = {} THEN "clean" ELSE "leak"

BufferReturns ==
    /\ In("buffer") /\ ~ MoreFrames /\ ~ IsNested
    /\ stack' = Return
    /\ IF Return # <<>> THEN UNCHANGED <<leakAt, found, leakVerdicts>>
       ELSE /\ leakVerdicts' = Append(leakVerdicts, Verdict)
            /\ leakAt' = leakAt + 1 /\ found' = {}
    /\ UNCHANGED <<leakFiles, leakExit>>

\* Bug for ExitCode: a leak hides that another file could not be read.
LeakFirst(v) == IF "leak" \in v THEN 1 ELSE IF "error" \in v THEN 2 ELSE 0
LeakCode(v) == IF "error" \in v THEN 2 ELSE IF "leak" \in v THEN 1 ELSE 0

ExitScan ==
    /\ Scanning /\ stack = <<>> /\ leakAt > Len(leakFiles)
    /\ leakExit' = LeakCode(ToSet(leakVerdicts))
    /\ UNCHANGED <<leakFiles, leakAt, stack, found, leakVerdicts>>

LeakNext ==
    \/ StartScan \/ ReaderRefuses \/ ScanMember \/ ScanRest
    \/ NextFrame \/ OpenNested \/ BufferReturns \/ ExitScan

LeakSpec == LeakInit /\ [][LeakNext]_leakVars

-----------------------------------------------------------------------------
(* Properties *)

\* The refusals a stream holds when it is read whole.
Leaks(file, containers) == UNION {ScanText(s, 0) : s \in Streams(file, containers)}

\* A file called clean holds no name and no literal in any stream, wherever the
\* frames of the stream are cut (scanBuffer's carry and seam).
CleanMeansNothingThere ==
    \A k \in DOMAIN leakVerdicts :
        leakVerdicts[k] = "clean" => Leaks(leakFiles[k], MaxContainerDepth) = {}

\* A refusal stands somewhere in a text: a literal as a whole, a name at least as
\* the beginning of one.
StandsIn(r, s) == Positions(s, IF r[1] = "home-dir" THEN Sep \o r[2] ELSE r[2]) # {}

\* What is refused stands somewhere in the file (a seam never joins what was not
\* adjacent).
NothingInvented ==
    \A r \in found : \E s \in Streams(leakFiles[leakAt], MaxContainerDepth) : StandsIn(r, s)

\* When a buffer's frames are done, each occurrence of a literal in their joined
\* content was counted once, in its frame or at one seam (crosses).
CountedOnce ==
    In("buffer") /\ top.frameDepth < MaxFrameDepth /\ ~ MoreFrames =>
        top.hits = Cardinality(Hits(Joined(top.data), 0))

\* Both: what is reported is there, and each occurrence once.
FindingsAreExact == NothingInvented /\ CountedOnce

\* Exit 2 is given exactly when some file cannot be read to its depth limits;
\* otherwise exit 0 means that nothing is there in any file (main).
ExitIsHonest ==
    leakExit # 9 =>
        /\ leakExit = 2 <=> \E k \in DOMAIN leakFiles : CannotBeRead(leakFiles[k], MaxContainerDepth)
        /\ leakExit = 0 => \A k \in DOMAIN leakFiles : Leaks(leakFiles[k], MaxContainerDepth) = {}

-----------------------------------------------------------------------------
(* The inductive invariant: each part of the file was searched, is being       *)
(* searched by a call on the stack, or is in a part one of the calls comes to. *)

\* The part a buffer's call is about.
CallPart(c) ==
    Part(c.data, IF c.isMember THEN "member" ELSE IF c.frameDepth > 0 THEN "frame" ELSE "rest",
         MaxFrameDepth - c.frameDepth, MaxContainerDepth - c.depth)

\* The parts a call has still to come to.
FramesAhead(c) ==
    IF c.frameDepth = MaxFrameDepth THEN {}
    ELSE {Part(c.data.frames[k], "frame", MaxFrameDepth - c.frameDepth - 1, MaxContainerDepth - c.depth) :
            k \in c.next .. Len(c.data.frames)}

MembersAhead(c) ==
    {Part(c.data.members[k], "member", MaxFrameDepth, MaxContainerDepth - c.depth) :
        k \in c.next .. Len(c.data.members)}
    \cup {Part(x, "rest", MaxFrameDepth, MaxContainerDepth - c.depth) : x \in ToSet(c.data.rest)}

PartsAhead(c) ==
    IF c.call = "container" THEN MembersAhead(c)
    ELSE FramesAhead(c) \cup
            (IF Opened(CallPart(c)) THEN Contents(c.data, MaxContainerDepth - c.depth - 1) ELSE {})

Whole == FileParts(leakFiles[leakAt], MaxContainerDepth)

Nothing(texts) == \A s \in texts : ScanText(s, 0) = {}

\* The last SeamBytes of a text.
EndOf(t) == SubSeq(t, Max({1, Len(t) - SeamBytes + 1}), Len(t))

\* What a call knows of the frames before the next one.
BufferInv(c) ==
    LET before == JoinedTo(c.data, c.next - 1)
    IN  /\ CallPart(c) \in Whole
        /\ c.next <= Len(c.data.frames) + 1
        /\ c.carry = EndOf(before)
        /\ c.hits = Cardinality(Hits(before, 0))
        /\ found = {} => Nothing({c.data.text, before})

ContainerInv(c) ==
    /\ c.next <= Len(c.data.members) + 1
    /\ \E p \in Whole : Opened(p) /\ p.data = c.data /\ p.containers = MaxContainerDepth - c.depth + 1

CallInv(c) == IF c.call = "buffer" THEN BufferInv(c) ELSE ContainerInv(c)

Calls == [call : {"buffer", "container"}, data : Data, next : Nat \ {0}, carry : Seq(Units),
          hits : Nat, frameDepth : 0 .. MaxFrameDepth, depth : 1 .. MaxContainerDepth, isMember : BOOLEAN]

CallsInv ==
    /\ leakFiles \in Seq(Data) /\ leakAt \in 1 .. Len(leakFiles) + 1
    /\ stack \in Seq(Calls)
    /\ stack # <<>> => leakAt <= Len(leakFiles) /\ leakFiles[leakAt].container # "no"
    /\ stack = <<>> => found = {}
    /\ \A c \in ToSet(stack) : CallInv(c)
    /\ NothingInvented

\* A part is held by the call that searches its text, or that is to open it.
Searched(p) == p.place = "file" \/ (found = {} => Nothing(StreamsOf(p)))
HeldFor(p) == \E c \in ToSet(stack) : c.call = "buffer" /\ CallPart(c) = p
OpenedFor(p) == \E c \in ToSet(stack) : c.call = "container" /\ c.data = p.data
AheadOf(p) == \E c \in ToSet(stack) : \E a \in PartsAhead(c) : p \in PartsOf(a)

Accounted(p) ==
    \/ AheadOf(p)
    \/ HeldFor(p)
    \/ Searched(p) /\ (Broken(p) => OpenedFor(p))

PartsInv == stack # <<>> => \A p \in Whole : Accounted(p)

VerdictsInv ==
    /\ leakVerdicts \in Seq({"clean", "leak", "error"}) /\ Len(leakVerdicts) = leakAt - 1
    /\ \A k \in DOMAIN leakVerdicts :
        leakVerdicts[k] = "error" <=> CannotBeRead(leakFiles[k], MaxContainerDepth)
    /\ CleanMeansNothingThere
    /\ leakExit \in {0, 1, 2, 9}
    /\ leakExit # 9 => leakAt = Len(leakFiles) + 1 /\ leakExit = LeakCode(ToSet(leakVerdicts))

LeakInv == CallsInv /\ PartsInv /\ VerdictsInv
=============================================================================
