---------------------------- MODULE MCLeakInputs ----------------------------
(* What LeakScan is run on: short texts cut into three frames at every two     *)
(* places; frames in frames and containers in containers to beyond the limits; *)
(* broken ones; two files on a command line.                                   *)
EXTENDS Naturals, Sequences, SequencesExt

MCSep == <<"/", "h", "/">>
MCAllowed == {<<"a", "b">>}
MCLiterals == {<<"b", "b">>}

Raw(t) == [text |-> t, frames |-> <<>>, container |-> "no", members |-> <<>>, rest |-> <<>>]
Hole == <<"z">>
Packed(fs) == [Raw(FlattenSeq([k \in DOMAIN fs |-> Hole])) EXCEPT !.frames = fs]
Archive(ms, rest) ==
    [Raw(Hole) EXCEPT !.container = "readable", !.members = ms, !.rest = <<rest>>]
Damaged == [Raw(Hole) EXCEPT !.container = "broken"]
NoBytes == Raw(<<>>)

LeakTexts == {MCSep \o <<"a", "b">>, MCSep \o <<"a", "a", "/">>, MCSep \o <<"b", "b", "b">>,
          <<"b", "b", "b", "z", "b", "b">>, MCSep \o <<"a", "b", "/", "b">>,
          MCSep \o <<"*", "b">>, MCSep \o MCSep \o <<"b">>, <<"h", "/", "b", "a", "b", "b">>}

CutUp(t) ==
    LET cut(m, n) == <<Raw(SubSeq(t, 1, m)), Raw(SubSeq(t, m + 1, n)),
                       Raw(SubSeq(t, n + 1, Len(t)))>>
    IN  UNION {{cut(m, n) : n \in m..Len(t)} : m \in 0..Len(t)}

UserName == Raw(MCSep \o <<"a", "a">>)
InPacked[n \in Nat] == IF n = 0 THEN UserName ELSE Packed(<<NoBytes, InPacked[n - 1]>>)
InArchives[n \in Nat] == IF n = 0 THEN UserName ELSE Archive(<<InArchives[n - 1]>>, NoBytes)

\* A member, a frame of a member, and a container's free space.
Nestings(b) == {Archive(<<b>>, NoBytes), Archive(<<Packed(<<Raw(<<"a">>), b>>)>>, NoBytes), Archive(<<NoBytes>>, b)}

LeakInputs ==
    UNION {{Archive(<<Packed(c)>>, NoBytes), Archive(<<>>, Packed(c))} : c \in UNION {CutUp(t) : t \in LeakTexts}}
    \cup {Archive(<<InPacked[n], NoBytes>>, Raw(t)) : n \in 0..4, t \in {<<>>, MCSep \o <<"b">>}}
    \cup UNION {Nestings(InArchives[n]) : n \in 0..5}
    \cup UNION {Nestings(b) : b \in {Damaged, Packed(<<Damaged>>), Archive(<<UserName, Damaged>>, NoBytes)}}

FewLeaks == {Archive(<<NoBytes>>, NoBytes), Archive(<<UserName>>, NoBytes), Archive(<<UserName, Damaged>>, NoBytes), Raw(<<"a">>)}

MCLeakLines == {<<f>> : f \in LeakInputs} \cup {<<f, g>> : f \in FewLeaks, g \in FewLeaks}

MCUnits == {"/", "h", "a", "b", "z", "*"}

\* The buffers in these files.
MCData ==
    LET below(b) == ToSet(b.frames) \cup ToSet(b.members) \cup ToSet(b.rest)
        down[n \in Nat] ==
            IF n = 0 THEN UNION {ToSet(line) : line \in MCLeakLines}
            ELSE LET s == down[n - 1] IN s \cup UNION {below(b) : b \in s}
    IN  {b : b \in down[9]}
=============================================================================
