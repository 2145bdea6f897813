------------------------- MODULE MCCredentialInputs -------------------------
(* What CredentialScan is run on: a member whose text is up to four pieces of  *)
(* the patterns; a token in frames in frames beyond the limit, and cut by the  *)
(* end of a frame; broken files; two files on a command line.                  *)
EXTENDS Naturals, Sequences, SequencesExt

MCGh == <<"g", "h", "_">>
MCPat == <<"g", "t", "_">>
MCAuth == <<"a", ":">>
MCSchemes == {<<"b">>, <<"t">>}
MCAws == {<<"K", "I">>}
MCXAccess == <<"x", ":">>
MCBase64 == <<"e", "C">>
MCBegin == <<"-", "B", " ">>
MCPrivate == <<"P", "-">>
MCUpperDigit == {"K", "I", "C", "B", "P", "U"}
MCAlnum == MCUpperDigit \cup {"g", "h", "t", "a", "b", "x", "e", "l"}
MCTokenChars == MCAlnum \cup {"_"}
MCCredChars == MCTokenChars \cup {"-"}
MCPemChars == MCUpperDigit \cup {" "}
MCChars == MCCredChars \cup {":", " ", "#"}

Plain(t) == [text |-> t, frames |-> <<>>, readable |-> TRUE]
Gap == <<"#">>
WithFrames(fs) == [Plain([k \in DOMAIN fs |-> "#"]) EXCEPT !.frames = fs]
Ct(raw, ms) == [text |-> raw.text, frames |-> raw.frames, file |-> "container", members |-> ms]

Pieces == {MCGh, MCPat, MCAuth, MCAuth \o <<" ">>, <<"b", " ">>, <<"K", "I">>, MCXAccess, MCBase64,
           MCBegin, MCPrivate, <<"U">>, <<"U", "U">>, <<"l">>, <<" ">>}

MCTexts == {FlattenSeq(s) : s \in UNION {[1 .. n -> Pieces] : n \in 1 .. 4}}

Secret == MCGh \o <<"U", "l">>
InFrames[n \in Nat] == IF n = 0 THEN Plain(Secret) ELSE WithFrames(<<Plain(<<>>), InFrames[n - 1]>>)
Unread == [Plain(Secret) EXCEPT !.readable = FALSE]

\* The token cut in two frames, at every place.
Cuts == {WithFrames(<<Plain(SubSeq(Secret, 1, n)), Plain(SubSeq(Secret, n + 1, Len(Secret)))>>) : n \in 0 .. Len(Secret)}

MCMembers == {InFrames[n] : n \in 0 .. 5} \cup Cuts
MCFiles ==
    {Ct(Plain(Gap), <<m>>) : m \in MCMembers} \cup {Ct(m, <<>>) : m \in MCMembers}
    \cup {Ct(Plain(Gap), <<Plain(Gap), m>>) : m \in {Plain(Secret), Unread}}
    \cup {Ct(Plain(Gap), <<m, Unread>>) : m \in {Plain(Secret), Plain(Gap)}}
    \cup {[Ct(Plain(Secret), <<>>) EXCEPT !.file = f] : f \in {"absent", "notContainer"}}

MCLayered == {m \in MCMembers : m.frames # <<>>}

MCCommandLines ==
    {<<Ct(Plain(Gap), <<Plain(t)>>)>> : t \in MCTexts} \cup {<<f, g>> : f \in MCFiles, g \in MCFiles}
=============================================================================
