--------------------------- MODULE CredentialScan ---------------------------
(***************************************************************************)
(* ct_credential_scan: refuse a recording that carries a credential.  One  *)
(* loop looks for every pattern in a buffer and goes on behind a match; the*)
(* walk gives it a file's raw bytes, its members and the compressed frames *)
(* of both, frames within frames included.  Texts are sequences of         *)
(* characters with the patterns' literals shortened by the constants;      *)
(* letter case is abstracted.                                              *)
(*                                                                         *)
(* A buffer is a record: its text, in which a compressed frame stands as   *)
(* one character that matches nothing, and the contents of its frames.  A  *)
(* file is the buffer of its raw bytes with what the reader says of it and *)
(* its members.                                                            *)
(***************************************************************************)
EXTENDS Naturals, Sequences, SequencesExt

CONSTANTS
    Gh, Pat, Auth, Schemes, Aws, XAccess, Base64, Begin, Private,  \* the literals
    Alnum, TokenChars, CredChars, UpperDigit, PemChars, Blanks,    \* the classes
    MinGh, MinPat, MinCred, AwsLen,     \* 36, 22, 8 and 16 characters
    PemLimit,                           \* the 48 characters looked at behind BEGIN
    MaxDepth,                           \* frames within frames are opened to depth 2
    Chars, Space,                       \* the characters there are, and one of them
    Layered,                            \* the members and frames with frames in them
    CommandLines                        \* the files named on a command line

\* A member or the contents of a frame, with frames in it or without.
Buffers == Layered \cup [text : Seq(Chars), frames : {<<>>}, readable : BOOLEAN]

\* What the reader makes of a file named on the command line.
Files ==
    [text : Seq(Chars), frames : Seq(Buffers), members : Seq(Buffers),
     file : {"container", "notContainer", "absent"}]

\* The literals are words, a scheme has no blank in it, and PRIVATE begins with
\* a character that may stand before it.
ASSUME CredentialAssumption ==
    /\ {Gh, Pat, Auth, XAccess, Base64, Begin, Private} \cup Schemes \cup Aws \subseteq Seq(Chars) \ {<<>>}
    /\ Space \in Blanks /\ Blanks \subseteq Chars
    /\ \A s \in Schemes : \A k \in DOMAIN s : s[k] \notin Blanks
    /\ Private[1] \in PemChars
    /\ {MinGh, MinPat, MinCred, AwsLen, PemLimit, MaxDepth} \subseteq Nat
    /\ Layered \subseteq [text : Seq(Chars), frames : Seq(Buffers), readable : BOOLEAN]
    /\ \A line \in CommandLines : line \in Seq(Files)

VARIABLES
    files,      \* the command line
    at,         \* the file being scanned
    work,       \* the buffers still to be scanned, the next one first
    pos,        \* the place in the first of them
    member,     \* the members read so far
    hits,       \* the matches in this file: a buffer, where, how long
    verdicts,   \* of the files before it
    exit        \* the exit code, or 9

vars == <<files, at, work, pos, member, hits, verdicts, exit>>

Init ==
    /\ files \in CommandLines
    /\ at = 1 /\ work = <<>> /\ pos = 1 /\ member = 0 /\ hits = {}
    /\ verdicts = <<>> /\ exit = 9

-----------------------------------------------------------------------------
(* Matching: each pattern's length at place p of text t, or 0.             *)

At(t, p, word) == p + Len(word) - 1 <= Len(t) /\ SubSeq(t, p, p + Len(word) - 1) = word

\* How many characters of a class stand from p on.
Run(t, p, class) ==
    CHOOSE n \in 0 .. Len(t) :
        /\ \A k \in 0 .. n - 1 : p + k <= Len(t) /\ t[p + k] \in class
        /\ p + n > Len(t) \/ t[p + n] \notin class

\* A literal followed by at least so many characters of a class.
Token(t, p, word, class, least) ==
    LET n == Run(t, p + Len(word), class)
    IN  IF At(t, p, word) /\ n >= least THEN Len(word) + n ELSE 0

\* authorization:, blanks, a scheme, one space and a credential.
Header(t, p) ==
    LET behind == p + Len(Auth)
        q == behind + Run(t, behind, Blanks)
        schemes == {s \in Schemes : At(t, q, s \o <<Space>>)}
        cred == q + Len(CHOOSE s \in schemes : TRUE) + 1
        n == Run(t, cred, CredChars)
    IN  IF At(t, p, Auth) /\ schemes # {} /\ n >= MinCred THEN cred + n - p ELSE 0

\* Exactly so many behind the literal, and no letter or digit before it.
AwsKey(t, p) ==
    IF \E w \in Aws : /\ At(t, p, w)
                      /\ p = 1 \/ t[p - 1] \notin Alnum
                      /\ Run(t, p + Len(w), UpperDigit) = AwsLen
    THEN Len(CHOOSE w \in Aws : At(t, p, w)) + AwsLen
    ELSE 0

\* PRIVATE KEY----- behind BEGIN and capitals, within the limit.
PemKey(t, p) ==
    LET from == p + Len(Begin)
        ends == {q \in from .. from + PemLimit - 1 :
                    /\ At(t, q, Private)
                    /\ \A k \in from .. q : t[k] \in PemChars}
    IN  IF At(t, p, Begin) /\ ends # {}
        THEN (CHOOSE q \in ends : \A r \in ends : q <= r) + Len(Private) - p
        ELSE 0

\* The patterns differ in their first characters, so at most one is there.
Matches(t, p) ==
    {Token(t, p, Gh, Alnum, MinGh), Token(t, p, Pat, TokenChars, MinPat), Header(t, p),
     AwsKey(t, p), Token(t, p, XAccess, CredChars, MinCred),
     Token(t, p, Base64, CredChars, 0), PemKey(t, p)} \ {0}

Matched(t, p) == IF Matches(t, p) = {} THEN 0 ELSE CHOOSE n \in Matches(t, p) : TRUE

-----------------------------------------------------------------------------
(* The walk *)

Running == exit = 9
Text == Head(work).data.text
Buffer(b, depth) == [data |-> b, depth |-> depth]

\* The file is given up: what was found in it is not reported.
FileFails ==
    /\ verdicts' = Append(verdicts, "error")
    /\ at' = at + 1 /\ work' = <<>> /\ pos' = 1 /\ member' = 0 /\ hits' = {}

\* readCtfsFromFile: the raw bytes are scanned first, container or not.
StartFile ==
    /\ Running /\ work = <<>> /\ member = 0 /\ at <= Len(files)
    /\ IF files[at].file = "absent" THEN FileFails
       ELSE /\ work' = <<Buffer(files[at], 0)>>
            /\ pos' = 1 /\ member' = 1
            /\ UNCHANGED <<at, hits, verdicts>>
    /\ UNCHANGED <<files, exit>>

\* Bug for Look: the search goes on two places further after no match.
LookFar ==
    /\ Running /\ work # <<>> /\ pos <= Len(Text)
    /\ LET n == Matched(Text, pos)
       IN  /\ hits' = IF n = 0 THEN hits ELSE hits \cup {<<Text, pos, n>>}
           /\ pos' = IF n = 0 THEN pos + 2 ELSE pos + n
    /\ UNCHANGED <<files, at, work, member, verdicts, exit>>

\* findCredential: one place, and on behind a match.
Look ==
    /\ Running /\ work # <<>> /\ pos <= Len(Text)
    /\ LET n == Matched(Text, pos)
       IN  /\ hits' = IF n = 0 THEN hits ELSE hits \cup {<<Text, pos, n>>}
           /\ pos' = IF n = 0 THEN pos + 1 ELSE pos + n
    /\ UNCHANGED <<files, at, work, member, verdicts, exit>>

\* scanFrames: the frames of a buffer, unless it is too deep.
Frames(b) ==
    IF b.depth > MaxDepth THEN <<>>
    ELSE [k \in DOMAIN b.data.frames |-> Buffer(b.data.frames[k], b.depth + 1)]

BufferDone ==
    /\ Running /\ work # <<>> /\ pos > Len(Text)
    /\ work' = Frames(Head(work)) \o Tail(work)
    /\ pos' = 1
    /\ UNCHANGED <<files, at, member, hits, verdicts, exit>>

\* Behind the raw bytes: no container, a member that cannot be put together, the
\* next member, or the end of the file.
NextMember ==
    /\ Running /\ work = <<>> /\ member > 0
    /\ LET f == files[at]
           broken == f.file = "notContainer" \/ (member <= Len(f.members) /\ ~f.members[member].readable)
       IN IF broken THEN FileFails
          ELSE IF member <= Len(f.members)
          THEN /\ work' = <<Buffer(f.members[member], 0)>>
               /\ member' = member + 1
               /\ UNCHANGED <<at, pos, hits, verdicts>>
          ELSE /\ verdicts' = Append(verdicts, IF hits = {} THEN "clean" ELSE "credential")
               /\ at' = at + 1 /\ member' = 0 /\ hits' = {}
               /\ UNCHANGED <<work, pos>>
    /\ UNCHANGED <<files, exit>>

\* Bug for ExitCode: a credential hides that another file could not be read.
ExitCodeDirty(v) == IF "credential" \in v THEN 1 ELSE IF "error" \in v THEN 2 ELSE 0
ExitCode(v) == IF "error" \in v THEN 2 ELSE IF "credential" \in v THEN 1 ELSE 0

Quit ==
    /\ Running /\ work = <<>> /\ member = 0 /\ at > Len(files)
    /\ exit' = ExitCode(ToSet(verdicts))
    /\ UNCHANGED <<files, at, work, pos, member, hits, verdicts>>

Next == StartFile \/ Look \/ BufferDone \/ NextMember \/ Quit

Spec == Init /\ [][Next]_vars

-----------------------------------------------------------------------------
(* The patterns as the header of the program gives them: a word of t that   *)
(* is one, without the loop's order.                                        *)

All(w, class) == ToSet(w) \subseteq class

\* A literal and then so many of a class.
Documented(w, word, class, least) ==
    \E k \in 0 .. Len(w) : /\ SubSeq(w, 1, k) = word
                           /\ Len(w) - k = least
                           /\ All(SubSeq(w, k + 1, Len(w)), class)

DocumentedHeader(w) ==
    \E s \in Schemes, k \in 0 .. Len(w), l \in 0 .. Len(w) :
        LET blanks == SubSeq(w, k + 1, l)
            cred == SubSeq(w, l + Len(s) + 2, Len(w))
        IN  /\ SubSeq(w, 1, k) = Auth /\ All(blanks, Blanks)
            /\ w = Auth \o blanks \o s \o <<Space>> \o cred
            /\ Len(cred) = MinCred /\ All(cred, CredChars)

DocumentedPem(w) ==
    \E k \in 0 .. Len(w) :
        LET middle == SubSeq(w, Len(Begin) + 1, k)
        IN  /\ w = Begin \o middle \o Private
            /\ Len(middle) < PemLimit /\ All(middle, PemChars)

\* An AWS key at places p to q: no character of its class goes on behind it.
DocumentedAws(t, p, q) ==
    /\ \E word \in Aws : Documented(SubSeq(t, p, q), word, UpperDigit, AwsLen)
    /\ p > 1 => t[p - 1] \notin Alnum
    /\ q < Len(t) => t[q + 1] \notin UpperDigit

Carries(t) ==
    \E p \in 1 .. Len(t) : \E q \in p .. Len(t) :
        LET w == SubSeq(t, p, q) IN
        \/ Documented(w, Gh, Alnum, MinGh)
        \/ Documented(w, Pat, TokenChars, MinPat)
        \/ DocumentedHeader(w)
        \/ DocumentedAws(t, p, q)
        \/ Documented(w, XAccess, CredChars, MinCred)
        \/ Documented(w, Base64, CredChars, 0)
        \/ DocumentedPem(w)

\* The texts of a buffer and of its frames, down to so many levels.
Within(b, depth) ==
    LET level[d \in 0 .. depth] ==
            IF d = 0 THEN {b} ELSE UNION {ToSet(x.frames) : x \in level[d - 1]}
    IN  {x.text : x \in UNION {level[d] : d \in 0 .. depth}}

Texts(f) == UNION {Within(b, MaxDepth + 1) : b \in {f} \cup ToSet(f.members)}

Unreadable(f) == f.file # "container" \/ \E k \in DOMAIN f.members : ~f.members[k].readable

\* A file is called clean exactly when no text of it, raw, of a member or of a
\* frame to the third level, carries one of the documented patterns, wherever
\* it begins and whatever matched before it (findCredential, scanFrames).
CleanHoldsNoCredential ==
    \A k \in DOMAIN verdicts : verdicts[k] # "error" =>
        (verdicts[k] = "clean" <=> \A t \in Texts(files[k]) : ~Carries(t))

\* An unreadable file is never reported as clean, nor hidden by another file's
\* verdict, and exit 0 means that nothing is carried by any file (main).
UnreadableIsNeverClean ==
    exit # 9 =>
        /\ exit = 2 <=> \E k \in DOMAIN files : Unreadable(files[k])
        /\ exit = 0 => \A k \in DOMAIN files : \A t \in Texts(files[k]) : ~Carries(t)

-----------------------------------------------------------------------------
(* What the header says, and the code does not do.                          *)

\* "neither compression nor block layout hides a match": the contents of a
\* buffer's frames, joined as their writer cut them, carry nothing when the file
\* is clean.
CompressionHidesNothing ==
    \A k \in DOMAIN verdicts : verdicts[k] = "clean" =>
        \A b \in {files[k]} \cup ToSet(files[k].members) :
            ~Carries(FlattenSeq([n \in DOMAIN b.frames |-> b.frames[n].text]))

-----------------------------------------------------------------------------
(* The inductive invariant: a file carries something exactly when it was found *)
(* already or is ahead of the scan.                                            *)

\* The texts that are searched when a buffer is taken from the work.
Reach(b) == Within(b.data, MaxDepth + 1 - b.depth)

Holds(texts) == \E t \in texts : Carries(t)

\* What comes behind the buffer that is being searched.
Later == Frames(Head(work)) \o Tail(work)

\* In the rest of this buffer, in those that are to be searched, or in a member
\* that was not read yet.
Ahead ==
    \/ /\ work # <<>>
       /\ \/ \E p \in pos .. Len(Text) : Matches(Text, p) # {}
          \/ \E k \in DOMAIN Later : Holds(Reach(Later[k]))
    \/ \E k \in member .. Len(files[at].members) : Holds(Within(files[at].members[k], MaxDepth + 1))

WorkInv ==
    /\ files \in Seq(Files) /\ at \in 1 .. Len(files) + 1 /\ pos \in Nat \ {0} /\ member \in Nat
    /\ work \in Seq([data : Buffers \cup Files, depth : 0 .. MaxDepth + 1])
    /\ work = <<>> => pos = 1
    /\ member = 0 => work = <<>> /\ hits = {}
    /\ member > 0 =>
        /\ at <= Len(files) /\ member <= Len(files[at].members) + 1
        /\ files[at].file # "absent" /\ (member > 1 => files[at].file = "container")
        /\ \A k \in 1 .. member - 1 : files[at].members[k].readable

FoundInv == member > 0 => (Holds(Texts(files[at])) <=> hits # {} \/ Ahead)

VerdictOf(f) ==
    IF Unreadable(f) THEN "error" ELSE IF Holds(Texts(f)) THEN "credential" ELSE "clean"

VerdictInv ==
    /\ verdicts \in Seq({"clean", "credential", "error"}) /\ Len(verdicts) = at - 1
    /\ \A k \in DOMAIN verdicts : verdicts[k] = VerdictOf(files[k])
    /\ exit \in {0, 1, 2, 9}
    /\ exit # 9 => at = Len(files) + 1 /\ exit = ExitCode(ToSet(verdicts))

ScanInv == WorkInv /\ FoundInv /\ VerdictInv
=============================================================================
