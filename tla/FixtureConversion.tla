-------------------------- MODULE FixtureConversion --------------------------
(***************************************************************************)
(* The three converters a committed recording is brought up to date with:  *)
(* ctfs_v4_to_v5 (container 4 to 5), meta_v3_to_v6 and meta_v6_to_v7 (the  *)
(* schema of its meta.dat).  Each reads the recording, converts it in      *)
(* memory or refuses it, writes the result beside it and renames that into *)
(* place.  A run may fail or be killed at any point, which leaves its      *)
(* temporary file behind; between runs the recording may be made anew.     *)
(*                                                                         *)
(* A container is its two versions, the path list of a version-3 meta.dat, *)
(* the interning tables it carries and the paths in them, and its other    *)
(* members in root-slot order, each a name and opaque bytes.  A name that  *)
(* is old stands for the lossy key it is stored under.                     *)
(***************************************************************************)
EXTENDS Naturals, Sequences

CONSTANTS
    Originals,      \* the files recorders leave
    Renames,        \* MemberRenames: a function from old names to new ones
    MaxRoot,        \* root entries of a container
    StoresDuplicates,   \* whether the current writer takes a second member of a name
    MaxFailures,    \* bound: runs that fail or are killed
    MaxRecordings   \* bound: how often the recording is made

Tools == {"v5", "v6", "v7"}
Tables == {"paths.dat", "funcs.dat", "types.dat", "varnames.dat"}

Member == [name : STRING, data : STRING]
Members == Seq(Member)

Containers ==
    [version : {4, 5}, schema : {3, 6, 7}, list : Seq(STRING), interned : Seq(STRING),
     tables : SUBSET Tables, members : Members]

\* A file: a container, which is all there unless its writer was stopped, and
\* may be compressed as a whole.
Files == [whole : BOOLEAN, compressed : BOOLEAN, container : Containers]

Written(whole, c) == [whole |-> whole, compressed |-> FALSE, container |-> c]

\* No new name is an old one, so that renaming twice is renaming once.
ASSUME ConversionAssumption ==
    /\ MaxRoot \in Nat /\ MaxFailures \in Nat /\ MaxRecordings \in Nat \ {0}
    /\ StoresDuplicates \in BOOLEAN
    /\ \A n \in DOMAIN Renames : Renames[n] \in STRING \ DOMAIN Renames
    /\ \A f \in Originals : f \in Files /\ f.whole

VARIABLES
    target,     \* the recording
    origin,     \* what its recorder left, before any conversion
    temp,       \* per tool, its temporary file: a set of at most one
    step,       \* the running tool's next step
    tool,       \* the tool that runs, or ran last
    output,     \* what it made in memory
    recordings,
    failures

run == <<step, tool, output>>
vars == <<target, origin, temp, run, recordings, failures>>

-----------------------------------------------------------------------------
(* What each tool makes of a container: a set of one, or none if it refuses. *)

NamesOf(ms) == {ms[i].name : i \in DOMAIN ms}
CurrentName(n) == IF n \in DOMAIN Renames THEN Renames[n] ELSE n
Renamed(ms) == [i \in DOMAIN ms |-> [ms[i] EXCEPT !.name = CurrentName(@)]]

\* A reader finds the first member of a name: every one must read back.
ReadsBack(ms) ==
    \A i, j \in DOMAIN ms :
        ms[i].name = ms[j].name => i = j \/ (StoresDuplicates /\ ms[i].data = ms[j].data)

ToV5(c) ==
    {out \in {[c EXCEPT !.version = 5, !.members = Renamed(@)]} :
        c.version = 4 /\ ReadsBack(out.members)}

CarriesNewKinds(ms) ==
    \E i \in DOMAIN ms : ms[i].name = "events.dat" /\ ms[i].data = "new kinds"

\* The kinds of events.dat can be checked in a trace with steps.dat only.
EventsChecked(ms) ==
    IF "steps.dat" \in NamesOf(ms) THEN ~CarriesNewKinds(ms)
    ELSE "events.dat" \notin NamesOf(ms)

AllTablesOrNone(c) == c.tables \in {{}, Tables}

ToV7(c) ==
    {out \in {[c EXCEPT !.schema = 7]} :
        /\ c.version = 5 /\ c.schema = 6 /\ "meta.dat" \in NamesOf(c.members)
        /\ AllTablesOrNone(c)
        /\ EventsChecked(c.members)}

\* What interning the paths of a list one by one makes: each once, in the order
\* of first occurrence.
Interned(list) ==
    LET firsts == SelectSeq([i \in DOMAIN list |-> i],
                            LAMBDA i : \A j \in 1..(i - 1) : list[j] # list[i])
    IN  [k \in DOMAIN firsts |-> list[firsts[k]]]

WithSchema6(c) ==
    [c EXCEPT !.schema = 6,
              !.list = <<>>,
              !.interned = Interned(c.list),
              !.tables = IF c.list = <<>> THEN {} ELSE Tables,
              !.members = Renamed(@)]

\* What meta_v3_to_v6 asks of its input.
Upgradable(c) ==
    /\ c.version = 5 /\ c.schema = 3 /\ "meta.dat" \in NamesOf(c.members)
    /\ c.tables = {}
    /\ NamesOf(c.members) \cap {"steps.dat", "calls.dat"} = {}
    /\ \A n \in NamesOf(c.members) \cap DOMAIN Renames : Renames[n] \notin NamesOf(c.members)
    /\ Len(c.members) + (IF c.list = <<>> THEN 0 ELSE 4) <= MaxRoot

\* Bug for ToV6: the ids of the paths are not compared.
ToV6AnyIds(c) ==
    {out \in {WithSchema6(c)} : Upgradable(c) /\ ToV7(out) # {}}

\* Bug for ToV6: the result is not read as the version-7 container it becomes.
ToV6Unviewed(c) ==
    {out \in {WithSchema6(c)} : Upgradable(c) /\ Interned(c.list) = c.list}

\* A path's id must be its position in the list, and the version-7 view of the
\* result must pass.
ToV6(c) ==
    {out \in {WithSchema6(c)} :
        Upgradable(c) /\ Interned(c.list) = c.list /\ ToV7(out) # {}}

\* meta_v6_to_v7 patches the file and refuses one whose bytes are not the image.
Results(t, f) ==
    CASE t = "v5" -> ToV5(f.container)
      [] t = "v6" -> ToV6(f.container)
      [] t = "v7" -> IF f.compressed THEN {} ELSE ToV7(f.container)

-----------------------------------------------------------------------------
Init ==
    /\ target \in Originals
    /\ origin = target
    /\ temp = [t \in Tools |-> {}]
    /\ step = "idle" /\ tool = "v5" /\ output = target.container
    /\ recordings = 1 /\ failures = 0

\* A refused container ends the run with nothing written.
Convert(t) ==
    /\ step = "idle"
    /\ output' \in Results(t, target)
    /\ tool' = t
    /\ step' = "open"
    /\ UNCHANGED <<target, origin, temp, recordings, failures>>

\* Bug for OpenTemp: the recording itself is opened for writing.
OpenTarget ==
    /\ step = "open"
    /\ target' = Written(FALSE, output)
    /\ step' = "write"
    /\ UNCHANGED <<origin, temp, tool, output, recordings, failures>>

\* Bug for OpenTemp: a temporary file that is there is taken for this run's.
OpenReusing ==
    /\ step = "open"
    /\ temp' = [temp EXCEPT ![tool] = IF @ = {} THEN {Written(FALSE, output)} ELSE @]
    /\ step' = IF temp[tool] = {} THEN "write" ELSE "move"
    /\ UNCHANGED <<target, origin, tool, output, recordings, failures>>

\* Bug for OpenTemp: the temporary file must not be there.
OpenExclusive ==
    /\ step = "open"
    /\ temp[tool] = {}
    /\ temp' = [temp EXCEPT ![tool] = {Written(FALSE, output)}]
    /\ step' = "write"
    /\ UNCHANGED <<target, origin, tool, output, recordings, failures>>

\* writeFile truncates what is there.
OpenTemp ==
    /\ step = "open"
    /\ temp' = [temp EXCEPT ![tool] = {Written(FALSE, output)}]
    /\ step' = "write"
    /\ UNCHANGED <<target, origin, tool, output, recordings, failures>>

WriteTemp ==
    /\ step = "write"
    /\ temp' = [temp EXCEPT ![tool] = {Written(TRUE, output)}]
    /\ step' = "move"
    /\ UNCHANGED <<target, origin, tool, output, recordings, failures>>

MoveFile ==
    /\ step = "move"
    /\ target' \in temp[tool]
    /\ temp' = [temp EXCEPT ![tool] = {}]
    /\ step' = "idle"
    /\ UNCHANGED <<origin, tool, output, recordings, failures>>

\* A write or the rename fails, or the tool is killed; its temporary file stays.
Stopped ==
    /\ step # "idle"
    /\ failures < MaxFailures
    /\ failures' = failures + 1
    /\ step' = "idle"
    /\ UNCHANGED <<target, origin, temp, tool, output, recordings>>

\* A new recording is committed in place of the old one.
Rerecord ==
    /\ step = "idle"
    /\ recordings < MaxRecordings
    /\ recordings' = recordings + 1
    /\ target' \in Originals
    /\ origin' = target'
    /\ UNCHANGED <<temp, run, failures>>

Next ==
    \/ \E t \in Tools : Convert(t)
    \/ OpenTemp \/ WriteTemp \/ MoveFile
    \/ Stopped \/ Rerecord

Spec == Init /\ [][Next]_vars

\* A running tool goes on, and every tool is run again on what it may convert.
FairSpec ==
    /\ Spec
    /\ WF_vars(OpenTemp) /\ WF_vars(WriteTemp) /\ WF_vars(MoveFile)
    /\ \A t \in Tools : WF_vars(Convert(t))

-----------------------------------------------------------------------------
(* Properties. *)

\* Types: a container is of a known version, temporary files are single, and the
\* tables are the four.
TypeOK ==
    /\ target \in Files /\ origin \in Originals
    /\ temp \in [Tools -> SUBSET Files]
    /\ \A t \in Tools : \A f, g \in temp[t] : f = g
    /\ step \in {"idle", "open", "write", "move"}
    /\ tool \in Tools /\ output \in Containers
    /\ recordings \in 1..MaxRecordings /\ failures \in 0..MaxFailures

\* "An in-place conversion that fails half-way never leaves a truncated
\* recording" (ctfs_v4_to_v5.nim:219-220): whenever a run stops, however many
\* stopped before it, the recording is a whole container.
NeverTruncated == target.whole

\* The file that replaces a recording is that recording converted: never what an
\* earlier run left in the temporary file, of another recording perhaps.
ReplacedByItsConversion ==
    [][target' # target /\ recordings' = recordings =>
        \E t \in Tools : target'.container \in Results(t, target)]_vars

\* A recording the second tool upgraded is one the third accepts: the chain
\* never stalls between them (meta_v3_to_v6.nim:206-217).
ChainNeverStalls ==
    origin.container.schema = 3 /\ target.container.schema = 6 =>
        Results("v7", target) # {}

\* What the last tool has made passes the readers of its version: the interning
\* tables are all there or none is, and no event is of a kind the version before
\* could not carry.
ReadersAccept ==
    origin.container.schema # 7 /\ target.container.schema = 7 =>
        AllTablesOrNone(target.container) /\ EventsChecked(target.container.members)

\* A recording that can be converted all the way is, although runs are stopped
\* and leave their files: unless it is recorded anew first.
CanReachV7(f) ==
    \/ Results("v7", f) # {}
    \/ \E b \in ToV6(f.container) : ToV7(b) # {}
    \/ \E a \in ToV5(f.container) : \E b \in ToV6(a) : ToV7(b) # {}

ConvertedInTheEnd ==
    \A n \in 1..MaxRecordings :
        recordings = n /\ CanReachV7(target) ~>
            target.container.schema = 7 \/ recordings # n

\* The conversions implement RecordingFormat: the content of a recording is its
\* members in order, under their current names, and its paths by id.
ContentOf(c) ==
    [members |-> Renamed(c.members),
     paths |-> IF c.schema = 3 THEN c.list ELSE c.interned]

Format == INSTANCE RecordingFormat WITH
    container <- target.container.version,
    schema <- target.container.schema,
    content <- ContentOf(target.container)

ImplementsFormat == Format!AbstractSpec

(***************************************************************************)
(* The inductive invariant: while a tool runs, its output is the recording's*)
(* conversion and the file it renames holds that output; a version-4       *)
(* container is still the recorder's.                                      *)
(***************************************************************************)
ConversionInv ==
    /\ TypeOK
    /\ NeverTruncated
    /\ step # "idle" => output \in Results(tool, target)
    /\ step = "move" => temp[tool] = {Written(TRUE, output)}
    /\ target.container.version = 4 => target = origin
    /\ origin.container.schema # 3 => target.container.schema # 3
    /\ origin.container.schema = 7 => target.container.schema = 7
    /\ ChainNeverStalls /\ ReadersAccept
=============================================================================
