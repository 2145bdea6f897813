----------------------- MODULE FixtureConversionProofs -----------------------
(***************************************************************************)
(* Proofs about FixtureConversion, for every set of recordings, rename     *)
(* table without cycles, size of the root directory and number of failures.*)
(***************************************************************************)
EXTENDS FixtureConversion, TLAPS

(***************************************************************************)
(* The conversions, one by one.                                            *)
(***************************************************************************)

\* Renaming the members of a container keeps their order and their bytes
\* (renamedMember).
LEMMA RenamedTypes ==
    ASSUME NEW ms \in Members
    PROVE  Renamed(ms) \in Members /\ DOMAIN Renamed(ms) = DOMAIN ms
<1>1. \A i \in DOMAIN ms : ms[i] \in Member
  BY DEF Members
<1>2. \A n \in STRING : CurrentName(n) \in STRING
  BY ConversionAssumption DEF CurrentName
<1>3. ASSUME NEW i \in DOMAIN ms
      PROVE  [ms[i] EXCEPT !.name = CurrentName(@)] \in Member
  <2>1. ms[i] \in Member
    BY <1>1
  <2>2. CurrentName(ms[i].name) \in STRING
    BY <1>2, <2>1 DEF Member
  <2> QED
    BY <2>1, <2>2 DEF Member
<1>4. DOMAIN ms = 1..Len(ms) /\ Len(ms) \in Nat
  BY DEF Members
<1> QED
  BY <1>3, <1>4 DEF Renamed, Members

\* Renaming is idempotent: the second converter finds nothing left to rename.
LEMMA RenamedTwice ==
    ASSUME NEW ms \in Members
    PROVE  Renamed(Renamed(ms)) = Renamed(ms)
<1>1. \A i \in DOMAIN ms : ms[i] \in Member
  BY DEF Members
<1>2. \A n \in STRING : CurrentName(CurrentName(n)) = CurrentName(n)
  BY ConversionAssumption DEF CurrentName
<1>3. DOMAIN Renamed(ms) = DOMAIN ms
  BY DEF Renamed
<1>4. \A i \in DOMAIN ms : Renamed(Renamed(ms))[i] = Renamed(ms)[i]
  <2> TAKE i \in DOMAIN ms
  <2>1. ms[i].name \in STRING /\ ms[i] \in Member
    BY <1>1 DEF Member
  <2>2. Renamed(ms)[i] = [ms[i] EXCEPT !.name = CurrentName(ms[i].name)]
    BY DEF Renamed
  <2>3. Renamed(ms)[i].name = CurrentName(ms[i].name)
    BY <2>1, <2>2 DEF Member
  <2>4. Renamed(Renamed(ms))[i] = [Renamed(ms)[i] EXCEPT !.name = CurrentName(Renamed(ms)[i].name)]
    BY <1>3 DEF Renamed
  <2>5. CurrentName(Renamed(ms)[i].name) = Renamed(ms)[i].name
    BY <1>2, <2>1, <2>3
  <2> QED
    BY <2>1, <2>2, <2>4, <2>5 DEF Member
<1> QED
  BY <1>3, <1>4 DEF Renamed

\* What ctfs_v4_to_v5 makes.
LEMMA ToV5Facts ==
    ASSUME NEW c \in Containers, NEW out \in ToV5(c)
    PROVE  /\ out \in Containers
           /\ c.version = 4 /\ out.version = 5 /\ out.schema = c.schema
           /\ ContentOf(out) = ContentOf(c)
<1>1. /\ c.version = 4
      /\ out = [c EXCEPT !.version = 5, !.members = Renamed(c.members)]
  BY DEF ToV5
<1>2. c.members \in Members
  BY DEF Containers
<1>3. Renamed(c.members) \in Members /\ Renamed(Renamed(c.members)) = Renamed(c.members)
  BY <1>2, RenamedTypes, RenamedTwice
<1>4. /\ out.version = 5 /\ out.schema = c.schema /\ out.list = c.list
      /\ out.interned = c.interned /\ out.members = Renamed(c.members)
  BY <1>1 DEF Containers
<1>5. out \in Containers
  BY <1>1, <1>3 DEF Containers
<1> QED
  BY <1>1, <1>3, <1>4, <1>5 DEF ContentOf

\* What meta_v6_to_v7 makes.
LEMMA ToV7Facts ==
    ASSUME NEW c \in Containers, NEW out \in ToV7(c)
    PROVE  /\ out \in Containers
           /\ c.version = 5 /\ out.version = 5 /\ c.schema = 6 /\ out.schema = 7
           /\ ContentOf(out) = ContentOf(c)
           /\ AllTablesOrNone(out) /\ EventsChecked(out.members)
<1>1. /\ c.version = 5 /\ c.schema = 6
      /\ AllTablesOrNone(c) /\ EventsChecked(c.members)
      /\ out = [c EXCEPT !.schema = 7]
  BY DEF ToV7
<1>2. /\ out.version = c.version /\ out.schema = 7 /\ out.list = c.list
      /\ out.interned = c.interned /\ out.members = c.members /\ out.tables = c.tables
  BY <1>1 DEF Containers
<1>3. out \in Containers
  BY <1>1 DEF Containers
<1> QED
  BY <1>1, <1>2, <1>3 DEF ContentOf, AllTablesOrNone

\* What meta_v3_to_v6 makes.
LEMMA ToV6Facts ==
    ASSUME NEW c \in Containers, NEW out \in ToV6(c)
    PROVE  /\ out \in Containers
           /\ c.version = 5 /\ out.version = 5 /\ c.schema = 3 /\ out.schema = 6
           /\ ContentOf(out) = ContentOf(c)
           /\ ToV7(out) # {}
<1>1. /\ c.version = 5 /\ c.schema = 3
      /\ Interned(c.list) = c.list
      /\ out = WithSchema6(c) /\ ToV7(out) # {}
  BY DEF ToV6, Upgradable
<1> DEFINE tables == IF c.list = <<>> THEN {} ELSE Tables
<1>2. out = [c EXCEPT !.schema = 6, !.list = <<>>, !.interned = c.list, !.tables = tables,
                      !.members = Renamed(c.members)]
  BY <1>1 DEF WithSchema6
<1>3. c.members \in Members
  BY DEF Containers
<1>4. Renamed(c.members) \in Members /\ Renamed(Renamed(c.members)) = Renamed(c.members)
  BY <1>3, RenamedTypes, RenamedTwice
<1>5. tables \in SUBSET Tables
  OBVIOUS
<1> HIDE DEF tables
<1>6. /\ out.version = c.version /\ out.schema = 6 /\ out.interned = c.list
      /\ out.members = Renamed(c.members)
  BY <1>2 DEF Containers
<1>7. out \in Containers
  <2>1. out = [version |-> c.version, schema |-> 6, list |-> <<>>, interned |-> c.list,
               tables |-> tables, members |-> Renamed(c.members)]
    BY <1>2 DEF Containers
  <2> QED
    BY <2>1, <1>4, <1>5 DEF Containers
<1> QED
  BY <1>1, <1>4, <1>6, <1>7 DEF ContentOf

\* What any tool makes of a file: the step of the format, and the content kept.
LEMMA ResultFacts ==
    ASSUME NEW f \in Files, NEW t \in Tools, NEW out \in Results(t, f)
    PROVE  /\ out \in Containers
           /\ out.version = 5
           /\ \/ f.container.version = 4 /\ out.schema = f.container.schema
              \/ f.container.version = 5 /\ f.container.schema = 3 /\ out.schema = 6
                 /\ ToV7(out) # {}
              \/ f.container.version = 5 /\ f.container.schema = 6 /\ out.schema = 7
                 /\ AllTablesOrNone(out) /\ EventsChecked(out.members)
           /\ ContentOf(out) = ContentOf(f.container)
<1>0. f.container \in Containers
  BY DEF Files
<1>1. CASE t = "v5"
  <2>1. out \in ToV5(f.container)
    BY <1>1 DEF Results
  <2> QED
    BY <1>0, <2>1, ToV5Facts
<1>2. CASE t = "v6"
  <2>1. out \in ToV6(f.container)
    BY <1>2 DEF Results
  <2> QED
    BY <1>0, <2>1, ToV6Facts
<1>3. CASE t = "v7"
  <2>1. out \in ToV7(f.container)
    BY <1>3 DEF Results
  <2> QED
    BY <1>0, <2>1, ToV7Facts
<1> QED
  BY <1>1, <1>2, <1>3 DEF Tools

(***************************************************************************)
(* The invariant.                                                          *)
(***************************************************************************)

Formats ==
    /\ target.container.version = 4 => target = origin
    /\ origin.container.schema # 3 => target.container.schema # 3
    /\ origin.container.schema = 7 => target.container.schema = 7
    /\ ChainNeverStalls /\ ReadersAccept

\* A recording nobody converted satisfies the part about formats.
LEMMA FreshFormats ==
    target \in Originals /\ origin = target => Formats
BY DEF Formats, ChainNeverStalls, ReadersAccept

\* A file that replaces the recording and is its conversion satisfies it again.
LEMMA MovedFormats ==
    ASSUME ConversionInv, NEW out \in Results(tool, target),
           target' = Written(TRUE, out), origin' = origin
    PROVE  Formats'
<1>1. target \in Files /\ tool \in Tools
  BY DEF ConversionInv, TypeOK
<1>2. /\ out.version = 5
      /\ \/ target.container.version = 4 /\ out.schema = target.container.schema
         \/ target.container.version = 5 /\ target.container.schema = 3 /\ out.schema = 6
            /\ ToV7(out) # {}
         \/ target.container.version = 5 /\ target.container.schema = 6 /\ out.schema = 7
            /\ AllTablesOrNone(out) /\ EventsChecked(out.members)
  BY <1>1, ResultFacts
<1>3. target'.container = out /\ target'.compressed = FALSE
  BY DEF Written
<1>4. /\ target.container.version = 4 => target = origin
      /\ origin.container.schema # 3 => target.container.schema # 3
      /\ origin.container.schema = 7 => target.container.schema = 7
  BY DEF ConversionInv
<1>5. target'.container.version = out.version /\ target'.container.schema = out.schema
  BY <1>3
<1>6. target'.container.version # 4
  <2>1. out.version = 5
    BY <1>2
  <2>2. target'.container.version = 5
    BY <1>5, <2>1
  <2>3. 5 # 4
    OBVIOUS
  <2> QED
    BY <2>2, <2>3, Zenon
<1>7. /\ origin.container.schema # 3 => out.schema # 3
      /\ origin.container.schema = 7 => out.schema = 7
  BY <1>2, <1>4
<1>8. ChainNeverStalls'
  <2> SUFFICES ASSUME origin.container.schema = 3, out.schema = 6
               PROVE  ToV7(out) # {}
    BY <1>3 DEF ChainNeverStalls, Results
  <2> QED
    BY <1>2, <1>4
<1>9. ReadersAccept'
  <2> SUFFICES ASSUME origin.container.schema # 7, out.schema = 7
               PROVE  AllTablesOrNone(out) /\ EventsChecked(out.members)
    BY <1>3 DEF ReadersAccept, AllTablesOrNone, EventsChecked, CarriesNewKinds, NamesOf
  <2> QED
    BY <1>2, <1>4
<1> QED
  BY <1>5, <1>6, <1>7, <1>8, <1>9 DEF Formats

\* The invariant holds initially.
LEMMA InitInv == Init => ConversionInv
<1> SUFFICES ASSUME Init PROVE ConversionInv
  OBVIOUS
<1>1. target \in Files /\ target.whole /\ target.container \in Containers
  BY ConversionAssumption DEF Init, Files
<1>2. TypeOK
  BY <1>1, ConversionAssumption DEF Init, TypeOK, Tools
<1>3. Formats
  BY FreshFormats DEF Init
<1> QED
  BY <1>1, <1>2, <1>3 DEF Init, ConversionInv, NeverTruncated, Formats

\* Every step keeps it.
LEMMA StepInv == ConversionInv /\ [Next]_vars => ConversionInv'
<1> SUFFICES ASSUME ConversionInv, [Next]_vars PROVE ConversionInv'
  OBVIOUS
<1> USE ConversionAssumption
<1>t. TypeOK /\ NeverTruncated /\ Formats
  BY DEF ConversionInv, Formats
<1>1. ASSUME NEW t \in Tools, Convert(t) PROVE ConversionInv'
  <2>1. output' \in Containers
    BY <1>1, <1>t, ResultFacts DEF Convert, TypeOK
  <2>2. TypeOK'
    BY <1>1, <1>t, <2>1 DEF Convert, TypeOK
  <2>3. Results(tool, target)' = Results(t, target)
    BY <1>1 DEF Convert, Results
  <2>4. Formats' /\ NeverTruncated'
    BY <1>1, <1>t DEF Convert, Formats, ChainNeverStalls, ReadersAccept, NeverTruncated
  <2> QED
    BY <1>1, <2>2, <2>3, <2>4 DEF Convert, ConversionInv, Formats
<1>2. CASE OpenTemp
  <2>1. Written(FALSE, output) \in Files
    BY <1>t DEF TypeOK, Written, Files
  <2>2. TypeOK'
    <3>1. temp' \in [Tools -> SUBSET Files]
      <4>1. temp \in [Tools -> SUBSET Files]
        BY <1>t DEF TypeOK
      <4>2. temp' = [temp EXCEPT ![tool] = {Written(FALSE, output)}]
        BY <1>2 DEF OpenTemp
      <4>3. {Written(FALSE, output)} \in SUBSET Files
        BY <2>1
      <4> QED
        BY <4>1, <4>2, <4>3
    <3>2. \A t \in Tools : \A f, g \in temp'[t] : f = g
      BY <1>2, <1>t DEF OpenTemp, TypeOK
    <3> QED
      BY <1>2, <1>t, <3>1, <3>2 DEF OpenTemp, TypeOK
  <2>3. (step # "idle" => output \in Results(tool, target))'
    BY <1>2 DEF OpenTemp, ConversionInv
  <2>4. Formats' /\ NeverTruncated'
    BY <1>2, <1>t DEF OpenTemp, Formats, ChainNeverStalls, ReadersAccept, NeverTruncated
  <2> QED
    BY <1>2, <2>2, <2>3, <2>4 DEF OpenTemp, ConversionInv, Formats
<1>3. CASE WriteTemp
  <2>1. Written(TRUE, output) \in Files
    BY <1>t DEF TypeOK, Written, Files
  <2>2. TypeOK'
    <3>1. temp' \in [Tools -> SUBSET Files]
      <4>1. temp \in [Tools -> SUBSET Files]
        BY <1>t DEF TypeOK
      <4>2. temp' = [temp EXCEPT ![tool] = {Written(TRUE, output)}]
        BY <1>3 DEF WriteTemp
      <4>3. {Written(TRUE, output)} \in SUBSET Files
        BY <2>1
      <4> QED
        BY <4>1, <4>2, <4>3
    <3>2. \A t \in Tools : \A f, g \in temp'[t] : f = g
      BY <1>3, <1>t DEF WriteTemp, TypeOK
    <3> QED
      BY <1>3, <1>t, <3>1, <3>2 DEF WriteTemp, TypeOK
  <2>3. (step # "idle" => output \in Results(tool, target))'
    BY <1>3 DEF WriteTemp, ConversionInv
  <2>4. (step = "move" => temp[tool] = {Written(TRUE, output)})'
    BY <1>3, <1>t DEF WriteTemp, TypeOK, Written
  <2>5. Formats' /\ NeverTruncated'
    BY <1>3, <1>t DEF WriteTemp, Formats, ChainNeverStalls, ReadersAccept, NeverTruncated
  <2> QED
    BY <2>2, <2>3, <2>4, <2>5 DEF ConversionInv, Formats
<1>4. CASE MoveFile
  <2>1. output \in Results(tool, target) /\ temp[tool] = {Written(TRUE, output)}
    BY <1>4 DEF MoveFile, ConversionInv
  <2>2. target' = Written(TRUE, output) /\ origin' = origin
    BY <1>4, <2>1 DEF MoveFile
  <2>3. target' \in Files /\ target'.whole
    BY <1>t, <2>2 DEF TypeOK, Written, Files
  <2>4. TypeOK'
    BY <1>4, <1>t, <2>3 DEF MoveFile, TypeOK
  <2>5. Formats'
    BY <2>1, <2>2, MovedFormats
  <2> QED
    BY <1>4, <2>3, <2>4, <2>5 DEF MoveFile, ConversionInv, NeverTruncated, Formats
<1>5. CASE Stopped
  <2>1. TypeOK'
    BY <1>5, <1>t DEF Stopped, TypeOK
  <2>2. Formats' /\ NeverTruncated'
    BY <1>5, <1>t DEF Stopped, Formats, ChainNeverStalls, ReadersAccept, NeverTruncated
  <2> QED
    BY <1>5, <2>1, <2>2 DEF Stopped, ConversionInv, Formats
<1>6. CASE Rerecord
  <2>1. target' \in Files /\ target'.whole /\ target' \in Originals /\ origin' = target'
    BY <1>6 DEF Rerecord
  <2>2. TypeOK'
    BY <1>6, <1>t, <2>1 DEF Rerecord, run, TypeOK
  <2>3. Formats'
    BY <2>1 DEF Formats, ChainNeverStalls, ReadersAccept
  <2> QED
    BY <1>6, <2>1, <2>2, <2>3 DEF Rerecord, run, ConversionInv, NeverTruncated, Formats
<1>7. CASE UNCHANGED vars
  <2>1. TypeOK' /\ NeverTruncated' /\ Formats'
    BY <1>7, <1>t DEF vars, run, TypeOK, NeverTruncated, Formats, ChainNeverStalls, ReadersAccept
  <2> QED
    BY <1>7, <2>1 DEF vars, run, ConversionInv, Formats
<1> QED
  BY <1>1, <1>2, <1>3, <1>4, <1>5, <1>6, <1>7 DEF Next

(***************************************************************************)
(* The theorems.                                                           *)
(***************************************************************************)

\* Types, whole files, the running tool's output and the formats, together
\* inductive.
THEOREM ConversionInvariant == Spec => []ConversionInv
BY InitInv, StepInv, PTL DEF Spec

\* A conversion that stops half-way never leaves a truncated recording
\* (ctfs_v4_to_v5.nim:219-226 and the same lines of the other tools).
THEOREM RecordingWhole == Spec => []NeverTruncated
<1>1. ConversionInv => NeverTruncated
  BY DEF ConversionInv
<1> QED
  BY <1>1, ConversionInvariant, PTL

\* What meta_v3_to_v6 writes, meta_v6_to_v7 accepts (meta_v3_to_v6.nim:212-213).
THEOREM NoStall == Spec => []ChainNeverStalls
<1>1. ConversionInv => ChainNeverStalls
  BY DEF ConversionInv
<1> QED
  BY <1>1, ConversionInvariant, PTL

\* What meta_v6_to_v7 writes has all interning tables or none and only events
\* the tool checked (meta_v6_to_v7.nim:84-105).
THEOREM Accepted == Spec => []ReadersAccept
<1>1. ConversionInv => ReadersAccept
  BY DEF ConversionInv
<1> QED
  BY <1>1, ConversionInvariant, PTL

\* What replaces a recording is its own conversion, whatever temporary files are
\* left about.
THEOREM ReplacedOnlyByItsConversion == Spec => ReplacedByItsConversion
<1> DEFINE Replaced == target' # target /\ recordings' = recordings =>
                         \E t \in Tools : target'.container \in Results(t, target)
<1>1. ConversionInv /\ [Next]_vars => [Replaced]_vars
  <2> SUFFICES ASSUME ConversionInv, [Next]_vars, target' # target, recordings' = recordings
               PROVE  \E t \in Tools : target'.container \in Results(t, target)
    BY DEF Replaced
  <2>1. CASE MoveFile
    <3>1. /\ output \in Results(tool, target) /\ temp[tool] = {Written(TRUE, output)}
          /\ tool \in Tools
      BY <2>1 DEF MoveFile, ConversionInv, TypeOK
    <3>2. target' = Written(TRUE, output)
      BY <2>1, <3>1 DEF MoveFile
    <3> QED
      BY <3>1, <3>2 DEF Written
  <2>2. ~Rerecord
    <3> SUFFICES ASSUME Rerecord PROVE FALSE
      OBVIOUS
    <3>1. recordings \in Nat
      BY ConversionAssumption DEF ConversionInv, TypeOK
    <3> QED
      BY <3>1 DEF Rerecord
  <2> QED
    BY <2>1, <2>2 DEF Next, Convert, OpenTemp, WriteTemp, Stopped, vars
<1> HIDE DEF Replaced
<1>2. Spec => [][Replaced]_vars
  BY <1>1, ConversionInvariant, PTL DEF Spec
<1> QED
  BY <1>2 DEF Replaced, ReplacedByItsConversion

\* Conversions step the format forward one version at a time and keep the
\* content: every member, in order, and every path under its id.
THEOREM ConversionImplementsFormat == Spec => ImplementsFormat
<1> DEFINE fvars == <<target.container.version, target.container.schema,
                      ContentOf(target.container), recordings>>
<1>1. Init => Format!Init
  BY ConversionAssumption DEF Init, Format!Init, Files, Containers
<1>2. ConversionInv /\ [Next]_vars => [Format!Next]_fvars
  <2> SUFFICES ASSUME ConversionInv, [Next]_vars PROVE [Format!Next]_fvars
    OBVIOUS
  <2>1. CASE MoveFile
    <3>1. /\ output \in Results(tool, target) /\ temp[tool] = {Written(TRUE, output)}
          /\ target \in Files /\ tool \in Tools
      BY <2>1 DEF MoveFile, ConversionInv, TypeOK
    <3>2. target' = Written(TRUE, output) /\ recordings' = recordings
      BY <2>1, <3>1 DEF MoveFile
    <3>3. target'.container = output
      BY <3>2 DEF Written
    <3>4. /\ output.version = 5
          /\ \/ target.container.version = 4 /\ output.schema = target.container.schema
             \/ target.container.version = 5 /\ target.container.schema = 3 /\ output.schema = 6
             \/ target.container.version = 5 /\ target.container.schema = 6 /\ output.schema = 7
          /\ ContentOf(output) = ContentOf(target.container)
      BY <3>1, ResultFacts
    <3>5. ContentOf(target.container)' = ContentOf(target.container)
      BY <3>3, <3>4 DEF ContentOf
    <3>6. Format!Advance
      BY <3>3, <3>4 DEF Format!Advance
    <3> QED
      BY <3>2, <3>5, <3>6 DEF Format!Next, Format!Convert
  <2>2. CASE Rerecord
    <3>1. target' \in Files /\ recordings' = recordings + 1
      BY <2>2, ConversionAssumption DEF Rerecord
    <3>2. target'.container.version \in {4, 5} /\ target'.container.schema \in {3, 6, 7}
      BY <3>1 DEF Files, Containers
    <3> QED
      BY <3>1, <3>2 DEF Format!Next, Format!Rerecord
  <2>3. CASE (\E t \in Tools : Convert(t)) \/ OpenTemp \/ WriteTemp \/ Stopped \/ UNCHANGED vars
    <3>1. UNCHANGED <<target, recordings>>
      BY <2>3 DEF Convert, OpenTemp, WriteTemp, Stopped, vars
    <3> QED
      BY <3>1 DEF ContentOf
  <2> QED
    BY <2>1, <2>2, <2>3 DEF Next
<1> HIDE DEF fvars
<1>3. Spec => Format!Init /\ [][Format!Next]_fvars
  BY <1>1, <1>2, ConversionInvariant, PTL DEF Spec
<1> QED
  BY <1>3 DEF fvars, ImplementsFormat, Format!AbstractSpec
=============================================================================
