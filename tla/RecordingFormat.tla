---------------------------- MODULE RecordingFormat ----------------------------
(***************************************************************************)
(* What converting a recording promises: its content never changes, and    *)
(* its format moves forward one version at a time: the container from 4 to *)
(* 5, then the schema of meta.dat from 3 to 6 and from 6 to 7.  Only a new *)
(* recording brings other content.                                         *)
(***************************************************************************)
EXTENDS Naturals

VARIABLES
    container,  \* the container version
    schema,     \* the version of meta.dat
    content,    \* the members and the source paths, whatever the format
    recordings  \* how many recordings were made

Init ==
    /\ container \in {4, 5}
    /\ schema \in {3, 6, 7}
    /\ recordings = 1

Advance ==
    \/ container = 4 /\ container' = 5 /\ schema' = schema
    \/ container = 5 /\ container' = 5 /\ schema = 3 /\ schema' = 6
    \/ container = 5 /\ container' = 5 /\ schema = 6 /\ schema' = 7

Convert ==
    /\ Advance
    /\ UNCHANGED <<content, recordings>>

Rerecord ==
    /\ recordings' = recordings + 1
    /\ container' \in {4, 5}
    /\ schema' \in {3, 6, 7}

Next == Convert \/ Rerecord

AbstractSpec == Init /\ [][Next]_<<container, schema, content, recordings>>
=============================================================================
