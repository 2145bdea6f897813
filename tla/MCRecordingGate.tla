--------------------------- MODULE MCRecordingGate ---------------------------
(* RecordingGate for TLC: two paths, a recording each check can refuse, and   *)
(* reader revisions of which the first does not know container version 5.     *)
EXTENDS RecordingGate

CONSTANTS n1, n2, r1, p1, p2

ARecording(container, meta, nim, rust, credentials, members) ==
    [container |-> container, meta |-> meta, nimOpens |-> nim, rustOpens |-> rust,
     credentials |-> credentials, members |-> members]

Good == ARecording(5, 7, {n2}, {r1}, 0, 0)
Old == ARecording(4, 6, {n1}, {}, 0, 0)
OneReader == ARecording(5, 7, {n2}, {}, 0, 0)
Leaking == ARecording(5, 7, {n2}, {r1}, 1, 0)
MCRecordings == {Good, Old, OneReader, Leaking}

ATree(first, second, listed) ==
    [files |-> [p \in Paths |-> IF p = p1 THEN first ELSE second], listed |-> listed]

MCStageable ==
    {ATree(Good, second, {}) : second \in {Good, OneReader, Leaking, Absent}}
    \cup {ATree(Good, second, {p2}) : second \in {Good, Old, Absent}}
    \cup {ATree(Old, Good, {}), ATree(Old, Old, {p1, p2}), ATree(Absent, Absent, {})}

MCNimVersions == [r \in NimRevs |-> IF r = n1 THEN {4} ELSE {5}]
MCRustVersions == [r \in RustRevs |-> {5}]
MCGivenTools == {[print |-> n2, scan |-> n2, names |-> n1, util |-> r1]}
=============================================================================
