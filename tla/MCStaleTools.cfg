SPECIFICATION GateSpec
CONSTANTS
    p1 = p1
    p2 = p2
    Paths = {p1, p2}
    n1 = n1
    n2 = n2
    r1 = r1
    NimRevs = {n1, n2}
    RustRevs = {r1}
    Absent = Absent
    Recordings <- MCRecordings
    NimVersions <- MCNimVersions
    RustVersions <- MCRustVersions
    Stageable <- MCStageable
    GivenTools <- MCGivenTools
    MovesInHook = FALSE
INVARIANTS
    ToolsFollowHeads
