SPECIFICATION FairSpec
CONSTANTS
    Containers <- MCContainers
    Usable = 2
    MaxChainLevels = 3
    Cap <- MCCap
INVARIANTS
    ReadsInContainer
    CopiesInMember
    WalkReadsTheMapping
PROPERTIES
    WalkEnds
