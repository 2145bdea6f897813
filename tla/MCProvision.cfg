SPECIFICATION Spec
CONSTANTS
    None = None
    Siblings <- MCSiblings
    Objects <- MCObjects
    Peel <- MCPeel
    CtCommits = {"c1", "c2"}
    CtLock <- MCCtLock
    RecLock <- MCRecLock
    RecRefs = {"a", "b", "tag"}
    Kills = TRUE
INVARIANTS
    SuccessIsAsPinned
    PinsFollowClones
    FailuresAreExplained
