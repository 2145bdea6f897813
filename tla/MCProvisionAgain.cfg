SPECIFICATION Spec
CONSTANTS
    None = None
    Siblings <- MCSiblings
    Objects <- MCObjects
    Peel <- MCPeel
    CtCommits = {"c1"}
    CtLock <- MCCtLock
    RecLock <- MCRecLock
    RecRefs = {}
    Kills = TRUE
INVARIANTS
    PreviousRunsDoNotMatter
