SPECIFICATION MCSpec
CONSTANTS
    Workflows = {"verification", "platform", "emulator", "windows"}
    None = None
    MaxChanges = 3
    Revs = {"a", "b"}
    CtCommits = {"c1", "c2", "c3"}
    CtLock <- MCCtLock
    Kills = TRUE
    Takes <- MCTakes
    MaxJobs = 3
    Refs = {"main", "topic"}
    Kinds = {"platform", "emulator", "windows"}
    Agents = {"mac1", "mac2", "win"}
    Qualities = {"good", "leaking", "bad"}
INVARIANTS
    ChecksAreThePinned
    GatedUploadsAreVerified
    PullRequestsAreWhole
    EmulatorRunsAreApart
PROPERTIES
    PullRequestsDoNotGoBack
    RunsConclude
CHECK_DEADLOCK FALSE
