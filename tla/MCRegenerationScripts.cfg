SPECIFICATION MCSpec
CONSTANTS
    Scripts = {"device", "host"}
    NumMessages = 3
    WaitLimit = 3
    MaxRuns = 3
    Binary = "android_ctsp_client"
    Helper = "stream_receiver_helper"
    Program = "android_e2e_test"
    Hosts = {"linux-x86_64", "linux-arm64", "macos", "windows"}
    HostRuns = 2
    None = None
    Vars <- MCVars
    Named = {"GH_TOKEN", "SSH_AUTH_SOCK"}
    NamedOnWindows = {"GH_TOKEN"}
    Shaped = {"GH_TOKEN", "HEADER"}
    Kept = {"LICENSE"}
    DevShell = {"PATH", "INCLUDE"}
INVARIANTS
    SuccessLeavesFreshFixture
    NoReceiverLeft
    FilesAreOfOneRecording
    CredentialsKeptOut
    EnvironmentIsRestored
PROPERTIES
    ExportKeptUntilRecorded
    RunEnds
