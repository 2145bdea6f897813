SPECIFICATION MCSpec
CONSTANTS
    Scripts = {"host"}
    NumMessages = 1
    WaitLimit = 1
    MaxRuns = 1
    Binary = "android_ctsp_client"
    Helper = "stream_receiver_helper"
    Program = "android_e2e_test"
    Hosts = {"linux-x86_64", "linux-arm64", "macos", "windows"}
    HostRuns = 1
    None = None
    Vars <- MCVars
    Named = {"GH_TOKEN", "SSH_AUTH_SOCK"}
    NamedOnWindows = {"GH_TOKEN"}
    Shaped = {"GH_TOKEN", "HEADER"}
    Kept = {"LICENSE"}
    DevShell = {"PATH", "INCLUDE"}
INVARIANT RecordsInEmptyEnvironment
