------------------------- MODULE MCRegenerationScripts -------------------------
(* The regeneration scripts for TLC, each by itself: those that record on a     *)
(* device, and those that record on the host.  In the host's shell: a token     *)
(* under a name that gives it away, an agent's socket, a header under a name    *)
(* that tells nothing, a licence file that is kept.                             *)
EXTENDS DeviceFixture, HostFixture

CONSTANT Scripts        \* those that are run: "device", "host"

VARIABLE kind           \* which of them it is

MCVars == {"PATH", "LANG", "TEMP", "GH_TOKEN", "SSH_AUTH_SOCK", "HEADER", "LICENSE", "INCLUDE"}

MCInit == kind \in Scripts /\ Init /\ HostInit

\* The host's scripts have been run as often as the bound allows.
HostEnded == Idle /\ hostRun = HostRuns /\ UNCHANGED hostVars

MCNext ==
    /\ UNCHANGED kind
    /\ \/ kind = "device" /\ Next /\ UNCHANGED hostVars
       \/ kind = "host" /\ (HostNext \/ HostEnded) /\ UNCHANGED vars

\* The fairness of DeviceFixture, whose script takes no step before a run.
MCSpec ==
    /\ MCInit /\ [][MCNext]_<<kind, vars, hostVars>>
    /\ WF_vars(Script)
=============================================================================
