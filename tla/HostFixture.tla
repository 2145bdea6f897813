----------------------------- MODULE HostFixture -----------------------------
(***************************************************************************)
(* The fixtures recorded on the host itself: regenerate.sh of              *)
(* mcr/linux-x86_64, linux-arm64 and macos-arm64, regenerate.ps1 of        *)
(* windows-x86_64, and the removal of credentials from the environment in  *)
(* some of the jobs that run them.  A recording carries the environment it is made *)
(* in.  Each run overwrites what the run before it left in the directory.  *)
(* The compiler, the recorder and its exporter are external.               *)
(***************************************************************************)
EXTENDS Naturals, Sequences, SequencesExt

CONSTANTS
    Hosts,          \* the hosts of this instance
    Vars,           \* environment variables; PATH, LANG, TEMP are among them
    Named,          \* those named like a credential
    NamedOnWindows, \* those the Windows job takes for one
    Shaped,         \* those whose value looks like a credential
    Kept,           \* those a recording may carry: the licence's and the system's
    DevShell,       \* those Enter-VsDevShell sets
    HostRuns,       \* bound: runs
    None

AllHosts == {"linux-x86_64", "linux-arm64", "macos", "windows"}
Set == {"PATH", "LANG", "TEMP"}

\* Who runs a script: a person, a job of regen-device-recordings.yml, which drops
\* its credentials first, or a job of a regen-mcr-*.yml, which does not.
Starters == {"person", "deviceJob", "platformJob"}

StartersOf(h) ==
    CASE h \in {"linux-x86_64", "macos"} -> Starters
      [] h = "linux-arm64" -> Starters \ {"deviceJob"}
      [] h = "windows" -> Starters \ {"platformJob"}

Envs == [Vars -> {"own", "neutral", "unset"}]
Traces == [run : 1 .. HostRuns, by : Starters, whole : BOOLEAN, carries : SUBSET (Vars \ Kept)]
Exports == [of : 1 .. HostRuns, whole : BOOLEAN]

\* No rule takes PATH, LANG or TEMP for a credential, and none that goes by a name
\* takes what a recording may carry.
ASSUME HostAssumption ==
    /\ Hosts \subseteq AllHosts
    /\ Set \subseteq Vars
    /\ Named \subseteq Vars /\ NamedOnWindows \subseteq Vars /\ Shaped \subseteq Vars
    /\ (Set \cup Kept) \cap (Named \cup NamedOnWindows) = {}
    /\ Kept \subseteq Vars \ Set
    /\ DevShell \subseteq Vars
    /\ HostRuns \in Nat
    /\ None \notin Traces \cup Exports

VARIABLES
    host,
    hostRun,        \* runs so far
    starter,        \* who runs the script
    hostStep,       \* its next step, or "idle", "done", "failed"
    env,            \* the shell's environment: "own", "neutral" or "unset"
    saved,          \* regenerate.ps1: savedEnv
    recordExit,     \* and recordExit
    hostTrace,      \* trace.ct: of which run, by whom, whole, and what it carries of the shell
    hostPortable,   \* trace-portable.ct: of which run's trace, whole
    failedAt,       \* history: the step at which the run ended,
    hostKilled,     \* whether it was killed,
    stuck,          \* whether a file could not be removed,
    began           \* and whether it began with files of one recording

hostFiles == <<hostTrace, hostPortable>>
hostVars == <<host, hostRun, starter, hostStep, env, saved, recordExit, hostFiles, failedAt, hostKilled,
              stuck, began>>

Linux == {"linux-x86_64", "linux-arm64"}

\* The steps of the script, behind "drop" in a job that drops its credentials.
Steps(h) ==
    CASE h \in Linux -> <<"compile", "find", "remove", "record", "export">>
      [] h = "macos" -> <<"compile", "remove", "generator", "record", "find", "export">>
      [] h = "windows" -> <<"compile", "find", "remove", "clear", "record", "restore", "export">>

After(h, s) ==
    IF s = Last(Steps(h)) THEN "done"
    ELSE Steps(h)[1 + CHOOSE k \in DOMAIN Steps(h) : Steps(h)[k] = s]

Advance == hostStep' = After(host, hostStep) /\ UNCHANGED failedAt
Fail == hostStep' = "failed" /\ failedAt' = hostStep

NoShell == [v \in Vars |-> "unset"]

HostInit ==
    /\ host \in Hosts
    /\ hostRun = 0 /\ starter = "person"
    /\ hostStep = "idle"
    /\ env = NoShell /\ saved = NoShell
    /\ recordExit = "none"
    /\ hostTrace = None /\ hostPortable = None
    /\ failedAt = "none" /\ hostKilled = FALSE /\ stuck = FALSE /\ began = TRUE

Idle == hostStep \in {"idle", "done", "failed"}

\* The trace and its export, where both are whole.
OneRecording ==
    hostTrace # None /\ hostPortable # None /\ hostTrace.whole /\ hostPortable.whole =>
        hostPortable.of = hostTrace.run

\* A job or a person starts the script, with whatever is set in the shell; there
\* is always a PATH.
HostStart ==
    /\ Idle
    /\ hostRun < HostRuns
    /\ hostRun' = hostRun + 1
    /\ env' \in [Vars -> {"own", "unset"}] /\ env'["PATH"] = "own"
    /\ starter' \in StartersOf(host)
    /\ hostStep' = IF starter' = "deviceJob" THEN "drop" ELSE "compile"
    /\ failedAt' = "none" /\ hostKilled' = FALSE /\ stuck' = FALSE
    /\ began' = OneRecording
    /\ saved' = NoShell /\ recordExit' = "none"
    /\ UNCHANGED <<host, hostFiles>>

Without(gone) == [v \in Vars |-> IF v \in gone THEN "unset" ELSE env[v]]

\* Bug for DropCredentials: a value that looks like a credential is let through.
DropNamed ==
    /\ hostStep = "drop"
    /\ env' = Without(IF host = "windows" THEN NamedOnWindows ELSE Named)
    /\ hostStep' = "compile"
    /\ UNCHANGED <<host, hostRun, starter, saved, recordExit, hostFiles, failedAt, hostKilled, stuck, began>>

\* The variables named like a credential go; in bash a value left that looks like
\* one ends the step.
DropCredentials ==
    /\ hostStep = "drop"
    /\ env' = Without(IF host = "windows" THEN NamedOnWindows ELSE Named)
    /\ IF host # "windows" /\ \E v \in Shaped : env'[v] # "unset"
       THEN Fail
       ELSE hostStep' = "compile" /\ UNCHANGED failedAt
    /\ UNCHANGED <<host, hostRun, starter, saved, recordExit, hostFiles, hostKilled, stuck, began>>

\* The compiler, the search for ct-mcr or its build, and the build of the fixture
\* generator touch neither file.  On Windows the step of the compiler begins with
\* Enter-VsDevShell, which sets variables that nobody puts back.
Build ==
    /\ hostStep \in {"compile", "find", "generator"}
    /\ LET entered == [v \in Vars |-> IF v \in DevShell THEN "own" ELSE env[v]]
       IN  IF host = "windows" /\ hostStep = "compile"
           THEN \/ env' = entered /\ (Advance \/ Fail)
                \/ env' = env /\ Fail
           ELSE env' = env /\ (Advance \/ Fail)
    /\ UNCHANGED <<host, hostRun, starter, saved, recordExit, hostFiles, hostKilled, stuck, began>>

\* On Windows a file in use stays, and nobody is told.
RemoveTrace ==
    /\ hostStep = "remove"
    /\ \/ hostTrace' = None /\ UNCHANGED stuck
       \/ host = "windows" /\ hostTrace # None /\ stuck' = TRUE /\ UNCHANGED hostTrace
    /\ Advance
    /\ UNCHANGED <<host, hostRun, starter, env, saved, recordExit, hostPortable, hostKilled, began>>

ClearEnvironment ==
    /\ hostStep = "clear"
    /\ saved' = env
    /\ env' = [v \in Vars |-> IF v \in Set THEN "neutral" ELSE IF v \in Kept THEN env[v] ELSE "unset"]
    /\ Advance
    /\ UNCHANGED <<host, hostRun, starter, recordExit, hostFiles, hostKilled, stuck, began>>

\* What the recorded program inherits: on Linux under `env -i', on Windows in the
\* cleared environment, on macOS what the shell has.
Inherited ==
    IF host \in Linux
    THEN [v \in Vars |-> IF v \in {"PATH", "LANG"} THEN "neutral"
                         ELSE IF v \in Kept THEN env[v] ELSE "unset"]
    ELSE env

Traced(whole) ==
    [run |-> hostRun, by |-> starter, whole |-> whole,
     carries |-> {v \in Vars \ Kept : Inherited[v] = "own"}]

\* The recorder writes the trace, or fails leaving what was there or part of one.
Record ==
    /\ hostStep = "record"
    /\ \/ hostTrace' = Traced(TRUE) /\ recordExit' = "zero" /\ Advance
       \/ /\ hostTrace' \in {hostTrace, Traced(FALSE)} /\ recordExit' = "nonzero"
          /\ IF host = "windows" THEN Advance ELSE Fail
    /\ UNCHANGED <<host, hostRun, starter, env, saved, hostPortable, hostKilled, stuck, began>>

\* Bug for Restore: what was not set before stays as the recording had it.
RestoreSet ==
    /\ hostStep = "restore"
    /\ env' = [v \in Vars |-> IF saved[v] # "unset" THEN saved[v] ELSE env[v]]
    /\ IF recordExit = "zero" THEN Advance ELSE Fail
    /\ UNCHANGED <<host, hostRun, starter, saved, recordExit, hostFiles, hostKilled, stuck, began>>

\* The `finally': what was set is set again, LANG and TEMP are unset if they were;
\* then the exit code is looked at.
Restore ==
    /\ hostStep = "restore"
    /\ env' = [v \in Vars |-> IF saved[v] # "unset" THEN saved[v]
                              ELSE IF v \in {"LANG", "TEMP"} THEN "unset" ELSE env[v]]
    /\ IF recordExit = "zero" THEN Advance ELSE Fail
    /\ UNCHANGED <<host, hostRun, starter, saved, recordExit, hostFiles, hostKilled, stuck, began>>

\* Bug for HostExport: the old export is left for the exporter to overwrite.
ExportOver ==
    /\ hostStep = "export"
    /\ \/ hostPortable' = [of |-> hostTrace.run, whole |-> TRUE] /\ Advance
       \/ hostPortable' \in {hostPortable, [of |-> hostTrace.run, whole |-> FALSE]} /\ Fail
    /\ UNCHANGED <<host, hostRun, starter, env, saved, recordExit, hostTrace, hostKilled, stuck, began>>

\* The old export goes first, or on Windows may stay when it is in use.
HostExport ==
    /\ hostStep = "export"
    /\ \E left \in {None} \cup IF host = "windows" THEN {hostPortable} ELSE {} :
        /\ stuck' = (stuck \/ left # None)
        /\ \/ hostPortable' = [of |-> hostTrace.run, whole |-> TRUE] /\ Advance
           \/ hostPortable' \in {left, [of |-> hostTrace.run, whole |-> FALSE]} /\ Fail
    /\ UNCHANGED <<host, hostRun, starter, env, saved, recordExit, hostTrace, hostKilled, began>>

\* The job is cancelled or the session closed at any step, and the shell is gone.
HostKill ==
    /\ ~Idle
    /\ Fail /\ hostKilled' = TRUE
    /\ IF hostStep = "record" THEN hostTrace' \in {hostTrace, Traced(FALSE)} ELSE UNCHANGED hostTrace
    /\ IF hostStep = "export"
       THEN hostPortable' \in {hostPortable, None, [of |-> hostTrace.run, whole |-> FALSE]}
       ELSE UNCHANGED hostPortable
    /\ env' = NoShell /\ saved' = NoShell /\ recordExit' = "none"
    /\ UNCHANGED <<host, hostRun, starter, stuck, began>>

HostNext ==
    \/ HostStart \/ DropCredentials \/ Build \/ RemoveTrace \/ ClearEnvironment \/ Record \/ Restore
    \/ HostExport \/ HostKill

HostSpec == HostInit /\ [][HostNext]_hostVars

-----------------------------------------------------------------------------
(* Properties. *)

\* Where a run leaves a new trace beside the old export, its export not begun: on
\* macOS when the search for ct-mcr fails, which there comes after the recording,
\* anywhere when it is killed between the two, on Windows also when the old export
\* could not be removed.
LeftOpen ==
    \/ host = "macos" /\ failedAt = "find"
    \/ hostKilled /\ failedAt \in {"restore", "export"}
    \/ host = "windows" /\ stuck

\* A script that ends well leaves a trace of this run and the export of that
\* trace, whatever it found.  One that does not leaves files of one recording where
\* it found such, but for the gap the scripts leave
\* (linux-x86_64/regenerate.sh:51-88, macos-arm64/regenerate.sh:54-87,
\* windows-x86_64/regenerate.ps1:85-137).
FilesAreOfOneRecording ==
    /\ hostStep = "done" =>
        /\ hostTrace.whole /\ hostTrace.run = hostRun
        /\ hostPortable = [of |-> hostRun, whole |-> TRUE]
    /\ Idle /\ began => OneRecording \/ LeftOpen

\* The scripts that record in the environment they were started in, by someone who
\* did not drop the credentials: by hand, or in the platform job of
\* regen-mcr-macos-arm64.yml (142-147).
Unprotected(t) == host = "macos" /\ t.by # "deviceJob"

\* No trace, whole or cut short and whoever made it, carries a variable named like a
\* credential or a value that looks like one, whether the job took it away or the
\* script cleared its environment, but for the unprotected ones on macOS
\* (drop-credentials.sh:1-39; linux-x86_64/regenerate.sh:74-82;
\* macos-arm64/regenerate.sh:62; windows-x86_64/regenerate.ps1:91-129).
CredentialsKeptOut ==
    hostTrace # None /\ ~Unprotected(hostTrace) =>
        hostTrace.carries \cap (Named \cup Shaped) = {}

\* However the recording ends, the shell, unless it is killed, has the environment
\* back that it had before: the exporter, and whatever runs after the script in the
\* same session, find what they would have found had it not been cleared
\* (regenerate.ps1:91-95, 112-129).
EnvironmentIsRestored ==
    host = "windows" /\ ~hostKilled /\ (hostStep \in {"export", "done"} \/ failedAt \in {"restore", "export"}) =>
        env = saved

-----------------------------------------------------------------------------
(* The inductive invariant. *)

HostTypeOK ==
    /\ host \in Hosts
    /\ hostRun \in 0 .. HostRuns
    /\ starter \in StartersOf(host)
    /\ hostStep \in {"idle", "done", "failed", "drop"} \cup ToSet(Steps(host))
    /\ env \in Envs /\ saved \in Envs
    /\ hostTrace \in Traces \cup {None} /\ hostPortable \in Exports \cup {None}
    /\ stuck \in BOOLEAN

\* The run has recorded its trace, and not yet ended.
Recorded ==
    \/ hostStep = "export"
    \/ host = "macos" /\ hostStep = "find"
    \/ hostStep = "restore" /\ recordExit = "zero"

\* A run has not failed before it ends.  The trace is of no later run; once recorded it is this run's, before that the
\* files are of one recording if they were.
FilesInv ==
    /\ ~Idle => hostRun > 0 /\ failedAt = "none" /\ ~hostKilled
    /\ hostTrace # None => hostTrace.run <= hostRun
    /\ Recorded => hostTrace # None /\ hostTrace.whole /\ hostTrace.run = hostRun
    /\ ~Idle /\ ~Recorded /\ began => OneRecording

\* The shell's environment: without credentials once they are dropped, on Windows
\* cleared while the recording is made.
EnvironmentInv ==
    /\ host = "windows" /\ ~Idle /\ hostStep \notin {"record", "restore"} => env["PATH"] = "own"
    /\ starter = "deviceJob" /\ host # "windows" /\ ~Idle /\ hostStep # "drop" =>
        \A v \in Named \cup Shaped : env[v] # "own"
    /\ host = "windows" /\ hostStep \in {"record", "restore"} =>
        /\ saved["PATH"] = "own"
        /\ env = [v \in Vars |-> IF v \in Set THEN "neutral"
                                 ELSE IF v \in Kept THEN saved[v] ELSE "unset"]

HostInv ==
    /\ HostTypeOK /\ FilesInv /\ EnvironmentInv
    /\ FilesAreOfOneRecording /\ CredentialsKeptOut /\ EnvironmentIsRestored

-----------------------------------------------------------------------------
\* What drop-credentials.sh:15-16 says of the scripts: they record under `env -i'.
RecordsInEmptyEnvironment ==
    hostTrace # None => hostTrace.carries = {}
=============================================================================
