----------------------- MODULE RegenerationScriptsProofs -----------------------
(***************************************************************************)
(* Proofs about the scripts that regenerate recordings: DeviceFixture for  *)
(* any number of runs, messages and looks of the wait loop, HostFixture    *)
(* for any hosts, environment variables and number of runs.                *)
(***************************************************************************)
EXTENDS DeviceFixture, HostFixture, SequenceTheorems, TLAPS

-----------------------------------------------------------------------------
(* DeviceFixture. *)

Trace == [run : Runs, messages : 0..NumMessages]

LEMMA Constants ==
    /\ NumMessages \in Nat /\ WaitLimit \in Nat \ {0} /\ MaxRuns \in Nat \ {0}
    /\ Binary # Helper /\ Binary # Program /\ Helper # Program
    /\ NoFile \in Trace
    /\ Binary \in Names /\ Helper \in Names /\ Program \in Names
BY FixtureAssumption DEF NoFile, Runs, Trace, Names

\* What a receiver that does not end by itself leaves in trace.ct is what was
\* there before, or a recording of this run.
LEMMA LeftoverIsRecent ==
    ASSUME FixtureInv, NEW t \in Leftover
    PROVE  t \in Trace /\ (t = trace \/ t.run = run)
<1>1. Len(recorded) \in 0..NumMessages
    BY Constants, LenProperties DEF FixtureInv, TypeOK
<1>2. CASE t = trace
    BY <1>2 DEF FixtureInv, TypeOK, Trace
<1>3. CASE t = [run |-> run, messages |-> Len(recorded)]
    BY <1>1, <1>3 DEF FixtureInv, TypeOK, Trace
<1>. QED
    BY <1>2, <1>3 DEF Leftover

\* Leaving the script with an error, at once or through the trap's wait, preserves
\* the invariant.
LEMMA ExitPreserves ==
    ASSUME FixtureInv, step \notin {"exited", "cleanup", "reap"},
           Exit("error"),
           UNCHANGED <<handed, recorded, client, trace>>,
           seconds' \in 0..(WaitLimit - 1),
           portable' \in Trace, dir' \in [Names -> Runs]
    PROVE  FixtureInv'
<1>. USE DEF FixtureInv, Exit
<1>1. TypeOK'
    BY DEF TypeOK, Trace
<1>2. receiver # "signalled"
    OBVIOUS
<1>3. CASE receiver = "up" /\ receiver' = "signalled" /\ step' = "cleanup"
    BY <1>1, <1>3 DEF SuccessLeavesFreshFixture, Recording, Collected, Running
<1>4. CASE receiver # "up" /\ UNCHANGED receiver /\ step' = "exited"
    BY <1>1, <1>2, <1>4 DEF SuccessLeavesFreshFixture, Recording, Collected, Running
<1>. QED
    BY <1>3, <1>4

LEMMA InitEstablishes == Init => FixtureInv
<1>. SUFFICES ASSUME Init PROVE FixtureInv
    OBVIOUS
<1>1. TypeOK
    BY Constants, EmptySeq DEF Init, TypeOK, Runs, Trace
<1>. QED
    BY <1>1, EmptySeq DEF Init, FixtureInv, SuccessLeavesFreshFixture, Recording, Collected, Running

LEMMA NextPreserves == FixtureInv /\ [Next]_vars => FixtureInv'
<1>. SUFFICES ASSUME FixtureInv, [Next]_vars
              PROVE  FixtureInv'
    OBVIOUS
<1>. USE Constants DEF FixtureInv, Recording, Collected, SuccessLeavesFreshFixture, Running
<1>1. CASE Start
    <2>1. Runs = 0..MaxRuns /\ run' = run + 1 /\ run' \in Runs
        BY <1>1 DEF Start, TypeOK, Runs
    <2>2. TypeOK'
        BY <1>1, <2>1, EmptySeq DEF Start, TypeOK, files
    <2>. QED
        BY <1>1, <2>2, EmptySeq DEF Start, files
<1>2. CASE Compile
    <2>1. TypeOK'
        BY <1>2 DEF Compile, Goto, TypeOK, transfer
    <2>. QED
        BY <1>2, <2>1 DEF Compile, Goto, TypeOK, transfer
<1>3. CASE BuildHelper
    <2>1. TypeOK'
        BY <1>3 DEF BuildHelper, Goto, TypeOK, transfer
    <2>. QED
        BY <1>3, <2>1 DEF BuildHelper, Goto, TypeOK, transfer
<1>4. CASE Listen
    <2>1. TypeOK'
        BY <1>4 DEF Listen, Goto, TypeOK, transfer, Trace
    <2>. QED
        BY <1>4, <2>1 DEF Listen, Goto, transfer
<1>5. CASE CheckAlive
    <2>1. CASE receiver = "up" /\ Goto("push") /\ UNCHANGED <<receiver, trace>>
        <3>1. TypeOK'
            BY <1>5, <2>1 DEF CheckAlive, Goto, TypeOK, transfer
        <3>. QED
            BY <1>5, <2>1, <3>1 DEF CheckAlive, Goto, transfer
    <2>2. CASE Exit("error") /\ UNCHANGED trace
        BY <1>5, <2>2, ExitPreserves DEF CheckAlive, transfer, TypeOK, Trace
    <2>. QED
        BY <1>5, <2>1, <2>2 DEF CheckAlive
<1>6. CASE RunClient
    <2>1. TypeOK'
        BY <1>6 DEF RunClient, Goto, TypeOK, files
    <2>. QED
        BY <1>6, <2>1 DEF RunClient, Goto, files
<1>7. CASE ClientEnded
    <2>1. CASE client = "done" /\ Goto("wait") /\ seconds' = 0 /\ UNCHANGED <<receiver, trace>>
        <3>1. TypeOK'
            BY <1>7, <2>1 DEF ClientEnded, Goto, TypeOK, transfer
        <3>. QED
            BY <1>7, <2>1, <3>1 DEF ClientEnded, Goto, transfer
    <2>2. CASE Exit("error") /\ UNCHANGED <<seconds, trace>>
        BY <1>7, <2>2, ExitPreserves DEF ClientEnded, transfer, TypeOK, Trace
    <2>. QED
        BY <1>7, <2>1, <2>2 DEF ClientEnded
<1>8. CASE Waited
    <2>1. TypeOK'
        BY <1>8 DEF Waited, Goto, TypeOK, files, transfer
    <2>. QED
        BY <1>8, <2>1 DEF Waited, Goto, files, transfer
<1>9. CASE WaitMore
    <2>1. seconds' \in 0..(WaitLimit - 1)
        BY <1>9 DEF WaitMore, TypeOK
    <2>2. TypeOK'
        BY <1>9, <2>1 DEF WaitMore, TypeOK, files, transfer
    <2>. QED
        BY <1>9, <2>2 DEF WaitMore, files, transfer
<1>10. CASE LastLook
    <2>1. TypeOK'
        BY <1>10 DEF LastLook, Goto, TypeOK, transfer, files
    <2>. QED
        BY <1>10, <2>1 DEF LastLook, Goto, transfer, files
<1>11. CASE Collect
    <2>1. dir' \in [Names -> Runs] /\ dir'[Binary] = dir[Binary] /\ dir'[Helper] = 0
        BY <1>11 DEF Collect, TypeOK, Runs
    <2>2. CASE trace # NoFile /\ Goto("info") /\ UNCHANGED receiver
        <3>1. TypeOK'
            BY <1>11, <2>1, <2>2 DEF Collect, Goto, TypeOK, transfer
        <3>. QED
            BY <1>11, <2>1, <2>2, <3>1 DEF Collect, Goto, transfer
    <2>3. CASE Exit("error")
        BY <1>11, <2>1, <2>3, ExitPreserves DEF Collect, transfer, TypeOK, Trace
    <2>. QED
        BY <1>11, <2>2, <2>3 DEF Collect
<1>12. CASE PrepareExport
    <2>1. dir' \in [Names -> Runs] /\ dir'[Binary] = dir[Binary] /\ dir'[Helper] = dir[Helper]
        BY <1>12 DEF PrepareExport, TypeOK
    <2>2. TypeOK'
        BY <1>12, <2>1 DEF PrepareExport, Goto, TypeOK, transfer, Trace
    <2>. QED
        BY <1>12, <2>1, <2>2 DEF PrepareExport, Goto, transfer
<1>13. CASE Export
    <2>1. /\ dir' \in [Names -> Runs]
          /\ dir'[Binary] = dir[Binary] /\ dir'[Helper] = dir[Helper] /\ dir'[Program] = 0
        BY <1>13 DEF Export, TypeOK, Runs
    <2>2. ~Running /\ step' = "exited" /\ receiver' = receiver
        BY <1>13 DEF Export, Exit
    <2>3. TypeOK'
        BY <1>13, <2>1, <2>2 DEF Export, Exit, TypeOK, transfer
    <2>. QED
        BY <1>13, <2>1, <2>2, <2>3 DEF Export, Exit, transfer
<1>14. CASE Fails
    <2>1. portable' \in Trace
        BY <1>14 DEF Fails, TypeOK, Trace
    <2>2. dir' \in [Names -> Runs]
        <3>1. dir \in [Names -> Runs] /\ 0 \in Runs
            BY DEF TypeOK, Runs
        <3>2. [dir EXCEPT ![Binary] = 0] \in [Names -> Runs]
            BY <3>1
        <3>. QED
            BY <1>14, <3>1, <3>2 DEF Fails
    <2>. QED
        BY <1>14, <2>1, <2>2, ExitPreserves DEF Fails, transfer, TypeOK
<1>15. CASE Killed
    <2>1. trace' \in Trace
        BY <1>15, LeftoverIsRecent DEF Killed, TypeOK, Trace
    <2>2. TypeOK'
        BY <1>15, <2>1 DEF Killed, TypeOK, Trace
    <2>. QED
        BY <1>15, <2>2 DEF Killed
<1>16. CASE ClientStep
    <2>1. handed' \in 0..NumMessages /\ handed' >= handed /\ recorded' = recorded
        BY <1>16 DEF ClientStep, TypeOK, Transfer!HandOver, Transfer!Succeed, Transfer!GiveUp
    <2>2. client' \in {"running", "done", "failed"}
        BY <1>16 DEF ClientStep, TypeOK, Transfer!HandOver, Transfer!Succeed, Transfer!GiveUp
    <2>3. TypeOK'
        BY <1>16, <2>1, <2>2 DEF ClientStep, TypeOK, files, script
    <2>4. Len(recorded') <= handed'
        BY <2>1, LenProperties DEF TypeOK
    <2>. QED
        BY <1>16, <2>3, <2>4 DEF ClientStep, files, script
<1>17. CASE ReceiverRecords
    <2>1. /\ Len(recorded) < handed /\ handed' = handed /\ client' = client
          /\ recorded' = Append(recorded, Len(recorded) + 1)
        BY <1>17 DEF ReceiverRecords, Transfer!Record
    <2>2. /\ Len(recorded) \in Nat /\ handed \in Nat /\ Len(recorded) + 1 \in 1..NumMessages
          /\ recorded \in Seq(1..NumMessages)
        BY <2>1, LenProperties DEF TypeOK
    <2>3. recorded' \in Seq(1..NumMessages) /\ Len(recorded') = Len(recorded) + 1
        BY <2>1, <2>2, AppendProperties
    <2>4. TypeOK'
        BY <1>17, <2>1, <2>3 DEF ReceiverRecords, TypeOK, files, script
    <2>. QED
        BY <1>17, <2>1, <2>2, <2>3, <2>4 DEF ReceiverRecords, files, script
<1>18. CASE ReceiverEnds
    <2>1. TypeOK'
        BY <1>18 DEF ReceiverEnds, TypeOK, transfer, script
    <2>. QED
        BY <1>18, <2>1 DEF ReceiverEnds, transfer, script
<1>19. CASE ReceiverDies
    <2>1. trace' \in Trace /\ (trace' = trace \/ trace'.run = run)
        BY <1>19, LeftoverIsRecent DEF ReceiverDies
    <2>2. TypeOK'
        BY <1>19, <2>1 DEF ReceiverDies, TypeOK, transfer, script, Trace
    <2>. QED
        BY <1>19, <2>1, <2>2 DEF ReceiverDies, transfer, script
<1>20. CASE UNCHANGED vars
    BY <1>20 DEF vars, script, transfer, files, TypeOK
<1>21. CASE Reap
    <2>1. TypeOK'
        BY <1>21 DEF Reap, Goto, TypeOK, files, transfer
    <2>. QED
        BY <1>21, <2>1 DEF Reap, Goto, files, transfer
<1>22. CASE CleanedUp
    <2>1. TypeOK'
        BY <1>22 DEF CleanedUp, TypeOK, files, transfer
    <2>. QED
        BY <1>22, <2>1 DEF CleanedUp, files, transfer
<1>. QED
    BY <1>1, <1>2, <1>3, <1>4, <1>5, <1>6, <1>7, <1>8, <1>9, <1>10, <1>11, <1>12, <1>13,
       <1>14, <1>15, <1>16, <1>17, <1>18, <1>19, <1>20, <1>21, <1>22 DEF Next, Script

-----------------------------------------------------------------------------
\* The strengthening is an invariant of the specification.
THEOREM FixtureInvariant == Spec => []FixtureInv
<1>. QED
    BY InitEstablishes, NextPreserves, PTL DEF Spec

\* Success means the fixture of this run, whatever failed, timed out or was
\* killed before (mcr/android-arm64/regenerate.sh).
THEOREM SuccessIsFresh == Spec => []SuccessLeavesFreshFixture
<1>1. FixtureInv => SuccessLeavesFreshFixture
    BY DEF FixtureInv
<1>. QED
    BY <1>1, FixtureInvariant, PTL

\* No run leaves its receiver behind, one slow to end on the signal included.
THEOREM ReceiverNeverLeft == Spec => []NoReceiverLeft
<1>1. FixtureInv => NoReceiverLeft
    BY DEF FixtureInv, NoReceiverLeft, Recording, Running
<1>. QED
    BY <1>1, FixtureInvariant, PTL

\* The last export is touched only by a run that has a trace of its own.
THEOREM ExportIsKept == Spec => ExportKeptUntilRecorded
<1>1. FixtureInv /\ [Next]_vars => [portable' # portable => trace.run = run]_vars
    <2>. SUFFICES ASSUME FixtureInv, Next, portable' # portable
                  PROVE  trace.run = run
        OBVIOUS
    <2>1. step \in Collected => trace.run = run
        BY DEF FixtureInv
    <2>2. PrepareExport \/ Export \/ Fails
        BY DEF Next, Script, vars, files, Start, Compile, BuildHelper, Listen, CheckAlive, RunClient,
               ClientEnded, Waited, WaitMore, LastLook, Reap, CleanedUp, Collect, Killed, ClientStep,
               ReceiverRecords, ReceiverEnds, ReceiverDies
    <2>3. step \in Collected
        BY <2>2 DEF PrepareExport, Export, Fails, Collected
    <2>. QED
        BY <2>1, <2>3
<1>. QED
    BY <1>1, FixtureInvariant, PTL DEF Spec, ExportKeptUntilRecorded

-----------------------------------------------------------------------------
(* HostFixture. *)

\* The steps of a script by name, and what follows each.
LEMMA StepsOf ==
    /\ \A h \in Linux : ToSet(Steps(h)) = {"compile", "find", "remove", "record", "export"}
    /\ ToSet(Steps("macos")) = {"compile", "remove", "generator", "record", "find", "export"}
    /\ ToSet(Steps("windows")) =
        {"compile", "find", "remove", "clear", "record", "restore", "export"}
BY DEF Steps, ToSet, Linux

LEMMA AfterLinux ==
    ASSUME NEW h \in Linux
    PROVE  /\ After(h, "compile") = "find" /\ After(h, "find") = "remove"
           /\ After(h, "remove") = "record" /\ After(h, "record") = "export"
           /\ After(h, "export") = "done"
<1> DEFINE s == <<"compile", "find", "remove", "record", "export">>
<1>1. Steps(h) = s
  BY DEF Steps, Linux
<1>2. DOMAIN s = 1 .. 5 /\ Last(s) = "export"
  BY DEF Last
<1>3. \A k \in 1 .. 4 : (CHOOSE l \in DOMAIN s : s[l] = s[k]) = k
  BY <1>2
<1> QED BY <1>1, <1>2, <1>3 DEF After

LEMMA AfterMac ==
    /\ After("macos", "compile") = "remove" /\ After("macos", "remove") = "generator"
    /\ After("macos", "generator") = "record" /\ After("macos", "record") = "find"
    /\ After("macos", "find") = "export" /\ After("macos", "export") = "done"
<1> DEFINE s == <<"compile", "remove", "generator", "record", "find", "export">>
<1>1. Steps("macos") = s
  BY DEF Steps, Linux
<1>2. DOMAIN s = 1 .. 6 /\ Last(s) = "export"
  BY DEF Last
<1>3. \A k \in 1 .. 5 : (CHOOSE l \in DOMAIN s : s[l] = s[k]) = k
  BY <1>2
<1> QED BY <1>1, <1>2, <1>3 DEF After

LEMMA AfterWindows ==
    /\ After("windows", "compile") = "find" /\ After("windows", "find") = "remove"
    /\ After("windows", "remove") = "clear" /\ After("windows", "clear") = "record"
    /\ After("windows", "record") = "restore" /\ After("windows", "restore") = "export"
    /\ After("windows", "export") = "done"
<1> DEFINE s == <<"compile", "find", "remove", "clear", "record", "restore", "export">>
<1>1. Steps("windows") = s
  BY DEF Steps, Linux
<1>2. DOMAIN s = 1 .. 7 /\ Last(s) = "export"
  BY DEF Last
<1>3. \A k \in 1 .. 6 : (CHOOSE l \in DOMAIN s : s[l] = s[k]) = k
  BY <1>2
<1> QED BY <1>1, <1>2, <1>3 DEF After

\* A host is one of three kinds.
LEMMA HostKinds ==
    ASSUME HostTypeOK
    PROVE  \/ host \in Linux /\ host # "macos" /\ host # "windows"
           \/ host = "macos" /\ host \notin Linux
           \/ host = "windows" /\ host \notin Linux
BY HostAssumption DEF HostTypeOK, AllHosts, Linux

\* The script's own steps, and the step behind each.
LEMMA StepHasSuccessor ==
    ASSUME HostTypeOK, hostStep \in ToSet(Steps(host))
    PROVE  After(host, hostStep) \in ToSet(Steps(host)) \cup {"done"}
<1>1. CASE host \in Linux
  BY <1>1, StepsOf, AfterLinux
<1>2. CASE host = "macos"
  BY <1>2, StepsOf, AfterMac
<1>3. CASE host = "windows"
  BY <1>3, StepsOf, AfterWindows
<1> QED BY <1>1, <1>2, <1>3, HostKinds

LEMMA HostInitEstablishes == HostInit => HostInv
<1> SUFFICES ASSUME HostInit PROVE HostInv
  OBVIOUS
<1> USE DEF HostInit
<1>1. HostTypeOK
  <2>1. hostRun \in 0 .. HostRuns
    BY HostAssumption
  <2>2. env \in Envs /\ saved \in Envs
    BY DEF Envs, NoShell
  <2>3. starter \in StartersOf(host)
    BY HostAssumption DEF StartersOf, Starters, AllHosts
  <2> QED BY <2>1, <2>2, <2>3 DEF HostTypeOK
<1>2. FilesInv /\ EnvironmentInv
  BY DEF FilesInv, EnvironmentInv, Idle, Recorded
<1>3. FilesAreOfOneRecording /\ CredentialsKeptOut /\ EnvironmentIsRestored
  BY DEF FilesAreOfOneRecording, CredentialsKeptOut, EnvironmentIsRestored, OneRecording
<1> QED BY <1>1, <1>2, <1>3 DEF HostInv

LEMMA HostStartPreserves == ASSUME HostInv, HostStart PROVE HostInv'
<1> USE DEF HostInv, HostStart, hostFiles, Idle
<1>1. HostTypeOK'
  <2>1. hostStep' \in {"drop"} \cup ToSet(Steps(host'))
    BY StepsOf, HostKinds
  <2>2. hostRun' \in 0 .. HostRuns
    BY HostAssumption DEF HostTypeOK
  <2>3. env' \in Envs /\ saved' \in Envs
    BY DEF Envs, NoShell
  <2> QED BY <2>1, <2>2, <2>3 DEF HostTypeOK
<1>2. hostTrace # None => hostTrace.run \in Nat /\ hostTrace.run < hostRun'
  BY HostAssumption DEF FilesInv, HostTypeOK, Traces
<1>3. OneRecording' <=> OneRecording
  BY DEF OneRecording
<1>4. hostStep' \in {"drop", "compile"} /\ hostRun' > 0 /\ env'["PATH"] = "own" /\ starter' \in StartersOf(host)
  BY HostAssumption DEF HostTypeOK
<1>5. FilesInv'
  BY <1>2, <1>3, <1>4 DEF FilesInv, Recorded
<1>6. EnvironmentInv'
  BY <1>4 DEF EnvironmentInv
<1>7. FilesAreOfOneRecording' /\ EnvironmentIsRestored'
  BY <1>4 DEF FilesAreOfOneRecording, EnvironmentIsRestored, FilesInv
<1>8. CredentialsKeptOut'
  BY <1>2 DEF CredentialsKeptOut, Unprotected
<1> QED BY <1>1, <1>5, <1>6, <1>7, <1>8

LEMMA DropPreserves == ASSUME HostInv, DropCredentials PROVE HostInv'
<1> USE HostAssumption DEF HostInv, DropCredentials, hostFiles, Idle, Fail
<1>1. HostTypeOK'
  <2>1. hostStep' \in {"failed"} \cup ToSet(Steps(host))
    BY StepsOf, HostKinds
  <2> QED BY <2>1 DEF HostTypeOK, Envs, Without
<1>2. FilesInv'
  BY DEF FilesInv, Recorded, OneRecording
<1>3. EnvironmentInv'
  <2>1. env' \in Envs /\ (host = "windows" => env["PATH"] = "own")
    BY <1>1 DEF EnvironmentInv, HostTypeOK
  <2>2. host = "windows" => env'["PATH"] = "own"
    BY <2>1 DEF Without, Set
  <2>3. host # "windows" /\ hostStep' = "compile" => \A v \in Named \cup Shaped : env'[v] # "own"
    BY <2>1 DEF Without
  <2> QED BY <2>2, <2>3 DEF EnvironmentInv
<1>4. FilesAreOfOneRecording' /\ EnvironmentIsRestored'
  <2>1. began' => OneRecording'
    BY DEF FilesInv, Recorded, OneRecording
  <2> QED BY <2>1 DEF FilesAreOfOneRecording, EnvironmentIsRestored, FilesInv
<1>5. CredentialsKeptOut'
  BY DEF CredentialsKeptOut, Unprotected
<1> QED BY <1>1, <1>2, <1>3, <1>4, <1>5

LEMMA BuildPreserves == ASSUME HostInv, Build PROVE HostInv'
<1> USE HostAssumption DEF HostInv, Build, hostFiles, Idle, Fail, Advance
<1>1. HostTypeOK'
  <2>1. hostStep \in ToSet(Steps(host))
    BY DEF HostTypeOK
  <2>2. hostStep' \in ToSet(Steps(host)) \cup {"done", "failed"}
    BY <2>1, StepHasSuccessor
  <2>3. env' \in Envs
    BY DEF HostTypeOK, Envs
  <2> QED BY <2>2, <2>3 DEF HostTypeOK
<1>2. /\ hostStep' \notin {"idle", "done", "drop", "restore"}
      /\ Recorded <=> host = "macos" /\ hostStep = "find"
      /\ hostStep' # "failed" => failedAt' = "none" /\ (Recorded' <=> Recorded)
      /\ hostStep' = "failed" => failedAt' = hostStep /\ ~Recorded'
      /\ hostStep' \in {"record", "export"} => host # "windows"
  <2>1. hostStep \in ToSet(Steps(host))
    BY DEF HostTypeOK
  <2>2. CASE host \in Linux
    BY <2>1, <2>2, StepsOf, AfterLinux, HostKinds DEF Recorded, FilesInv
  <2>3. CASE host = "macos"
    BY <2>1, <2>3, StepsOf, AfterMac, HostKinds DEF Recorded, FilesInv
  <2>4. CASE host = "windows"
    BY <2>1, <2>4, StepsOf, AfterWindows, HostKinds DEF Recorded, FilesInv
  <2> QED BY <2>2, <2>3, <2>4, HostKinds
<1>3. OneRecording' <=> OneRecording
  BY DEF OneRecording
<1>4. FilesInv'
  BY <1>2, <1>3 DEF FilesInv
<1>5. EnvironmentInv'
  <2>1. CASE host = "windows"
    <3>1. env["PATH"] = "own" /\ env'["PATH"] = "own"
      <4>1. env["PATH"] = "own"
        BY <2>1 DEF EnvironmentInv
      <4>2. "PATH" \in Vars
        BY DEF Set
      <4> QED BY <4>1, <4>2
    <3> QED BY <1>2, <2>1, <3>1 DEF EnvironmentInv
  <2>2. CASE host # "windows"
    BY <1>2, <2>2 DEF EnvironmentInv
  <2> QED BY <2>1, <2>2
<1>6. FilesAreOfOneRecording'
  <2>1. CASE host = "macos" /\ hostStep = "find" /\ hostStep' = "failed"
    BY <2>1, <1>2 DEF FilesAreOfOneRecording, LeftOpen
  <2>2. CASE ~(host = "macos" /\ hostStep = "find") /\ hostStep' = "failed"
    BY <2>2, <1>2, <1>3 DEF FilesAreOfOneRecording, FilesInv, LeftOpen
  <2>3. CASE hostStep' # "failed"
    <3>1. hostStep' \notin {"idle", "done", "failed"}
      BY <2>3, <1>2
    <3> QED BY <3>1 DEF FilesAreOfOneRecording
  <2> QED BY <2>1, <2>2, <2>3
<1>7. EnvironmentIsRestored'
  BY <1>2 DEF EnvironmentIsRestored
<1>8. CredentialsKeptOut'
  BY DEF CredentialsKeptOut, Unprotected
<1> QED BY <1>1, <1>4, <1>5, <1>6, <1>7, <1>8

LEMMA RemoveTracePreserves == ASSUME HostInv, RemoveTrace PROVE HostInv'
<1> USE HostAssumption DEF HostInv, RemoveTrace, hostFiles, Idle, Advance
<1>1. /\ hostStep' \in {"record", "generator", "clear"} /\ hostStep' \in ToSet(Steps(host))
      /\ hostStep' = "record" => host # "windows"
      /\ ~Recorded /\ ~Recorded' /\ failedAt' = "none"
  <2>1. CASE host \in Linux
    BY <2>1, StepsOf, AfterLinux, HostKinds DEF Recorded, FilesInv
  <2>2. CASE host = "macos"
    BY <2>2, StepsOf, AfterMac, HostKinds DEF Recorded, FilesInv
  <2>3. CASE host = "windows"
    BY <2>3, StepsOf, AfterWindows, HostKinds DEF Recorded, FilesInv
  <2> QED BY <2>1, <2>2, <2>3, HostKinds
<1>2. HostTypeOK'
  BY <1>1 DEF HostTypeOK
<1>3. FilesInv'
  BY <1>1 DEF FilesInv, OneRecording
<1>4. EnvironmentInv'
  BY <1>1 DEF EnvironmentInv
<1>5. FilesAreOfOneRecording' /\ EnvironmentIsRestored'
  BY <1>1 DEF FilesAreOfOneRecording, EnvironmentIsRestored
<1>6. CredentialsKeptOut'
  BY DEF CredentialsKeptOut, Unprotected
<1> QED BY <1>2, <1>3, <1>4, <1>5, <1>6

LEMMA ClearEnvironmentPreserves == ASSUME HostInv, ClearEnvironment PROVE HostInv'
<1> USE HostAssumption DEF HostInv, ClearEnvironment, hostFiles, Idle, Advance
<1>1. /\ host = "windows" /\ hostStep' = "record" /\ hostStep' \in ToSet(Steps(host))
      /\ ~Recorded /\ ~Recorded' /\ failedAt' = "none"
  BY StepsOf, AfterWindows, HostKinds DEF Recorded, FilesInv, HostTypeOK
<1>2. HostTypeOK'
  <2>1. env' \in Envs
    BY DEF Envs, HostTypeOK
  <2> QED BY <1>1, <2>1 DEF HostTypeOK
<1>3. FilesInv'
  BY <1>1 DEF FilesInv, OneRecording
<1>4. EnvironmentInv'
  BY <1>1 DEF EnvironmentInv
<1>5. FilesAreOfOneRecording' /\ EnvironmentIsRestored'
  BY <1>1 DEF FilesAreOfOneRecording, EnvironmentIsRestored
<1>6. CredentialsKeptOut'
  BY DEF CredentialsKeptOut, Unprotected
<1> QED BY <1>2, <1>3, <1>4, <1>5, <1>6

\* What a protected recording inherits: nothing that is a credential, whichever layer
\* keeps it out.
LEMMA InheritedIsClean ==
    ASSUME HostInv, hostStep = "record", host # "macos" \/ starter = "deviceJob"
    PROVE  \A v \in Named \cup (Shaped \ Kept) : Inherited[v] # "own"
<1> USE HostAssumption DEF HostInv, Envs, EnvironmentInv, Idle
<1>1. CASE host \in Linux
  BY <1>1, HostKinds DEF Inherited, HostTypeOK, Set
<1>2. CASE host = "macos"
  BY <1>2, HostKinds DEF Inherited, HostTypeOK
<1>3. CASE host = "windows"
  BY <1>3, HostKinds DEF Inherited, HostTypeOK
<1> QED BY <1>1, <1>2, <1>3, HostKinds

\* A trace of this run is a trace.
LEMMA TracedType ==
    ASSUME HostInv, hostStep = "record", NEW w \in BOOLEAN
    PROVE  Traced(w) \in Traces /\ Traced(w) # None
<1>1. hostRun \in 1 .. HostRuns /\ starter \in Starters
  <2>1. \A h \in AllHosts : StartersOf(h) \subseteq Starters
    BY DEF StartersOf, Starters, AllHosts
  <2> QED BY <2>1, HostAssumption DEF HostInv, HostTypeOK, FilesInv, Idle
<1>2. {v \in Vars \ Kept : Inherited[v] = "own"} \in SUBSET (Vars \ Kept)
  OBVIOUS
<1> QED BY <1>1, <1>2, HostAssumption DEF Traced, Traces

\* And no credential, unless nobody took it away.
LEMMA TracedIsClean ==
    ASSUME HostInv, hostStep = "record", NEW w \in BOOLEAN, ~Unprotected(Traced(w))
    PROVE  Traced(w).carries \cap (Named \cup Shaped) = {}
<1>1. host # "macos" \/ starter = "deviceJob"
  BY DEF Unprotected, Traced
<1>2. Traced(w).carries = {v \in Vars \ Kept : Inherited[v] = "own"}
  BY DEF Traced
<1> QED BY <1>1, <1>2, InheritedIsClean

LEMMA RecordPreserves == ASSUME HostInv, Record PROVE HostInv'
<1> USE HostAssumption DEF HostInv, Record, hostFiles, Idle
<1>1. CASE hostTrace' = Traced(TRUE) /\ recordExit' = "zero" /\ Advance
  <2>1. /\ hostStep' \in {"export", "find", "restore"} /\ hostStep' \in ToSet(Steps(host))
        /\ host = "windows" <=> hostStep' = "restore"
        /\ Recorded' /\ failedAt' = "none"
    <3>1. CASE host \in Linux
      BY <1>1, <3>1, StepsOf, AfterLinux, HostKinds DEF Recorded, FilesInv, Advance
    <3>2. CASE host = "macos"
      BY <1>1, <3>2, StepsOf, AfterMac, HostKinds DEF Recorded, FilesInv, Advance
    <3>3. CASE host = "windows"
      BY <1>1, <3>3, StepsOf, AfterWindows, HostKinds DEF Recorded, FilesInv, Advance
    <3> QED BY <3>1, <3>2, <3>3, HostKinds
  <2>2. HostTypeOK'
    BY <1>1, <2>1, TracedType DEF HostTypeOK
  <2>3. FilesInv'
    <3>1. hostRun \in Nat
      BY DEF HostTypeOK
    <3>2. hostTrace'.run = hostRun' /\ hostTrace'.whole /\ hostTrace' # None
      BY <1>1, TracedType DEF Traced
    <3>3. hostRun' > 0
      BY DEF FilesInv
    <3> QED BY <2>1, <3>1, <3>2, <3>3 DEF FilesInv
  <2>4. EnvironmentInv'
    BY <2>1 DEF EnvironmentInv
  <2>5. FilesAreOfOneRecording' /\ EnvironmentIsRestored'
    BY <2>1 DEF FilesAreOfOneRecording, EnvironmentIsRestored
  <2>6. CredentialsKeptOut'
    BY <1>1, TracedIsClean DEF CredentialsKeptOut, Unprotected
  <2> QED BY <2>2, <2>3, <2>4, <2>5, <2>6
<1>2. CASE /\ hostTrace' \in {hostTrace, Traced(FALSE)} /\ recordExit' = "nonzero"
           /\ IF host = "windows" THEN Advance ELSE Fail
  <2>1. /\ \/ hostStep' = "failed" /\ failedAt' = "record" /\ host # "windows"
           \/ hostStep' = "restore" /\ failedAt' = "none" /\ host = "windows"
        /\ hostStep' \in {"failed"} \cup ToSet(Steps(host))
        /\ ~Recorded /\ ~Recorded'
    BY <1>2, StepsOf, AfterWindows, HostKinds DEF Recorded, FilesInv, Advance, Fail
  <2>2. HostTypeOK'
    BY <1>2, <2>1, TracedType DEF HostTypeOK
  <2>3. hostTrace' = hostTrace \/ (~hostTrace'.whole /\ hostTrace'.run = hostRun)
    <3>1. CASE hostTrace' = hostTrace
      BY <3>1
    <3>2. CASE hostTrace' = [run |-> hostRun, whole |-> FALSE, env |-> Inherited]
      BY <3>2
    <3> QED BY <1>2, <3>1, <3>2 DEF Traced
  <2>4. began' => OneRecording'
    BY <2>1, <2>3 DEF FilesInv, OneRecording
  <2>5. FilesInv'
    <3>1. hostRun \in Nat
      BY DEF HostTypeOK
    <3> QED BY <2>1, <2>3, <2>4, <3>1 DEF FilesInv
  <2>6. EnvironmentInv'
    BY <2>1 DEF EnvironmentInv
  <2>7. FilesAreOfOneRecording' /\ EnvironmentIsRestored'
    BY <2>1, <2>4 DEF FilesAreOfOneRecording, EnvironmentIsRestored
  <2>8. CredentialsKeptOut'
    BY <1>2, TracedIsClean DEF CredentialsKeptOut, Unprotected
  <2> QED BY <2>2, <2>5, <2>6, <2>7, <2>8
<1> QED BY <1>1, <1>2

LEMMA RestorePreserves == ASSUME HostInv, Restore PROVE HostInv'
<1> USE HostAssumption DEF HostInv, Restore, hostFiles, Idle
<1>1. /\ host = "windows"
      /\ IF recordExit = "zero" THEN hostStep' = "export" /\ failedAt' = "none" /\ Recorded /\ Recorded'
         ELSE hostStep' = "failed" /\ failedAt' = "restore" /\ ~Recorded /\ ~Recorded'
      /\ hostStep' \in {"failed"} \cup ToSet(Steps(host))
  BY StepsOf, AfterWindows, HostKinds DEF Recorded, FilesInv, Advance, Fail, HostTypeOK
<1>2. HostTypeOK'
  <2>1. env' \in Envs
    BY DEF Envs, HostTypeOK
  <2> QED BY <1>1, <2>1 DEF HostTypeOK
<1>3. OneRecording' <=> OneRecording
  BY DEF OneRecording
<1>4. FilesInv'
  BY <1>1, <1>3 DEF FilesInv
<1>5. env' = saved' /\ env'["PATH"] = "own"
  <2>1. \A v \in Vars : env'[v] = saved[v]
    BY <1>1 DEF EnvironmentInv, Set
  <2>2. env' \in Envs /\ saved \in Envs
    BY <1>2 DEF HostTypeOK
  <2>3. env' = saved
    BY <2>1, <2>2 DEF Envs
  <2> QED BY <1>1, <2>3 DEF EnvironmentInv
<1>6. EnvironmentInv'
  BY <1>1, <1>5 DEF EnvironmentInv
<1>7. FilesAreOfOneRecording'
  BY <1>1, <1>3 DEF FilesAreOfOneRecording, FilesInv
<1>8. EnvironmentIsRestored'
  BY <1>5 DEF EnvironmentIsRestored
<1>9. CredentialsKeptOut'
  BY DEF CredentialsKeptOut, Unprotected
<1> QED BY <1>2, <1>4, <1>6, <1>7, <1>8, <1>9

LEMMA HostExportPreserves == ASSUME HostInv, HostExport PROVE HostInv'
<1> USE HostAssumption DEF HostInv, HostExport, hostFiles, Idle
<1>1. /\ Recorded /\ hostTrace # None /\ hostTrace.whole /\ hostTrace.run = hostRun
      /\ hostRun \in 1 .. HostRuns
  BY DEF Recorded, FilesInv, HostTypeOK
<1>2. \/ /\ hostPortable' = [of |-> hostRun, whole |-> TRUE]
         /\ hostStep' = "done" /\ failedAt' = "none"
      \/ /\ \/ hostPortable' \in {None, [of |-> hostRun, whole |-> FALSE]}
            \/ hostPortable' = hostPortable /\ host = "windows" /\ stuck'
         /\ hostStep' = "failed" /\ failedAt' = "export"
  <2>1. After(host, "export") = "done"
    BY AfterLinux, AfterMac, AfterWindows, HostKinds
  <2>2. PICK left \in {None} \cup IF host = "windows" THEN {hostPortable} ELSE {} :
            /\ stuck' = (stuck \/ left # None)
            /\ \/ hostPortable' = [of |-> hostTrace.run, whole |-> TRUE] /\ Advance
               \/ hostPortable' \in {left, [of |-> hostTrace.run, whole |-> FALSE]} /\ Fail
    OBVIOUS
  <2>3. CASE hostPortable' = [of |-> hostTrace.run, whole |-> TRUE] /\ Advance
    BY <1>1, <2>1, <2>3 DEF Advance, FilesInv
  <2>4. CASE hostPortable' \in {left, [of |-> hostTrace.run, whole |-> FALSE]} /\ Fail
    BY <1>1, <2>2, <2>4 DEF Fail
  <2> QED BY <2>2, <2>3, <2>4
<1>3. HostTypeOK'
  <2>1. hostPortable' \in Exports \cup {None}
    <3>1. \A w \in BOOLEAN : [of |-> hostRun, whole |-> w] \in Exports
      BY <1>1 DEF Exports
    <3>2. hostPortable \in Exports \cup {None}
      BY DEF HostTypeOK
    <3> QED BY <1>2, <3>1, <3>2
  <2>2. stuck' \in BOOLEAN
    BY DEF HostTypeOK
  <2> QED BY <1>2, <2>1, <2>2 DEF HostTypeOK
<1>4. FilesInv'
  BY <1>1, <1>2 DEF FilesInv, Recorded
<1>5. EnvironmentInv'
  BY <1>2 DEF EnvironmentInv
<1>6. FilesAreOfOneRecording'
  BY <1>1, <1>2 DEF FilesAreOfOneRecording, OneRecording, LeftOpen
<1>7. EnvironmentIsRestored' /\ CredentialsKeptOut'
  BY <1>2 DEF EnvironmentIsRestored, CredentialsKeptOut, Unprotected, FilesInv
<1> QED BY <1>3, <1>4, <1>5, <1>6, <1>7

LEMMA HostKillPreserves == ASSUME HostInv, HostKill PROVE HostInv'
<1> USE HostAssumption DEF HostInv, HostKill, hostFiles, Idle, Fail
<1>1. hostRun \in 1 .. HostRuns
  BY DEF HostTypeOK, FilesInv
<1>2. /\ hostTrace' = hostTrace \/ (hostStep = "record" /\ hostTrace' = Traced(FALSE))
      /\ \/ hostPortable' = hostPortable
         \/ hostStep = "export" /\ hostPortable' \in {None, [of |-> hostTrace.run, whole |-> FALSE]}
  BY DEF Traced
<1>3. HostTypeOK'
  <2>1. hostTrace' \in Traces \cup {None}
    BY <1>2, TracedType DEF HostTypeOK
  <2>2. hostPortable' \in Exports \cup {None}
    <3>1. [of |-> hostRun, whole |-> FALSE] \in Exports
      BY <1>1 DEF Exports
    <3>2. hostPortable \in Exports \cup {None} /\ (hostStep = "export" => hostTrace.run = hostRun)
      BY DEF HostTypeOK, FilesInv, Recorded
    <3> QED BY <1>2, <3>1, <3>2
  <2>3. env' \in Envs /\ saved' \in Envs
    BY DEF Envs, NoShell
  <2> QED BY <2>1, <2>2, <2>3 DEF HostTypeOK
<1>4. FilesInv'
  BY <1>1, <1>2 DEF FilesInv, Recorded, Traced
<1>5. EnvironmentInv' /\ EnvironmentIsRestored'
  BY DEF EnvironmentInv, EnvironmentIsRestored
<1>6. FilesAreOfOneRecording'
  <2>1. CASE Recorded
    BY <2>1 DEF Recorded, FilesAreOfOneRecording, LeftOpen
  <2>2. CASE ~Recorded
    <3>1. began' => OneRecording'
      BY <1>2, <2>2 DEF FilesInv, OneRecording, Traced, Recorded
    <3> QED BY <3>1 DEF FilesAreOfOneRecording
  <2> QED BY <2>1, <2>2
<1>7. CredentialsKeptOut'
  BY <1>2, TracedIsClean DEF CredentialsKeptOut, Unprotected
<1> QED BY <1>3, <1>4, <1>5, <1>6, <1>7

\* The invariant holds in every state of the scripts, whatever the hosts, the
\* variables and the number of runs.
THEOREM HostInvariant == HostSpec => []HostInv
<1>1. HostInv /\ [HostNext]_hostVars => HostInv'
  <2> SUFFICES ASSUME HostInv, [HostNext]_hostVars PROVE HostInv'
    OBVIOUS
  <2>1. CASE UNCHANGED hostVars
    BY <2>1 DEF hostVars, hostFiles, HostInv, HostTypeOK, FilesInv, EnvironmentInv, Idle, Recorded,
                OneRecording, LeftOpen, FilesAreOfOneRecording, CredentialsKeptOut, Unprotected,
                EnvironmentIsRestored
  <2>2. CASE HostNext
    BY <2>2, HostStartPreserves, DropPreserves, BuildPreserves, RemoveTracePreserves,
       ClearEnvironmentPreserves, RecordPreserves, RestorePreserves, HostExportPreserves,
       HostKillPreserves DEF HostNext
  <2> QED BY <2>1, <2>2
<1> QED BY <1>1, HostInitEstablishes, PTL DEF HostSpec

\* A script that ends well leaves the trace of its own run and that trace's export,
\* and one that does not leaves files of two recordings only where the scripts have
\* the gap (linux-x86_64/regenerate.sh:51-88, macos-arm64/regenerate.sh:54-87,
\* windows-x86_64/regenerate.ps1:85-137).
THEOREM HostFilesAreOfOneRecording == HostSpec => []FilesAreOfOneRecording
BY HostInvariant, PTL DEF HostInv

\* No recording carries a credential, on any host, for any set of variables and
\* whoever makes it, but for macOS, where that is shown of the job that drops its
\* credentials only, and is not so by hand or in the platform job
\* (drop-credentials.sh:1-39; linux-x86_64/regenerate.sh:74-82;
\* windows-x86_64/regenerate.ps1:91-129; regen-mcr-macos-arm64.yml:142-147).
THEOREM HostKeepsCredentialsOut == HostSpec => []CredentialsKeptOut
BY HostInvariant, PTL DEF HostInv

\* The shell has its environment back after the recording, made or failed
\* (regenerate.ps1:91-95, 123-129).
THEOREM HostEnvironmentIsRestored == HostSpec => []EnvironmentIsRestored
BY HostInvariant, PTL DEF HostInv
=============================================================================
