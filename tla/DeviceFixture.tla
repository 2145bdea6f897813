---------------------------- MODULE DeviceFixture ----------------------------
(***************************************************************************)
(* mcr/android-arm64/regenerate.sh, and mcr/ios-arm64/regenerate.sh, which *)
(* differs in how the device is found and the client started: a run builds *)
(* the CTSP client and a stream receiver, records the client through the   *)
(* receiver into trace.ct, exports it as trace-portable.ct and cleans up.  *)
(* Client and receiver exchange messages as CtspRecording specifies.       *)
(* Every command may fail, which ends the run (set -e) through the cleanup *)
(* trap; a run may also be killed with all its processes, without cleanup; *)
(* and the next run starts from the files the last one left.               *)
(***************************************************************************)
EXTENDS Naturals, Sequences

CONSTANTS
    NumMessages,    \* what the client sends (CtspClient)
    WaitLimit,      \* how many times the script looks for the receiver's end: 10
    MaxRuns,        \* bound: how often the script is run
    Binary,         \* the client's file name in binaries/
    Helper,         \* the receiver's file name in binaries/
    Program         \* the program name `ct-mcr trace info' reports

\* The receiver names its recordings "android_e2e_test" (the committed trace.ct
\* of both platforms), which is neither file of binaries/.
ASSUME FixtureAssumption ==
    /\ NumMessages \in Nat /\ WaitLimit \in Nat \ {0} /\ MaxRuns \in Nat \ {0}
    /\ Binary # Helper /\ Binary # Program /\ Helper # Program

VARIABLES
    step,       \* what the script does next
    result,     \* how the last run ended: "none", "ok", "error" or "killed"
    run,        \* the number of the run; files are named by the run that made them
    seconds,    \* the script's wait loop
    receiver,   \* "none", "up", "signalled" (sent SIGTERM, still there) or "exited"
    handed, recorded, client,   \* the transfer: CtspRecording
    trace,      \* trace.ct: the run that made it and how many messages it holds
    portable,   \* trace-portable.ct: the trace it was exported from
    dir         \* binaries/: for each name the run that made the file, 0 for none

script == <<step, result, run, seconds>>
transfer == <<handed, recorded, client>>
files == <<trace, portable, dir>>
vars == <<script, receiver, transfer, files>>

Transfer == INSTANCE CtspRecording

Runs == 0..MaxRuns
NoFile == [run |-> 0, messages |-> 0]
Names == {Binary, Helper, Program}

Init ==
    /\ step = "exited" /\ result = "none" /\ run = 0 /\ seconds = 0
    /\ receiver = "none"
    /\ handed = 0 /\ recorded = <<>> /\ client = "failed"
    /\ trace = NoFile /\ portable = NoFile
    /\ dir = [n \in Names |-> 0]

Running == receiver \in {"up", "signalled"}

\* What a receiver that does not end by itself leaves in trace.ct.
Leftover == {trace, [run |-> run, messages |-> Len(recorded)]}

-----------------------------------------------------------------------------
(* The script. *)

Start ==
    /\ step = "exited"
    /\ run < MaxRuns
    /\ run' = run + 1
    /\ step' = "compile"
    /\ result' = "none"
    /\ receiver' = "none"
    /\ handed' = 0 /\ recorded' = <<>> /\ client' = "failed"
    /\ UNCHANGED <<seconds, files>>

Goto(s) == step' = s /\ UNCHANGED <<result, run>>

\* Bug for Exit: the trap does not wait for the receiver it told to end.
ExitUnwaited(r) ==
    /\ step' = "exited"
    /\ result' = r
    /\ receiver' = IF receiver = "up" THEN "signalled" ELSE receiver
    /\ UNCHANGED run

\* exit with the EXIT trap: a receiver that still runs is sent SIGTERM, and the
\* trap waits for it.
Exit(r) ==
    /\ result' = r
    /\ \/ receiver = "up" /\ receiver' = "signalled" /\ step' = "cleanup"
       \/ receiver # "up" /\ UNCHANGED receiver /\ step' = "exited"
    /\ UNCHANGED run

Compile ==
    /\ step = "compile"
    /\ dir' = [dir EXCEPT ![Binary] = run]
    /\ Goto("helper")
    /\ UNCHANGED <<seconds, receiver, transfer, trace, portable>>

BuildHelper ==
    /\ step = "helper"
    /\ dir' = [dir EXCEPT ![Helper] = run]
    /\ Goto("listen")
    /\ UNCHANGED <<seconds, receiver, transfer, trace, portable>>

\* Bug for Listen: the trace of an earlier run is not removed.
ListenKeepingTrace ==
    /\ step = "listen"
    /\ receiver' = "up"
    /\ Goto("alive")
    /\ UNCHANGED <<seconds, transfer, trace, portable, dir>>

\* Bug for Listen: both outputs are removed before recording.
ListenRemovingExport ==
    /\ step = "listen"
    /\ trace' = NoFile /\ portable' = NoFile
    /\ receiver' = "up"
    /\ Goto("alive")
    /\ UNCHANGED <<seconds, transfer, dir>>

Listen ==
    /\ step = "listen"
    /\ trace' = NoFile
    /\ receiver' = "up"
    /\ Goto("alive")
    /\ UNCHANGED <<seconds, transfer, portable, dir>>

\* After `sleep 1': kill -0 $RECEIVER_PID.
CheckAlive ==
    /\ step = "alive"
    /\ \/ receiver = "up" /\ Goto("push") /\ UNCHANGED <<receiver, trace>>
       \/ receiver # "up" /\ Exit("error") /\ UNCHANGED trace
    /\ UNCHANGED <<seconds, transfer, portable, dir>>

RunClient ==
    /\ step = "push"
    /\ client' = "running"
    /\ Goto("client")
    /\ UNCHANGED <<seconds, receiver, handed, recorded, files>>

\* grep -q DONE on Android, the spawned client's exit status on iOS.
ClientEnded ==
    /\ step = "client"
    /\ \/ client = "done" /\ Goto("wait") /\ seconds' = 0 /\ UNCHANGED <<receiver, trace>>
       \/ client = "failed" /\ Exit("error") /\ UNCHANGED <<seconds, trace>>
    /\ UNCHANGED <<transfer, portable, dir>>

\* The loop ends early when the receiver has.
Waited ==
    /\ step = "wait"
    /\ receiver # "up"
    /\ Goto("reap")
    /\ UNCHANGED <<seconds, receiver, transfer, files>>

WaitMore ==
    /\ step = "wait"
    /\ receiver = "up"
    /\ seconds < WaitLimit - 1
    /\ seconds' = seconds + 1
    /\ UNCHANGED <<step, result, run, receiver, transfer, files>>

\* Bug for LastLook: the loop ends before the look that would send the signal.
LastLookOnly ==
    /\ step = "wait"
    /\ receiver = "up"
    /\ seconds = WaitLimit - 1
    /\ Goto("reap")
    /\ UNCHANGED <<seconds, receiver, transfer, files>>

\* The last look sends SIGTERM.
LastLook ==
    /\ step = "wait"
    /\ receiver = "up"
    /\ seconds = WaitLimit - 1
    /\ receiver' = "signalled"
    /\ Goto("reap")
    /\ UNCHANGED <<seconds, transfer, files>>

\* `wait' has no limit: it returns when the receiver has ended, however it does.
Reap ==
    /\ step = "reap"
    /\ ~Running
    /\ Goto("collect")
    /\ UNCHANGED <<seconds, receiver, transfer, files>>

\* The `wait' of the trap.
CleanedUp ==
    /\ step = "cleanup"
    /\ ~Running
    /\ step' = "exited"
    /\ UNCHANGED <<result, run, seconds, receiver, transfer, files>>

\* rm -f $RECEIVER_BIN, then the only check of the trace: that it exists.
Collect ==
    /\ step = "collect"
    /\ dir' = [dir EXCEPT ![Helper] = 0]
    /\ \/ trace # NoFile /\ Goto("info") /\ UNCHANGED receiver
       \/ trace = NoFile /\ Exit("error")
    /\ UNCHANGED <<seconds, transfer, trace, portable>>

\* ct-mcr is found or built and reports the program; without a file of that name
\* the export gets a link to the binary.
PrepareExport ==
    /\ step = "info"
    /\ portable' = NoFile
    /\ dir' = IF dir[Program] = 0 THEN [dir EXCEPT ![Program] = run] ELSE dir
    /\ Goto("export")
    /\ UNCHANGED <<seconds, receiver, transfer, trace>>

Export ==
    /\ step = "export"
    /\ portable' = trace
    /\ dir' = [dir EXCEPT ![Program] = 0]
    /\ Exit("ok")
    /\ UNCHANGED <<seconds, transfer, trace>>

\* A command fails.  A failed compilation may remove the old binary, a failed
\* lookup of the program comes after the old export is removed, and a failed
\* export may have written the new one.
Fails ==
    /\ step \in {"compile", "helper", "listen", "push", "info", "export"}
    /\ Exit("error")
    /\ portable' \in IF step = "info" THEN {portable, NoFile}
                    ELSE IF step = "export" THEN {portable, trace} ELSE {portable}
    /\ dir' \in IF step = "compile" THEN {dir, [dir EXCEPT ![Binary] = 0]} ELSE {dir}
    /\ UNCHANGED <<seconds, transfer, trace>>

Script ==
    \/ Compile \/ BuildHelper \/ Listen \/ CheckAlive \/ RunClient \/ ClientEnded
    \/ Waited \/ WaitMore \/ LastLook \/ Reap \/ CleanedUp
    \/ Collect \/ PrepareExport \/ Export
    \/ Fails

\* The job is killed: every process of it is gone, and no trap runs.
Killed ==
    /\ step # "exited"
    /\ step' = "exited"
    /\ result' = "killed"
    /\ receiver' = IF Running THEN "exited" ELSE receiver
    /\ trace' \in IF Running THEN Leftover ELSE {trace}
    /\ client' = "failed"
    /\ UNCHANGED <<run, seconds, handed, recorded, portable, dir>>

-----------------------------------------------------------------------------
(* Client and receiver. *)

ClientStep ==
    /\ step = "client"
    /\ Transfer!HandOver \/ Transfer!Succeed \/ Transfer!GiveUp
    /\ UNCHANGED <<script, receiver, files>>

\* A receiver that was sent SIGTERM goes on until the signal ends it, if it does.
ReceiverRecords ==
    /\ Running
    /\ Transfer!Record
    /\ UNCHANGED <<script, receiver, files>>

\* END_RECORDING: the trace is written and the receiver ends.
ReceiverEnds ==
    /\ Running
    /\ Len(recorded) = NumMessages
    /\ receiver' = "exited"
    /\ trace' = [run |-> run, messages |-> NumMessages]
    /\ UNCHANGED <<script, transfer, portable, dir>>

\* The receiver crashes, ends when its client is gone, or on the signal.
ReceiverDies ==
    /\ Running
    /\ receiver' = "exited"
    /\ trace' \in Leftover
    /\ UNCHANGED <<script, transfer, portable, dir>>

Next ==
    \/ Start \/ Script \/ Killed
    \/ ClientStep \/ ReceiverRecords \/ ReceiverEnds \/ ReceiverDies
    \/ step = "exited" /\ run = MaxRuns /\ UNCHANGED vars

Spec == Init /\ [][Next]_vars

\* The script's own commands end.  That the client ends, or the receiver, told to or
\* not, is not assumed.
FairSpec == Spec /\ WF_vars(Script)

-----------------------------------------------------------------------------
(* Properties. *)

\* Types, and the order of events of a run: there is a receiver only from
\* "alive" on and a client only from "client" on.
TypeOK ==
    /\ step \in {"compile", "helper", "listen", "alive", "push", "client", "wait",
                 "reap", "collect", "info", "export", "cleanup", "exited"}
    /\ result \in {"none", "ok", "error", "killed"}
    /\ run \in Runs
    /\ seconds \in 0..(WaitLimit - 1)
    /\ receiver \in {"none", "up", "signalled", "exited"}
    /\ handed \in 0..NumMessages
    /\ recorded \in Seq(1..NumMessages)
    /\ client \in {"running", "done", "failed"}
    /\ trace \in [run : Runs, messages : 0..NumMessages]
    /\ portable \in [run : Runs, messages : 0..NumMessages]
    /\ dir \in [Names -> Runs]

\* A run that reports success leaves the fixture of this run and nothing else:
\* whatever earlier runs left behind, trace.ct was recorded by it, the portable
\* file is that trace's export, the client is the one it built, and neither the
\* receiver's binary nor the temporary link stays (regenerate.sh:155-231).
SuccessLeavesFreshFixture ==
    step = "exited" /\ result = "ok" =>
        /\ trace.run = run
        /\ portable = trace
        /\ dir[Binary] = run
        /\ dir[Helper] = 0 /\ dir[Program] = 0

\* However a run ends, its receiver is not left behind to hold the port of the
\* next run or to write over its trace, not even one that is slow to end
\* (cleanup, regenerate.sh:45-64; 181-193).
NoReceiverLeft == step = "exited" => ~Running

\* The export of an earlier run is touched only once this run has a trace of its
\* own: a run that fails to record leaves the last export alone.
ExportKeptUntilRecorded == [][portable' # portable => trace.run = run]_vars

(***************************************************************************)
(* The inductive invariant behind the three: from the moment a run removed *)
(* the last trace, trace.ct is this run's or missing.                      *)
(***************************************************************************)
Recording == {"alive", "push", "client", "wait", "reap"}
Collected == {"info", "export"}

FixtureInv ==
    /\ TypeOK
    /\ Len(recorded) <= handed
    /\ Running => step \in Recording \cup {"cleanup"}
    /\ receiver = "signalled" => step \in {"reap", "cleanup"}
    /\ result = "ok" => step = "exited"
    /\ step \in Recording \cup {"collect"} => trace = NoFile \/ trace.run = run
    /\ step \in Collected => trace.run = run /\ dir[Helper] = 0
    /\ step \in Recording \cup Collected \cup {"helper", "listen", "collect"} => dir[Binary] = run
    /\ SuccessLeavesFreshFixture

\* What a run waits for without a limit: the client (regenerate.sh:172) and a
\* receiver that was told to end and has not (54 and 192).
WaitsForClient == step = "client" /\ client = "running"
WaitsForSignalled == step \in {"reap", "cleanup"} /\ receiver = "signalled"

\* Every run ends, unless its client never does, or its receiver is sent SIGTERM and
\* never ends: there is no other place where a run hangs, and in particular it does
\* not come to the waits of 54 and 192 with a receiver that nobody told to end
\* (regenerate.sh:183-191).
RunEnds ==
    \/ (step # "exited") ~> (step = "exited")
    \/ <>[]WaitsForClient
    \/ <>[]WaitsForSignalled
=============================================================================
