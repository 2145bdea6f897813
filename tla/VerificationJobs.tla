--------------------------- MODULE VerificationJobs ---------------------------
(***************************************************************************)
(* verify-recordings.yml: every change of a branch is checked on a runner  *)
(* that keeps, next to the checkout, the clones of the two readers         *)
(* (provision-readers.sh) and the tools built of them                      *)
(* (build-verify-tools.sh).  A newer change cancels the run of the one     *)
(* before it at any step; the recorder's jobs use the same directory and   *)
(* leave the Nim reader's clone at another revision.                       *)
(***************************************************************************)
EXTENDS Naturals

CONSTANTS
    MaxChanges,     \* bound: changes pushed to the branch
    Revs,           \* revisions of the readers
    CtCommits,      \* codetracer's commits
    CtLock,         \* CtLock[c][repo]: the revision in its repro.lock, or None
    Kills,          \* whether runs time out or lose their runner
    None

Readers == {"nim", "rust"}
Changes == 1..MaxChanges
Builds == {"print", "scan", "names", "util"}
CloneStates == [git : {"none", "noOrigin", "ready"}, head : Revs \cup {None}, tidy : BOOLEAN]

ASSUME VerificationAssumption ==
    /\ MaxChanges \in Nat
    /\ None \notin Revs \cup CtCommits
    /\ CtLock \in [CtCommits -> [Readers -> Revs \cup {None}]]
    /\ Kills \in BOOLEAN

VARIABLES
    pushed,     \* the changes pushed so far
    waiting,    \* the change whose run waits for the runner, or None
    step,       \* the running job's next step; "free" when the runner is
    change,     \* the change that job is for
    ctSha,      \* the codetracer commit whose lock it reads
    target,     \* the reader being cloned
    dirs,       \* the clones
    pins,       \* reader-pins.txt
    tools,      \* the built tools: of which clone's revision, tidy, of which change's scripts
    verdict     \* history: how the run of each change ended

job == <<change, ctSha, target>>
vars == <<pushed, waiting, step, job, dirs, pins, tools, verdict>>

NoClone == [git |-> "none", head |-> None, tidy |-> FALSE]
NoTool == [rev |-> None, tidy |-> FALSE, scripts |-> 0]
NoPins == [r \in Readers |-> None]

Init ==
    /\ pushed = 0 /\ waiting = None
    /\ step = "free" /\ change = 0
    /\ ctSha = None /\ target = "nim"
    /\ dirs = [r \in Readers |-> NoClone]
    /\ pins = NoPins
    /\ tools = [b \in Builds |-> NoTool]
    /\ verdict = [c \in Changes |-> None]

\* The job ends.
End(how) ==
    /\ step' = "free"
    /\ verdict' = [verdict EXCEPT ![change] = how]
    /\ UNCHANGED job

\* A step that is cut short; a checkout, half made.
Cut ==
    dirs' = IF step = "checkout" THEN [dirs EXCEPT ![target].tidy = FALSE] ELSE dirs

\* cancel-in-progress: the newest change's run takes the place of the one that
\* waits or runs.
Push ==
    /\ pushed < MaxChanges
    /\ pushed' = pushed + 1
    /\ waiting' = pushed'
    /\ step' = "free"
    /\ Cut
    /\ verdict' = [c \in Changes |->
            IF c = waiting THEN "cancelled"
            ELSE IF step # "free" /\ c = change THEN "cancelled" ELSE verdict[c]]
    /\ UNCHANGED <<job, pins, tools>>

\* timeout-minutes, a lost runner.
Killed ==
    /\ Kills
    /\ step # "free"
    /\ Cut
    /\ End("cancelled")
    /\ UNCHANGED <<pushed, waiting, pins, tools>>

\* What a job of provision-recorder.sh leaves of a clone it finds as d: a clone at
\* some revision and built in, one it never checked out, one without its remote.
LeftOf(d) ==
    LET noCheckout(git) == [NoClone EXCEPT !.git = git]
        atSome == [git : {"ready"}, head : Revs, tidy : BOOLEAN]
    IN  CASE d.git = "none" -> {noCheckout("noOrigin"), noCheckout("ready")} \cup atSome
          [] d.git = "noOrigin" -> {d}
          [] d.git = "ready" -> atSome

RecorderJob ==
    /\ step = "free"
    /\ \E d \in LeftOf(dirs["nim"]) : dirs' = [dirs EXCEPT !["nim"] = d]
    /\ UNCHANGED <<pushed, waiting, step, job, pins, tools, verdict>>

\* The checkout of the change, and the runner's environment.
StartJob ==
    /\ step = "free" /\ waiting # None
    /\ change' = waiting /\ waiting' = None
    /\ ctSha' = None /\ target' = "nim"
    /\ step' = "resolve"
    /\ UNCHANGED <<pushed, dirs, pins, tools, verdict>>

\* The network, a missing name or pin, or a compiler.
StepFails ==
    /\ step \in {"resolve", "lock", "fetch"} \cup Builds
    /\ End("failed")
    /\ UNCHANGED <<pushed, waiting, dirs, pins, tools>>

Resolve ==
    /\ step = "resolve"
    /\ ctSha' \in CtCommits
    /\ step' = "lock"
    /\ UNCHANGED <<pushed, waiting, change, target, dirs, pins, tools, verdict>>

\* The pins file is begun before the first clone.
ReadLock ==
    /\ step = "lock"
    /\ pins' = NoPins
    /\ step' = "pin"
    /\ UNCHANGED <<pushed, waiting, job, dirs, tools, verdict>>

Sha == CtLock[ctSha][target]

NotPinned ==
    /\ step = "pin" /\ Sha = None
    /\ End("failed")
    /\ UNCHANGED <<pushed, waiting, dirs, pins, tools>>

InitClone ==
    /\ step = "pin" /\ Sha # None
    /\ dirs[target].git = "none"
    /\ dirs' = [dirs EXCEPT ![target] = [NoClone EXCEPT !.git = "noOrigin"]]
    /\ step' = "remote"
    /\ UNCHANGED <<pushed, waiting, job, pins, tools, verdict>>

AddRemote ==
    /\ step = "remote"
    /\ dirs' = [dirs EXCEPT ![target].git = "ready"]
    /\ step' = "fetch"
    /\ UNCHANGED <<pushed, waiting, job, pins, tools, verdict>>

\* Bug for ReuseClone: a clone that is there is taken as it is.
ReuseCloneAsIs ==
    /\ step = "pin" /\ Sha # None
    /\ dirs[target].git # "none"
    /\ step' = IF dirs[target].head = None THEN "fetch" ELSE "cloned"
    /\ UNCHANGED <<pushed, waiting, job, dirs, pins, tools, verdict>>

ReuseClone ==
    /\ step = "pin" /\ Sha # None
    /\ dirs[target].git # "none"
    /\ step' = "fetch"
    /\ UNCHANGED <<pushed, waiting, job, dirs, pins, tools, verdict>>

\* A clone without a remote cannot fetch (StepFails).
Fetch ==
    /\ step = "fetch" /\ dirs[target].git = "ready"
    /\ step' = "checkout"
    /\ UNCHANGED <<pushed, waiting, job, dirs, pins, tools, verdict>>

Checkout ==
    /\ step = "checkout"
    /\ dirs' = [dirs EXCEPT ![target].head = Sha]
    /\ step' = "clean"
    /\ UNCHANGED <<pushed, waiting, job, pins, tools, verdict>>

Clean ==
    /\ step = "clean"
    /\ dirs' = [dirs EXCEPT ![target].tidy = TRUE]
    /\ step' = "cloned"
    /\ UNCHANGED <<pushed, waiting, job, pins, tools, verdict>>

WritePin ==
    /\ step = "cloned"
    /\ pins' = [pins EXCEPT ![target] = Sha]
    /\ \/ target = "nim" /\ target' = "rust" /\ step' = "pin"
       \/ target = "rust" /\ step' = "print" /\ UNCHANGED target
    /\ UNCHANGED <<pushed, waiting, change, ctSha, dirs, tools, verdict>>

\* The scanners are this repository's, of the change being checked.
Built(b, repo) ==
    [rev |-> dirs[repo].head, tidy |-> dirs[repo].tidy,
     scripts |-> IF b \in {"scan", "names"} THEN change ELSE 0]

Build(b, repo, next) ==
    /\ step = b
    /\ tools' = [tools EXCEPT ![b] = Built(b, repo)]
    /\ step' = next
    /\ UNCHANGED <<pushed, waiting, job, dirs, pins, verdict>>

BuildTools ==
    \/ Build("print", "nim", "scan")
    \/ Build("scan", "nim", "names")
    \/ Build("names", "nim", "util")
    \/ Build("util", "rust", "verify")

\* verify-all-recordings.sh over the files of the change.
Verify ==
    /\ step = "verify"
    /\ End("passed") \/ End("failed")
    /\ UNCHANGED <<pushed, waiting, dirs, pins, tools>>

JobStep ==
    \/ StartJob \/ StepFails \/ Resolve \/ ReadLock \/ NotPinned
    \/ InitClone \/ AddRemote \/ ReuseClone \/ Fetch \/ Checkout \/ Clean \/ WritePin
    \/ BuildTools \/ Verify

Next == Push \/ Killed \/ RecorderJob \/ JobStep

Spec == Init /\ [][Next]_vars

-----------------------------------------------------------------------------
(* Properties. *)

CloneSteps == {"pin", "remote", "fetch", "checkout", "clean", "cloned"}

TypeOK ==
    /\ pushed \in 0..MaxChanges /\ waiting \in Changes \cup {None}
    /\ step \in {"free", "resolve", "lock"} \cup CloneSteps \cup Builds \cup {"verify"}
    /\ change \in 0..MaxChanges
    /\ ctSha \in CtCommits \cup {None} /\ target \in Readers
    /\ dirs \in [Readers -> CloneStates]
    /\ pins \in [Readers -> Revs \cup {None}]
    /\ tools \in [Builds -> [rev : Revs \cup {None}, tidy : BOOLEAN, scripts : 0..MaxChanges]]
    /\ verdict \in [Changes -> {None, "passed", "failed", "cancelled"}]

RepoOf(b) == IF b = "util" THEN "rust" ELSE "nim"

\* Whatever earlier jobs left of the clones, the tools and the pins, and at whatever
\* step they were cancelled, the recordings of a change are verified with both readers
\* and the checkers built from exactly the revisions that one codetracer commit
\* pins, nothing of another build among their sources, with that change's own
\* scanners; reader-pins.txt says so (verify-recordings.yml:3-12, 61-71).
ChecksAreThePinned ==
    step = "verify" =>
        /\ \A r \in Readers : pins[r] = CtLock[ctSha][r] /\ pins[r] # None
        /\ \A b \in Builds :
            tools[b] = [rev |-> pins[RepoOf(b)], tidy |-> TRUE,
                        scripts |-> IF b \in {"scan", "names"} THEN change ELSE 0]

\* What the job has cloned so far, at what the lock pins.
Cloned(r) ==
    /\ CtLock[ctSha][r] # None
    /\ dirs[r].head = CtLock[ctSha][r] /\ dirs[r].tidy

CloneInv ==
    /\ step \notin {"free", "resolve"} => ctSha # None
    /\ step \in CloneSteps /\ step # "pin" => Sha # None
    /\ step \in {"clean", "cloned"} => dirs[target].head = Sha
    /\ step = "cloned" => Cloned(target)
    /\ step \in {"resolve", "lock"} => target = "nim"
    /\ step # "free" /\ target = "rust" => Cloned("nim") /\ pins["nim"] = dirs["nim"].head
    /\ step \in Builds \cup {"verify"} =>
        target = "rust" /\ Cloned("rust") /\ pins["rust"] = dirs["rust"].head

\* The builds' progress.
BuildInv ==
    /\ step \in {"scan", "names", "util", "verify"} => tools["print"] = Built("print", "nim")
    /\ step \in {"names", "util", "verify"} => tools["scan"] = Built("scan", "nim")
    /\ step \in {"util", "verify"} => tools["names"] = Built("names", "nim")
    /\ step = "verify" => tools["util"] = Built("util", "rust")

\* The inductive invariant.
ChecksInv == TypeOK /\ CloneInv /\ BuildInv
=============================================================================
