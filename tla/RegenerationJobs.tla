-------------------------- MODULE RegenerationJobs --------------------------
(***************************************************************************)
(* The workflows that record the fixtures again: jobs dispatched on several*)
(* branches, held back or cancelled by their concurrency groups, run step  *)
(* by step on runners that keep their workspace, with steps that run       *)
(* whatever happened (`if: always()') and uploads that depend on the       *)
(* outcomes before them.  How GitHub grants a group, cancels a job and     *)
(* ends one that hangs is modelled as external.                            *)
(*                                                                         *)
(* "platform" is each regen-mcr-* job that cancels its predecessor on the  *)
(* same branch, "emulator" the emulator job of regen-mcr-macos-arm64.yml,  *)
(* "windows" the job of regen-device-recordings.yml whose upload asks for  *)
(* the outcomes of its scans.                                              *)
(***************************************************************************)
EXTENDS Naturals, Sequences, SequencesExt

CONSTANTS
    MaxJobs,        \* bound: jobs dispatched
    Refs,           \* the branches they are dispatched on
    Kinds,          \* the jobs that are dispatched
    Agents,         \* the self-hosted runners
    Takes,          \* Takes[a]: the kinds of job runner a has the labels of
    Qualities       \* what a recorded file can be: "good", "leaking" or "bad"

AllKinds == {"platform", "emulator", "windows"}

\* A job is of the kinds there are, a runner takes some of them.
ASSUME JobsAssumption ==
    /\ MaxJobs \in Nat
    /\ Kinds \subseteq AllKinds
    /\ Takes \in [Agents -> SUBSET AllKinds]
    /\ Qualities \subseteq {"good", "leaking", "bad"} /\ "good" \in Qualities

Jobs == 1 .. MaxJobs

PullRequestSteps == <<"prepare", "regenerate", "upload", "pullRequest">>
WindowsSteps == <<"prepare", "regenerate", "verify", "leak", "replay", "upload">>

\* A job's steps; those up to the recorder's build are part of "prepare", and
\* the uploads of logs are left out.
Steps(k) == IF k = "windows" THEN WindowsSteps ELSE PullRequestSteps

StepNames == {"prepare", "regenerate", "verify", "leak", "replay", "upload", "pullRequest"}

\* The files a job's regeneration writes, in this order: the trace and its
\* portable export, or one emulator fixture for each driver.
Written(k) ==
    CASE k = "platform" -> <<"trace", "export">>
      [] k = "emulator" -> <<"inject", "bigdylib">>
      [] k = "windows" -> <<"winTrace", "winExport">>

\* Its upload or pull request takes them all.
Family(k) == ToSet(Written(k))

Fixtures == UNION {Family(k) : k \in AllKinds}

Committed == [by |-> 0, quality |-> "good"]
Missing == [by |-> 0, quality |-> "missing"]

VARIABLES
    jobs,       \* jobs[j]: kind, ref, status, whether cancelled, agent, at, outcome
    ws,         \* ws[a][f]: what runner a's workspace holds as fixture f
    branch      \* branch[k]: the files on the pull-request branch of kind k

jobsVars == <<jobs, ws, branch>>

NoOutcome == [s \in StepNames |-> "skipped"]
NoJob == [kind |-> "none", ref |-> "none", status |-> "none", cancelled |-> FALSE,
          agent |-> "none", at |-> 0, outcome |-> NoOutcome]

Nothing == [by |-> 0, files |-> <<>>]

JobsInit ==
    /\ jobs = [j \in Jobs |-> NoJob]
    /\ ws = [a \in Agents |-> [f \in Fixtures |-> Committed]]
    /\ branch = [k \in {"platform", "emulator"} |-> Nothing]

-----------------------------------------------------------------------------
(* Concurrency groups.  A group has one job in progress and one pending.   *)

\* Bug for Group: the emulator job has a group for each branch.
GroupPerRef(k, ref) == <<k, ref>>

\* The emulator job's group is global, the others' are a branch's.
Group(k, ref) == IF k = "emulator" THEN <<"emulator">> ELSE <<k, ref>>

\* cancel-in-progress
Cancels(k) == k = "platform"

\* Bug for Members: the workflow names no group for its pull-request jobs.
MembersOfOthers(k, ref) ==
    {i \in Jobs : jobs[i].status # "none" /\ jobs[i].kind # "platform" /\ Group(jobs[i].kind, jobs[i].ref) = Group(k, ref)}

\* The jobs dispatched so far that are of the group of a job of kind k on ref.
Members(k, ref) ==
    {i \in Jobs : jobs[i].status # "none" /\ Group(jobs[i].kind, jobs[i].ref) = Group(k, ref)}

\* Job j ends: the job that waits for its group gets it.
Ending(j) ==
    [i \in Jobs |->
        CASE i = j -> [jobs[j] EXCEPT !.status = "ended", !.at = 0, !.agent = "none",
                                    !.cancelled = FALSE, !.outcome = NoOutcome]
          [] i \in Members(jobs[j].kind, jobs[j].ref) /\ jobs[i].status = "pending" -> [jobs[i] EXCEPT !.status = "queued"]
          [] OTHER -> jobs[i]]

\* workflow_dispatch: the job that was pending in the group is dropped, the one
\* that holds it is cancelled if the new one says so.
Dispatch(k, ref) ==
    \E j \in Jobs :
        /\ jobs[j].status = "none" /\ (j > 1 => jobs[j - 1].status # "none")
        /\ LET group == Members(k, ref)
               unstarted == {i \in group : \/ jobs[i].status = "pending"
                                           \/ jobs[i].status = "queued" /\ Cancels(k)}
               running == {i \in group : jobs[i].status = "running"}
               held == \E i \in group \ unstarted : jobs[i].status \in {"queued", "running"}
           IN jobs' = [i \in Jobs |->
                        CASE i = j -> [NoJob EXCEPT !.kind = k, !.ref = ref,
                                                    !.status = IF held THEN "pending" ELSE "queued"]
                          [] i \in unstarted -> [jobs[i] EXCEPT !.status = "dropped"]
                          [] i \in running /\ Cancels(k) -> [jobs[i] EXCEPT !.cancelled = TRUE]
                          [] OTHER -> jobs[i]]
        /\ UNCHANGED <<ws, branch>>

Idle(a) == \A j \in Jobs : jobs[j].status = "running" => jobs[j].agent # a

\* A runner with the job's labels takes it.
Start(j) ==
    /\ jobs[j].status = "queued"
    /\ \E a \in Agents :
        /\ Idle(a) /\ jobs[j].kind \in Takes[a]
        /\ jobs' = [jobs EXCEPT ![j].status = "running", ![j].agent = a, ![j].at = 1]
    /\ UNCHANGED <<ws, branch>>

-----------------------------------------------------------------------------
(* Steps.  The outcome of a step that has not run is "skipped".            *)

At(j, s) == jobs[j].status = "running" /\ Steps(jobs[j].kind)[jobs[j].at] = s
Files(j) == [f \in Family(jobs[j].kind) |-> ws[jobs[j].agent][f]]

\* Bug for UploadRuns: the leak scan's outcome is not asked for.
UploadRunsWithoutLeak(k, o) == k = "windows" => o["verify"] = "success"

\* The condition of the upload step.
UploadRuns(k, o) == k = "windows" => o["verify"] = "success" /\ o["leak"] = "success"

\* Bug for StepRuns: the pull request is opened `always()', as the upload is.
StepRunsAlways(k, s, o, cancelled) ==
    \/ s = "upload" /\ UploadRuns(k, o)
    \/ s \in {"leak", "replay"} /\ o["verify"] # "skipped"
    \/ s = "pullRequest"
    \/ s \notin {"leak", "replay", "upload"} /\ ~cancelled /\ \A t \in StepNames : o[t] \notin {"failure", "cancelled"}

\* A step without a condition runs when nothing before it failed or was cancelled.
StepRuns(k, s, o, cancelled) ==
    \/ s = "upload" /\ UploadRuns(k, o)
    \/ s \in {"leak", "replay"} /\ o["verify"] # "skipped"
    \/ /\ s \notin {"leak", "replay", "upload"}
       /\ ~cancelled
       /\ \A t \in StepNames : o[t] \notin {"failure", "cancelled"}

\* The step job j is at ends: it goes to the next step that runs, or ends.
StepEnds(j, out) ==
    LET r == jobs[j]
        o == [r.outcome EXCEPT ![Steps(r.kind)[r.at]] = out]
        later == {i \in DOMAIN Steps(r.kind) : i > r.at /\ StepRuns(r.kind, Steps(r.kind)[i], o, r.cancelled)}
        first == CHOOSE i \in later : \A l \in later : i <= l
    IN jobs' = IF later = {} THEN Ending(j)
              ELSE [jobs EXCEPT ![j].at = first, ![j].outcome = o]

\* The recording replays; nothing asks for the outcome.
Replay(j) ==
    /\ At(j, "replay")
    /\ StepEnds(j, "success")
    /\ UNCHANGED <<ws, branch>>

\* Checkout resets the workspace; the steps up to the regeneration leave it so.
Prepare(j) ==
    /\ At(j, "prepare")
    /\ ws' = [ws EXCEPT ![jobs[j].agent] = [f \in Fixtures |-> Committed]]
    /\ StepEnds(j, "success")
    /\ UNCHANGED branch

\* A job that opens a pull request looks at no recording: they are all one to it.
Recorded(j) ==
    [by : {j}, quality : IF jobs[j].kind \in {"platform", "emulator"} THEN {"good"} ELSE Qualities]

Regenerate(j) ==
    /\ At(j, "regenerate")
    /\ \E new \in [Family(jobs[j].kind) -> Recorded(j)] :
        ws' = [ws EXCEPT ![jobs[j].agent] =
                [f \in Fixtures |-> IF f \in DOMAIN new THEN new[f] ELSE @[f]]]
    /\ StepEnds(j, "success")
    /\ UNCHANGED branch

\* verify-recordings.sh on the files it is given: readable, without credentials.
VerifyFiles(j) ==
    /\ At(j, "verify")
    /\ StepEnds(j, IF \A f \in Family(jobs[j].kind) : Files(j)[f].quality \in {"good", "leaking"}
                   THEN "success" ELSE "failure")
    /\ UNCHANGED <<ws, branch>>

\* ct-leak-scan on the same files.
ScanForLeaks(j) ==
    /\ At(j, "leak")
    /\ StepEnds(j, IF \A f \in Family(jobs[j].kind) : Files(j)[f].quality = "good"
                   THEN "success" ELSE "failure")
    /\ UNCHANGED <<ws, branch>>

\* What create-pull-request takes: the files that are there.
Taken(j) ==
    [by |-> j, files |-> [f \in {g \in Family(jobs[j].kind) : Files(j)[g] # Missing} |-> Files(j)[f]]]

\* upload-artifact: what it takes is what stands there during this step.
Upload(j) ==
    /\ At(j, "upload")
    /\ StepEnds(j, "success")
    /\ UNCHANGED <<ws, branch>>

\* create-pull-request puts the job's files on the branch of its name.
OpenPullRequest(j) ==
    /\ At(j, "pullRequest")
    /\ branch' = [branch EXCEPT ![jobs[j].kind] = Taken(j)]
    /\ StepEnds(j, "success")
    /\ UNCHANGED ws

\* What job j's regeneration has written when it does not come to its end: the
\* first n files, and of the next one the old file or none.
CutFiles(j) ==
    LET written == Written(jobs[j].kind) IN
    { [f \in Fixtures |->
         IF \E i \in 1 .. n : written[i] = f THEN [by |-> j, quality |-> "bad"]
         ELSE IF gone /\ f = written[n + 1] THEN Missing ELSE ws[jobs[j].agent][f]] :
      n \in 0 .. Len(written) - 1, gone \in BOOLEAN }

\* What a step does that does not come to its end: checked out or not, some
\* files written, the branch pushed or not.
CutShort(j) ==
    /\ IF At(j, "prepare") THEN ws' \in {ws, [ws EXCEPT ![jobs[j].agent] = [f \in Fixtures |-> Committed]]}
       ELSE IF At(j, "regenerate") THEN \E files \in CutFiles(j) : ws' = [ws EXCEPT ![jobs[j].agent] = files]
       ELSE UNCHANGED ws
    /\ IF At(j, "pullRequest") THEN branch' \in {branch, [branch EXCEPT ![jobs[j].kind] = Taken(j)]}
       ELSE UNCHANGED branch

\* A command of the step fails.
CommandFails(j) ==
    /\ jobs[j].status = "running"
    /\ CutShort(j)
    /\ StepEnds(j, "failure")

\* The step of a cancelled job is interrupted, unless it runs `always()'.
Interrupt(j) ==
    /\ jobs[j].cancelled
    /\ ~At(j, "leak") /\ ~At(j, "replay") /\ ~At(j, "upload")
    /\ CutShort(j)
    /\ StepEnds(j, "cancelled")

\* Bug for TimesOut: the limit is on the first steps only.
TimesOutEarly(j) ==
    /\ jobs[j].status = "running" /\ ~jobs[j].cancelled /\ jobs[j].at <= 2
    /\ jobs' = [jobs EXCEPT ![j].cancelled = TRUE]
    /\ UNCHANGED <<ws, branch>>

\* timeout-minutes, or GitHub's own limit: the job is cancelled.
TimesOut(j) ==
    /\ jobs[j].status = "running" /\ ~jobs[j].cancelled
    /\ jobs' = [jobs EXCEPT ![j].cancelled = TRUE]
    /\ UNCHANGED <<ws, branch>>

\* The runner is lost, or GitHub ends a cancelled job that does not end itself.
RunnerLost(j) ==
    /\ jobs[j].status = "running"
    /\ CutShort(j)
    /\ jobs' = Ending(j)

OneStep(j) ==
    \/ Replay(j) \/ Prepare(j) \/ Regenerate(j) \/ VerifyFiles(j) \/ ScanForLeaks(j)
    \/ Upload(j) \/ OpenPullRequest(j) \/ CommandFails(j) \/ Interrupt(j)

JobsNext ==
    \/ \E k \in Kinds, ref \in Refs : Dispatch(k, ref)
    \/ \E j \in Jobs : Start(j) \/ OneStep(j) \/ TimesOut(j) \/ RunnerLost(j)

\* A step may hang.  Runners take the jobs there are, and GitHub enforces the
\* limits on a job and on a cancelled job.
Fairness ==
    \A j \in Jobs :
        /\ WF_jobsVars(Start(j))
        /\ WF_jobsVars(TimesOut(j))
        /\ WF_jobsVars(jobs[j].cancelled /\ RunnerLost(j))

JobsSpec == JobsInit /\ [][JobsNext]_jobsVars /\ Fairness

-----------------------------------------------------------------------------
(* Properties. *)

\* The public artifact of the Windows job holds both files, recorded by that
\* very job, readable and without personal data, whatever failed, hung or was
\* cancelled before the upload and whatever an earlier job left on the runner
\* (regen-device-recordings.yml, "Upload recordings").
GatedUploadsAreVerified ==
    \A j \in Jobs : jobs[j].kind = "windows" /\ At(j, "upload") =>
        \A f \in Family("windows") : Files(j)[f] = [by |-> j, quality |-> "good"]

\* A pull request holds every file of its family as one job recorded them,
\* never a mix with committed files or another job's (regen-mcr-*.yml, "Open
\* pull request").
PullRequestsAreWhole ==
    \A k \in DOMAIN branch : branch[k] # Nothing =>
        /\ DOMAIN branch[k].files = Family(k)
        /\ \A f \in Family(k) : branch[k].files[f].by = branch[k].by

\* The branch of a pull request is shared by all runs.  A job dispatched earlier
\* on the same ref never puts its recordings over those of a later one, since
\* the group lets one of them end before the other starts.
PullRequestsDoNotGoBack ==
    [][\A k \in DOMAIN branch :
        LET old == branch[k].by
            new == branch'[k].by
        IN old # 0 /\ new # 0 /\ jobs[old].ref = jobs[new].ref => old <= new]_jobsVars

\* Two jobs of the emulator workflow never run at a time, from whatever branches
\* they come (regen-mcr-macos-arm64.yml, "Global, NOT per-ref").
EmulatorRunsAreApart ==
    \A i, j \in Jobs :
        jobs[i].kind = "emulator" /\ jobs[j].kind = "emulator"
        /\ jobs[i].status = "running" /\ jobs[j].status = "running" => i = j

\* Every dispatched job comes to an end, although any step may hang and jobs
\* wait for each other's groups and runners (timeout-minutes).
RunsConclude ==
    \A j \in Jobs : jobs[j].status # "none" ~> jobs[j].status \in {"ended", "dropped"}

-----------------------------------------------------------------------------
(* The inductive invariant. *)

Content == {Committed, Missing} \cup [by : Jobs, quality : Qualities \cup {"bad"}]
Outcomes == {"skipped", "success", "failure", "cancelled"}
JobStates ==
    [kind : AllKinds \cup {"none"}, ref : Refs \cup {"none"},
     status : {"none", "pending", "queued", "running", "ended", "dropped"},
     cancelled : BOOLEAN, agent : Agents \cup {"none"}, at : 0 .. Len(WindowsSteps),
     outcome : [StepNames -> Outcomes]]

\* What each variable holds; a job that runs has a runner and a step of its kind.
JobsTypeOK ==
    /\ jobs \in [Jobs -> JobStates]
    /\ \A j \in Jobs :
        /\ jobs[j].status # "none" => jobs[j].kind \in AllKinds
        /\ jobs[j].cancelled => jobs[j].status = "running"
        /\ jobs[j].status = "running" =>
            /\ jobs[j].agent \in Agents
            /\ jobs[j].at \in DOMAIN Steps(jobs[j].kind)
    /\ ws \in [Agents -> [Fixtures -> Content]]
    /\ DOMAIN branch = {"platform", "emulator"}
    /\ \A k \in DOMAIN branch : branch[k].by \in 0 .. MaxJobs

Live(j) == jobs[j].status \in {"pending", "queued", "running"}

\* Jobs are dispatched one after the other.  Of a group one holds it and one, which
\* is younger, waits; a runner has one job.
GroupInv ==
    /\ \A j \in Jobs : jobs[j].status # "none" => \A i \in 1 .. j : jobs[i].status # "none"
    /\ \A i, j \in Jobs :
        Live(i) /\ Live(j) /\ i < j
        /\ Group(jobs[i].kind, jobs[i].ref) = Group(jobs[j].kind, jobs[j].ref) =>
            jobs[i].status # "pending" /\ jobs[j].status = "pending"
    /\ \A i, j \in Jobs :
        jobs[i].status = "running" /\ jobs[j].status = "running" /\ jobs[i].agent = jobs[j].agent => i = j

Regenerated(j) == \A f \in Family(jobs[j].kind) : ws[jobs[j].agent][f] \in Recorded(j)

\* What job j's outcomes say of the files its runner holds: a job that may still
\* open a pull request has recorded them all, a Windows job that has verified them
\* too, and what its leak scan passed is without personal data.
OutcomesTell(j) ==
    LET k == jobs[j].kind
        o == jobs[j].outcome
    IN  /\ \A i \in DOMAIN Steps(k) : i >= jobs[j].at => o[Steps(k)[i]] = "skipped"
        /\ k # "windows" =>
            /\ At(j, "upload") =>
                \/ Regenerated(j)
                \/ jobs[j].cancelled \/ \E t \in StepNames : o[t] \in {"failure", "cancelled"}
            /\ At(j, "pullRequest") => Regenerated(j)
        /\ k = "windows" =>
            /\ At(j, "verify") \/ o["verify"] # "skipped" => Regenerated(j)
            /\ At(j, "leak") => o["verify"] # "skipped"
            /\ o["leak"] = "success" => \A f \in Family(k) : ws[jobs[j].agent][f].quality = "good"
            /\ At(j, "upload") => o["verify"] = "success" /\ o["leak"] = "success"

StepInv ==
    \A j \in Jobs :
        /\ jobs[j].status = "running" => OutcomesTell(j)
        /\ jobs[j].status \in {"pending", "queued"} => jobs[j].outcome = NoOutcome

\* The branch of a pull request holds what a job dispatched before all that are
\* still live on its ref, or one of these, recorded.
BranchInv ==
    \A k \in DOMAIN branch :
        LET b == branch[k].by IN
        b # 0 =>
            /\ jobs[b].status # "none" /\ jobs[b].kind = k
            /\ \A j \in Jobs : Live(j) /\ jobs[j].kind = k /\ jobs[j].ref = jobs[b].ref => b <= j

JobsInv == JobsTypeOK /\ GroupInv /\ StepInv /\ BranchInv /\ PullRequestsAreWhole
=============================================================================
