------------------------------ MODULE Provision ------------------------------
(***************************************************************************)
(* provision-recorder.sh: the recorder and the siblings it is built        *)
(* against, cloned side by side at the revisions one codetracer commit     *)
(* pins, on runners that keep the directory between runs.  A run can fail  *)
(* on the network or be killed at any step, branches move between runs, and*)
(* what was built in the clones is left there for the next run.            *)
(***************************************************************************)
EXTENDS Naturals, Sequences, SequencesExt

CONSTANTS
    Siblings,       \* the other repositories, in the order they are cloned
    Objects,        \* what a name or a pin stands for: commits and annotated tags
    Peel,           \* Peel[o]: the commit an object is checked out as
    CtCommits,      \* codetracer's commits
    CtLock,         \* CtLock[c][r]: the revision of r in its repro.lock, or None
    RecLock,        \* RecLock[c][s]: the same of a recorder commit
    RecRefs,        \* the recorder's branches, tags and commits one can name
    Kills,          \* whether runs are killed
    None

Repos == {"codetracer", "recorder"} \cup ToSet(Siblings)
Pinned == Repos \ {"codetracer"}

ASSUME ProvisionAssumption ==
    /\ Siblings \in Seq(STRING) /\ IsInjective(Siblings)
    /\ ToSet(Siblings) \cap {"codetracer", "recorder"} = {}
    /\ None \notin Objects
    /\ Peel \in [Objects -> Objects] /\ \A o \in Objects : Peel[Peel[o]] = Peel[o]
    /\ CtCommits \subseteq Objects /\ \A c \in CtCommits : Peel[c] = c
    /\ CtLock \in [CtCommits -> [Pinned -> Objects \cup {None}]]
    /\ RecLock \in [Objects -> [ToSet(Siblings) -> Objects \cup {None}]]
    /\ \A c \in CtCommits, r \in Pinned : CtLock[c][r] # None => Peel[CtLock[c][r]] = CtLock[c][r]
    /\ \A c \in Objects, s \in ToSet(Siblings) :
            RecLock[c][s] # None => Peel[RecLock[c][s]] = RecLock[c][s]
    /\ RecRefs \subseteq Objects
    /\ Kills \in BOOLEAN

VARIABLES
    dirs,       \* the clones: git, head, tidy (the files are the head's, no others)
    pins,       \* recorder-pins.txt: a revision for each repository, or None
    step,       \* the run's next step, "idle", "done", "failed" or "killed"
    override,   \* what RECORDER_REF stands for, or None
    withCt,     \* --with-codetracer
    ctSha, recSha,
    target,     \* the repository being cloned
    sha,        \* at this revision
    fault       \* history: the network failed in this run

run == <<override, withCt, ctSha, recSha, target, sha>>
vars == <<dirs, pins, step, run, fault>>

NoClone == [git |-> "none", head |-> None, tidy |-> FALSE]
NoPins == [r \in Repos |-> None]

Init ==
    /\ dirs = [r \in Repos |-> NoClone]
    /\ pins = NoPins
    /\ step = "idle"
    /\ override = None /\ withCt = FALSE
    /\ ctSha = None /\ recSha = None /\ target = "codetracer" /\ sha = None
    /\ fault = FALSE

Ended == {"idle", "done", "failed", "killed"}

\* Builds and tests, after a run, leave files in the clones and change files of them.
UseClones ==
    /\ step \in Ended
    /\ dirs' = [r \in Repos |->
                    IF dirs[r].git = "ready" THEN [dirs[r] EXCEPT !.tidy = FALSE]
                    ELSE dirs[r]]
    /\ step' = "idle"
    /\ UNCHANGED <<pins, run, fault>>

Start ==
    /\ step \in Ended
    /\ override' \in RecRefs \cup {None} /\ withCt' \in BOOLEAN
    /\ step' = "resolve"
    /\ fault' = FALSE
    /\ ctSha' = None /\ recSha' = None /\ target' = "codetracer" /\ sha' = None
    /\ UNCHANGED <<dirs, pins>>

Fail ==
    /\ step' = "failed"
    /\ UNCHANGED <<dirs, pins, run, fault>>

NetworkFails ==
    /\ step \in {"resolve", "lock", "fetch"}
    /\ step' = "failed"
    /\ fault' = TRUE
    /\ UNCHANGED <<dirs, pins, run>>

\* The branch, wherever it is by now, is resolved once in a run; there may be none.
Resolve ==
    /\ step = "resolve"
    /\ \/ Fail
       \/ /\ ctSha' \in CtCommits
          /\ step' = "lock"
          /\ UNCHANGED <<dirs, pins, override, withCt, recSha, target, sha, fault>>

\* What the clone of r starts with.
CloneNext(r, rev) == step' = "prepare" /\ target' = r /\ sha' = rev

\* The lock is read, and the recorder's revision from it or from RECORDER_REF.
ReadLock ==
    /\ step = "lock"
    /\ LET rec == IF override = None THEN CtLock[ctSha]["recorder"] ELSE override IN
       \/ rec = None /\ Fail
       \/ /\ rec # None
          /\ recSha' = rec
          /\ IF withCt THEN CloneNext("codetracer", ctSha) ELSE CloneNext("recorder", rec)
          /\ UNCHANGED <<dirs, pins, override, withCt, ctSha, fault>>

\* A directory that is no clone is made anew.
InitClone ==
    /\ step = "prepare"
    /\ dirs[target].git = "none"
    /\ dirs' = [dirs EXCEPT ![target] = [NoClone EXCEPT !.git = "noOrigin"]]
    /\ step' = "remote"
    /\ UNCHANGED <<pins, run, fault>>

AddRemote ==
    /\ step = "remote"
    /\ dirs' = [dirs EXCEPT ![target].git = "ready"]
    /\ step' = "fetch"
    /\ UNCHANGED <<pins, run, fault>>

ReuseClone ==
    /\ step = "prepare"
    /\ dirs[target].git # "none"
    /\ step' = "fetch"
    /\ UNCHANGED <<dirs, pins, run, fault>>

Fetch ==
    /\ step = "fetch"
    /\ \/ dirs[target].git = "noOrigin" /\ Fail
       \/ /\ dirs[target].git = "ready"
          /\ step' = "checkout"
          /\ UNCHANGED <<dirs, pins, run, fault>>

Checkout ==
    /\ step = "checkout"
    /\ dirs' = [dirs EXCEPT ![target].head = Peel[sha]]
    /\ step' = "clean"
    /\ UNCHANGED <<pins, run, fault>>

Clean ==
    /\ step = "clean"
    /\ dirs' = [dirs EXCEPT ![target].tidy = TRUE]
    /\ step' = "compare"
    /\ UNCHANGED <<pins, run, fault>>

\* Bug for SiblingRev: codetracer's lock first, overridden or not.
CodetracersRev(s) ==
    LET ct == CtLock[ctSha][s]
        rec == RecLock[dirs["recorder"].head][s]
    IN  IF ct # None THEN ct ELSE rec

\* Bug for SiblingRev: the recorder's lock is not looked into.
CodetracersOnly(s) == CtLock[ctSha][s]

\* The revision of a sibling: codetracer's lock first, or the recorder's own
\* when the recorder is overridden.
SiblingRev(s) ==
    LET ct == CtLock[ctSha][s]
        rec == RecLock[dirs["recorder"].head][s]
    IN  IF override = None THEN IF ct # None THEN ct ELSE rec
        ELSE IF rec # None THEN rec ELSE ct

\* The sibling after r, if any.
HasSiblingAfter(r) == Siblings # <<>> /\ r # Last(Siblings)
SiblingAfter(r) ==
    IF r = "recorder" THEN Head(Siblings)
    ELSE Siblings[1 + CHOOSE i \in 1..Len(Siblings) : Siblings[i] = r]

\* The loop's next turn.
NextSibling(r) ==
    IF ~HasSiblingAfter(r) THEN step' = "done" /\ UNCHANGED <<target, sha>>
    ELSE LET s == SiblingAfter(r) IN
         IF SiblingRev(s) = None THEN step' = "failed" /\ target' = s /\ sha' = None
         ELSE CloneNext(s, SiblingRev(s))

\* The clone must be at the revision asked for.
Differs ==
    /\ step = "compare"
    /\ dirs[target].head # sha
    /\ Fail

CodetracerCloned ==
    /\ step = "compare" /\ target = "codetracer"
    /\ dirs[target].head = sha
    /\ CloneNext("recorder", recSha)
    /\ UNCHANGED <<dirs, pins, override, withCt, ctSha, recSha, fault>>

\* Bug for RecorderCloned: the pins of the run before are kept.
RecorderClonedAppending ==
    /\ step = "compare" /\ target = "recorder"
    /\ dirs[target].head = sha
    /\ pins' = [pins EXCEPT !["codetracer"] = ctSha, !["recorder"] = recSha]
    /\ NextSibling("recorder")
    /\ UNCHANGED <<dirs, override, withCt, ctSha, recSha, fault>>

\* The pins file is begun once the recorder is there.
RecorderCloned ==
    /\ step = "compare" /\ target = "recorder"
    /\ dirs[target].head = sha
    /\ pins' = [NoPins EXCEPT !["codetracer"] = ctSha, !["recorder"] = recSha]
    /\ NextSibling("recorder")
    /\ UNCHANGED <<dirs, override, withCt, ctSha, recSha, fault>>

SiblingCloned ==
    /\ step = "compare" /\ target \in ToSet(Siblings)
    /\ dirs[target].head = sha
    /\ pins' = [pins EXCEPT ![target] = sha]
    /\ NextSibling(target)
    /\ UNCHANGED <<dirs, override, withCt, ctSha, recSha, fault>>

RunStep ==
    \/ Resolve \/ ReadLock
    \/ InitClone \/ AddRemote \/ ReuseClone \/ Fetch \/ Checkout \/ Clean
    \/ Differs \/ CodetracerCloned \/ RecorderCloned \/ SiblingCloned

\* The run is killed; a checkout, half made.
Killed ==
    /\ Kills
    /\ step \notin Ended
    /\ step' = "killed"
    /\ dirs' = IF step = "checkout" THEN [dirs EXCEPT ![target].tidy = FALSE] ELSE dirs
    /\ UNCHANGED <<pins, run, fault>>

Next == UseClones \/ Start \/ NetworkFails \/ RunStep \/ Killed

Spec == Init /\ [][Next]_vars

-----------------------------------------------------------------------------
(* Properties. *)

Clones ==
    [git : {"none", "noOrigin", "ready"}, head : Objects \cup {None}, tidy : BOOLEAN]

TypeOK ==
    /\ dirs \in [Repos -> Clones]
    /\ pins \in [Repos -> Objects \cup {None}]
    /\ step \in Ended \cup {"resolve", "lock", "prepare", "remote", "fetch", "checkout", "clean",
                          "compare"}
    /\ override \in RecRefs \cup {None} /\ withCt \in BOOLEAN
    /\ ctSha \in CtCommits \cup {None} /\ recSha \in Objects \cup {None}
    /\ target \in Repos /\ sha \in Objects \cup {None}
    /\ fault \in BOOLEAN
    /\ step \notin Ended \cup {"resolve"} => ctSha # None
    /\ step \notin Ended \cup {"resolve", "lock"} => recSha # None /\ sha # None

\* The revision of a repository as the script's header gives it
\* (provision-recorder.sh:16-21): the first of the locks that pins it.
FirstPin(revs) ==
    LET pinning == {i \in DOMAIN revs : revs[i] # None}
    IN  IF pinning = {} THEN None
        ELSE revs[CHOOSE i \in pinning : \A j \in pinning : i <= j]

Documented(r) ==
    CASE r = "codetracer" -> ctSha
      [] r = "recorder" -> FirstPin(<<override, CtLock[ctSha][r]>>)
      [] OTHER -> IF override = None THEN FirstPin(<<CtLock[ctSha][r], RecLock[recSha][r]>>)
                  ELSE FirstPin(<<RecLock[recSha][r], CtLock[ctSha][r]>>)

\* A run that succeeds leaves every clone at the revision that one codetracer
\* commit gives it, with its files as committed and nothing of an earlier run, and
\* a pins file that says so, whatever state the clones were in and wherever the
\* branch goes meanwhile (provision-recorder.sh:1-33, 102-180).
SuccessIsAsPinned ==
    step = "done" =>
        /\ \A r \in Repos : pins[r] = Documented(r) /\ pins[r] # None
        /\ \A r \in IF withCt THEN Repos ELSE Pinned :
            dirs[r] = [git |-> "ready", head |-> pins[r], tidy |-> TRUE]

\* The siblings cloned before r.
Before(r) == {Siblings[j] : j \in {k \in 1..Len(Siblings) :
                \A i \in 1..Len(Siblings) : Siblings[i] = r => k < i}}

\* The pins file a run leaves in its loop, killed or failed there as well, names
\* just what that run has cloned: the recorder and the siblings so far
\* (provision-recorder.sh:151-180).
PinsFollowClones ==
    target \in ToSet(Siblings) /\ step \notin {"idle", "done"} =>
        \A r \in Pinned :
            pins[r] = IF r = "recorder" \/ r \in Before(target) THEN dirs[r].head ELSE None

\* A name or a pin is missing.
NotPinned ==
    ctSha = None \/ \E r \in Pinned : recSha = None \/ Documented(r) = None

\* A run fails for what its header names, for the network, or for two things it
\* does not name: a clone a killed run left without its remote, and an override
\* that is an annotated tag.
FailuresAreExplained ==
    step = "failed" /\ ~fault =>
        \/ NotPinned
        \/ dirs[target].git = "noOrigin"
        \/ target = "recorder" /\ Peel[sha] # sha

\* What the comment at provision-recorder.sh:102-104 says: an existing clone is
\* reused, nothing of a previous run being in its way.
PreviousRunsDoNotMatter ==
    step = "failed" /\ ~fault => NotPinned \/ Peel[sha] # sha
=============================================================================
