------------------------- MODULE VerificationProofs -------------------------
(***************************************************************************)
(* That a recording is verified before it is committed and before a change *)
(* to it is merged: the gate lets nothing through that its tools do not    *)
(* accept, for all paths, recordings, revisions and tools; a change is     *)
(* verified with the readers one codetracer commit pins, for every lock,   *)
(* every set of revisions and every sequence of pushes; and the jobs that  *)
(* record the fixtures again publish what they recorded, for every number  *)
(* of jobs, branches and runners.                                          *)
(***************************************************************************)
EXTENDS RecordingGate, VerificationJobs, RegenerationJobs, TLAPS

-----------------------------------------------------------------------------
(* The gate.                                                               *)

OptNim == NimRevs \cup {Absent}
OptRust == RustRevs \cup {Absent}
Heads == [nim : OptNim, rust : OptRust]
Caches == [print : OptNim, scan : OptNim, names : OptNim, util : OptRust]

CommittedInv == verifiedWith # Absent => Acceptable(verifiedWith, committed)

\* The parts of the invariant that say nothing of the loops.
ToolInv == BuiltInv /\ UndisturbedToolsAreCurrent

\* Files of a tree, and what follows for its paths.
LEMMA TreeTyping ==
    ASSUME NEW tree \in Trees
    PROVE  /\ tree.listed \subseteq Paths
           /\ InTree(tree) \subseteq Paths
           /\ \A p \in InTree(tree) : tree.files[p] \in Recordings
BY DEF Trees, InTree

\* The initial state satisfies the invariant.
LEMMA GateInitial == GateInit => GateInv
<1> SUFFICES ASSUME GateInit PROVE GateInv
  OBVIOUS
<1>1. committed \in Trees
  BY DEF GateInit, Trees
<1>2. GateTypeOK
  BY <1>1 DEF GateInit, GateTypeOK, InTree, Building
<1>3. BuiltInv /\ UndisturbedToolsAreCurrent
  BY DEF GateInit, BuiltInv, UndisturbedToolsAreCurrent, Building
<1>4. LoopInv
  BY DEF GateInit, LoopInv
<1> QED
  BY <1>2, <1>3, <1>4 DEF GateInv, GateInit

\* The hook's end, whatever the verdict, leaves well-typed variables.
LEMMA TypeStep == GateInv /\ [GateNext]_gateVars => GateTypeOK'
<1> SUFFICES ASSUME GateInv, [GateNext]_gateVars PROVE GateTypeOK'
  OBVIOUS
<1> USE GateAssumption
<1>0. GateTypeOK /\ BuiltInv /\ LoopInv
  BY DEF GateInv
<1>a. hook = "idle" => todo = {} /\ readable = {}
  BY <1>0 DEF GateTypeOK, LoopInv
<1>1. CASE MoveHead
  BY <1>0, <1>1 DEF GateTypeOK, MoveHead, InTree, cacheVars, checkVars
<1>2. CASE PassAtOnce
  BY <1>0, <1>2 DEF GateTypeOK, PassAtOnce, Commit, InTree, cacheVars, checkVars, Building
<1>3. CASE StartHook
  BY <1>0, <1>a, <1>3 DEF GateTypeOK, StartHook, InTree, cacheVars, checkVars, Building
<1>4. CASE UseGiven
  BY <1>0, <1>4 DEF GateTypeOK, UseGiven, StartChecks, InTree, cacheVars, checkVars, Building
<1>5. CASE NoSibling
  BY <1>0, <1>5 DEF GateTypeOK, NoSibling, Refuse, InTree, cacheVars, checkVars, Building
<1>6. CASE UseCache
  <2>1. heads \in Stamps
    BY <1>0, <1>6 DEF UseCache, GateTypeOK, Stamps
  <2>2. stamp = heads => cache \in ToolSets
    BY <1>0, <2>1 DEF BuiltInv
  <2> QED
    BY <1>0, <1>6, <2>1, <2>2 DEF GateTypeOK, UseCache, StartChecks, InTree, cacheVars, checkVars, Building
<1>7. CASE BuildStep
  <2>1. cache' \in Caches /\ hook' \in Building
    BY <1>0, <1>7 DEF GateTypeOK, BuildStep, BuildTool, Building, Caches, OptNim, OptRust
  <2>2. UNCHANGED <<heads, stamp, disturbed, committed, staged, wanted, used, checkVars, verifiedWith>>
    BY <1>7 DEF BuildStep, BuildTool
  <2> QED
    BY <1>0, <2>1, <2>2 DEF GateTypeOK, InTree, checkVars, Building, Caches, OptNim, OptRust
<1>8. CASE BuildFails
  BY <1>0, <1>8 DEF GateTypeOK, BuildFails, Refuse, InTree, Building
<1>9. CASE WriteStamp
  <2>1. cache \in ToolSets
    BY <1>0, <1>9 DEF GateTypeOK, BuiltInv, WriteStamp, ToolSets
  <2> QED
    BY <1>0, <1>9, <2>1 DEF GateTypeOK, WriteStamp, StartChecks, InTree, BuiltInv, Building
<1>10. CASE Examine
  <2>1. todo' \subseteq todo /\ readable' \subseteq readable \cup todo /\ failed' \in BOOLEAN
    BY <1>0, <1>10 DEF GateTypeOK, Examine
  <2>2. UNCHANGED <<heads, cacheVars, committed, staged, hook, wanted, used, verifiedWith>>
    BY <1>10 DEF Examine
  <2> QED
    BY <1>0, <2>1, <2>2 DEF GateTypeOK, InTree, cacheVars
<1>11. CASE CheckListed
  BY <1>0, <1>11 DEF GateTypeOK, CheckListed, InTree, cacheVars, Building
<1>12. CASE VerifyOne
  BY <1>0, <1>12 DEF GateTypeOK, VerifyOne, InTree, cacheVars, Building
<1>13. CASE Verdict
  BY <1>0, <1>13 DEF GateTypeOK, Verdict, Commit, InTree, cacheVars, Building
<1>14. CASE Rejected
  BY <1>0, <1>14 DEF GateTypeOK, Rejected, Refuse, InTree, cacheVars, Building
<1>15. CASE Interrupted
  BY <1>0, <1>15 DEF GateTypeOK, Interrupted, Refuse, InTree, Building
<1>16. CASE UNCHANGED gateVars
  BY <1>0, <1>16 DEF GateTypeOK, gateVars, cacheVars, checkVars, InTree
<1> QED
  BY <1>1, <1>2, <1>3, <1>4, <1>5, <1>6, <1>7, <1>8, <1>9, <1>10, <1>11, <1>12, <1>13, <1>14,
     <1>15, <1>16 DEF GateNext, HookStep

\* The cache: each tool built since the HEADs were read is of them.
LEMMA ToolStep == GateInv /\ [GateNext]_gateVars => ToolInv'
<1> SUFFICES ASSUME GateInv, [GateNext]_gateVars PROVE ToolInv'
  OBVIOUS
<1> USE GateAssumption DEF ToolInv
<1>0. GateTypeOK /\ BuiltInv /\ UndisturbedToolsAreCurrent
  BY DEF GateInv
<1> USE <1>0 DEF BuiltInv, UndisturbedToolsAreCurrent, Building
<1>1. CASE MoveHead
  BY <1>1 DEF GateTypeOK, MoveHead
<1>2. CASE PassAtOnce
  BY <1>2 DEF PassAtOnce, Commit, cacheVars
<1>3. CASE StartHook
  BY <1>3 DEF StartHook, cacheVars
<1>4. CASE UseGiven
  BY <1>4 DEF UseGiven, StartChecks, cacheVars
<1>5. CASE NoSibling
  BY <1>5 DEF NoSibling, Refuse, cacheVars
<1>6. CASE UseCache
  <2>1. heads \in Stamps
    BY <1>6 DEF UseCache, GateTypeOK, Stamps
  <2>2. heads # Absent
    BY <2>1
  <2> QED
    BY <1>6, <2>1, <2>2 DEF UseCache, StartChecks
<1>7. CASE BuildStep
  <2>1. cache \in Caches
    BY DEF GateTypeOK, Caches, OptNim, OptRust
  <2>2. CASE BuildTool("print", heads.nim, "scan")
    BY <2>1, <2>2 DEF BuildTool, Caches, OptNim, OptRust, ToolSets, GateTypeOK
  <2>3. CASE BuildTool("scan", heads.nim, "names")
    BY <2>1, <2>3 DEF BuildTool, Caches, OptNim, OptRust, ToolSets, GateTypeOK
  <2>4. CASE BuildTool("names", heads.nim, "util")
    BY <2>1, <2>4 DEF BuildTool, Caches, OptNim, OptRust, ToolSets, GateTypeOK
  <2>5. CASE BuildTool("util", heads.rust, "stamp")
    BY <2>1, <2>5 DEF BuildTool, Caches, OptNim, OptRust, ToolSets, GateTypeOK
  <2> QED
    BY <1>7, <2>2, <2>3, <2>4, <2>5 DEF BuildStep
<1>8. CASE BuildFails
  BY <1>8 DEF BuildFails, Refuse
<1>9. CASE WriteStamp
  <2>1. cache \in ToolSets /\ (~disturbed => cache = ToolsOf(wanted))
    BY <1>9 DEF GateTypeOK, WriteStamp, ToolSets, ToolsOf
  <2> QED
    BY <1>9, <2>1 DEF WriteStamp, StartChecks
<1>10. CASE Examine
  BY <1>10 DEF Examine, cacheVars
<1>11. CASE CheckListed
  BY <1>11 DEF CheckListed, cacheVars
<1>12. CASE VerifyOne
  BY <1>12 DEF VerifyOne, cacheVars
<1>13. CASE Verdict
  BY <1>13 DEF Verdict, Commit, cacheVars
<1>14. CASE Rejected
  BY <1>14 DEF Rejected, Refuse, cacheVars
<1>15. CASE Interrupted
  BY <1>15 DEF Interrupted, Refuse
<1>16. CASE UNCHANGED gateVars
  BY <1>16 DEF gateVars, cacheVars
<1> QED
  BY <1>1, <1>2, <1>3, <1>4, <1>5, <1>6, <1>7, <1>8, <1>9, <1>10, <1>11, <1>12, <1>13, <1>14,
     <1>15, <1>16 DEF GateNext, HookStep

\* The loops: the verdict so far is that of the recordings met so far.
LEMMA LoopStep == GateInv /\ [GateNext]_gateVars => LoopInv'
<1> SUFFICES ASSUME GateInv, [GateNext]_gateVars PROVE LoopInv'
  OBVIOUS
<1>0. GateTypeOK /\ LoopInv
  BY DEF GateInv
<1>b. todo \subseteq InTree(staged) /\ InTree(staged) \subseteq Paths
  BY <1>0 DEF GateTypeOK, InTree
<1>t. failed \in BOOLEAN
  BY <1>0 DEF GateTypeOK
<1> DEFINE out == {"idle", "tools"} \cup Building
<1>e. hook' \in out /\ todo' = {} /\ readable' = {} /\ ~failed' => LoopInv'
  BY DEF LoopInv, Building
<1>s. UNCHANGED <<staged, used, hook, todo, readable, failed>> => LoopInv'
  BY <1>0 DEF LoopInv, InTree
<1>i. hook \in out => todo = {} /\ readable = {} /\ ~failed
  BY <1>0 DEF LoopInv, Building
<1>v. ASSUME NEW t, StartChecks(t), hook \in out, UNCHANGED staged PROVE LoopInv'
  BY <1>0, <1>i, <1>v, <1>t DEF LoopInv, StartChecks, InTree
<1>1. CASE MoveHead
  BY <1>1, <1>s DEF MoveHead, checkVars
<1>2. CASE PassAtOnce
  BY <1>2, <1>e DEF PassAtOnce, Commit
<1>3. CASE StartHook
  BY <1>3, <1>e, <1>i DEF StartHook, checkVars
<1>4. CASE UseGiven
  BY <1>4, <1>v DEF UseGiven
<1>5. CASE NoSibling
  BY <1>5, <1>e DEF NoSibling, Refuse
<1>6. CASE UseCache
  BY <1>6, <1>v, <1>e, <1>i DEF UseCache, checkVars, Building
<1>7. CASE BuildStep
  BY <1>7, <1>e, <1>i DEF BuildStep, BuildTool, checkVars, Building
<1>8. CASE BuildFails
  BY <1>8, <1>e DEF BuildFails, Refuse
<1>9. CASE WriteStamp
  BY <1>9, <1>v DEF WriteStamp, Building
<1>10. CASE Examine
  <2>1. PICK p \in todo :
          /\ todo' = todo \ {p}
          /\ \/ p \notin staged.listed /\ readable' = readable \cup {p} /\ failed' = failed
             \/ /\ p \in staged.listed /\ readable' = readable
                /\ failed' = (failed \/ ~RefusedAsListed(used, staged.files[p]))
    BY <1>10 DEF Examine
  <2> DEFINE looked == InTree(staged) \ todo
             unlisted == InTree(staged) \ staged.listed
             listedFails(ps) == \E q \in ps \cap staged.listed : ~RefusedAsListed(used, staged.files[q])
  <2>2. readable = looked \cap unlisted /\ (failed <=> listedFails(looked))
    BY <1>0, <1>10 DEF LoopInv, Examine
  <2>3. looked' = looked \cup {p} /\ UNCHANGED <<staged, used, hook>> /\ hook = "examine"
    BY <1>10, <1>b, <2>1 DEF Examine, InTree
  <2>4. readable' = looked' \cap unlisted
    BY <2>1, <2>2, <2>3, <1>b
  <2>5. failed' <=> listedFails(looked \cup {p})
    <3>1. listedFails(looked \cup {p}) <=>
            listedFails(looked) \/ (p \in staged.listed /\ ~RefusedAsListed(used, staged.files[p]))
      OBVIOUS
    <3> HIDE DEF listedFails, looked
    <3>2. CASE p \notin staged.listed /\ failed' = failed
      BY <2>2, <3>1, <3>2
    <3>3. CASE p \in staged.listed /\ failed' = (failed \/ ~RefusedAsListed(used, staged.files[p]))
      BY <2>2, <3>1, <3>3, <1>t
    <3> QED
      BY <2>1, <3>2, <3>3
  <2> QED
    BY <2>3, <2>4, <2>5 DEF LoopInv, InTree
<1>11. CASE CheckListed
  BY <1>0, <1>11, <1>t DEF LoopInv, CheckListed, InTree
<1>12. CASE VerifyOne
  <2>1. PICK p \in todo :
          /\ todo' = todo \ {p}
          /\ failed' = (failed \/ ~Passes(used, staged.files[p]))
    BY <1>12 DEF VerifyOne
  <2> DEFINE unlisted == InTree(staged) \ staged.listed
             notPassing(ps) == \E q \in ps : ~Passes(used, staged.files[q])
             listFails == \/ \E q \in InTree(staged) \cap staged.listed :
                               ~RefusedAsListed(used, staged.files[q])
                          \/ ~(staged.listed \subseteq InTree(staged))
  <2>2. /\ readable = unlisted /\ unlisted # {} /\ todo \subseteq unlisted
        /\ failed <=> listFails \/ notPassing(unlisted \ todo)
    BY <1>0, <1>12 DEF LoopInv, VerifyOne
  <2>3. /\ unlisted \ todo' = (unlisted \ todo) \cup {p}
        /\ UNCHANGED <<staged, used, hook, readable>> /\ hook = "verify"
    BY <1>12, <2>1, <2>2 DEF VerifyOne
  <2>4. failed' <=> listFails \/ notPassing(unlisted \ todo')
    BY <2>1, <2>2, <2>3, <1>t
  <2> QED
    BY <2>1, <2>2, <2>3, <2>4 DEF LoopInv, InTree
<1>13. CASE Verdict
  BY <1>13, <1>e DEF Verdict, Commit
<1>14. CASE Rejected
  BY <1>14, <1>e DEF Rejected, Refuse
<1>15. CASE Interrupted
  BY <1>15, <1>e DEF Interrupted, Refuse
<1>16. CASE UNCHANGED gateVars
  BY <1>16, <1>s DEF gateVars, checkVars
<1> QED
  BY <1>1, <1>2, <1>3, <1>4, <1>5, <1>6, <1>7, <1>8, <1>9, <1>10, <1>11, <1>12, <1>13, <1>14,
     <1>15, <1>16 DEF GateNext, HookStep

\* The verdict over the two loops is the whole tree's.
LEMMA VerdictLemma == GateInv => VerdictIsExact
<1> SUFFICES ASSUME GateInv PROVE VerdictIsExact
  OBVIOUS
<1>0. LoopInv /\ failed \in BOOLEAN
  BY DEF GateInv, GateTypeOK
<1>1. hook = "verify" /\ todo = {} => (failed <=> ~Acceptable(used, staged))
  <2> SUFFICES ASSUME hook = "verify", todo = {} PROVE failed <=> ~Acceptable(used, staged)
    OBVIOUS
  <2> DEFINE unlisted == InTree(staged) \ staged.listed
  <2>1. /\ unlisted # {}
        /\ failed <=> \/ \E p \in InTree(staged) \cap staged.listed :
                            ~RefusedAsListed(used, staged.files[p])
                      \/ ~(staged.listed \subseteq InTree(staged))
                      \/ \E p \in unlisted : ~Passes(used, staged.files[p])
    BY <1>0 DEF LoopInv
  <2> QED
    BY <2>1, <1>0 DEF Acceptable
<1>2. hook = "refuse" => ~Acceptable(used, staged)
  BY <1>0 DEF LoopInv, Acceptable
<1> QED
  BY <1>1, <1>2 DEF VerdictIsExact

\* Only the verdict changes what is committed, and only to what is accepted.
LEMMA CommitStep ==
    GateInv /\ [GateNext]_gateVars =>
        \/ UNCHANGED <<committed, verifiedWith>>
        \/ used # Absent /\ Acceptable(used, committed') /\ verifiedWith' = used
<1> SUFFICES ASSUME GateInv, [GateNext]_gateVars
             PROVE  \/ UNCHANGED <<committed, verifiedWith>>
                    \/ used # Absent /\ Acceptable(used, committed') /\ verifiedWith' = used
  OBVIOUS
<1>1. CASE Verdict
  <2>1. ~failed /\ hook = "verify" /\ todo = {}
    BY <1>1 DEF Verdict
  <2>2. Acceptable(used, staged) /\ used # Absent
    BY <2>1, VerdictLemma DEF VerdictIsExact, GateInv, GateTypeOK
  <2>3. committed' = staged /\ verifiedWith' = used
    BY <1>1 DEF Verdict, Commit
  <2> QED
    BY <2>2, <2>3
<1>2. CASE PassAtOnce
  <2>1. PICK tree \in Stageable : ~Changed(tree) /\ staged' = tree
    BY <1>2 DEF PassAtOnce
  <2>2. tree \in Trees /\ committed \in Trees
    BY GateAssumption DEF GateInv, GateTypeOK
  <2>3. tree = committed
    BY <2>1, <2>2 DEF Changed, Trees
  <2> QED
    BY <1>2, <2>1, <2>3 DEF PassAtOnce, Commit
<1>3. CASE ~Verdict /\ ~PassAtOnce
  BY <1>3 DEF GateNext, HookStep, MoveHead, StartHook, UseGiven, NoSibling, UseCache, BuildStep, BuildTool,
     BuildFails, WriteStamp, Examine, CheckListed, VerifyOne, Rejected, Interrupted, Refuse,
     StartChecks, gateVars
<1> QED
  BY <1>1, <1>2, <1>3

LEMMA GateStep == GateInv /\ [GateNext]_gateVars => GateInv'
<1> SUFFICES ASSUME GateInv, [GateNext]_gateVars PROVE GateInv'
  OBVIOUS
<1>1. CommittedInv'
  BY CommitStep DEF CommittedInv, GateInv, Acceptable, InTree
<1> QED
  BY <1>1, TypeStep, ToolStep, LoopStep DEF GateInv, ToolInv, CommittedInv

\* What the last verified commit's tools accept is what they promise.
LEMMA AcceptedIsPromised == GateInv => CommittedIsVerified
<1> SUFFICES ASSUME GateInv, verifiedWith # Absent PROVE CommittedIsVerified
  BY DEF CommittedIsVerified
<1>1. Acceptable(verifiedWith, committed)
  BY DEF GateInv
<1> QED
  BY <1>1 DEF Acceptable, Passes, RefusedAsListed, CommittedIsVerified

\* The inductive invariant of the gate (pre-commit-verify-recordings.sh,
\* build-verify-tools.sh, verify-all-recordings.sh, verify-recordings.sh).
THEOREM GateInvariant == GateSpec => []GateInv
<1>1. GateInit => GateInv
  BY GateInitial
<1>2. GateInv /\ [GateNext]_gateVars => GateInv'
  BY GateStep
<1> QED
  BY <1>1, <1>2, PTL DEF GateSpec

\* No recording is in the repository that the tools of the last verified commit
\* do not accept, whatever commits, refusals and interruptions came between.
THEOREM RecordingsAreVerified == GateSpec => []CommittedIsVerified
BY GateInvariant, AcceptedIsPromised, PTL

\* The scripts' verdict is the whole tree's.
THEOREM VerdictExact == GateSpec => []VerdictIsExact
BY GateInvariant, VerdictLemma, PTL

\* The cache is current unless a build was disturbed.
THEOREM CacheCurrent == GateSpec => []UndisturbedToolsAreCurrent
<1>1. GateInv => UndisturbedToolsAreCurrent
  BY DEF GateInv
<1> QED
  BY <1>1, GateInvariant, PTL

\* The recordings in the repository change only to what the hook's tools accept.
THEOREM OnlyVerifiedCommits == GateSpec => CommitsAreVerified
<1>1. GateInv /\ [GateNext]_gateVars => [used # Absent /\ Acceptable(used, committed')]_committed
  BY CommitStep
<1> QED
  BY <1>1, GateInvariant, PTL DEF GateSpec, CommitsAreVerified

-----------------------------------------------------------------------------
(* The verification of changes.  ChecksInv is inductive: what the job has  *)
(* cloned so far is at its pins (CloneInv), and what it has built so far   *)
(* is of those clones (BuildInv); everything earlier jobs left is written  *)
(* over before it is used.                                                 *)

\* The first states, of an empty directory, have the invariant.
LEMMA InitChecks == Init => ChecksInv
BY VerificationAssumption
DEF Init, ChecksInv, TypeOK, CloneInv, BuildInv, CloneSteps, Builds, Readers, Changes,
    CloneStates, NoClone, NoTool, NoPins

\* A clone stays one when a field of it is set.
LEMMA CloneFields ==
    ASSUME NEW f \in [Readers -> CloneStates], NEW r \in Readers,
           NEW git \in {"none", "noOrigin", "ready"}, NEW head \in Revs \cup {None},
           NEW tidy \in BOOLEAN
    PROVE  /\ [f EXCEPT ![r].git = git] \in [Readers -> CloneStates]
           /\ [f EXCEPT ![r].head = head] \in [Readers -> CloneStates]
           /\ [f EXCEPT ![r].tidy = tidy] \in [Readers -> CloneStates]
<1>1. /\ [f[r] EXCEPT !.git = git] \in CloneStates
      /\ [f[r] EXCEPT !.head = head] \in CloneStates
      /\ [f[r] EXCEPT !.tidy = tidy] \in CloneStates
  BY DEF CloneStates
<1> QED BY <1>1

\* Whatever builds a tool does so in its turn, from its own clone.
LEMMA BuildKeeps ==
    ASSUME ChecksInv, BuildTools PROVE ChecksInv'
<1> USE VerificationAssumption
<1>1. CASE Build("print", "nim", "scan")
  BY <1>1 DEF ChecksInv, Build, Built, job, TypeOK, CloneInv, BuildInv, CloneSteps,
              CloneStates,
              Readers, Builds, Cloned, Sha
<1>2. CASE Build("scan", "nim", "names")
  BY <1>2 DEF ChecksInv, Build, Built, job, TypeOK, CloneInv, BuildInv, CloneSteps,
              CloneStates,
              Readers, Builds, Cloned, Sha
<1>3. CASE Build("names", "nim", "util")
  BY <1>3 DEF ChecksInv, Build, Built, job, TypeOK, CloneInv, BuildInv, CloneSteps,
              CloneStates,
              Readers, Builds, Cloned, Sha
<1>4. CASE Build("util", "rust", "verify")
  BY <1>4 DEF ChecksInv, Build, Built, job, TypeOK, CloneInv, BuildInv, CloneSteps,
              CloneStates,
              Readers, Builds, Cloned, Sha
<1> QED BY <1>1, <1>2, <1>3, <1>4 DEF BuildTools

\* Every step keeps the invariant.
LEMMA NextChecks == ChecksInv /\ [Next]_vars => ChecksInv'
<1> SUFFICES ASSUME ChecksInv, [Next]_vars PROVE ChecksInv'
  OBVIOUS
<1> USE VerificationAssumption
<1>1. CASE Push
  <2>1. TypeOK'
    <3>1. dirs' \in [Readers -> CloneStates]
      BY <1>1, CloneFields DEF ChecksInv, Push, Cut, TypeOK
    <3>2. pushed' \in 0..MaxChanges /\ waiting' \in Changes \cup {None}
      BY <1>1 DEF ChecksInv, Push, TypeOK, Changes
    <3>3. verdict' \in [Changes -> {None, "passed", "failed", "cancelled"}]
      BY <1>1 DEF ChecksInv, Push, TypeOK
    <3> QED BY <1>1, <3>1, <3>2, <3>3 DEF ChecksInv, Push, job, TypeOK
  <2>2. CloneInv'
    BY <1>1 DEF ChecksInv, Push, Cut, job, TypeOK, CloneSteps, CloneStates, Readers,
                Builds, CloneInv, Cloned, Sha, NoClone
  <2>3. BuildInv'
    BY <1>1 DEF ChecksInv, Push, Cut, job, Builds, CloneSteps, BuildInv, Built
  <2> QED BY <2>1, <2>2, <2>3 DEF ChecksInv
<1>2. CASE Killed
  <2>1. TypeOK'
    BY <1>2 DEF ChecksInv, Killed, Cut, End, job, TypeOK, CloneSteps, CloneStates,
                Readers, Changes, Builds, NoClone
  <2>2. CloneInv'
    BY <1>2 DEF ChecksInv, Killed, Cut, End, job, TypeOK, CloneSteps, CloneStates,
                Readers, Builds, CloneInv, Cloned, Sha, NoClone
  <2>3. BuildInv'
    BY <1>2 DEF ChecksInv, Killed, Cut, End, job, Builds, CloneSteps, BuildInv, Built
  <2> QED BY <2>1, <2>2, <2>3 DEF ChecksInv
<1>3. CASE RecorderJob
  <2>1. TypeOK'
    <3>1. PICK d \in LeftOf(dirs["nim"]) : dirs' = [dirs EXCEPT !["nim"] = d]
      BY <1>3 DEF RecorderJob
    <3>2. dirs["nim"] \in CloneStates
      BY DEF ChecksInv, TypeOK, Readers
    <3>3. d \in CloneStates
      <4>1. CASE dirs["nim"].git = "none"
        BY <3>1, <4>1 DEF LeftOf, NoClone, CloneStates
      <4>2. CASE dirs["nim"].git = "noOrigin"
        BY <3>1, <3>2, <4>2 DEF LeftOf
      <4>3. CASE dirs["nim"].git = "ready"
        BY <3>1, <4>3 DEF LeftOf, CloneStates
      <4> QED BY <3>2, <4>1, <4>2, <4>3 DEF CloneStates
    <3>4. dirs' \in [Readers -> CloneStates]
      BY <3>1, <3>3 DEF ChecksInv, TypeOK
    <3> QED BY <1>3, <3>4 DEF ChecksInv, RecorderJob, job, TypeOK
  <2>2. CloneInv'
    BY <1>3 DEF ChecksInv, RecorderJob, LeftOf, job, TypeOK, CloneSteps, CloneStates,
                Readers, Builds, CloneInv, Cloned, Sha, NoClone
  <2>3. BuildInv'
    BY <1>3 DEF ChecksInv, RecorderJob, LeftOf, job, Builds, CloneSteps, BuildInv, Built
  <2> QED BY <2>1, <2>2, <2>3 DEF ChecksInv
<1>4. CASE StartJob
  <2>1. TypeOK'
    BY <1>4 DEF ChecksInv, StartJob, job, TypeOK, CloneSteps, CloneStates, Readers,
                Changes, Builds, NoClone
  <2>2. CloneInv'
    BY <1>4 DEF ChecksInv, StartJob, job, TypeOK, CloneSteps, CloneStates, Readers,
                Builds, CloneInv, Cloned, Sha, NoClone
  <2>3. BuildInv'
    BY <1>4 DEF ChecksInv, StartJob, job, Builds, CloneSteps, BuildInv, Built
  <2> QED BY <2>1, <2>2, <2>3 DEF ChecksInv
<1>5. CASE StepFails
  <2>1. TypeOK'
    BY <1>5 DEF ChecksInv, StepFails, End, job, TypeOK, CloneSteps, CloneStates, Readers,
                Changes, Builds, NoClone
  <2>2. CloneInv'
    BY <1>5 DEF ChecksInv, StepFails, End, job, TypeOK, CloneSteps, CloneStates, Readers,
                Builds, CloneInv, Cloned, Sha, NoClone
  <2>3. BuildInv'
    BY <1>5 DEF ChecksInv, StepFails, End, job, Builds, CloneSteps, BuildInv, Built
  <2> QED BY <2>1, <2>2, <2>3 DEF ChecksInv
<1>6. CASE Resolve
  <2>1. TypeOK'
    BY <1>6 DEF ChecksInv, Resolve, job, TypeOK, CloneSteps, CloneStates, Readers,
                Changes, Builds, NoClone
  <2>2. CloneInv'
    BY <1>6 DEF ChecksInv, Resolve, job, TypeOK, CloneSteps, CloneStates, Readers,
                Builds, CloneInv, Cloned, Sha, NoClone
  <2>3. BuildInv'
    BY <1>6 DEF ChecksInv, Resolve, job, Builds, CloneSteps, BuildInv, Built
  <2> QED BY <2>1, <2>2, <2>3 DEF ChecksInv
<1>7. CASE ReadLock
  <2>1. TypeOK'
    BY <1>7 DEF ChecksInv, ReadLock, NoPins, job, TypeOK, CloneSteps, CloneStates,
                Readers, Changes, Builds, NoClone
  <2>2. CloneInv'
    BY <1>7 DEF ChecksInv, ReadLock, NoPins, job, TypeOK, CloneSteps, CloneStates,
                Readers, Builds, CloneInv, Cloned, Sha, NoClone
  <2>3. BuildInv'
    BY <1>7 DEF ChecksInv, ReadLock, NoPins, job, Builds, CloneSteps, BuildInv, Built
  <2> QED BY <2>1, <2>2, <2>3 DEF ChecksInv
<1>8. CASE NotPinned
  <2>1. TypeOK'
    BY <1>8 DEF ChecksInv, NotPinned, End, job, TypeOK, CloneSteps, CloneStates, Readers,
                Changes, Builds, NoClone
  <2>2. CloneInv'
    BY <1>8 DEF ChecksInv, NotPinned, End, job, TypeOK, CloneSteps, CloneStates, Readers,
                Builds, CloneInv, Cloned, Sha, NoClone
  <2>3. BuildInv'
    BY <1>8 DEF ChecksInv, NotPinned, End, job, Builds, CloneSteps, BuildInv, Built
  <2> QED BY <2>1, <2>2, <2>3 DEF ChecksInv
<1>9. CASE InitClone
  <2>1. TypeOK'
    BY <1>9 DEF ChecksInv, InitClone, job, TypeOK, CloneSteps, CloneStates, Readers,
                Changes, Builds, NoClone
  <2>2. CloneInv'
    BY <1>9 DEF ChecksInv, InitClone, job, TypeOK, CloneSteps, CloneStates, Readers,
                Builds, CloneInv, Cloned, Sha, NoClone
  <2>3. BuildInv'
    BY <1>9 DEF ChecksInv, InitClone, job, Builds, CloneSteps, BuildInv, Built
  <2> QED BY <2>1, <2>2, <2>3 DEF ChecksInv
<1>10. CASE AddRemote
  <2>1. TypeOK'
    <3>1. dirs' \in [Readers -> CloneStates]
      BY <1>10, CloneFields DEF ChecksInv, AddRemote, TypeOK
    <3> QED BY <1>10, <3>1 DEF ChecksInv, AddRemote, job, TypeOK, CloneSteps
  <2>2. CloneInv'
    BY <1>10 DEF ChecksInv, AddRemote, job, TypeOK, CloneSteps, CloneStates, Readers,
                 Builds, CloneInv, Cloned, Sha, NoClone
  <2>3. BuildInv'
    BY <1>10 DEF ChecksInv, AddRemote, job, Builds, CloneSteps, BuildInv, Built
  <2> QED BY <2>1, <2>2, <2>3 DEF ChecksInv
<1>11. CASE ReuseClone
  <2>1. TypeOK'
    BY <1>11 DEF ChecksInv, ReuseClone, job, TypeOK, CloneSteps, CloneStates, Readers,
                 Changes, Builds, NoClone
  <2>2. CloneInv'
    BY <1>11 DEF ChecksInv, ReuseClone, job, TypeOK, CloneSteps, CloneStates, Readers,
                 Builds, CloneInv, Cloned, Sha, NoClone
  <2>3. BuildInv'
    BY <1>11 DEF ChecksInv, ReuseClone, job, Builds, CloneSteps, BuildInv, Built
  <2> QED BY <2>1, <2>2, <2>3 DEF ChecksInv
<1>12. CASE Fetch
  <2>1. TypeOK'
    BY <1>12 DEF ChecksInv, Fetch, job, TypeOK, CloneSteps, CloneStates, Readers,
                 Changes, Builds, NoClone
  <2>2. CloneInv'
    BY <1>12 DEF ChecksInv, Fetch, job, TypeOK, CloneSteps, CloneStates, Readers, Builds,
                 CloneInv, Cloned, Sha, NoClone
  <2>3. BuildInv'
    BY <1>12 DEF ChecksInv, Fetch, job, Builds, CloneSteps, BuildInv, Built
  <2> QED BY <2>1, <2>2, <2>3 DEF ChecksInv
<1>13. CASE Checkout
  <2>1. TypeOK'
    <3>1. Sha \in Revs
      BY <1>13 DEF ChecksInv, Checkout, TypeOK, CloneInv, CloneSteps, Sha
    <3>2. dirs' \in [Readers -> CloneStates]
      BY <1>13, <3>1, CloneFields DEF ChecksInv, Checkout, TypeOK
    <3> QED BY <1>13, <3>2 DEF ChecksInv, Checkout, job, TypeOK, CloneSteps
  <2>2. CloneInv'
    BY <1>13 DEF ChecksInv, Checkout, job, TypeOK, CloneSteps, CloneStates, Readers,
                 Builds, CloneInv, Cloned, Sha, NoClone
  <2>3. BuildInv'
    BY <1>13 DEF ChecksInv, Checkout, job, Builds, CloneSteps, BuildInv, Built
  <2> QED BY <2>1, <2>2, <2>3 DEF ChecksInv
<1>14. CASE Clean
  <2>1. TypeOK'
    BY <1>14 DEF ChecksInv, Clean, job, TypeOK, CloneSteps, CloneStates, Readers,
                 Changes, Builds, NoClone
  <2>2. CloneInv'
    BY <1>14 DEF ChecksInv, Clean, job, TypeOK, CloneSteps, CloneStates, Readers, Builds,
                 CloneInv, Cloned, Sha, NoClone
  <2>3. BuildInv'
    BY <1>14 DEF ChecksInv, Clean, job, Builds, CloneSteps, BuildInv, Built
  <2> QED BY <2>1, <2>2, <2>3 DEF ChecksInv
<1>15. CASE WritePin
  <2>1. TypeOK'
    <3>1. Sha \in Revs
      BY <1>15 DEF ChecksInv, WritePin, TypeOK, CloneInv, CloneSteps, Sha
    <3> QED BY <1>15, <3>1 DEF ChecksInv, WritePin, job, TypeOK, CloneSteps, Readers, Builds
  <2>2. CloneInv'
    BY <1>15 DEF ChecksInv, WritePin, job, TypeOK, CloneSteps, CloneStates, Readers,
                 Builds, CloneInv, Cloned, Sha, NoClone
  <2>3. BuildInv'
    BY <1>15 DEF ChecksInv, WritePin, job, Builds, CloneSteps, BuildInv, Built
  <2> QED BY <2>1, <2>2, <2>3 DEF ChecksInv
<1>16. CASE Verify
  <2>1. TypeOK'
    BY <1>16 DEF ChecksInv, Verify, End, job, TypeOK, CloneSteps, CloneStates, Readers,
                 Changes, Builds, NoClone
  <2>2. CloneInv'
    BY <1>16 DEF ChecksInv, Verify, End, job, TypeOK, CloneSteps, CloneStates, Readers,
                 Builds, CloneInv, Cloned, Sha, NoClone
  <2>3. BuildInv'
    BY <1>16 DEF ChecksInv, Verify, End, job, Builds, CloneSteps, BuildInv, Built
  <2> QED BY <2>1, <2>2, <2>3 DEF ChecksInv
<1>17. CASE BuildTools
  BY <1>17, BuildKeeps
<1>18. CASE UNCHANGED vars
  BY <1>18 DEF ChecksInv, TypeOK, CloneInv, BuildInv, Built, Cloned, Sha, vars, job
<1> QED
  BY <1>1, <1>2, <1>3, <1>4, <1>5, <1>6, <1>7, <1>8, <1>9,
     <1>10, <1>11, <1>12, <1>13, <1>14, <1>15, <1>16, <1>17, <1>18 DEF Next, JobStep

\* The invariant holds of every state (verify-recordings.yml:60-70).
THEOREM ChecksInvariant == Spec => []ChecksInv
<1> QED BY InitChecks, NextChecks, PTL DEF Spec

\* A change is verified with both readers and the checkers built of the revisions
\* one codetracer commit pins, whatever was left by earlier jobs
\* (provision-readers.sh:36-66, build-verify-tools.sh:41-50).
THEOREM PinnedReadersCheck == Spec => []ChecksAreThePinned
<1>1. ChecksInv => ChecksAreThePinned
  BY DEF ChecksInv, CloneInv, BuildInv, ChecksAreThePinned, Cloned, Built, Readers,
         Builds, RepoOf,
         TypeOK
<1> QED BY <1>1, ChecksInvariant, PTL

-----------------------------------------------------------------------------
(* The regeneration.  JobsInv is inductive.  Of a group one live job at    *)
(* most is not pending, and that is the oldest (GroupInv); the outcomes a  *)
(* job has collected tell what its runner's workspace holds (OutcomesTell),*)
(* which no other job touches meanwhile; the branch of a pull request      *)
(* holds what was recorded before any job live on it (BranchInv).          *)
(*                                                                         *)
(* A step is split twice: what it does to the files and branches (Touches) *)
(* and how the job goes on, which is at another step or not at all (Goes). *)

\* The steps of a job, by number.
LEMMA StepsAre ==
    /\ Len(WindowsSteps) = 6
    /\ \A k : k # "windows" =>
        /\ DOMAIN Steps(k) = 1 .. 4
        /\ Steps(k)[1] = "prepare" /\ Steps(k)[2] = "regenerate"
        /\ Steps(k)[3] = "upload" /\ Steps(k)[4] = "pullRequest"
    /\ DOMAIN Steps("windows") = 1 .. 6
    /\ Steps("windows")[1] = "prepare" /\ Steps("windows")[2] = "regenerate"
    /\ Steps("windows")[3] = "verify" /\ Steps("windows")[4] = "leak"
    /\ Steps("windows")[5] = "replay" /\ Steps("windows")[6] = "upload"
BY DEF Steps, PullRequestSteps, WindowsSteps

LEMMA StepNamesOf ==
    ASSUME NEW k, NEW i \in DOMAIN Steps(k)
    PROVE  i \in 1 .. 6 /\ Steps(k)[i] \in StepNames
<1>1. CASE k # "windows"
  <2>1. Steps(k) = PullRequestSteps /\ DOMAIN PullRequestSteps = 1 .. 4
    BY <1>1 DEF Steps, PullRequestSteps
  <2>2. \A n \in 1 .. 4 : PullRequestSteps[n] \in StepNames
    BY DEF PullRequestSteps, StepNames
  <2> QED BY <2>1, <2>2
<1>2. CASE k = "windows"
  <2>1. Steps(k) = WindowsSteps /\ DOMAIN WindowsSteps = 1 .. 6
    BY <1>2 DEF Steps, WindowsSteps
  <2>2. \A n \in 1 .. 6 : WindowsSteps[n] \in StepNames
    BY DEF WindowsSteps, StepNames
  <2> QED BY <2>1, <2>2
<1> QED BY <1>1, <1>2

\* The files of a family are fixtures.
LEMMA FamilyOf ==
    /\ Family("platform") = {"trace", "export"}
    /\ Family("emulator") = {"inject", "bigdylib"}
    /\ Family("windows") = {"winTrace", "winExport"}
    /\ \A k \in AllKinds : Family(k) \subseteq Fixtures
<1>1. Family("platform") = {"trace", "export"}
  BY DEF Family, Written, ToSet
<1>2. Family("emulator") = {"inject", "bigdylib"}
  BY DEF Family, Written, ToSet
<1>3. Family("windows") = {"winTrace", "winExport"}
  BY DEF Family, Written, ToSet
<1>4. ASSUME NEW k \in AllKinds, NEW f \in Family(k) PROVE f \in Fixtures
  BY DEF Fixtures
<1> QED BY <1>1, <1>2, <1>3, <1>4

\* A job that runs.
LEMMA Runs ==
    ASSUME JobsTypeOK, NEW j \in Jobs, jobs[j].status = "running"
    PROVE  /\ jobs[j] \in JobStates /\ j \in Nat /\ j > 0
           /\ jobs[j].kind \in AllKinds /\ jobs[j].agent \in Agents
           /\ jobs[j].at \in DOMAIN Steps(jobs[j].kind) /\ jobs[j].at \in 1 .. 6
           /\ Steps(jobs[j].kind)[jobs[j].at] \in StepNames
           /\ jobs[j].outcome \in [StepNames -> Outcomes]
<1>1. jobs[j] \in JobStates /\ j \in Nat /\ j > 0
  BY JobsAssumption DEF JobsTypeOK, Jobs
<1>2. jobs[j].kind \in AllKinds /\ jobs[j].agent \in Agents /\ jobs[j].at \in DOMAIN Steps(jobs[j].kind)
  BY DEF JobsTypeOK
<1>3. jobs[j].outcome \in [StepNames -> Outcomes]
  BY <1>1 DEF JobStates
<1> QED BY <1>1, <1>2, <1>3, StepNamesOf

\* The step after the one at which job j is.
Moves(j, out, n) ==
    LET k == jobs[j].kind
        o == [jobs[j].outcome EXCEPT ![Steps(k)[jobs[j].at]] = out]
    IN  /\ n \in DOMAIN Steps(k) /\ n > jobs[j].at
        /\ StepRuns(k, Steps(k)[n], o, jobs[j].cancelled)
        /\ \A i \in DOMAIN Steps(k) : i > jobs[j].at /\ i < n => ~StepRuns(k, Steps(k)[i], o, jobs[j].cancelled)
        /\ jobs' = [jobs EXCEPT ![j].at = n, ![j].outcome = o]

LEMMA StepEndsOrMoves ==
    ASSUME JobsTypeOK, NEW j \in Jobs, jobs[j].status = "running", NEW out, StepEnds(j, out)
    PROVE  jobs' = Ending(j) \/ \E n \in 1 .. 6 : Moves(j, out, n)
<1> DEFINE k == jobs[j].kind
           o == [jobs[j].outcome EXCEPT ![Steps(k)[jobs[j].at]] = out]
           later == {i \in DOMAIN Steps(k) : i > jobs[j].at /\ StepRuns(k, Steps(k)[i], o, jobs[j].cancelled)}
           first == CHOOSE i \in later : \A l \in later : i <= l
<1>1. later = {} => jobs' = Ending(j)
  BY DEF StepEnds
<1>2. later # {} => jobs' = [jobs EXCEPT ![j].at = first, ![j].outcome = o]
  BY DEF StepEnds
<1>3. later \subseteq 1 .. 6
  BY StepNamesOf
<1> HIDE DEF later
<1>4. ASSUME later # {} PROVE \E i \in later : \A l \in later : i <= l
  <2>1. PICK i \in later : i \in 1 .. 6
    BY <1>3, <1>4
  <2>2. \A l \in later : l = 1 \/ l = 2 \/ l = 3 \/ l = 4 \/ l = 5 \/ l = 6
    BY <1>3
  <2>3. CASE 1 \in later
    BY <2>2, <2>3
  <2>4. CASE 1 \notin later /\ 2 \in later
    BY <2>2, <2>4
  <2>5. CASE 1 \notin later /\ 2 \notin later /\ 3 \in later
    BY <2>2, <2>5
  <2>6. CASE 1 \notin later /\ 2 \notin later /\ 3 \notin later /\ 4 \in later
    BY <2>2, <2>6
  <2>7. CASE 1 \notin later /\ 2 \notin later /\ 3 \notin later /\ 4 \notin later
    BY <1>4, <2>2, <2>7
  <2> QED BY <2>3, <2>4, <2>5, <2>6, <2>7
<1>5. ASSUME later # {} PROVE Moves(j, out, first) /\ first \in 1 .. 6
  <2>1. first \in later /\ \A l \in later : first <= l
    BY <1>4, <1>5
  <2> HIDE DEF first
  <2>2. first \in 1 .. 6 /\ \A i \in 1 .. 6 : i < first => i \notin later
    BY <1>3, <2>1
  <2>3. DOMAIN Steps(k) \subseteq 1 .. 6
    BY StepNamesOf
  <2>4. first \in DOMAIN Steps(k) /\ first > jobs[j].at /\ StepRuns(k, Steps(k)[first], o, jobs[j].cancelled)
    BY <2>1 DEF later
  <2>5. \A i \in DOMAIN Steps(k) : i > jobs[j].at /\ i < first => ~StepRuns(k, Steps(k)[i], o, jobs[j].cancelled)
    BY <2>2, <2>3 DEF later
  <2> QED BY <1>2, <1>5, <2>2, <2>4, <2>5 DEF Moves
<1> QED BY <1>1, <1>5

\* What a step of job j leaves alone: the files of other runners, and of its own
\* but for the first two steps; the branches, but for the last.
Touches(j) ==
    /\ ws' \in [Agents -> [Fixtures -> Content]]
    /\ \A b \in Agents : b # jobs[j].agent => ws'[b] = ws[b]
    /\ ~At(j, "prepare") /\ ~At(j, "regenerate") => ws' = ws
    /\ branch' = branch \/ (At(j, "pullRequest") /\ branch' = [branch EXCEPT ![jobs[j].kind] = Taken(j)])

LEMMA WorkspaceSet ==
    ASSUME JobsTypeOK, NEW j \in Jobs, jobs[j].status = "running",
           NEW files \in [Fixtures -> Content], ws' = [ws EXCEPT ![jobs[j].agent] = files]
    PROVE  /\ ws' \in [Agents -> [Fixtures -> Content]]
           /\ \A b \in Agents : b # jobs[j].agent => ws'[b] = ws[b]
           /\ ws'[jobs[j].agent] = files
BY Runs DEF JobsTypeOK

LEMMA CutFilesAreContent ==
    ASSUME JobsTypeOK, NEW j \in Jobs, jobs[j].status = "running", NEW files \in CutFiles(j)
    PROVE  files \in [Fixtures -> Content]
<1>1. [by |-> j, quality |-> "bad"] \in Content /\ Missing \in Content
  BY DEF Content
<1>2. ws[jobs[j].agent] \in [Fixtures -> Content]
  BY Runs DEF JobsTypeOK
<1> QED BY <1>1, <1>2 DEF CutFiles

LEMMA CutShortTouches ==
    ASSUME JobsTypeOK, NEW j \in Jobs, jobs[j].status = "running", CutShort(j)
    PROVE  Touches(j)
<1>1. ws \in [Agents -> [Fixtures -> Content]]
  BY DEF JobsTypeOK
<1>2. branch' = branch \/ (At(j, "pullRequest") /\ branch' = [branch EXCEPT ![jobs[j].kind] = Taken(j)])
  BY DEF CutShort
<1>3. CASE At(j, "prepare")
  <2>1. [f \in Fixtures |-> Committed] \in [Fixtures -> Content]
    BY DEF Content
  <2>2. ws' = ws \/ ws' = [ws EXCEPT ![jobs[j].agent] = [f \in Fixtures |-> Committed]]
    BY <1>3 DEF CutShort
  <2> QED BY <1>1, <1>2, <1>3, <2>1, <2>2, WorkspaceSet DEF Touches
<1>4. CASE At(j, "regenerate") /\ ~At(j, "prepare")
  <2>1. PICK files \in CutFiles(j) : ws' = [ws EXCEPT ![jobs[j].agent] = files]
    BY <1>4 DEF CutShort
  <2>2. files \in [Fixtures -> Content]
    BY <2>1, CutFilesAreContent
  <2> QED BY <1>2, <1>4, <2>1, <2>2, WorkspaceSet DEF Touches
<1>5. CASE ~At(j, "prepare") /\ ~At(j, "regenerate")
  BY <1>1, <1>2, <1>5 DEF CutShort, Touches
<1> QED BY <1>3, <1>4, <1>5

\* How a step of job j can go.
Goes(j) ==
    \/ jobs' = Ending(j)
    \/ \E out \in Outcomes \ {"skipped"}, n \in 1 .. 6 :
        /\ At(j, "regenerate") /\ out = "success" =>
            \A f \in Family(jobs[j].kind) : ws'[jobs[j].agent][f] \in Recorded(j)
        /\ At(j, "leak") /\ out = "success" =>
            \A f \in Family(jobs[j].kind) : ws[jobs[j].agent][f].quality = "good"
        /\ Moves(j, out, n)

LEMMA StepGoes ==
    ASSUME JobsTypeOK, NEW j \in Jobs, jobs[j].status = "running",
           NEW out \in Outcomes \ {"skipped"}, StepEnds(j, out),
           At(j, "regenerate") /\ out = "success" =>
               \A f \in Family(jobs[j].kind) : ws'[jobs[j].agent][f] \in Recorded(j),
           At(j, "leak") /\ out = "success" =>
               \A f \in Family(jobs[j].kind) : ws[jobs[j].agent][f].quality = "good"
    PROVE  Goes(j)
BY StepEndsOrMoves DEF Goes

LEMMA RecordedIsContent ==
    ASSUME NEW j \in Jobs PROVE Recorded(j) \subseteq Content
BY JobsAssumption DEF Recorded, Content

LEMMA StepEffect ==
    ASSUME JobsTypeOK, NEW j \in Jobs, OneStep(j) \/ RunnerLost(j)
    PROVE  jobs[j].status = "running" /\ Touches(j) /\ Goes(j)
<1>0. ws \in [Agents -> [Fixtures -> Content]]
  BY DEF JobsTypeOK
<1>1. CASE Replay(j)
  <2>1. jobs[j].status = "running" /\ ~At(j, "regenerate") /\ ~At(j, "leak")
    BY <1>1 DEF Replay, At
  <2>2. Touches(j)
    BY <1>0, <1>1 DEF Replay, Touches
  <2>3. Goes(j)
    BY <1>1, <2>1, StepGoes DEF Replay, Outcomes
  <2> QED BY <2>1, <2>2, <2>3
<1>2. CASE Prepare(j)
  <2>1. jobs[j].status = "running" /\ ~At(j, "regenerate") /\ ~At(j, "leak")
    BY <1>2 DEF Prepare, At
  <2>2. Touches(j)
    <3>1. [f \in Fixtures |-> Committed] \in [Fixtures -> Content]
      BY DEF Content
    <3> QED BY <1>2, <2>1, <3>1, WorkspaceSet DEF Prepare, Touches
  <2>3. Goes(j)
    BY <1>2, <2>1, StepGoes DEF Prepare, Outcomes
  <2> QED BY <2>1, <2>2, <2>3
<1>3. CASE Regenerate(j)
  <2>1. jobs[j].status = "running" /\ ~At(j, "leak")
    BY <1>3 DEF Regenerate, At
  <2>2. PICK new \in [Family(jobs[j].kind) -> Recorded(j)] :
          ws' = [ws EXCEPT ![jobs[j].agent] = [f \in Fixtures |-> IF f \in DOMAIN new THEN new[f] ELSE @[f]]]
    BY <1>3 DEF Regenerate
  <2> DEFINE files == [f \in Fixtures |-> IF f \in DOMAIN new THEN new[f] ELSE ws[jobs[j].agent][f]]
  <2>3. jobs[j].agent \in Agents /\ jobs[j].kind \in AllKinds
    BY <2>1, Runs
  <2>4. ws' = [ws EXCEPT ![jobs[j].agent] = files]
    BY <1>0, <2>2, <2>3
  <2>5. files \in [Fixtures -> Content]
    BY <1>0, <2>2, <2>3, RecordedIsContent
  <2>6. \A f \in Family(jobs[j].kind) : files[f] \in Recorded(j)
    BY <2>2, <2>3, FamilyOf
  <2> HIDE DEF files
  <2>7. Touches(j)
    BY <1>3, <2>1, <2>4, <2>5, WorkspaceSet DEF Regenerate, Touches
  <2>8. Goes(j)
    <3>1. \A f \in Family(jobs[j].kind) : ws'[jobs[j].agent][f] \in Recorded(j)
      BY <2>1, <2>4, <2>5, <2>6, WorkspaceSet
    <3> QED BY <1>3, <2>1, <3>1, StepGoes DEF Regenerate, Outcomes
  <2> QED BY <2>1, <2>7, <2>8
<1>4. CASE VerifyFiles(j)
  <2>1. jobs[j].status = "running" /\ ~At(j, "regenerate") /\ ~At(j, "leak")
    BY <1>4 DEF VerifyFiles, At
  <2>2. Touches(j)
    BY <1>0, <1>4 DEF VerifyFiles, Touches
  <2>3. \E out \in Outcomes \ {"skipped"} : StepEnds(j, out)
    BY <1>4 DEF VerifyFiles, Outcomes
  <2>4. Goes(j)
    BY <2>1, <2>3, StepGoes
  <2> QED BY <2>1, <2>2, <2>4
<1>5. CASE ScanForLeaks(j)
  <2>1. jobs[j].status = "running" /\ ~At(j, "regenerate") /\ jobs[j].agent \in Agents /\ jobs[j].kind \in AllKinds
    BY <1>5, Runs DEF ScanForLeaks, At
  <2>2. Touches(j)
    BY <1>0, <1>5 DEF ScanForLeaks, Touches
  <2> DEFINE good == \A f \in Family(jobs[j].kind) : Files(j)[f].quality = "good"
  <2>3. StepEnds(j, IF good THEN "success" ELSE "failure")
    BY <1>5 DEF ScanForLeaks
  <2>4. good => \A f \in Family(jobs[j].kind) : ws[jobs[j].agent][f].quality = "good"
    BY DEF Files
  <2> HIDE DEF good
  <2>5. CASE good
    <3>1. StepEnds(j, "success")
      BY <2>3, <2>5
    <3> QED BY <2>1, <2>2, <2>4, <2>5, <3>1, StepGoes DEF Outcomes
  <2>6. CASE ~good
    <3>1. StepEnds(j, "failure")
      BY <2>3, <2>6
    <3> QED BY <2>1, <2>2, <3>1, StepGoes DEF Outcomes
  <2> QED BY <2>5, <2>6
<1>6. CASE Upload(j)
  <2>1. jobs[j].status = "running" /\ ~At(j, "regenerate") /\ ~At(j, "leak")
    BY <1>6 DEF Upload, At
  <2>2. Touches(j)
    BY <1>0, <1>6 DEF Upload, Touches
  <2>3. Goes(j)
    BY <1>6, <2>1, StepGoes DEF Upload, Outcomes
  <2> QED BY <2>1, <2>2, <2>3
<1>7. CASE OpenPullRequest(j)
  <2>1. jobs[j].status = "running" /\ ~At(j, "regenerate") /\ ~At(j, "leak")
    BY <1>7 DEF OpenPullRequest, At
  <2>2. Touches(j)
    BY <1>0, <1>7 DEF OpenPullRequest, Touches
  <2>3. Goes(j)
    BY <1>7, <2>1, StepGoes DEF OpenPullRequest, Outcomes
  <2> QED BY <2>1, <2>2, <2>3
<1>8. CASE CommandFails(j)
  <2>1. jobs[j].status = "running" /\ Touches(j)
    BY <1>8, CutShortTouches DEF CommandFails
  <2>2. Goes(j)
    BY <1>8, <2>1, StepGoes DEF CommandFails, Outcomes
  <2> QED BY <2>1, <2>2
<1>9. CASE Interrupt(j)
  <2>1. jobs[j].status = "running" /\ Touches(j)
    BY <1>9, CutShortTouches DEF Interrupt, JobsTypeOK
  <2>2. Goes(j)
    BY <1>9, <2>1, StepGoes DEF Interrupt, Outcomes
  <2> QED BY <2>1, <2>2
<1>10. CASE RunnerLost(j)
  BY <1>10, CutShortTouches DEF RunnerLost, Goes
<1> QED BY <1>1, <1>2, <1>3, <1>4, <1>5, <1>6, <1>7, <1>8, <1>9, <1>10 DEF OneStep

\* What the end of job j makes of the jobs.
LEMMA EndingOf ==
    ASSUME JobsTypeOK, NEW j \in Jobs, jobs[j].status = "running", jobs' = Ending(j)
    PROVE  /\ jobs' \in [Jobs -> JobStates]
           /\ jobs'[j].status = "ended" /\ ~jobs'[j].cancelled
           /\ jobs'[j].kind = jobs[j].kind /\ jobs'[j].ref = jobs[j].ref
           /\ \A i \in Jobs : i # j =>
                \/ jobs'[i] = jobs[i]
                   /\ ~(jobs[i].status = "pending"
                         /\ Group(jobs[i].kind, jobs[i].ref) = Group(jobs[j].kind, jobs[j].ref))
                \/ jobs'[i] = [jobs[i] EXCEPT !.status = "queued"] /\ jobs[i].status = "pending"
                   /\ Group(jobs[i].kind, jobs[i].ref) = Group(jobs[j].kind, jobs[j].ref)
<1>1. \A i \in Jobs : jobs[i] \in JobStates
  BY DEF JobsTypeOK
<1>2. NoOutcome \in [StepNames -> Outcomes]
  BY DEF NoOutcome, Outcomes
<1> DEFINE ended == [jobs[j] EXCEPT !.status = "ended", !.at = 0, !.agent = "none",
                                    !.cancelled = FALSE, !.outcome = NoOutcome]
<1>3. ended \in JobStates /\ ended.status = "ended" /\ ended.cancelled = FALSE
      /\ ended.kind = jobs[j].kind /\ ended.ref = jobs[j].ref
  <2>1. 0 \in 0 .. Len(WindowsSteps)
    BY StepsAre
  <2> QED BY <1>1, <1>2, <2>1 DEF JobStates
<1>4. \A i \in Jobs : [jobs[i] EXCEPT !.status = "queued"] \in JobStates
  BY <1>1 DEF JobStates
<1> HIDE DEF ended
<1>5. jobs' = [i \in Jobs |->
        CASE i = j -> ended
          [] i \in Members(jobs[j].kind, jobs[j].ref) /\ jobs[i].status = "pending" -> [jobs[i] EXCEPT !.status = "queued"]
          [] OTHER -> jobs[i]]
  BY DEF Ending, ended
<1>6. jobs'[j] = ended
  BY <1>5
<1>7. \A i \in Jobs : i # j =>
        jobs'[i] = IF i \in Members(jobs[j].kind, jobs[j].ref) /\ jobs[i].status = "pending"
                   THEN [jobs[i] EXCEPT !.status = "queued"] ELSE jobs[i]
  BY <1>5
<1>8. jobs' \in [Jobs -> JobStates]
  <2>1. \A i \in Jobs : jobs'[i] \in JobStates
    BY <1>1, <1>3, <1>4, <1>6, <1>7
  <2> QED BY <1>5, <2>1
<1>9. \A i \in Jobs : i # j =>
        ((i \in Members(jobs[j].kind, jobs[j].ref) /\ jobs[i].status = "pending") <=>
         (jobs[i].status = "pending" /\ Group(jobs[i].kind, jobs[i].ref) = Group(jobs[j].kind, jobs[j].ref)))
  BY DEF Members
<1> QED BY <1>3, <1>6, <1>7, <1>8, <1>9

LEMMA MovesOf ==
    ASSUME JobsTypeOK, NEW j \in Jobs, jobs[j].status = "running",
           NEW out \in Outcomes, NEW n, Moves(j, out, n)
    PROVE  /\ jobs' \in [Jobs -> JobStates]
           /\ n \in DOMAIN Steps(jobs[j].kind) /\ n > jobs[j].at
           /\ jobs'[j].kind = jobs[j].kind /\ jobs'[j].ref = jobs[j].ref /\ jobs'[j].status = "running"
           /\ jobs'[j].agent = jobs[j].agent /\ jobs'[j].cancelled = jobs[j].cancelled /\ jobs'[j].at = n
           /\ jobs'[j].outcome = [jobs[j].outcome EXCEPT ![Steps(jobs[j].kind)[jobs[j].at]] = out]
           /\ \A i \in Jobs : i # j => jobs'[i] = jobs[i]
<1> DEFINE o == [jobs[j].outcome EXCEPT ![Steps(jobs[j].kind)[jobs[j].at]] = out]
<1>1. jobs' = [jobs EXCEPT ![j].at = n, ![j].outcome = o] /\ n \in DOMAIN Steps(jobs[j].kind) /\ n > jobs[j].at
  BY DEF Moves
<1>2. o \in [StepNames -> Outcomes] /\ n \in 0 .. Len(WindowsSteps)
  BY <1>1, Runs, StepNamesOf, StepsAre
<1> HIDE DEF o
<1>3. jobs \in [Jobs -> JobStates] /\ jobs[j] \in JobStates
  BY DEF JobsTypeOK
<1>4. [jobs[j] EXCEPT !.at = n, !.outcome = o] \in JobStates
  BY <1>2, <1>3 DEF JobStates
<1>5. jobs' = [jobs EXCEPT ![j] = [jobs[j] EXCEPT !.at = n, !.outcome = o]]
  BY <1>1, <1>3 DEF JobStates
<1>6. jobs'[j] = [jobs[j] EXCEPT !.at = n, !.outcome = o] /\ \A i \in Jobs : i # j => jobs'[i] = jobs[i]
  BY <1>3, <1>5
<1>7. jobs' \in [Jobs -> JobStates]
  BY <1>3, <1>4, <1>5
<1>8. /\ jobs'[j].kind = jobs[j].kind /\ jobs'[j].ref = jobs[j].ref /\ jobs'[j].status = "running"
      /\ jobs'[j].agent = jobs[j].agent /\ jobs'[j].cancelled = jobs[j].cancelled /\ jobs'[j].at = n
      /\ jobs'[j].outcome = o
  BY <1>3, <1>6 DEF JobStates
<1> QED BY <1>1, <1>6, <1>7, <1>8 DEF o

\* What a step of job j leaves of every job: its kind and branch, and what it is
\* doing, unless the job ends or gets its group.
Leaves(j) ==
    /\ jobs' \in [Jobs -> JobStates]
    /\ \A i \in Jobs :
        /\ jobs'[i].kind = jobs[i].kind /\ jobs'[i].ref = jobs[i].ref
        /\ jobs'[i].status = "none" <=> jobs[i].status = "none"
        /\ jobs'[i].status = "running" => jobs[i].status = "running" /\ jobs'[i].agent = jobs[i].agent
        /\ i # j /\ jobs'[i].status = "running" => jobs'[i] = jobs[i]
        /\ jobs'[i].cancelled => jobs'[i].status = "running"
        /\ jobs'[i].status \in {"pending", "queued"} =>
            jobs[i].status \in {"pending", "queued"} /\ jobs'[i].outcome = jobs[i].outcome
        /\ Live(i)' => Live(i)
        /\ jobs'[i].status = jobs[i].status
           \/ (jobs'[i].status = "ended" /\ i = j)
           \/ (/\ jobs'[i].status = "queued" /\ i # j /\ jobs[i].status = "pending" /\ ~Live(j)'
               /\ Group(jobs[i].kind, jobs[i].ref) = Group(jobs[j].kind, jobs[j].ref))
        /\ jobs'[i].status = "running" => jobs'[i].at \in DOMAIN Steps(jobs[i].kind)

LEMMA StepLeaves ==
    ASSUME JobsTypeOK, NEW j \in Jobs, jobs[j].status = "running", Goes(j)
    PROVE  Leaves(j)
<1>0. \A i \in Jobs : jobs[i] \in JobStates
  BY DEF JobsTypeOK
<1>1. CASE jobs' = Ending(j)
  <2>1. jobs'[j].status = "ended" /\ jobs'[j].kind = jobs[j].kind /\ jobs'[j].ref = jobs[j].ref /\ ~jobs'[j].cancelled
    BY <1>1, EndingOf
  <2>2. ASSUME NEW i \in Jobs, i # j
        PROVE  /\ jobs'[i].kind = jobs[i].kind /\ jobs'[i].ref = jobs[i].ref
               /\ jobs'[i].cancelled = jobs[i].cancelled /\ jobs'[i].outcome = jobs[i].outcome
               /\ \/ jobs'[i] = jobs[i]
                  \/ /\ jobs'[i].status = "queued" /\ jobs[i].status = "pending"
                     /\ Group(jobs[i].kind, jobs[i].ref) = Group(jobs[j].kind, jobs[j].ref)
    <3>1. \/ jobs'[i] = jobs[i]
          \/ /\ jobs'[i] = [jobs[i] EXCEPT !.status = "queued"] /\ jobs[i].status = "pending"
             /\ Group(jobs[i].kind, jobs[i].ref) = Group(jobs[j].kind, jobs[j].ref)
      BY <1>1, <2>2, EndingOf
    <3> QED BY <1>0, <3>1 DEF JobStates
  <2>3. jobs' \in [Jobs -> JobStates]
    BY <1>1, EndingOf
  <2> QED BY <2>1, <2>2, <2>3 DEF Leaves, Live, JobsTypeOK
<1>2. CASE jobs' # Ending(j)
  <2>1. PICK out \in Outcomes, n \in 1 .. 6 : Moves(j, out, n)
    BY <1>2 DEF Goes
  <2>2. /\ jobs'[j].status = "running" /\ jobs'[j].kind = jobs[j].kind /\ jobs'[j].ref = jobs[j].ref
        /\ jobs'[j].agent = jobs[j].agent /\ jobs'[j].cancelled = jobs[j].cancelled
        /\ jobs'[j].at = n
    BY <2>1, MovesOf
  <2>3. /\ jobs' \in [Jobs -> JobStates] /\ n \in DOMAIN Steps(jobs[j].kind)
        /\ \A i \in Jobs : i # j => jobs'[i] = jobs[i]
    BY <2>1, MovesOf
  <2> QED BY <2>2, <2>3 DEF Leaves, Live, JobsTypeOK
<1> QED BY <1>1, <1>2

LEMMA StepTypes ==
    ASSUME JobsTypeOK, NEW j \in Jobs, jobs[j].status = "running", Touches(j), Leaves(j)
    PROVE  JobsTypeOK'
<1>1. /\ jobs' \in [Jobs -> JobStates] /\ ws' \in [Agents -> [Fixtures -> Content]]
  BY DEF Leaves, Touches
<1>2. ASSUME NEW i \in Jobs
      PROVE  /\ jobs'[i].status # "none" => jobs'[i].kind \in AllKinds
             /\ jobs'[i].cancelled => jobs'[i].status = "running"
             /\ jobs'[i].status = "running" =>
                /\ jobs'[i].agent \in Agents
                /\ jobs'[i].at \in DOMAIN Steps(jobs'[i].kind)
  BY DEF Leaves, JobsTypeOK
<1>3. DOMAIN branch' = {"platform", "emulator"}
  BY DEF Touches, JobsTypeOK
<1>4. ASSUME NEW k \in DOMAIN branch' PROVE branch'[k].by \in 0 .. MaxJobs
  BY <1>4, Runs, JobsAssumption DEF Touches, JobsTypeOK, Taken, Jobs
<1> QED BY <1>1, <1>2, <1>3, <1>4 DEF JobsTypeOK

LEMMA StepGroups ==
    ASSUME JobsTypeOK, GroupInv, NEW j \in Jobs, jobs[j].status = "running", Leaves(j)
    PROVE  GroupInv'
<1>1. ASSUME NEW i \in Jobs, jobs'[i].status # "none", NEW l \in 1 .. i PROVE jobs'[l].status # "none"
  <2>1. l \in Jobs
    BY JobsAssumption DEF Jobs
  <2> QED BY <1>1, <2>1 DEF GroupInv, Leaves
<1>2. ASSUME NEW i \in Jobs, NEW l \in Jobs, Live(i)', Live(l)', i < l,
             Group(jobs'[i].kind, jobs'[i].ref) = Group(jobs'[l].kind, jobs'[l].ref)
      PROVE  jobs'[i].status # "pending" /\ jobs'[l].status = "pending"
  <2>1. /\ Live(i) /\ Live(l) /\ Live(j) /\ i \in Nat /\ l \in Nat /\ j \in Nat
        /\ Group(jobs[i].kind, jobs[i].ref) = Group(jobs[l].kind, jobs[l].ref)
    BY <1>2, JobsAssumption DEF Leaves, Live, Jobs
  <2>2. jobs[i].status # "pending" /\ jobs[l].status = "pending"
    BY <1>2, <2>1 DEF GroupInv
  <2>3. jobs'[i].status # "pending"
    BY <2>2 DEF Leaves
  <2>4. CASE jobs'[l].status = jobs[l].status
    BY <2>2, <2>3, <2>4
  <2>5. CASE jobs'[l].status # jobs[l].status
    <3>1. /\ Group(jobs[l].kind, jobs[l].ref) = Group(jobs[j].kind, jobs[j].ref) /\ l # j /\ ~Live(j)'
      BY <1>2, <2>5 DEF Leaves, Live
    <3>2. i # j
      BY <1>2, <3>1
    <3>3. CASE i < j
      BY <2>1, <3>1, <3>3 DEF GroupInv
    <3>4. CASE j < i
      BY <2>1, <2>2, <3>1, <3>4 DEF GroupInv, Live
    <3> QED BY <2>1, <3>2, <3>3, <3>4
  <2> QED BY <2>4, <2>5
<1>3. ASSUME NEW i \in Jobs, NEW l \in Jobs, jobs'[i].status = "running", jobs'[l].status = "running",
             jobs'[i].agent = jobs'[l].agent
      PROVE  i = l
  BY <1>3 DEF Leaves, GroupInv
<1> QED BY <1>1, <1>2, <1>3 DEF GroupInv

\* What is said of a job stays true while it does nothing, cancelled or not.
LEMMA OthersTell ==
    ASSUME NEW i \in Jobs, OutcomesTell(i), ws'[jobs[i].agent] = ws[jobs[i].agent],
           jobs'[i].status = jobs[i].status, jobs'[i].kind = jobs[i].kind, jobs'[i].agent = jobs[i].agent,
           jobs'[i].at = jobs[i].at, jobs'[i].outcome = jobs[i].outcome,
           jobs[i].cancelled => jobs'[i].cancelled
    PROVE  OutcomesTell(i)'
BY DEF OutcomesTell, At, Regenerated, Recorded

LEMMA StepTells ==
    ASSUME JobsInv, NEW j \in Jobs, jobs[j].status = "running", Touches(j), Leaves(j), Goes(j)
    PROVE  StepInv'
<1>1. ASSUME NEW i \in Jobs, i # j, jobs'[i].status = "running" PROVE OutcomesTell(i)'
  <2>1. jobs'[i] = jobs[i] /\ jobs[i].status = "running"
    BY <1>1 DEF Leaves
  <2>2. jobs[i].agent # jobs[j].agent /\ jobs[i].agent \in Agents
    BY <1>1, <2>1 DEF JobsInv, GroupInv, JobsTypeOK
  <2>3. ws'[jobs[i].agent] = ws[jobs[i].agent]
    BY <2>2 DEF Touches
  <2> QED BY <2>1, <2>3, OthersTell DEF JobsInv, StepInv
<1>2. ASSUME jobs'[j].status = "running" PROVE OutcomesTell(j)'
  <2>0. JobsTypeOK /\ jobs[j] \in JobStates
    BY DEF JobsInv, JobsTypeOK
  <2>1. jobs' # Ending(j)
    BY <1>2, <2>0, EndingOf
  <2>2. PICK out \in Outcomes \ {"skipped"}, n \in 1 .. 6 :
        /\ At(j, "regenerate") /\ out = "success" =>
            \A f \in Family(jobs[j].kind) : ws'[jobs[j].agent][f] \in Recorded(j)
        /\ At(j, "leak") /\ out = "success" =>
            \A f \in Family(jobs[j].kind) : ws[jobs[j].agent][f].quality = "good"
        /\ Moves(j, out, n)
    BY <2>1 DEF Goes
  <2> DEFINE k == jobs[j].kind
             at == jobs[j].at
             o == jobs[j].outcome
             p == [o EXCEPT ![Steps(k)[at]] = out]
  <2>3. /\ jobs'[j].kind = k /\ jobs'[j].agent = jobs[j].agent /\ jobs'[j].cancelled = jobs[j].cancelled
        /\ jobs'[j].at = n /\ jobs'[j].outcome = p
        /\ n \in DOMAIN Steps(k) /\ n > at
    BY <2>0, <2>2, MovesOf
  <2>4. OutcomesTell(j)
    BY DEF JobsInv, StepInv
  <2>5. /\ o \in [StepNames -> Outcomes] /\ at \in DOMAIN Steps(k) /\ at \in 1 .. 6 /\ n \in 1 .. 6
        /\ Steps(k)[at] \in StepNames
    BY <2>0, <2>3, Runs, StepNamesOf
  <2>6. \A t \in StepNames : p[t] = IF t = Steps(k)[at] THEN out ELSE o[t]
    BY <2>5
  <2>7. /\ StepRuns(k, Steps(k)[n], p, jobs[j].cancelled)
        /\ \A i \in DOMAIN Steps(k) : i > at /\ i < n => ~StepRuns(k, Steps(k)[i], p, jobs[j].cancelled)
    BY <2>2 DEF Moves
  <2>8. \A s : /\ At(j, s) <=> Steps(k)[at] = s
               /\ At(j, s)' <=> Steps(k)[n] = s
    BY <1>2, <2>3 DEF At
  <2>9. Regenerated(j)' <=> \A f \in Family(k) : ws'[jobs[j].agent][f] \in Recorded(j)
    BY <2>3 DEF Recorded, Regenerated
  <2> HIDE DEF p, o, at, k
  <2>10. CASE k # "windows"
    <3>1. /\ at \in 1 .. 4 /\ n \in 1 .. 4 /\ DOMAIN Steps(k) = 1 .. 4
          /\ \A i \in 1 .. 4 : i >= at => o[Steps(k)[i]] = "skipped"
      BY <2>3, <2>4, <2>5, <2>10, StepsAre DEF OutcomesTell, o, at, k
    <3>2. \A i \in 1 .. 4 : i >= n => p[Steps(k)[i]] = "skipped"
      BY <2>3, <2>5, <2>6, <2>10, <3>1, StepsAre DEF StepNames
    <3>3. CASE at = 1
      <4>1. StepRuns(k, "upload", p, jobs[j].cancelled)
        BY <2>10 DEF StepRuns, UploadRuns
      <4>2. n # 4
        BY <2>7, <2>10, <3>1, <3>3, <4>1, StepsAre
      <4>3. n = 3 => ~StepRuns(k, "regenerate", p, jobs[j].cancelled)
        BY <2>7, <2>10, <3>1, <3>3, StepsAre
      <4>4. n = 3 => jobs[j].cancelled \/ \E t \in StepNames : p[t] \in {"failure", "cancelled"}
        BY <4>3 DEF StepRuns
      <4> QED BY <2>3, <2>8, <2>10, <3>1, <3>2, <3>3, <4>2, <4>4, StepsAre DEF OutcomesTell, k
    <3>4. CASE at = 2
      <4>1. StepRuns(k, "upload", p, jobs[j].cancelled)
        BY <2>10 DEF StepRuns, UploadRuns
      <4>2. n = 3
        BY <2>3, <2>7, <2>10, <3>1, <3>4, <4>1, StepsAre
      <4>3. out = "success" => Regenerated(j)'
        BY <2>2, <2>8, <2>9, <2>10, <3>4, StepsAre DEF k
      <4>4. out # "success" => p["regenerate"] \in {"failure", "cancelled"}
        BY <2>6, <2>10, <3>4, StepsAre DEF Outcomes, StepNames
      <4> QED BY <2>3, <2>8, <2>10, <3>1, <3>2, <3>4, <4>2, <4>3, <4>4, StepsAre DEF OutcomesTell, StepNames, k
    <3>5. CASE at \in {3, 4}
      <4>1. at = 3 /\ n = 4
        BY <2>3, <3>1, <3>5
      <4>2. ~jobs[j].cancelled /\ \A t \in StepNames : p[t] \notin {"failure", "cancelled"}
        BY <2>7, <2>10, <4>1, StepsAre DEF StepRuns
      <4>3. \A t \in StepNames : o[t] \notin {"failure", "cancelled"}
        BY <2>6, <2>10, <3>1, <4>1, <4>2, StepsAre
      <4>4. Regenerated(j)
        BY <2>4, <2>8, <2>10, <4>1, <4>2, <4>3, StepsAre DEF OutcomesTell, k, o
      <4>5. ws' = ws
        BY <2>8, <2>10, <4>1, StepsAre DEF Touches
      <4>6. Regenerated(j)'
        BY <2>9, <4>4, <4>5 DEF Regenerated, k
      <4> QED BY <2>3, <2>8, <2>10, <3>1, <3>2, <4>1, <4>6, StepsAre DEF OutcomesTell, k
    <3> QED BY <3>1, <3>3, <3>4, <3>5
  <2>11. CASE k = "windows"
    <3>1. /\ DOMAIN Steps(k) = 1 .. 6
          /\ \A i \in 1 .. 6 : i >= at => o[Steps(k)[i]] = "skipped"
      BY <2>3, <2>4, <2>5, <2>11, StepsAre DEF OutcomesTell, o, at, k
    <3>2. \A i \in 1 .. 6 : i >= n => p[Steps(k)[i]] = "skipped"
      BY <2>3, <2>5, <2>6, <2>11, <3>1, StepsAre DEF StepNames
    <3>3. CASE at = 1
      <4>1. p["verify"] = "skipped" /\ p["leak"] = "skipped"
        BY <2>6, <2>11, <3>1, <3>3, StepsAre DEF StepNames
      <4>2. StepRuns(k, "regenerate", p, jobs[j].cancelled) \/ ~StepRuns(k, "verify", p, jobs[j].cancelled)
        BY DEF StepRuns
      <4>3. n \notin {3, 4, 5, 6}
        BY <2>7, <2>11, <3>1, <3>3, <4>1, <4>2, StepsAre DEF StepRuns, UploadRuns
      <4> QED BY <2>3, <2>5, <2>8, <2>11, <3>1, <3>2, <3>3, <4>1, <4>3, StepsAre DEF OutcomesTell, k
    <3>4. CASE at = 2
      <4>1. p["verify"] = "skipped" /\ p["leak"] = "skipped" /\ p["regenerate"] = out
        BY <2>6, <2>11, <3>1, <3>4, StepsAre DEF StepNames
      <4>2. n = 3
        BY <2>3, <2>5, <2>7, <2>11, <3>4, <4>1, StepsAre DEF StepRuns, UploadRuns
      <4>3. out = "success"
        BY <2>7, <2>11, <4>1, <4>2, StepsAre DEF StepRuns, StepNames, Outcomes
      <4>4. Regenerated(j)'
        BY <2>2, <2>8, <2>9, <2>11, <3>4, <4>3, StepsAre DEF k
      <4> QED BY <2>3, <2>8, <2>11, <3>1, <3>2, <4>1, <4>2, <4>4, StepsAre DEF OutcomesTell, k
    <3>5. CASE at \in {3, 4, 5, 6}
      <4>1. ws' = ws
        BY <2>8, <2>11, <3>5, StepsAre DEF Touches
      <4>2. /\ p["verify"] = (IF at = 3 THEN out ELSE o["verify"])
            /\ p["leak"] = (IF at = 4 THEN out ELSE o["leak"])
        BY <2>6, <2>11, <3>5, StepsAre DEF StepNames
      <4>3. p["verify"] # "skipped" => Regenerated(j)'
        <5>1. at = 3 \/ o["verify"] # "skipped" => Regenerated(j)
          BY <2>4, <2>8, <2>11, StepsAre DEF OutcomesTell, k, o
        <5> QED BY <2>9, <4>1, <4>2, <5>1 DEF Regenerated, k
      <4>4. p["leak"] = "success" => \A f \in Family(k) : ws'[jobs[j].agent][f].quality = "good"
        <5>1. at = 4 /\ out = "success" => \A f \in Family(k) : ws[jobs[j].agent][f].quality = "good"
          BY <2>2, <2>8, <2>11, StepsAre DEF k
        <5>2. o["leak"] = "success" => \A f \in Family(k) : ws[jobs[j].agent][f].quality = "good"
          BY <2>4, <2>11 DEF OutcomesTell, k, o
        <5> QED BY <4>1, <4>2, <5>1, <5>2
      <4>5. n # 3 /\ (n = 4 => p["verify"] # "skipped")
        BY <2>3, <2>5, <2>7, <2>11, <3>5, StepsAre DEF StepRuns
      <4>6. n = 6 => p["verify"] = "success" /\ p["leak"] = "success"
        BY <2>7, <2>11, StepsAre DEF StepRuns, UploadRuns
      <4> QED BY <2>3, <2>5, <2>8, <2>11, <3>1, <3>2, <4>3, <4>4, <4>5, <4>6, StepsAre DEF OutcomesTell, k
    <3> QED BY <2>5, <3>3, <3>4, <3>5
  <2> QED BY <2>10, <2>11
<1>3. ASSUME NEW i \in Jobs, jobs'[i].status \in {"pending", "queued"} PROVE jobs'[i].outcome = NoOutcome
  BY <1>3 DEF Leaves, JobsInv, StepInv
<1>4. NoOutcome' = NoOutcome
  BY DEF NoOutcome
<1> QED BY <1>1, <1>2, <1>3, <1>4 DEF StepInv

\* A pull request takes every file of its family as its job recorded it.
LEMMA TakenIsWhole ==
    ASSUME JobsInv, NEW j \in Jobs, jobs[j].status = "running", At(j, "pullRequest")
    PROVE  /\ jobs[j].kind \in {"platform", "emulator"} /\ Taken(j).by = j
           /\ DOMAIN Taken(j).files = Family(jobs[j].kind)
           /\ \A f \in Family(jobs[j].kind) : Taken(j).files[f].by = j
<1> DEFINE k == jobs[j].kind
<1>0. JobsTypeOK /\ OutcomesTell(j)
  BY DEF JobsInv, StepInv
<1>1. k \in {"platform", "emulator"}
  <2>1. k \in AllKinds /\ jobs[j].at \in DOMAIN Steps(k)
    BY <1>0, Runs
  <2>2. k # "windows"
    BY <2>1, StepsAre DEF At
  <2> QED BY <2>1, <2>2 DEF AllKinds
<1>2. \A f \in Family(k) : ws[jobs[j].agent][f].by = j
  BY <1>0, <1>1 DEF OutcomesTell, Regenerated, Recorded
<1>3. j # 0
  BY <1>0, Runs
<1>4. {g \in Family(k) : Files(j)[g] # Missing} = Family(k)
  BY <1>2, <1>3 DEF Files, Missing
<1>5. Taken(j) = [by |-> j, files |-> [f \in Family(k) |-> Files(j)[f]]]
  BY <1>4 DEF Taken
<1> QED BY <1>1, <1>2, <1>5 DEF Files

LEMMA StepBranches ==
    ASSUME JobsInv, NEW j \in Jobs, jobs[j].status = "running", Touches(j), Leaves(j)
    PROVE  BranchInv' /\ PullRequestsAreWhole'
<1>1. \/ branch' = branch
      \/ At(j, "pullRequest") /\ branch' = [branch EXCEPT ![jobs[j].kind] = Taken(j)]
  BY DEF Touches
<1>2. DOMAIN branch' = DOMAIN branch /\ DOMAIN branch = {"platform", "emulator"}
  BY <1>1 DEF JobsInv, JobsTypeOK
<1>3. ASSUME NEW k \in DOMAIN branch', branch'[k] = branch[k]
      PROVE  /\ branch'[k].by # 0 =>
                /\ jobs'[branch'[k].by].status # "none" /\ jobs'[branch'[k].by].kind = k
                /\ \A i \in Jobs : Live(i)' /\ jobs'[i].kind = k /\ jobs'[i].ref = jobs'[branch'[k].by].ref =>
                    branch'[k].by <= i
             /\ branch'[k] # Nothing =>
                /\ DOMAIN branch'[k].files = Family(k)
                /\ \A f \in Family(k) : branch'[k].files[f].by = branch'[k].by
  <2>1. branch[k].by # 0 => branch[k].by \in Jobs
    BY <1>2, <1>3, JobsAssumption DEF JobsInv, JobsTypeOK, Jobs
  <2> QED BY <1>2, <1>3, <2>1 DEF JobsInv, BranchInv, PullRequestsAreWhole, Leaves
<1>4. ASSUME At(j, "pullRequest"), branch' = [branch EXCEPT ![jobs[j].kind] = Taken(j)]
      PROVE  /\ branch'[jobs[j].kind].by = j /\ jobs[j].kind \in DOMAIN branch
             /\ jobs'[j].status # "none" /\ jobs'[j].kind = jobs[j].kind
             /\ \A i \in Jobs : Live(i)' /\ jobs'[i].kind = jobs[j].kind /\ jobs'[i].ref = jobs'[j].ref => j <= i
             /\ DOMAIN branch'[jobs[j].kind].files = Family(jobs[j].kind)
             /\ \A f \in Family(jobs[j].kind) : branch'[jobs[j].kind].files[f].by = j
  <2>1. jobs[j].kind \in {"platform", "emulator"}
    BY <1>4, TakenIsWhole
  <2>2. branch'[jobs[j].kind] = Taken(j)
    BY <1>2, <1>4, <2>1
  <2>3. ASSUME NEW i \in Jobs, Live(i)', jobs'[i].kind = jobs[j].kind, jobs'[i].ref = jobs'[j].ref PROVE j <= i
    <3>1. /\ Live(i) /\ Live(j) /\ i \in Nat /\ j \in Nat
          /\ jobs[i].kind = jobs[j].kind /\ jobs[i].ref = jobs[j].ref
      BY <2>3, JobsAssumption DEF Leaves, Live, Jobs
    <3>2. ~(i < j)
      BY <3>1 DEF JobsInv, GroupInv
    <3> QED BY <3>1, <3>2
  <2>4. jobs'[j].status # "none" /\ jobs'[j].kind = jobs[j].kind
    BY DEF Leaves
  <2> QED BY <1>2, <1>4, <2>1, <2>2, <2>3, <2>4, TakenIsWhole
<1>5. ASSUME NEW k \in DOMAIN branch', branch'[k] # branch[k]
      PROVE  k = jobs[j].kind /\ At(j, "pullRequest") /\ branch' = [branch EXCEPT ![jobs[j].kind] = Taken(j)]
  BY <1>1, <1>2, <1>5
<1>6. BranchInv'
  BY <1>3, <1>4, <1>5 DEF BranchInv
<1>7. PullRequestsAreWhole'
  BY <1>3, <1>4, <1>5 DEF PullRequestsAreWhole
<1> QED BY <1>6, <1>7

\* Whatever job j does at its step, or losing its runner, keeps the invariant.
LEMMA StepPreserves ==
    ASSUME JobsInv, NEW j \in Jobs, OneStep(j) \/ RunnerLost(j) PROVE JobsInv'
<1>1. jobs[j].status = "running" /\ Touches(j) /\ Goes(j)
  BY StepEffect DEF JobsInv
<1>2. Leaves(j)
  BY <1>1, StepLeaves DEF JobsInv
<1> QED BY <1>1, <1>2, StepTypes, StepGroups, StepTells, StepBranches DEF JobsInv

LEMMA JobsInitEstablishes == JobsInit => JobsInv
<1> SUFFICES ASSUME JobsInit PROVE JobsInv
  OBVIOUS
<1> USE DEF JobsInit
<1>1. NoJob \in JobStates
  <2>1. NoOutcome \in [StepNames -> Outcomes]
    BY DEF NoOutcome, Outcomes
  <2>2. 0 \in 0 .. Len(WindowsSteps)
    BY StepsAre
  <2> QED BY <2>1, <2>2 DEF NoJob, JobStates
<1>2. \A j \in Jobs : jobs[j].status = "none" /\ ~jobs[j].cancelled
  BY DEF NoJob
<1>3. JobsTypeOK
  <2>1. jobs \in [Jobs -> JobStates] /\ ws \in [Agents -> [Fixtures -> Content]]
    BY <1>1 DEF Content
  <2>2. DOMAIN branch = {"platform", "emulator"} /\ \A k \in DOMAIN branch : branch[k].by \in 0 .. MaxJobs
    BY JobsAssumption DEF Nothing
  <2> QED BY <1>2, <2>1, <2>2 DEF JobsTypeOK
<1>4. GroupInv /\ StepInv
  BY <1>2 DEF GroupInv, StepInv, Live
<1>5. BranchInv /\ PullRequestsAreWhole
  BY DEF BranchInv, PullRequestsAreWhole, Nothing
<1> QED BY <1>3, <1>4, <1>5 DEF JobsInv

LEMMA TimesOutPreserves ==
    ASSUME JobsInv, NEW j \in Jobs, TimesOut(j) PROVE JobsInv'
<1> DEFINE late == [jobs[j] EXCEPT !.cancelled = TRUE]
<1>0. jobs \in [Jobs -> JobStates] /\ jobs[j] \in JobStates /\ jobs[j].status = "running" /\ UNCHANGED <<ws, branch>>
  BY DEF JobsInv, JobsTypeOK, TimesOut
<1>1. /\ late \in JobStates /\ late.status = "running" /\ late.kind = jobs[j].kind /\ late.ref = jobs[j].ref
      /\ late.agent = jobs[j].agent /\ late.at = jobs[j].at /\ late.outcome = jobs[j].outcome
      /\ late.cancelled = TRUE
  BY <1>0 DEF JobStates
<1> HIDE DEF late
<1>2. jobs' = [jobs EXCEPT ![j] = late]
  BY <1>0 DEF TimesOut, late, JobStates
<1>3. jobs'[j] = late /\ jobs' \in [Jobs -> JobStates] /\ \A i \in Jobs : i # j => jobs'[i] = jobs[i]
  BY <1>0, <1>1, <1>2
<1>4. Leaves(j)
  BY <1>0, <1>1, <1>3 DEF Leaves, JobsInv, JobsTypeOK, Live
<1>5. Touches(j)
  BY <1>0 DEF Touches, JobsInv, JobsTypeOK
<1>6. ASSUME NEW i \in Jobs, jobs'[i].status = "running" PROVE OutcomesTell(i)'
  BY <1>0, <1>1, <1>3, <1>6, OthersTell DEF JobsInv, StepInv
<1>7. ASSUME NEW i \in Jobs, jobs'[i].status \in {"pending", "queued"} PROVE jobs'[i].outcome = NoOutcome'
  BY <1>4, <1>7 DEF Leaves, JobsInv, StepInv, NoOutcome
<1>8. StepInv'
  BY <1>6, <1>7 DEF StepInv
<1> QED BY <1>0, <1>4, <1>5, <1>8, StepTypes, StepGroups, StepBranches DEF JobsInv

LEMMA StartPreserves ==
    ASSUME JobsInv, NEW j \in Jobs, Start(j) PROVE JobsInv'
<1>0. /\ jobs \in [Jobs -> JobStates] /\ jobs[j] \in JobStates /\ jobs[j].status = "queued"
      /\ UNCHANGED <<ws, branch>> /\ jobs[j].kind \in AllKinds /\ jobs[j].outcome = NoOutcome
  BY DEF JobsInv, JobsTypeOK, Start, StepInv
<1>1. PICK a \in Agents : Idle(a) /\ jobs' = [jobs EXCEPT ![j].status = "running", ![j].agent = a, ![j].at = 1]
  BY DEF Start
<1> DEFINE begun == [jobs[j] EXCEPT !.status = "running", !.agent = a, !.at = 1]
<1>2. /\ begun \in JobStates /\ begun.status = "running" /\ begun.kind = jobs[j].kind /\ begun.ref = jobs[j].ref
      /\ begun.agent = a /\ begun.at = 1 /\ begun.outcome = NoOutcome /\ begun.cancelled = jobs[j].cancelled
  <2>1. 1 \in 0 .. Len(WindowsSteps)
    BY StepsAre
  <2> QED BY <1>0, <2>1 DEF JobStates
<1> HIDE DEF begun
<1>3. jobs' = [jobs EXCEPT ![j] = begun]
  BY <1>0, <1>1 DEF begun, JobStates
<1>4. jobs'[j] = begun /\ jobs' \in [Jobs -> JobStates] /\ \A i \in Jobs : i # j => jobs'[i] = jobs[i]
  BY <1>0, <1>2, <1>3
<1>5. 1 \in DOMAIN Steps(jobs[j].kind) /\ Steps(jobs[j].kind)[1] = "prepare"
  <2>1. CASE jobs[j].kind = "windows"
    BY <2>1, StepsAre
  <2>2. CASE jobs[j].kind # "windows"
    BY <2>2, StepsAre
  <2> QED BY <2>1, <2>2
<1>6. JobsTypeOK'
  BY <1>0, <1>2, <1>4, <1>5 DEF JobsInv, JobsTypeOK
<1>7. GroupInv'
  <2>1. \A i \in Jobs : /\ jobs'[i].kind = jobs[i].kind /\ jobs'[i].ref = jobs[i].ref
                        /\ Live(i)' <=> Live(i)
                        /\ jobs'[i].status = "pending" <=> jobs[i].status = "pending"
                        /\ jobs'[i].status = "none" <=> jobs[i].status = "none"
    BY <1>0, <1>2, <1>4 DEF Live
  <2>2. ASSUME NEW i \in Jobs, NEW l \in Jobs, jobs'[i].status = "running", jobs'[l].status = "running",
               jobs'[i].agent = jobs'[l].agent
        PROVE  i = l
    BY <1>1, <1>2, <1>4, <2>2 DEF JobsInv, GroupInv, Idle
  <2>3. \A i \in Jobs : \A l \in 1 .. i : l \in Jobs
    BY JobsAssumption DEF Jobs
  <2> QED BY <2>1, <2>2, <2>3 DEF JobsInv, GroupInv
<1>8. StepInv'
  <2>1. ASSUME NEW i \in Jobs, i # j PROVE (jobs'[i].status = "running" => OutcomesTell(i)')
    BY <1>0, <1>4, <2>1, OthersTell DEF JobsInv, StepInv
  <2>2. OutcomesTell(j)'
    <3>1. \A i \in DOMAIN Steps(jobs[j].kind) : NoOutcome[Steps(jobs[j].kind)[i]] = "skipped"
      BY StepNamesOf DEF NoOutcome
    <3>2. NoOutcome["verify"] = "skipped" /\ NoOutcome["leak"] = "skipped"
      BY DEF NoOutcome, StepNames
    <3>3. \A s : At(j, s)' <=> s = "prepare"
      BY <1>2, <1>4, <1>5 DEF At
    <3> QED BY <1>2, <1>4, <3>1, <3>2, <3>3 DEF OutcomesTell
  <2>3. ASSUME NEW i \in Jobs, jobs'[i].status \in {"pending", "queued"} PROVE jobs'[i].outcome = NoOutcome'
    BY <1>2, <1>4, <2>3 DEF JobsInv, StepInv, NoOutcome
  <2> QED BY <2>1, <2>2, <2>3 DEF StepInv
<1>9. BranchInv' /\ PullRequestsAreWhole'
  <2>1. \A i \in Jobs : /\ jobs'[i].kind = jobs[i].kind /\ jobs'[i].ref = jobs[i].ref
                        /\ Live(i)' <=> Live(i)
                        /\ jobs'[i].status = "none" <=> jobs[i].status = "none"
    BY <1>0, <1>2, <1>4 DEF Live
  <2>2. \A k \in DOMAIN branch : branch[k].by # 0 => branch[k].by \in Jobs
    BY JobsAssumption DEF JobsInv, JobsTypeOK, Jobs
  <2> QED BY <1>0, <2>1, <2>2 DEF JobsInv, BranchInv, PullRequestsAreWhole
<1> QED BY <1>6, <1>7, <1>8, <1>9 DEF JobsInv

LEMMA DispatchPreserves ==
    ASSUME JobsInv, NEW k \in Kinds, NEW ref \in Refs, Dispatch(k, ref) PROVE JobsInv'
<1> DEFINE group == Members(k, ref)
           unstarted == {i \in group : jobs[i].status = "pending" \/ (jobs[i].status = "queued" /\ Cancels(k))}
           running == {i \in group : jobs[i].status = "running"}
           held == \E i \in group \ unstarted : jobs[i].status \in {"queued", "running"}
           new == [NoJob EXCEPT !.kind = k, !.ref = ref, !.status = IF held THEN "pending" ELSE "queued"]
<1>0. /\ jobs \in [Jobs -> JobStates] /\ UNCHANGED <<ws, branch>> /\ k \in AllKinds /\ k # "none"
  BY JobsAssumption DEF JobsInv, JobsTypeOK, Dispatch, AllKinds
<1>1. PICK j \in Jobs :
        /\ jobs[j].status = "none" /\ (j > 1 => jobs[j - 1].status # "none")
        /\ jobs' = [i \in Jobs |->
                     CASE i = j -> new
                       [] i \in unstarted -> [jobs[i] EXCEPT !.status = "dropped"]
                       [] i \in running /\ Cancels(k) -> [jobs[i] EXCEPT !.cancelled = TRUE]
                       [] OTHER -> jobs[i]]
  BY DEF Dispatch
<1>2. /\ new.kind = k /\ new.ref = ref /\ new.status = (IF held THEN "pending" ELSE "queued")
      /\ ~new.cancelled /\ new.outcome = NoOutcome /\ new \in JobStates
  <2>1. NoOutcome \in [StepNames -> Outcomes]
    BY DEF NoOutcome, Outcomes
  <2>2. 0 \in 0 .. Len(WindowsSteps)
    BY StepsAre
  <2> HIDE DEF held
  <2> QED BY <1>0, <2>1, <2>2 DEF NoJob, JobStates
<1>1a. \A i \in unstarted : i \notin running /\ jobs[i].status # "none"
  BY DEF group, unstarted, running
<1>1b. \A i \in running : jobs[i].status = "running"
  BY DEF running
<1> HIDE DEF new, held, unstarted, running, group
<1>3. jobs'[j] = new /\ jobs' \in [Jobs -> JobStates]
  <2>1. \A i \in Jobs : /\ [jobs[i] EXCEPT !.status = "dropped"] \in JobStates
                        /\ [jobs[i] EXCEPT !.cancelled = TRUE] \in JobStates
                        /\ jobs[i] \in JobStates
    BY <1>0 DEF JobStates
  <2>2. jobs'[j] = new
    BY <1>1, <1>1a, <1>1b
  <2>3. DOMAIN jobs' = Jobs /\ jobs' = [i \in Jobs |-> jobs'[i]]
    BY <1>1
  <2>4. ASSUME NEW i \in Jobs PROVE jobs'[i] \in JobStates
    BY <1>1, <1>2, <1>1a, <1>1b, <2>1
  <2> QED BY <2>2, <2>3, <2>4
<1>4. ASSUME NEW i \in Jobs, i # j
      PROVE  /\ jobs'[i].kind = jobs[i].kind /\ jobs'[i].ref = jobs[i].ref /\ jobs'[i].agent = jobs[i].agent
             /\ jobs'[i].at = jobs[i].at /\ jobs'[i].outcome = jobs[i].outcome
             /\ jobs[i].cancelled => jobs'[i].cancelled
             /\ jobs'[i].status = IF i \in unstarted THEN "dropped" ELSE jobs[i].status
             /\ jobs'[i].cancelled => jobs'[i].status = "running"
  <2>0. jobs[i] \in JobStates /\ (jobs[i].cancelled => jobs[i].status = "running")
    BY <1>0 DEF JobsInv, JobsTypeOK
  <2>1. CASE i \in unstarted
    <3>1. jobs'[i] = [jobs[i] EXCEPT !.status = "dropped"] /\ jobs[i].status # "running"
      BY <1>1, <1>4, <1>1a, <2>1 DEF unstarted
    <3> QED BY <2>0, <2>1, <3>1 DEF JobStates
  <2>2. CASE i \notin unstarted /\ i \in running /\ Cancels(k)
    <3>1. jobs'[i] = [jobs[i] EXCEPT !.cancelled = TRUE] /\ jobs[i].status = "running"
      BY <1>1, <1>4, <2>2, <1>1a, <1>1b
    <3> QED BY <2>0, <2>2, <3>1 DEF JobStates
  <2>3. CASE i \notin unstarted /\ ~(i \in running /\ Cancels(k))
    <3>1. jobs'[i] = jobs[i]
      BY <1>1, <1>4, <2>3
    <3> QED BY <2>0, <2>3, <3>1
  <2> QED BY <2>1, <2>2, <2>3
<1>5. ASSUME NEW i \in unstarted PROVE jobs[i].status \in {"pending", "queued"}
  BY <1>5 DEF unstarted
<1>6. JobsTypeOK'
  <2>1. ASSUME NEW i \in Jobs
        PROVE  /\ jobs'[i].status # "none" => jobs'[i].kind \in AllKinds
               /\ jobs'[i].cancelled => jobs'[i].status = "running"
               /\ jobs'[i].status = "running" =>
                  jobs'[i].agent \in Agents /\ jobs'[i].at \in DOMAIN Steps(jobs'[i].kind)
    <3>1. CASE i = j
      BY <1>0, <1>2, <1>3, <3>1
    <3>2. CASE i # j
      BY <1>4, <1>5, <3>2 DEF JobsInv, JobsTypeOK
    <3> QED BY <3>1, <3>2
  <2> QED BY <1>0, <1>3, <2>1 DEF JobsInv, JobsTypeOK
<1>7. \A i \in Jobs : i > j => jobs[i].status = "none"
  BY <1>1, JobsAssumption DEF JobsInv, GroupInv, Jobs
<1>8. GroupInv'
  <2>1. ASSUME NEW i \in Jobs, jobs'[i].status # "none", NEW l \in 1 .. i PROVE jobs'[l].status # "none"
    <3>0. l \in Jobs /\ l \in Nat /\ i \in Nat /\ j \in Nat
      BY JobsAssumption DEF Jobs
    <3>1. CASE l = j
      BY <1>2, <1>3, <3>1
    <3>2. CASE l # j /\ i # j
      BY <1>4, <1>5, <2>1, <3>0, <3>2 DEF JobsInv, GroupInv
    <3>3. CASE l # j /\ i = j
      <4>1. j > 1 /\ j - 1 \in Jobs /\ l \in 1 .. j - 1
        BY <2>1, <3>0, <3>3, JobsAssumption DEF Jobs
      <4>2. jobs[l].status # "none"
        BY <1>1, <4>1 DEF JobsInv, GroupInv
      <4>3. l # j /\ l \in Jobs
        BY <3>0, <3>3
      <4>4. jobs'[l].status \in {"dropped", jobs[l].status}
        BY <1>4, <4>3
      <4> QED BY <4>2, <4>4
    <3> QED BY <3>1, <3>2, <3>3
  <2>2. ASSUME NEW i \in Jobs, NEW l \in Jobs, Live(i)', Live(l)', i < l,
               Group(jobs'[i].kind, jobs'[i].ref) = Group(jobs'[l].kind, jobs'[l].ref)
        PROVE  jobs'[i].status # "pending" /\ jobs'[l].status = "pending"
    <3>0. i \in Nat /\ l \in Nat /\ j \in Nat
      BY JobsAssumption DEF Jobs
    <3>1. CASE i # j /\ l # j
      <4>1. jobs'[i].status = jobs[i].status /\ jobs'[i].kind = jobs[i].kind /\ jobs'[i].ref = jobs[i].ref
        BY <1>4, <2>2, <3>1 DEF Live
      <4>2. jobs'[l].status = jobs[l].status /\ jobs'[l].kind = jobs[l].kind /\ jobs'[l].ref = jobs[l].ref
        BY <1>4, <2>2, <3>1 DEF Live
      <4>3. Live(i) /\ Live(l)
        BY <2>2, <4>1, <4>2 DEF Live
      <4> QED BY <2>2, <4>1, <4>2, <4>3 DEF JobsInv, GroupInv
    <3>2. CASE i # j /\ l = j
      <4>1. i \notin unstarted /\ jobs'[i].status = jobs[i].status /\ jobs[i].status \in {"pending", "queued", "running"}
        BY <1>4, <2>2, <3>2 DEF Live
      <4>2. i \in group
        BY <1>2, <1>3, <1>4, <2>2, <3>2, <4>1 DEF group, Members
      <4>3. jobs[i].status \in {"queued", "running"}
        BY <4>1, <4>2 DEF unstarted
      <4>4. held
        BY <4>1, <4>2, <4>3 DEF held
      <4> QED BY <1>2, <1>3, <3>2, <4>1, <4>3, <4>4
    <3>3. CASE i = j
      BY <1>4, <1>5, <1>7, <2>2, <3>0, <3>3 DEF Live
    <3> QED BY <3>1, <3>2, <3>3
  <2>3. ASSUME NEW i \in Jobs, NEW l \in Jobs, jobs'[i].status = "running", jobs'[l].status = "running",
               jobs'[i].agent = jobs'[l].agent
        PROVE  i = l
    <3>1. i # j /\ l # j
      BY <1>2, <1>3, <2>3
    <3> QED BY <1>4, <2>3, <3>1 DEF JobsInv, GroupInv
  <2> QED BY <2>1, <2>2, <2>3 DEF GroupInv
<1>9. StepInv'
  <2>1. ASSUME NEW i \in Jobs, jobs'[i].status = "running" PROVE OutcomesTell(i)'
    <3>1. i # j
      BY <1>2, <1>3, <2>1
    <3>2. jobs[i].status = "running"
      BY <1>4, <2>1, <3>1
    <3> QED BY <1>0, <1>4, <2>1, <3>1, <3>2, OthersTell DEF JobsInv, StepInv
  <2>2. ASSUME NEW i \in Jobs, jobs'[i].status \in {"pending", "queued"} PROVE jobs'[i].outcome = NoOutcome'
    <3>1. NoOutcome' = NoOutcome
      BY DEF NoOutcome
    <3>2. CASE i = j
      BY <1>2, <1>3, <3>1, <3>2
    <3>3. CASE i # j
      BY <1>4, <2>2, <3>1, <3>3 DEF JobsInv, StepInv
    <3> QED BY <3>2, <3>3
  <2> QED BY <2>1, <2>2 DEF StepInv
<1>10. PullRequestsAreWhole'
  BY <1>0 DEF JobsInv, PullRequestsAreWhole
<1>11. BranchInv'
  <2> SUFFICES ASSUME NEW c \in DOMAIN branch, branch[c].by # 0
               PROVE  /\ jobs'[branch[c].by].status # "none" /\ jobs'[branch[c].by].kind = c
                      /\ \A i \in Jobs : Live(i)' /\ jobs'[i].kind = c
                            /\ jobs'[i].ref = jobs'[branch[c].by].ref => branch[c].by <= i
    BY <1>0 DEF BranchInv
  <2> DEFINE b == branch[c].by
  <2>1. b \in Jobs /\ b # j /\ jobs[b].status # "none" /\ jobs[b].kind = c
    BY <1>1, JobsAssumption DEF JobsInv, JobsTypeOK, BranchInv, Jobs
  <2>2. jobs'[b].status # "none" /\ jobs'[b].kind = c /\ jobs'[b].ref = jobs[b].ref
    BY <1>4, <2>1
  <2>3. ASSUME NEW i \in Jobs, Live(i)', jobs'[i].kind = c, jobs'[i].ref = jobs'[b].ref PROVE b <= i
    <3>0. i \in Nat /\ b \in Nat /\ j \in Nat
      BY <2>1, JobsAssumption DEF Jobs
    <3>1. CASE i = j
      BY <1>7, <2>1, <3>0, <3>1
    <3>2. CASE i # j
      <4>1. Live(i) /\ jobs[i].kind = c /\ jobs[i].ref = jobs[b].ref
        BY <1>4, <2>2, <2>3, <3>2 DEF Live
      <4> QED BY <4>1 DEF JobsInv, BranchInv
    <3> QED BY <3>1, <3>2
  <2> QED BY <2>2, <2>3
<1> QED BY <1>6, <1>8, <1>9, <1>10, <1>11 DEF JobsInv

\* Whatever is dispatched, hangs, fails or is cancelled, the invariant holds.
THEOREM JobsInvariant == JobsSpec => []JobsInv
<1>1. ASSUME JobsInv, [JobsNext]_jobsVars PROVE JobsInv'
  <2>1. ASSUME NEW k \in Kinds, NEW ref \in Refs, Dispatch(k, ref) PROVE JobsInv'
    BY <1>1, <2>1, DispatchPreserves
  <2>2. ASSUME NEW j \in Jobs, Start(j) PROVE JobsInv'
    BY <1>1, <2>2, StartPreserves
  <2>3. ASSUME NEW j \in Jobs, OneStep(j) \/ RunnerLost(j) PROVE JobsInv'
    BY <1>1, <2>3, StepPreserves
  <2>4. ASSUME NEW j \in Jobs, TimesOut(j) PROVE JobsInv'
    BY <1>1, <2>4, TimesOutPreserves
  <2>5. CASE UNCHANGED jobsVars
    BY <1>1, <2>5 DEF jobsVars, JobsInv, JobsTypeOK, GroupInv, StepInv, BranchInv, PullRequestsAreWhole,
       Live, OutcomesTell, At, Regenerated, Recorded, Content, NoOutcome
  <2> QED BY <1>1, <2>1, <2>2, <2>3, <2>4, <2>5 DEF JobsNext
<1> QED BY <1>1, JobsInitEstablishes, PTL DEF JobsSpec

\* Two jobs of the emulator workflow never run at a time: its group is one for
\* all branches, and of a group at most one job is not pending.
THEOREM EmulatorRunsApart == JobsSpec => []EmulatorRunsAreApart
<1>1. JobsInv => EmulatorRunsAreApart
  <2> SUFFICES ASSUME JobsInv, NEW i \in Jobs, NEW j \in Jobs,
                      jobs[i].kind = "emulator", jobs[j].kind = "emulator",
                      jobs[i].status = "running", jobs[j].status = "running"
               PROVE  i = j
    BY DEF EmulatorRunsAreApart
  <2>1. Live(i) /\ Live(j) /\ i \in Nat /\ j \in Nat
    BY JobsAssumption DEF Live, Jobs
  <2>2. Group(jobs[i].kind, jobs[i].ref) = Group(jobs[j].kind, jobs[j].ref)
    BY DEF Group
  <2>3. ~(i < j) /\ ~(j < i)
    BY <2>1, <2>2 DEF JobsInv, GroupInv
  <2> QED BY <2>1, <2>3
<1> QED BY <1>1, JobsInvariant, PTL

\* A pull request holds every file of its family as one job recorded them,
\* although a job may fail, hang or be cancelled between any two of them.
THEOREM PullRequestsHoldOneRecording == JobsSpec => []PullRequestsAreWhole
<1>1. JobsInv => PullRequestsAreWhole
  BY DEF JobsInv
<1> QED BY <1>1, JobsInvariant, PTL

\* What the Windows job uploads is what that very job recorded, verified and
\* scanned: its outcomes speak of the files the runner holds at that step.
THEOREM UploadsAreVerified == JobsSpec => []GatedUploadsAreVerified
<1>1. JobsInv => GatedUploadsAreVerified
  <2> SUFFICES ASSUME JobsInv, NEW j \in Jobs, jobs[j].kind = "windows", At(j, "upload"),
                      NEW f \in Family("windows")
               PROVE  Files(j)[f] = [by |-> j, quality |-> "good"]
    BY DEF GatedUploadsAreVerified
  <2>1. OutcomesTell(j)
    BY DEF JobsInv, StepInv, At
  <2>2. jobs[j].outcome["verify"] = "success" /\ jobs[j].outcome["leak"] = "success"
    BY <2>1 DEF OutcomesTell
  <2>3. ws[jobs[j].agent][f] \in [by : {j}, quality : Qualities]
    BY <2>1, <2>2 DEF OutcomesTell, Regenerated, Recorded
  <2>4. ws[jobs[j].agent][f].quality = "good"
    BY <2>1, <2>2 DEF OutcomesTell
  <2>5. Files(j)[f] = ws[jobs[j].agent][f]
    BY DEF Files
  <2> QED BY <2>3, <2>4, <2>5
<1> QED BY <1>1, JobsInvariant, PTL

\* A job never puts its recordings over those of a job dispatched later on the
\* same branch: what the branch holds was recorded before every live job's.
THEOREM PullRequestsGoForward == JobsSpec => PullRequestsDoNotGoBack
<1> DEFINE Forward == \A k \in DOMAIN branch :
        LET old == branch[k].by
            new == branch'[k].by
        IN old # 0 /\ new # 0 /\ jobs[old].ref = jobs[new].ref => old <= new
<1>1. ASSUME JobsInv, [JobsNext]_jobsVars PROVE [Forward]_jobsVars
  <2>1. ASSUME branch' = branch PROVE Forward
    BY <1>1, <2>1, JobsAssumption DEF JobsInv, JobsTypeOK
  <2>2. ASSUME NEW j \in Jobs, OneStep(j) \/ RunnerLost(j) PROVE Forward
    <3>1. jobs[j].status = "running" /\ Touches(j)
      BY <1>1, <2>2, StepEffect DEF JobsInv
    <3>2. CASE branch' = branch
      BY <2>1, <3>2
    <3>3. CASE At(j, "pullRequest") /\ branch' = [branch EXCEPT ![jobs[j].kind] = Taken(j)]
      <4>1. jobs[j].kind \in DOMAIN branch /\ branch'[jobs[j].kind].by = j
        BY <1>1, <3>1, <3>3, TakenIsWhole DEF JobsInv, JobsTypeOK
      <4>2. Live(j)
        BY <3>1 DEF Live
      <4>3. ASSUME NEW k \in DOMAIN branch, branch[k].by # 0, branch'[k].by # 0,
                   jobs[branch[k].by].ref = jobs[branch'[k].by].ref
            PROVE  branch[k].by <= branch'[k].by
        <5>1. CASE k = jobs[j].kind
          BY <1>1, <4>1, <4>2, <4>3, <5>1 DEF JobsInv, BranchInv
        <5>2. CASE k # jobs[j].kind
          BY <1>1, <3>3, <5>2, JobsAssumption DEF JobsInv, JobsTypeOK
        <5> QED BY <5>1, <5>2
      <4> QED BY <4>3
    <3> QED BY <3>1, <3>2, <3>3 DEF Touches
  <2> HIDE DEF Forward
  <2>3. CASE \E k \in Kinds, ref \in Refs : Dispatch(k, ref)
    BY <2>1, <2>3 DEF Dispatch
  <2>4. CASE \E j \in Jobs : Start(j) \/ TimesOut(j)
    BY <2>1, <2>4 DEF Start, TimesOut
  <2> QED BY <1>1, <2>2, <2>3, <2>4 DEF JobsNext
<1> QED BY <1>1, JobsInvariant, PTL DEF JobsSpec, PullRequestsDoNotGoBack
=============================================================================
