---------------------------- MODULE RecordingGate ----------------------------
(***************************************************************************)
(* The gate every commit of a recording passes: the pre-commit hook, the   *)
(* tools it builds and caches (build-verify-tools.sh), the check of every  *)
(* staged recording (verify-all-recordings.sh --index) and of each one     *)
(* (verify-recordings.sh).  A commit that touches no recording passes at   *)
(* once, so what holds of the committed recordings is carried from the last*)
(* commit that did.  The sibling repositories the tools are built from move*)
(* on their own; a build can fail half-way and the hook can be interrupted.*)
(***************************************************************************)
EXTENDS Naturals

CONSTANTS
    Paths,          \* where a recording can be committed
    Recordings,     \* records: container, meta, nimOpens, rustOpens, credentials, members
    NimRevs,        \* revisions of codetracer-trace-format-nim
    RustRevs,       \* revisions of codetracer-trace-format
    NimVersions,    \* NimVersions[r]: the container versions its reader knows
    RustVersions,   \* RustVersions[r]: likewise
    Stageable,      \* what is staged when a commit is made
    GivenTools,     \* tools a developer can name in CT_PRINT and the others
    MovesInHook,    \* whether a sibling may be moved while a hook runs
    Absent            \* no file, no tool, no checkout

Trees == [files : [Paths -> Recordings \cup {Absent}], listed : SUBSET Paths]
Stamps == [nim : NimRevs, rust : RustRevs]
ToolSets == [print : NimRevs, scan : NimRevs, names : NimRevs, util : RustRevs]

ASSUME GateAssumption ==
    /\ Absent \notin Recordings \cup NimRevs \cup RustRevs \cup Stamps \cup ToolSets
    /\ GivenTools \subseteq ToolSets
    /\ Stageable \subseteq Trees
    /\ MovesInHook \in BOOLEAN

VARIABLES
    heads,      \* the HEADs of the two siblings
    cache,      \* what each cached tool was built from
    stamp,      \* the cache's stamp file
    committed,  \* the recordings and the list of exceptions, as committed
    staged,     \* as staged
    hook,       \* the hook's next step, "idle" when none runs
    wanted,     \* the HEADs the hook read
    used,       \* the tools it verifies with
    todo,       \* recordings the loop has not reached
    readable,   \* recordings met that are not listed
    failed,
    \* History: whether the last build was cut short or a sibling moved in it,
    \* and the tools of the last commit that was verified.
    disturbed, verifiedWith

cacheVars == <<cache, stamp, disturbed>>
checkVars == <<todo, readable, failed>>
gateVars == <<heads, cacheVars, committed, staged, hook, wanted, used, checkVars, verifiedWith>>

InTree(tree) == {p \in Paths : tree.files[p] # Absent}

Result(versions, opens, rev, rec) ==
    IF rec.container \notin versions[rev] THEN "version"
    ELSE IF rev \in opens THEN "opens" ELSE "refused"

CtPrint(t, rec) == Result(NimVersions, rec.nimOpens, t.print, rec)
VerifyTrace(t, rec) == Result(RustVersions, rec.rustOpens, t.util, rec)

\* Bug for Passes: what the two readers say is not told apart.
PassesEither(t, rec) ==
    /\ rec.container = 5 /\ rec.meta = 7
    /\ CtPrint(t, rec) = "opens" \/ VerifyTrace(t, rec) = "opens"
    /\ rec.credentials = 0 /\ rec.members = 0

\* verify-recordings.sh: the six checks of one recording.
Passes(t, rec) ==
    /\ rec.container = 5
    /\ rec.meta = 7
    /\ CtPrint(t, rec) = "opens"
    /\ VerifyTrace(t, rec) = "opens"
    /\ rec.credentials = 0
    /\ rec.members = 0

\* verify-all-recordings.sh, of a listed recording.
RefusedAsListed(t, rec) ==
    /\ CtPrint(t, rec) = "version"
    /\ VerifyTrace(t, rec) = "version"

\* Bug for Changed: the list of exceptions is not among the triggers.
ChangedFiles(tree) == tree.files # committed.files

\* What makes the hook verify: a recording added, changed or removed, or the list.
Changed(tree) == tree.files # committed.files \/ tree.listed # committed.listed

GateInit ==
    /\ heads \in [nim : NimRevs, rust : RustRevs]
    /\ cache = [print |-> Absent, scan |-> Absent, names |-> Absent, util |-> Absent]
    /\ stamp = Absent
    /\ committed = [files |-> [p \in Paths |-> Absent], listed |-> {}]
    /\ staged = committed
    /\ hook = "idle"
    /\ wanted = Absent /\ used = Absent
    /\ todo = {} /\ readable = {} /\ failed = FALSE
    /\ disturbed = FALSE /\ verifiedWith = Absent

Building == {"print", "scan", "names", "util", "stamp"}

\* A sibling is moved, removed or checked out again.
MoveHead ==
    /\ hook = "idle" \/ MovesInHook
    /\ \/ \E r \in NimRevs \cup {Absent} : heads' = [heads EXCEPT !.nim = r]
       \/ \E r \in RustRevs \cup {Absent} : heads' = [heads EXCEPT !.rust = r]
    /\ heads' # heads
    /\ disturbed' = (disturbed \/ hook \in Building)
    /\ UNCHANGED <<cache, stamp, committed, staged, hook, wanted, used, checkVars, verifiedWith>>

\* The hook ends and the commit is not made.
Refuse ==
    /\ hook' = "idle"
    /\ staged' = committed
    /\ wanted' = Absent /\ used' = Absent
    /\ todo' = {} /\ readable' = {} /\ failed' = FALSE
    /\ UNCHANGED <<heads, committed, verifiedWith>>

Commit(tools) ==
    /\ hook' = "idle"
    /\ committed' = staged'
    /\ wanted' = Absent /\ used' = Absent
    /\ todo' = {} /\ readable' = {} /\ failed' = FALSE
    /\ verifiedWith' = tools
    /\ UNCHANGED <<heads, cacheVars>>

\* A commit that touches no recording and not the list passes at once.
PassAtOnce ==
    /\ hook = "idle"
    /\ \E tree \in Stageable : ~Changed(tree) /\ staged' = tree
    /\ Commit(verifiedWith)

\* The environment may name the tools.
StartHook ==
    /\ hook = "idle"
    /\ \E tree \in Stageable : Changed(tree) /\ staged' = tree
    /\ used' \in GivenTools \cup {Absent}
    /\ hook' = "tools"
    /\ UNCHANGED <<heads, cacheVars, committed, wanted, checkVars, verifiedWith>>

StartChecks(tools) ==
    /\ used' = tools
    /\ hook' = "examine"
    /\ todo' = InTree(staged)
    /\ UNCHANGED <<readable, failed>>

UseGiven ==
    /\ hook = "tools" /\ used # Absent
    /\ StartChecks(used)
    /\ UNCHANGED <<heads, cacheVars, committed, staged, wanted, verifiedWith>>

NoSibling ==
    /\ hook = "tools" /\ used = Absent
    /\ heads.nim = Absent \/ heads.rust = Absent
    /\ Refuse
    /\ UNCHANGED cacheVars

\* Bug for UseCache: only the Rust sibling's HEAD is compared.
UseCacheRustOnly ==
    /\ hook = "tools" /\ used = Absent
    /\ heads.nim # Absent /\ heads.rust # Absent
    /\ wanted' = heads
    /\ LET same == IF stamp = Absent THEN FALSE ELSE stamp.rust = heads.rust IN
       \/ same /\ StartChecks(cache) /\ UNCHANGED disturbed
       \/ ~same /\ hook' = "print" /\ disturbed' = FALSE /\ UNCHANGED <<used, checkVars>>
    /\ UNCHANGED <<heads, cache, stamp, committed, staged, verifiedWith>>

UseCache ==
    /\ hook = "tools" /\ used = Absent
    /\ heads.nim # Absent /\ heads.rust # Absent
    /\ wanted' = heads
    /\ \/ /\ stamp = heads
          /\ StartChecks(cache)
          /\ UNCHANGED disturbed
       \/ /\ stamp # heads
          /\ hook' = "print"
          /\ disturbed' = FALSE
          /\ UNCHANGED <<used, checkVars>>
    /\ UNCHANGED <<heads, cache, stamp, committed, staged, verifiedWith>>

\* One tool is built from its sibling as it is now; the last tool's build is
\* followed by the stamp.
BuildTool(tool, rev, next) ==
    /\ hook = tool
    /\ rev # Absent
    /\ cache' = [cache EXCEPT ![tool] = rev]
    /\ hook' = next
    /\ UNCHANGED <<heads, stamp, disturbed, committed, staged, wanted, used, checkVars, verifiedWith>>

BuildStep ==
    \/ BuildTool("print", heads.nim, "scan")
    \/ BuildTool("scan", heads.nim, "names")
    \/ BuildTool("names", heads.nim, "util")
    \/ BuildTool("util", heads.rust, "stamp")

\* A build step fails: the tools built before it stay, and so does the stamp.
BuildFails ==
    /\ hook \in {"print", "scan", "names", "util"}
    /\ Refuse
    /\ disturbed' = TRUE
    /\ UNCHANGED <<cache, stamp>>

WriteStamp ==
    /\ hook = "stamp"
    /\ stamp' = wanted
    /\ StartChecks(cache)
    /\ UNCHANGED <<heads, cache, disturbed, committed, staged, wanted, verifiedWith>>

\* A listed recording is tried with both readers; one not listed is set aside.
Examine ==
    /\ hook = "examine"
    /\ \E p \in todo :
        /\ todo' = todo \ {p}
        /\ \/ /\ p \notin staged.listed
              /\ readable' = readable \cup {p}
              /\ UNCHANGED failed
           \/ /\ p \in staged.listed
              /\ failed' = (failed \/ ~RefusedAsListed(used, staged.files[p]))
              /\ UNCHANGED readable
    /\ UNCHANGED <<heads, cacheVars, committed, staged, hook, wanted, used, verifiedWith>>

\* Bug for CheckListed: its verdict replaces that of the loop before.
CheckListedAnew ==
    /\ hook = "examine" /\ todo = {}
    /\ failed' = ~(staged.listed \subseteq InTree(staged))
    /\ todo' = readable
    /\ hook' = IF readable = {} THEN "refuse" ELSE "verify"
    /\ UNCHANGED <<heads, cacheVars, committed, staged, wanted, used, readable, verifiedWith>>

\* Every listed file must be committed, and some recording not be listed.
CheckListed ==
    /\ hook = "examine" /\ todo = {}
    /\ failed' = (failed \/ ~(staged.listed \subseteq InTree(staged)))
    /\ todo' = readable
    /\ hook' = IF readable = {} THEN "refuse" ELSE "verify"
    /\ UNCHANGED <<heads, cacheVars, committed, staged, wanted, used, readable, verifiedWith>>

VerifyOne ==
    /\ hook = "verify"
    /\ \E p \in todo :
        /\ todo' = todo \ {p}
        /\ failed' = (failed \/ ~Passes(used, staged.files[p]))
    /\ UNCHANGED <<heads, cacheVars, committed, staged, hook, wanted, used, readable, verifiedWith>>

Verdict ==
    /\ UNCHANGED staged
    /\ hook = "verify" /\ todo = {} /\ ~failed
    /\ Commit(used)

Rejected ==
    /\ \/ hook = "verify" /\ todo = {} /\ failed
       \/ hook = "refuse"
    /\ Refuse
    /\ UNCHANGED cacheVars

HookStep ==
    \/ UseGiven \/ NoSibling \/ UseCache
    \/ BuildStep \/ BuildFails \/ WriteStamp
    \/ Examine \/ CheckListed \/ VerifyOne \/ Verdict \/ Rejected

\* The hook is interrupted; a stamp being written is left as it was or empty.
Interrupted ==
    /\ hook # "idle"
    /\ Refuse
    /\ disturbed' = (disturbed \/ hook \in Building)
    /\ stamp' \in IF hook = "stamp" THEN {stamp, Absent} ELSE {stamp}
    /\ UNCHANGED cache

GateNext == MoveHead \/ PassAtOnce \/ StartHook \/ HookStep \/ Interrupted

GateSpec == GateInit /\ [][GateNext]_gateVars

-----------------------------------------------------------------------------
(* Properties. *)

ToolsOf(s) == [print |-> s.nim, scan |-> s.nim, names |-> s.nim, util |-> s.rust]

\* What verify-all-recordings.sh:3-20 asks of a tree: some recording is not
\* listed, each of those passes every check, and the listed ones are there and
\* refused by both readers for their version.
Acceptable(t, tree) ==
    /\ tree.listed \subseteq InTree(tree)
    /\ InTree(tree) \ tree.listed # {}
    /\ \A p \in InTree(tree) \ tree.listed : Passes(t, tree.files[p])
    /\ \A p \in tree.listed : RefusedAsListed(t, tree.files[p])

GateTypeOK ==
    /\ heads \in [nim : NimRevs \cup {Absent}, rust : RustRevs \cup {Absent}]
    /\ cache \in [print : NimRevs \cup {Absent}, scan : NimRevs \cup {Absent},
                  names : NimRevs \cup {Absent}, util : RustRevs \cup {Absent}]
    /\ stamp \in Stamps \cup {Absent} /\ wanted \in Stamps \cup {Absent}
    /\ committed \in Trees /\ staged \in Trees
    /\ hook \in {"idle", "tools", "examine", "verify", "refuse"} \cup Building
    /\ used \in ToolSets \cup {Absent} /\ verifiedWith \in ToolSets \cup {Absent}
    /\ hook \in {"examine", "verify", "refuse"} => used # Absent
    /\ todo \subseteq InTree(staged) /\ readable \subseteq InTree(staged)
    /\ failed \in BOOLEAN /\ disturbed \in BOOLEAN

\* However many commits, refusals and interrupted hooks came between, the tools of
\* the last verified commit say of the repository as it is: both readers open
\* every recording not listed, in the current format, and there is no credential
\* in it; every listed one is there and both refuse it for its version.  A commit
\* the hook lets pass at once changes nothing of that
\* (pre-commit-verify-recordings.sh:2-5, 20-25, verify-all-recordings.sh:11-20).
CommittedIsVerified ==
    verifiedWith # Absent =>
        /\ committed.listed \subseteq InTree(committed)
        /\ \A p \in InTree(committed) :
            LET rec == committed.files[p]
                readers == {CtPrint(verifiedWith, rec), VerifyTrace(verifiedWith, rec)}
            IN  IF p \in committed.listed THEN readers = {"version"}
                ELSE readers = {"opens"} /\ rec.container = 5 /\ rec.meta = 7 /\ rec.credentials = 0

\* The verdict put together over the two loops and the list's check is the one
\* the whole tree deserves: no later success hides a failure, and nothing
\* acceptable is refused (verify-all-recordings.sh:63-107).
VerdictIsExact ==
    /\ hook = "verify" /\ todo = {} => (failed <=> ~Acceptable(used, staged))
    /\ hook = "refuse" => ~Acceptable(used, staged)

\* The cached tools are those of the siblings' HEADs, unless the last build
\* was cut short, failed or had a sibling move under it
\* (pre-commit-verify-recordings.sh:39-45).
UndisturbedToolsAreCurrent ==
    hook \in {"examine", "verify"} /\ wanted # Absent /\ ~disturbed => used = ToolsOf(wanted)

\* What the hook's header says: the tools are rebuilt when either sibling's HEAD
\* moves (pre-commit-verify-recordings.sh:10-12).
ToolsFollowHeads ==
    hook \in {"examine", "verify"} /\ wanted # Absent => used = ToolsOf(wanted)

\* The recordings or the list in the repository change only in a commit that
\* the tools the hook chose accept as a whole.
CommitsAreVerified == [][used # Absent /\ Acceptable(used, committed')]_committed

\* The build's progress: every tool built since the hook read the HEADs is of
\* them, unless the build was disturbed; no tool is ever taken away.
BuiltInv ==
    LET Built(tool, rev) == tool # Absent /\ (~disturbed => tool = rev) IN
    /\ hook \in {"idle", "tools"} => wanted = Absent
    /\ hook \in Building => wanted # Absent
    /\ hook \in {"scan", "names", "util", "stamp"} => Built(cache.print, wanted.nim)
    /\ hook \in {"names", "util", "stamp"} => Built(cache.scan, wanted.nim)
    /\ hook \in {"util", "stamp"} => Built(cache.names, wanted.nim)
    /\ hook = "stamp" => Built(cache.util, wanted.rust)
    /\ stamp # Absent => cache \in ToolSets
    /\ hook \in Building /\ ~disturbed => heads = wanted
    /\ hook \notin Building /\ stamp # Absent /\ ~disturbed => cache = ToolsOf(stamp)

\* The loops' progress: the verdict so far is that of the recordings met so far.
LoopInv ==
    LET unlisted == InTree(staged) \ staged.listed
        looked == InTree(staged) \ todo
        listedFails(ps) == \E p \in ps \cap staged.listed : ~RefusedAsListed(used, staged.files[p])
        listFails == listedFails(InTree(staged)) \/ ~(staged.listed \subseteq InTree(staged))
    IN  /\ hook \notin {"examine", "verify", "refuse"} => todo = {} /\ readable = {} /\ ~failed
        /\ hook = "examine" =>
            /\ readable = looked \cap unlisted
            /\ failed <=> listedFails(looked)
        /\ hook \in {"verify", "refuse"} => readable = unlisted
        /\ hook = "verify" =>
            /\ unlisted # {} /\ todo \subseteq unlisted
            /\ failed <=> listFails \/ \E p \in unlisted \ todo : ~Passes(used, staged.files[p])
        /\ hook = "refuse" => unlisted = {}

\* The inductive invariant.
GateInv ==
    /\ GateTypeOK
    /\ BuiltInv
    /\ UndisturbedToolsAreCurrent
    /\ LoopInv
    /\ verifiedWith # Absent => Acceptable(verifiedWith, committed)
=============================================================================
