# Verification of codetracer-example-recordings

The repository holds trace recordings made by CodeTracer's recorders, and the
programs that make them, convert them, scan them and keep bad ones out. This
directory holds TLA+ models of those programs. TLC checks the models on small
instances and TLAPS proves the main invariants for every value of the
constants. Paths below are relative to the repository.

## The system

| Part | Code | State it keeps | What it does |
| --- | --- | --- | --- |
| CTSP client | `programs/ctsp_client.c` | position in the message stream, a socket | sends metadata, event batches and END_RECORDING to a stream receiver, prints DONE |
| Fixture program | `programs/ct_fixture_prog.c` | three threads' results | the program most fixtures record |
| Device fixture regeneration | `mcr/{android,ios}-arm64/regenerate.sh` | files beside it, the receiver's process | builds client and receiver, records the client, exports, cleans up |
| Regeneration on a host | `mcr/{linux-*,macos-arm64,windows-x86_64}/`, `.github/scripts/drop-credentials.sh` | files beside each script, the shell's environment | drop credentials, record the fixture program, export it |
| Fixture converters | `tools/ctfs-v4-to-v5/`, `tools/meta-v6-to-v7/` | the recording and a temporary file | bring a committed recording to the current format, in place |
| Scanners | `.github/scripts/ct_{leak,credential}_scan.nim`, `ct_member_names.nim` | findings of the file being read | refuse recordings with personal data, credentials or unstorable names |
| Commit gate | `.github/scripts/{pre-commit-verify,verify-all,verify}-recordings.sh`, `build-verify-tools.sh` | a cache of built tools and its stamp; the index | verifies every staged recording with both trace readers |
| Provisioning | `.github/scripts/provision-{recorder,readers}.sh` | clones kept between runs, a pins file | checks out the revisions one codetracer commit pins |
| CI workflows | `.github/workflows/` | runners' workspaces, concurrency groups, pull-request branches | call the scripts above, upload, open pull requests |

How they interact: a workflow provisions the recorder, drops credentials and
runs a regeneration script; the device scripts start the CTSP client and the
receiver and judge the recording by the client's DONE, the receiver's end and
the file that is there; the host scripts record the fixture program; old
fixtures go through the converters; every commit goes through the gate, which
builds its tools from sibling checkouts that move on their own and runs the
scanners on every staged file; the verification workflow does the same on a
runner whose clones the recorder's jobs use too.

What is hard in it: `send` takes part of a message; DONE says nothing of what is
recorded; a receiver that does not end is sent a signal and then waited for with
no limit; scripts fail or are killed at any command and the next run meets what
they left; tools are cached under a
stamp; branches move between runs; frames of compressed data are cut anywhere;
mapping blocks of a container may point anywhere; jobs are cancelled, dropped or
hang between any two steps while later steps run `always()`. `PROJECT.json`
lists each of these under `hazards` with its line and the properties about it.

## The modules

Each `X.tla` has its constants, state, one action per step of the code and its
properties. The theorems are in eight modules named `...Proofs.tla`, each about
one component or about a few that belong together. Definitions keep the source's
names where possible, and `PROJECT.json` maps each one to its lines. Operators marked
`Bug for ...` are altered forms of the definition after them. They belong to no
specification and serve only to see that a property notices the alteration.

The MC modules give small instances. Four of them hold several components that
share no file and no process, and have one more variable which says which of
them this behaviour is about (`program`, `kind`, `workflow`); the others rest.
`MCPrograms` has CtspClient and FixtureProgram, `MCRegenerationScripts` has
DeviceFixture and HostFixture, `MCScanners` has LeakScan, CredentialScan and
MemberNames, `MCWorkflows` has VerificationJobs and RegenerationJobs. Each liveness property
is about one component, and fairness is stated for that component only: invariants and action properties are checked in
every behaviour, the liveness properties in those in which their component runs.

### CtspRecording, CtspClient

`CtspRecording` is what a recording over CTSP promises, a message at a time.
`CtspClient` is the byte stream under it: `send_all` hands over any prefix of
what is left (`Accept`, `ShortSend`), header and payload of a message are two
parts (`send_ctsp`), the socket holds `SockBuf` bytes, and the receiver decodes
headers as the format comment gives them. The receiver is not in this
repository and is modelled as external. The client can be killed and the link
lost at any time. `ImplementsRecording` is the refinement.

Bounds: three batches (the code sends ten), message sizes 3 + 2 and 3 + 4 and a
socket of six bytes, so messages are split in every place and one and a half are
in flight. Fairness: the client is scheduled, nothing else. A blocked send goes on
only when the receiver reads or the connection is closed. `send` has no time
limit, so a receiver that is alive and for good stops reading holds the client:
`ClientStops` names that as the one way not to end. `DoneLeadsToFinished` is about
a receiver that goes on reading, which is an assumption in the property itself.

### FixtureProgram

Main and its workers, which count up sums in arguments they share with main. The
POSIX build joins them one by one, the Windows build waits for all at once;
neither looks at whether a thread could be created. A join of a thread that was
not created, or a wait with such a handle, returns at once, and what main then
reads is whatever the worker has left so far: `LinesAreComplete` says exactly when
that can be. Three workers as in the code; three iterations give the sum a
first, a middle and a last value.

### DeviceFixture

Both device scripts, from the device check to the export, over three runs: any
command may fail (the EXIT trap runs), the run may be killed with its process
group (it does not), and the next run starts from the files there are. Client
and receiver are composed in through `INSTANCE CtspRecording`. Each file is
named by the run that made it, so that a stale file can be told from a fresh
one. `WaitLimit` is 3 for the 10 looks; the loop's cases are a first, a middle
and the last look.

To send SIGTERM and to see the receiver end are two steps. The last look sends it
(line 188) and the script then waits with no limit (192); the exit trap does the
same (53, 54), and it is `cleanup` until that wait returns. The receiver may
go on in between, record, write the trace, or never end. Fairness is of the
script's own commands only: neither the client nor the receiver is assumed to
end. So a run can hang, and `RunEnds` says where: at the client, for which the
script has no limit (172), or at the waits of 54 and 192 with a receiver that was
told to end and does not. What the loop is there for remains: no run waits for a
receiver that nobody has told to end.

A success does not say that the trace is whole: after a signal at the tenth look
only its existence is checked (line 198). The model keeps that, and no property
claims otherwise.

### HostFixture

The four scripts that record on the host, a step per command that touches the
trace, the export or the environment, in the order each script has them. Who
starts a script decides what comes before it: in a job of
`regen-device-recordings.yml` it is `drop-credentials.sh` (on Windows the step
that stands for it), in a job of `regen-mcr-*.yml` and for a person it is nothing. A
variable is abstracted to which rule knows it: by name, by name on Windows, by
the shape of its value, or kept. `regenerate.ps1` enters the compiler's shell,
which sets variables for good, and later empties the shell's own environment and
puts it back in a `finally`. Any step may fail, on Windows a file may refuse to be removed, and
a run may be killed: `hostKilled` says that it was, `began` what was there when
it began, since a killed run leaves what it has not yet put in order.

`FilesAreOfOneRecording` has two exceptions, which are the scripts': on macOS the
search for `ct-mcr` comes after the recording, so a run that fails there leaves a
new trace beside the old export; on Windows `-ErrorAction SilentlyContinue`
leaves an export that could not be removed.

`CredentialsKeptOut` is about every trace, whoever made it, and has one exception.
The Linux and Windows scripts empty the environment of the recording themselves.
The macOS script does not (`macos-arm64/regenerate.sh:62`), so there only the
drop of the device job keeps a credential out: what a person records, or the
platform job of `regen-mcr-macos-arm64.yml` (142-147), which does not source
`drop-credentials.sh`, carries whatever its shell has. `Unprotected` names these
traces. That `nix develop` and the like add no credential after the drop is
assumed.

Two runs are enough for one to find the files of another. The shell's eight
variables have one in every class the rules tell apart.

### RecordingFormat, FixtureConversion

`RecordingFormat` is the abstract promise: content never changes, format
versions only move forward, one at a time. `FixtureConversion` is the three
tools: read, convert in memory or refuse, open and write the temporary file,
rename. A run can stop anywhere and leave a truncated or whole temporary file,
the recording can be made anew in between, and the tools are run in any order.
A container is its versions, path list, interning tables and members. What the
current writer does with two members of one name is not in this repository, so
it is the constant `StoresDuplicates`. The run has it TRUE, in which case the
tools' own read-back has to notice.

Run `fixture_conversion`: originals of every schema, with renamed members, a
name clash, a repeated path, partial tables, a file compressed as a whole, two
stopped runs and two recordings. Bounds: stops and recordings are counted
because each adds a state; two of each let a file left by one run of one
recording meet a run on the next. The run has no deadlock check, because the
system stops when everything is converted. Fairness: a tool that runs goes on
and each tool is run again while it can convert something.

### MemberWalk

`readV4MemberBytes`, a step per mapping block visited: the chain of levels, the
descent in a level's tree, the copy. `WalkReadsTheMapping` compares it with the
format's definition, which expands the mapping of a container (the parameter
`c` of the reference operators) with no index arithmetic. Run
`member_walk`: every content of two mapping blocks, a whole three-level mapping
of 14 blocks right and with one pointer wrong, and a fourth level that has to
be refused. Two pointers to a block is the smallest that has trees. Fairness:
the procedure goes on.

### RecordedText, LeakScan

`RecordedText` says what there is to read in a file: every buffer's bytes and
every buffer's frames joined, since the recorder cuts a stream into frames at
byte counts. The parts of a file are a recursive function over the levels of
frames and containers that the limits allow. `LeakScan` is the recursion of `ct_leak_scan` with its calls on an
explicit stack, the carried end of earlier frames and the seam searched before
each frame. Two rules are modelled: the home-directory rule, whose match ends
where the buffer ends, and the literal rule, whose match is all or nothing. The
other text rules go through the same `scanText`. Letter case, UTF-16LE and
redaction are abstracted.

Inputs: eight texts, each cut into three frames at every two places, as a member
and as a container's free space; frames and containers nested beyond their
limits; containers that cannot be read at each place; two files on the command
line. A separator of three units and names of two, with a seam of five, is the
smallest seam the code's own proportions allow (the assumption is that a
separator and a name fit into it; the code has 1024 bytes for 78 UTF-16 units).
Two cuts are enough for a match over three frames with any of them empty.

### CredentialScan

`ct_credential_scan`: one pass over a buffer that tries the patterns in the
code's order at each position and goes on behind a match, and the walk over raw
bytes, members, frames and frames in frames. The reference definition asks for
each documented pattern by itself at every position; the program's way through
the text (what it skips, where a longer word starts) must come to the same
verdict. The patterns' literals and lengths are shortened by constants. Inputs:
every text of up to four out of fourteen pieces of the patterns; a token in
frames beyond the depth limit and cut by a frame's end at every place; broken
files at every place of a command line of two.

### MemberNames

The walk over the slots a root directory declares and the test of each key.
A key is a number whose digits to the base 40 are the name's characters, 0 for
the padding. The codec is external. Inputs: names of up to three of three
characters, every key up to beyond the last name, every order of a good, a
free, a bad and a nameless slot, with the last one declared or not.

### RecordingGate

The hook and the three scripts it calls, with the siblings' HEADs moving, builds
failing between tools, and interrupts. Recordings are records of what each
check would say: the container and schema version, the reader revisions that
open it, the scanners' exit codes. Assumed: the index does not change while the
hook runs; unstaged edits to the list are put away by the pre-commit framework
(`.pre-commit-config.yaml:149-160`), so the list in the working tree is the
staged one; nobody uses `--no-verify`.

Run `recording_gate`: two paths, four recordings (good, old version, one that
only one reader opens, one with a credential), ten trees that can be staged, two
Nim revisions and one Rust revision. Two paths give the loops a first and a
later verdict; two revisions give the stamp something to be wrong about.

### Provision

`provision-recorder.sh` on runners that keep the directory: resolving names,
reading locks, cloning in order with every git call a step, the pins file.
Between runs what was built in the clones stays and branches move. The network
fails anywhere and a run is killed anywhere. Run `provision`: two siblings, two
codetracer commits (one leaves a sibling to the recorder's lock, one pins no
recorder), two recorder commits and an annotated tag. The number of runs is not
bounded.

### VerificationJobs

`verify-recordings.yml` with `provision-readers.sh` and `build-verify-tools.sh`
inside: pushes that cancel the run before them at any step, a runner that keeps
the clones and the tools, and the recorder's jobs, which leave the Nim reader's
clone at another revision with their build in it. HEAD is not compared at the
end as `provision-recorder.sh` does, so `ChecksAreThePinned` rests on the order of
fetch, checkout and clean alone. Three changes give a cancelled, a waiting and a
running one; three codetracer commits pin two pairs of readers and one reader
only.

### RegenerationJobs

The jobs of the regeneration workflows: dispatched on branches, held in their
concurrency groups, taken by runners with the right labels, run step by step.
Each step's outcome is kept, and each later step has the condition its `if:`
gives it. A step ends, fails, hangs, is interrupted when the job is cancelled, or
goes with its runner; a regeneration that does not end leaves the files it had
written. "platform" stands for the jobs that open pull requests per branch,
"emulator" for the macOS emulator job with its global group, "windows" for the job
whose public upload asks for the outcomes of its scans.

GitHub is external: a group has one job in progress and one pending, a newer
pending job replaces the older, `cancel-in-progress` cancels the one in progress,
a job without `if:` conditions stops at a failure. Fairness, which is only about
GitHub: a free runner takes a queued job, a job over its limit is cancelled, and
one that does not end after that is ended. No step is assumed to end, which is
why the limits matter for `RunsConclude`. Three jobs are what it takes to have
one in progress, one pending and one that replaces it; two branches tell a
global group from one for each branch; two Macs let jobs of different groups
run at a time.

## What the runs show

Every property of a passing run is explained in its module's comments. In short:

| Run | States | Holds |
| --- | --- | --- |
| `programs` | 4,978 | the stream is never torn, DONE means whole or on its way, the client stops unless its receiver stops reading, DONE leads to the end of the recording unless the link or the receiver is lost, refinement of `CtspRecording`; printed results are complete unless a thread was refused |
| `regeneration_scripts` | 700,948 | success leaves a fresh fixture whatever went before, no receiver is left, the old export survives a failed recording, device runs end unless the client or a receiver told to end does not; a host's files are of one recording but for two gaps, no recording carries a credential but the unprotected ones on macOS, the shell's environment comes back |
| `fixture_conversion` | 4,156 | a recording is never truncated or replaced by another's file, the chain never stalls, what can be converted is, refinement of `RecordingFormat` |
| `member_walk` | 28,574 | reads stay in the container, copies in the member, exactly the mapping is read, the walk ends on cycles |
| `recording_gate` | 392,364 | what is committed was accepted as a whole, the verdict is exact, tools are current unless a build was disturbed |
| `provision` | 737,369 | success is as pinned, pins name what is cloned, failures have a known cause |
| `scanners` | 586,177 | nothing missed to the limits however frames are cut, findings exact, honest exit codes; clean exactly when no documented pattern is there; passed exactly when every name can be found |
| `workflows` | 177,804 | changes are verified with the pinned readers and their own scanners; gated uploads are verified, pull requests whole and never going back, emulator jobs apart, every job ends |

`scanners`, `fixture_conversion` and `workflows` have no deadlock check: the
programs exit, everything is converted, all jobs have been dispatched.

Four runs show where the code does something else than a comment beside it says:

* `stale_tools`: "rebuilt when either sibling's HEAD moves". A build that fails
  half-way leaves new tools under the old stamp; when the HEAD goes back, they
  are used.
* `provision_again`: "reusing an existing clone ... leaving nothing behind". A
  run killed between `git init` and `git remote add` leaves a directory that
  every later run fails on.
* `credential_scan_cut`: "neither compression nor block layout hides a match". A
  token cut by a frame's end is in no buffer that is searched.
* `host_environment`: "the regenerate scripts also record under `env -i`". The
  macOS script does not, and the platform job that runs it
  (`regen-mcr-macos-arm64.yml:142-147`) has dropped no credentials before.

Other disagreements between comments and code that were met while modelling, for
which there is no run. The models follow the code in each:

* `RECORDER_REF` may be "a tag" (`provision-recorder.sh:23`): an annotated tag
  fails the comparison of HEAD (116-120). `FailuresAreExplained` names it.
* A name is refused if it "is not an allowed one" (`ct_leak_scan.nim:55`): the
  part of an allowed name in front of a frame's end is refused too (256).
* Members that are containers are opened "recursively" (`ct_leak_scan.nim:42`):
  the fifth level is not (609).
* An AWS key is "not inside a longer word" (`ct_credential_scan.nim:31`): a small
  letter behind it is not looked at (127).
* A key that decodes differently is said to show (`ct_member_names.nim:6-11`): a
  foreign character at the end of a name is taken for padding and passes (34).
* A queued emulator job is "queued behind, not killed"
  (`regen-mcr-macos-arm64.yml:219`): a third dispatch drops it.
* The emulator needs "a QUIET host" (20-24): the group keeps away no job of
  another group on the same machine.
* "Upload refreshed fixtures artifact" (172) runs `always()`, with the committed
  files when the job failed before it recorded.
* "It then checks every produced `.ct`" (`regen-device-recordings.yml:7`): three
  of the four emulator fixtures are named (429-431).
* "Verify every committed recording ... on every change"
  (`verify-recordings.yml:1`): a push cancels the run of the push before (33).
* "Source this before any step that RECORDS a program" (`drop-credentials.sh:1`):
  of the workflows only `regen-device-recordings.yml` does. In the jobs of
  `regen-mcr-*.yml` that record on Linux, `env -i` in the script keeps credentials
  out, on macOS nothing does (above). The emulator's and the RR scripts, which
  other jobs run without it, are not modelled.
* A pull-request branch is one for all refs (`regen-mcr-macos-arm64.yml:189`),
  and the group that keeps its jobs apart is one for each ref (78).
  `PullRequestsDoNotGoBack` is about the jobs of one ref.
* The emulator "refuses" the default attach mode
  (`linux-x86_64/regenerate.sh:69-72`): the ARM64 script records in it (89) for
  the same unit tests.

## What is proved

All theorems hold for every value of the constants that the named assumptions
of the modules allow. The assumptions are evaluated by TLC in the runs. Each
inductive invariant contains the types of its module's variables and was checked by TLC on the
module's instance before it was proved.

* `ProgramsProofs`, on CtspClient: `StreamInv` says that the recorded messages,
  the receiver's half-read message and the bytes in flight are, together, the
  stream up to the client's position without a gap. "In order" alone is not
  inductive, because the next byte recorded is one already in flight. From it:
  `RecordedInOrder`, `DoneMeansOnItsWay`, `TypeOK`, and the refinement of
  `CtspRecording` (every step is one of its steps or leaves its variables alone).
  On FixtureProgram: main's place in its loops and what it knows at each (all
  workers before the one it is at have ended, unless a thread was refused) give
  `LinesAreComplete`.
* `RegenerationScriptsProofs`, on DeviceFixture: `FixtureInv` follows the files
  through the steps. From the removal of the old trace on, `trace.ct` is this
  run's or missing; once collected it is this run's and the helper is gone. A
  receiver runs only between its start and the end of the wait for it, and one
  that was sent SIGTERM only where the script waits without limit. From it:
  `SuccessLeavesFreshFixture`, `NoReceiverLeft`, `ExportKeptUntilRecorded`.
  On HostFixture: `HostInv` says at each step of each script which of trace and
  export are this run's, and where in `env`, `saved` and the child's environment
  each variable is. A credential that is out of the environment comes back only
  in the `finally`, after the last recording. From it: `FilesAreOfOneRecording`,
  `CredentialsKeptOut`, with what is recorded on macOS by hand or by the platform
  job excepted, and `EnvironmentIsRestored`, for every set of variables.
* `FixtureConversionProofs`: `ConversionInv` says that while a tool runs its
  output is the recording's own conversion, and that at the rename the
  temporary file is exactly that output. From it: `NeverTruncated`,
  `ChainNeverStalls`, `ReadersAccept`, `ReplacedByItsConversion` and the
  refinement of `RecordingFormat`.
* `MemberWalkProofs`: `WalkInv` keeps the index below a level within the level's
  number of blocks. From it: `ReadsInContainer` (also for a block size with no
  pointers: nothing is divided by zero) and `CopiesInMember`. `MappingInv` says
  that what is copied so far is the first so many of the blocks the mapping
  expands to, and that the block the descent is at expands to the part of them
  that the remaining index counts in. From it: `WalkReadsTheMapping`. The lemmas
  it rests on are about flattened sequences (where the n-th element of a
  sequence of sequences of one length is), the mapping's trees (a complete
  subtree has as many data blocks as its height says, and the pointer the
  division chooses leads to the one that is meant) and the chain of levels.
* `VerificationProofs`, on RecordingGate: `GateInv` has a part for the build (each
  tool built so far is of the HEADs read, unless disturbed) and a part for the loops (the
  verdict so far is that of the recordings met so far). From it: `VerdictIsExact`,
  `CommittedIsVerified`, `CommitsAreVerified`, `UndisturbedToolsAreCurrent`. On
  VerificationJobs: `ChecksInv` has a part for the clones
  (the one at the target step is as far as that step says, the one before it is
  at its pin) and a part for the builds (each tool built so far is of that clone
  and this change). From it: `ChecksAreThePinned`, whatever was left before. On
  RegenerationJobs: `JobsInv` has a part for the groups (at most one job of a
  concurrency group is queued or running), a part for the steps (the outcomes a
  job has recorded tell what its workspace holds) and a part for the branches (a
  pull-request branch holds what was recorded before any job still live on it).
  The first is what the third needs: without it a job could push over a younger
  one's. From it: `EmulatorRunsAreApart`, `GatedUploadsAreVerified`,
  `PullRequestsAreWhole`, `PullRequestsDoNotGoBack`, for any number of jobs,
  branches and runners.
* `ProvisionProofs`: the invariant says, for each step, which of the clones are
  done, that each done one is tidy at the revision its lock gives it, and that
  the pins file has exactly their names. "Success is as pinned" alone is not
  inductive, since what the last step adds is one clone only. From it:
  `SuccessIsAsPinned`, `PinsFollowClones`, `FailuresAreExplained`.
* `ScannersProofs`, on CredentialScan: `ScanInv` says that a buffer holds a
  documented pattern exactly if one was found already or is ahead of the scan,
  and that a file holds one exactly if one was found or is in a buffer still to
  be read, frames in frames included. That no pattern begins in what the scan
  skips behind a word or a match is the lemma it turns on. From it:
  `CleanHoldsNoCredential`, `UnreadableIsNeverClean`. On MemberNames: that the
  codec's two loops are each other's inverse on names and refuse the rest, for
  every base, length and key; from that `PassedAreFoundByName`.
* `LeakScanProofs`: `LeakInv` has three parts. `CallsInv` says of each call on the
  stack what it knows: a buffer's call carries the last bytes of the frames it has
  read, joined, has counted exactly the occurrences in them, and if nothing was
  found there is nothing in them or in the buffer. `PartsInv` says that each part
  of the file within the limits was searched, is being searched by a call on the
  stack, or is in a part some call has still to come to; a part that cannot be
  read is not passed over, since its call stays until the reader refuses it.
  `VerdictsInv` ties verdicts and exit code to the files before. That "nothing
  found so far" means "nothing there" is not inductive without the second part,
  which needs the third choice: what is ahead changes with every call. From it:
  `CleanMeansNothingThere`, `FindingsAreExact`, `ExitIsHonest`, for every text,
  every finite set of literals, every depth, and every seam that takes a separator
  and a name and each literal.
  The lemmas are about two texts and the seam between them: a match in the joined
  text is in one of the two or crosses in the seam buffer (`NothingJoined`), the
  occurrences of the three add up (`HitsJoined`), and what is carried on is the
  end of the joined text (`CarriedIs`).

The library's induction theorems take an operator as a parameter, which no
installed prover can instantiate. Where a statement is about every height of a
tree, every level of nesting or every number of digits, the proof takes the set
of the numbers it is true of, and shows by the well-foundedness of < that it
holds every number (`InductionOverSet` in `MemberWalkProofs`,
`ScannersProofs` and `LeakScanProofs`). This needs a recursion that is a function,
not an operator.

Only model-checked: all liveness (`ClientStops`, `DoneLeadsToFinished`, `RunEnds`,
`ConvertedInTheEnd`, `WalkEnds`, `RunsConclude`). The prover has neither fairness
nor ENABLED.

## What is not modelled

Byte layouts, hashing, compression and wording. The trace readers, the recorder,
`ct-mcr`, git, GitHub and the network are external: each is whatever its callers
allow for. File systems are taken to apply a rename at once; the converters do
not sync before it, so a power failure is outside the models. `meta_v3_to_v6`
copies members by name (164-168): of two members of one name with different bytes
it would write the first's bytes twice, but no container in the model comes to
version 5 with two such members. The conversion of a 64-bit size to `int`
(`ctfs_v4_to_v5.nim:69`) is taken to fit. Two runs of the
same script at a time in one directory are not modelled: a runner takes one job
at a time. `PROJECT.json` gives the status of each part and what is left out of
it. Without a module:

* `verify-windows-recordings.ps1`: independent checks of two files, all run and
  reported, that set one flag. Its outcome is an input of RegenerationJobs.
* `{rust,c,go,nim}/flow_test/regenerate.sh`: two commands each of a tool that is
  not in this repository; they keep no state and decide nothing.
* The Android, iOS, Linux and RR workflows, which have the steps of the macOS
  platform job, and the device workflow's jobs other than Windows, which upload
  whatever happened before.
* Small probes and the programs that are recorded in other languages: one call
  each, or input data.
* `*/flow_test/files/` and `*/flow_test/rr/`: files captured in a recording, among
  them some 120,000 lines of Go's standard library and runtime. They are copies
  of somebody else's sources that a debugger shows beside the recording. Nothing
  in this repository compiles, runs or calls them, so there is nothing of this
  system in them to state a property about. The only other Go file is the
  recorded example program, which is stored with them.

## Plan

Written: all modules above, in the order CtspRecording, CtspClient;
DeviceFixture; RecordingFormat, FixtureConversion; MemberWalk; RecordingGate;
Provision; RecordedText, LeakScan; RegenerationJobs; CredentialScan; MemberNames;
HostFixture; FixtureProgram; VerificationJobs.

Proved: every safety property of every passing run, and both refinements.

Next, to prove: of the liveness properties the part that is safety, that is, for
each of them a measure that no step of its component raises and every step that
fairness asks for lowers. What remains of each is then the fairness alone, which
stays with TLC.
