--------------------------- MODULE ProvisionProofs ---------------------------
(***************************************************************************)
(* Provision, for every list of siblings, every set of commits and every   *)
(* pair of locks: what a successful run has cloned, what its pins file     *)
(* says, and why a run fails.                                              *)
(***************************************************************************)
EXTENDS Provision, TLAPS

CloneSteps == {"prepare", "remote", "fetch", "checkout", "clean", "compare"}

\* What a run has cloned when it comes to r.
Cloned(r) ==
    CASE r = "codetracer" -> {}
      [] r = "recorder" -> {q \in {"codetracer"} : withCt}
      [] OTHER -> {q \in {"codetracer"} : withCt} \cup {"recorder"} \cup Before(r)

\* The run knows what it has read: nothing at first, then one codetracer commit,
\* then the recorder's revision, and at each clone that repository's.
ReadingInv ==
    /\ step = "resolve" => ctSha = None
    /\ step \in {"resolve", "lock"} => recSha = None
    /\ recSha # None => ctSha # None /\ recSha = Documented("recorder")
    /\ target # "codetracer" => recSha # None
    /\ step \in CloneSteps =>
        /\ recSha # None
        /\ sha = Documented(target) /\ sha # None
        /\ target = "codetracer" => withCt

\* Where the clone being made has got to.
CloneInv ==
    /\ step \in {"checkout", "clean", "compare"} => dirs[target].git = "ready"
    /\ step \in {"clean", "compare"} => dirs[target].head = Peel[sha]
    /\ step = "compare" => dirs[target].tidy

\* The clones made before it stay at their revisions, and nothing touches their
\* files before the run is over.
ClonedInv ==
    /\ \A r \in Cloned(target) :
        /\ dirs[r].git = "ready"
        /\ dirs[r].head = Documented(r) /\ Documented(r) # None
    /\ step \in CloneSteps => \A r \in Cloned(target) : dirs[r].tidy

\* The pins file names them, and no other of the repositories.
PinsInv ==
    target \in ToSet(Siblings) /\ step \notin {"idle", "done"} =>
        \A r \in Repos :
            pins[r] = IF r \in {"codetracer", "recorder"} \cup Before(target)
                      THEN Documented(r) ELSE None

ProvisionInv ==
    /\ TypeOK
    /\ ReadingInv
    /\ CloneInv
    /\ ClonedInv
    /\ PinsInv
    /\ SuccessIsAsPinned
    /\ FailuresAreExplained

(***************************************************************************)
(* The order of the clones.                                                *)
(***************************************************************************)

LEMMA SiblingNames ==
    /\ Siblings \in Seq(STRING)
    /\ ToSet(Siblings) = {Siblings[i] : i \in 1..Len(Siblings)}
    /\ "codetracer" \notin ToSet(Siblings) /\ "recorder" \notin ToSet(Siblings)
    /\ \A i, j \in 1..Len(Siblings) : Siblings[i] = Siblings[j] => i = j
<1>1. Siblings \in Seq(STRING) /\ IsInjective(Siblings)
  BY ProvisionAssumption
<1>2. DOMAIN Siblings = 1..Len(Siblings)
  BY <1>1
<1>3. ToSet(Siblings) = {Siblings[i] : i \in 1..Len(Siblings)}
  BY <1>2 DEF ToSet
<1>4. \A i, j \in 1..Len(Siblings) : Siblings[i] = Siblings[j] => i = j
  BY <1>1, <1>2 DEF IsInjective
<1> QED
  BY <1>1, <1>3, <1>4, ProvisionAssumption

\* What is cloned before the i-th sibling.
LEMMA BeforeIth ==
    ASSUME NEW i \in 1..Len(Siblings)
    PROVE  Before(Siblings[i]) = {Siblings[j] : j \in 1..(i - 1)}
<1>1. {k \in 1..Len(Siblings) : \A h \in 1..Len(Siblings) :
            Siblings[h] = Siblings[i] => k < h} = 1..(i - 1)
  BY SiblingNames
<1> QED
  BY <1>1 DEF Before

LEMMA BeforeIsSiblings ==
    ASSUME NEW r \in ToSet(Siblings)
    PROVE  Before(r) \subseteq ToSet(Siblings) /\ r \notin Before(r)
<1>1. PICK i \in 1..Len(Siblings) : Siblings[i] = r
  BY SiblingNames
<1>2. Before(r) = {Siblings[j] : j \in 1..(i - 1)}
  BY <1>1, BeforeIth
<1> QED
  BY <1>1, <1>2, SiblingNames

\* The loop's next turn (provision-recorder.sh:160) has before it what the turn
\* it follows had, and that turn's sibling.
LEMMA NextInOrder ==
    ASSUME NEW r \in Pinned, HasSiblingAfter(r)
    PROVE  /\ SiblingAfter(r) \in ToSet(Siblings)
           /\ Before(SiblingAfter(r)) = IF r = "recorder" THEN {} ELSE Before(r) \cup {r}
<1>1. Len(Siblings) \in Nat \ {0} /\ Last(Siblings) = Siblings[Len(Siblings)]
  BY SiblingNames DEF HasSiblingAfter, Last
<1>2. CASE r = "recorder"
  <2>1. SiblingAfter(r) = Siblings[1]
    BY <1>1, <1>2, SiblingNames DEF SiblingAfter
  <2> QED
    BY <1>1, <1>2, <2>1, BeforeIth, SiblingNames
<1>3. CASE r # "recorder"
  <2>1. PICK i \in 1..Len(Siblings) : Siblings[i] = r
    BY <1>3, SiblingNames DEF Pinned, Repos
  <2>2. i + 1 \in 1..Len(Siblings)
    BY <1>1, <2>1 DEF HasSiblingAfter
  <2>3. (CHOOSE h \in 1..Len(Siblings) : Siblings[h] = r) = i
    BY <2>1, SiblingNames
  <2>4. SiblingAfter(r) = Siblings[i + 1]
    <3>1. SiblingAfter(r) = Siblings[1 + i]
      BY <1>3, <2>3, Zenon DEF SiblingAfter
    <3> QED
      BY <2>1, <3>1
  <2>5. Before(Siblings[i + 1]) = {Siblings[j] : j \in 1..i}
    BY <2>2, BeforeIth
  <2>6. Before(r) = {Siblings[j] : j \in 1..(i - 1)}
    BY <2>1, BeforeIth
  <2> QED
    BY <1>3, <2>1, <2>2, <2>4, <2>5, <2>6, SiblingNames
<1> QED
  BY <1>2, <1>3

\* After its last turn all siblings are cloned.
LEMMA LastInOrder ==
    ASSUME NEW r \in Pinned, ~HasSiblingAfter(r)
    PROVE  ToSet(Siblings) = IF r = "recorder" THEN {} ELSE Before(r) \cup {r}
<1>1. CASE r = "recorder"
  <2>1. Siblings # <<>> => Last(Siblings) \in ToSet(Siblings)
    BY SiblingNames DEF Last
  <2> QED
    BY <1>1, <2>1, SiblingNames DEF HasSiblingAfter
<1>2. CASE r # "recorder"
  <2>1. r \in ToSet(Siblings)
    BY <1>2 DEF Pinned, Repos
  <2>2. Siblings # <<>> /\ r = Siblings[Len(Siblings)] /\ Len(Siblings) \in 1..Len(Siblings)
    BY <2>1, SiblingNames DEF HasSiblingAfter, Last
  <2>3. Before(r) = {Siblings[j] : j \in 1..(Len(Siblings) - 1)}
    BY <2>2, BeforeIth
  <2> QED
    BY <1>2, <2>2, <2>3, SiblingNames
<1> QED
  BY <1>1, <1>2

(***************************************************************************)
(* Revisions.                                                              *)
(***************************************************************************)

LEMMA FirstOfTwo ==
    ASSUME NEW a, NEW b
    PROVE  FirstPin(<<a, b>>) = IF a # None THEN a ELSE b
<1> DEFINE pinning == {i \in DOMAIN <<a, b>> : <<a, b>>[i] # None}
<1>1. pinning = {i \in {1, 2} : <<a, b>>[i] # None}
  OBVIOUS
<1>2. CASE a # None
  <2>1. 1 \in pinning /\ \A j \in pinning : 1 <= j
    BY <1>1, <1>2
  <2>2. (CHOOSE i \in pinning : \A j \in pinning : i <= j) = 1
    BY <1>1, <2>1
  <2> QED
    BY <1>2, <2>1, <2>2 DEF FirstPin
<1>3. CASE a = None /\ b # None
  <2>1. pinning = {2}
    BY <1>1, <1>3
  <2>2. (CHOOSE i \in pinning : \A j \in pinning : i <= j) = 2
    BY <2>1
  <2> QED
    BY <1>3, <2>1, <2>2 DEF FirstPin
<1>4. CASE a = None /\ b = None
  <2>1. pinning = {}
    BY <1>1, <1>4
  <2> QED
    BY <1>4, <2>1 DEF FirstPin
<1> QED
  BY <1>2, <1>3, <1>4

\* The revisions of the header, in plain words.
LEMMA DocumentedPins ==
    /\ Documented("codetracer") = ctSha
    /\ Documented("recorder") =
            IF override # None THEN override ELSE CtLock[ctSha]["recorder"]
    /\ \A s \in ToSet(Siblings) : Documented(s) =
            LET ct == CtLock[ctSha][s]
                rec == RecLock[recSha][s]
            IN  IF override = None THEN IF ct # None THEN ct ELSE rec
                ELSE IF rec # None THEN rec ELSE ct
BY FirstOfTwo, SiblingNames DEF Documented

\* A pin is a commit.
LEMMA PinsAreCommits ==
    ASSUME TypeOK, ctSha # None, recSha # None, NEW r \in Repos, Documented(r) # None,
           r = "recorder" => override = None
    PROVE  Documented(r) \in Objects /\ Peel[Documented(r)] = Documented(r)
BY ProvisionAssumption, DocumentedPins DEF TypeOK, Repos, Pinned

(***************************************************************************)
(* The invariant.                                                          *)
(***************************************************************************)

LEMMA ProvisionInitial == Init => ProvisionInv
<1> SUFFICES ASSUME Init PROVE ProvisionInv
  OBVIOUS
<1>1. TypeOK
  BY DEF Init, TypeOK, Repos, NoClone, NoPins, Clones, Ended
<1>2. Cloned("codetracer") = {} /\ "codetracer" \notin ToSet(Siblings)
  BY SiblingNames DEF Cloned
<1> QED
  BY <1>1, <1>2 DEF Init, ProvisionInv, ReadingInv, CloneInv, ClonedInv, PinsInv,
     SuccessIsAsPinned, FailuresAreExplained, CloneSteps

\* Documented and Cloned depend on nothing but what the run has read.
LEMMA SameRun ==
    ASSUME UNCHANGED <<override, withCt, ctSha, recSha>>
    PROVE  /\ \A r \in Repos : Documented(r)' = Documented(r)
           /\ \A r \in Repos : Cloned(r)' = Cloned(r)
           /\ NotPinned' = NotPinned
<1>1. ASSUME NEW r \in Repos PROVE Documented(r)' = Documented(r)
  BY DEF Documented
<1>2. ASSUME NEW r \in Repos PROVE Cloned(r)' = Cloned(r)
  BY DEF Cloned
<1>3. NotPinned' = NotPinned
  BY <1>1 DEF NotPinned, Pinned
<1> QED
  BY <1>1, <1>2, <1>3

LEMMA ClonedBefore ==
    ASSUME NEW r \in Repos
    PROVE  Cloned(r) \subseteq Repos /\ r \notin Cloned(r)
<1>1. CASE r = "codetracer"
  BY <1>1 DEF Cloned
<1>2. CASE r = "recorder"
  BY <1>2 DEF Cloned, Repos
<1>3. CASE r \in ToSet(Siblings)
  BY <1>3, BeforeIsSiblings, SiblingNames DEF Cloned, Repos
<1> QED
  BY <1>1, <1>2, <1>3 DEF Repos

\* A pin is a commit or missing.
LEMMA DocumentedType ==
    ASSUME TypeOK, ctSha # None, recSha # None, NEW r \in Repos
    PROVE  Documented(r) \in Objects \cup {None}
<1>1. ctSha \in CtCommits /\ ctSha \in Objects /\ recSha \in Objects
  BY ProvisionAssumption DEF TypeOK
<1>2. CASE r = "codetracer"
  BY <1>1, <1>2, DocumentedPins
<1>3. CASE r = "recorder"
  <2>1. CtLock[ctSha]["recorder"] \in Objects \cup {None}
    BY <1>1, "recorder" \in Pinned, ProvisionAssumption DEF Pinned, Repos
  <2> QED
    BY <1>3, <2>1, DocumentedPins, ProvisionAssumption DEF TypeOK
<1>4. CASE r \in ToSet(Siblings)
  <2>0. r \in Pinned
    BY <1>4, SiblingNames DEF Pinned, Repos
  <2>1. CtLock[ctSha][r] \in Objects \cup {None}
    BY <1>1, <2>0, ProvisionAssumption
  <2>2. RecLock[recSha][r] \in Objects \cup {None}
    BY <1>1, <1>4, ProvisionAssumption
  <2> QED
    BY <1>4, <2>1, <2>2, DocumentedPins
<1> QED
  BY <1>2, <1>3, <1>4 DEF Repos

\* When a clone is made, the revision the loop looks up for a sibling is the one
\* the header gives: the lock it reads is that of the recorder just cloned.
LEMMA LoopReadsTheLocks ==
    ASSUME ProvisionInv, step = "compare", target \in Pinned, dirs[target].head = sha
    PROVE  /\ dirs["recorder"].head = recSha
           /\ \A s \in ToSet(Siblings) : SiblingRev(s) = Documented(s)
<1>1. ReadingInv /\ ClonedInv /\ step \in CloneSteps
  BY DEF ProvisionInv, CloneSteps
<1>2. dirs["recorder"].head = recSha
  <2>1. CASE target = "recorder"
    BY <1>1, <2>1 DEF ReadingInv
  <2>2. CASE target # "recorder"
    BY <1>1, <2>2 DEF ReadingInv, ClonedInv, Cloned, Pinned
  <2> QED
    BY <2>1, <2>2
<1> QED
  BY <1>2, DocumentedPins DEF SiblingRev

\* A step within the clone being made.
LEMMA WithinClone ==
    ASSUME ProvisionInv, UNCHANGED <<pins, run>>, step \notin Ended,
           step' \in CloneSteps \cup {"failed", "killed"},
           step' \in CloneSteps => step \in CloneSteps,
           \A r \in Repos \ {target} : dirs'[r] = dirs[r]
    PROVE  ReadingInv' /\ ClonedInv' /\ PinsInv' /\ SuccessIsAsPinned'
<1>0. TypeOK /\ ReadingInv /\ ClonedInv /\ PinsInv /\ target \in Repos
  BY DEF ProvisionInv, TypeOK
<1>1. /\ \A r \in Repos : Documented(r)' = Documented(r)
      /\ \A r \in Repos : Cloned(r)' = Cloned(r)
  BY SameRun DEF run
<1>2. ReadingInv'
  BY <1>0, <1>1, "recorder" \in Repos DEF ReadingInv, run, CloneSteps, Repos
<1>3. \A r \in Cloned(target) : r \in Repos /\ dirs'[r] = dirs[r]
  BY <1>0, ClonedBefore
<1>4. ClonedInv'
  <2>1. Cloned(target)' = Cloned(target)
    BY <1>0, <1>1 DEF run, Cloned
  <2> QED
    BY <1>0, <1>1, <1>3, <2>1 DEF ClonedInv
<1>5. PinsInv'
  <2>1. step \notin {"idle", "done"} /\ target' = target /\ pins' = pins
    BY DEF Ended, run
  <2> QED
    BY <1>0, <1>1, <2>1 DEF PinsInv
<1>6. SuccessIsAsPinned'
  BY DEF SuccessIsAsPinned, CloneSteps
<1> QED
  BY <1>2, <1>4, <1>5, <1>6

\* The end of a turn of the loop.
TurnEnds ==
    /\ step = "compare" /\ target \in Pinned /\ dirs[target].head = sha
    /\ pins' = [IF target = "recorder"
                THEN [NoPins EXCEPT !["codetracer"] = ctSha] ELSE pins EXCEPT ![target] = sha]
    /\ NextSibling(target)
    /\ UNCHANGED <<dirs, override, withCt, ctSha, recSha, fault>>

LEMMA TurnsEnd == ProvisionInv /\ (RecorderCloned \/ SiblingCloned) => TurnEnds
<1> SUFFICES ASSUME ProvisionInv, RecorderCloned \/ SiblingCloned PROVE TurnEnds
  OBVIOUS
<1>1. CASE RecorderCloned
  <2>1. recSha = sha
    BY <1>1 DEF ProvisionInv, ReadingInv, CloneSteps, RecorderCloned
  <2>2. target = "recorder" /\ target \in Pinned
    BY <1>1 DEF RecorderCloned, Pinned, Repos
  <2> QED
    BY <1>1, <2>1, <2>2 DEF RecorderCloned, TurnEnds
<1>2. CASE SiblingCloned
  BY <1>2, SiblingNames DEF SiblingCloned, TurnEnds, Pinned, Repos
<1> QED
  BY <1>1, <1>2

\* After a turn the run comes to the next sibling with everything before it
\* cloned and noted, fails because no lock pins it, or is done.
LEMMA TurnKeeps == ProvisionInv /\ TurnEnds => ProvisionInv'
<1> SUFFICES ASSUME ProvisionInv, TurnEnds PROVE ProvisionInv'
  OBVIOUS
<1>0. /\ TypeOK /\ ReadingInv /\ CloneInv /\ ClonedInv /\ PinsInv
      /\ step = "compare" /\ step \in CloneSteps
      /\ target \in Pinned /\ target \in Repos
      /\ dirs' = dirs /\ UNCHANGED <<override, withCt, ctSha, recSha, fault>>
  BY DEF ProvisionInv, TurnEnds, CloneSteps, Pinned
<1>1. /\ \A r \in Repos : Documented(r)' = Documented(r)
      /\ \A r \in Repos : Cloned(r)' = Cloned(r)
      /\ NotPinned' = NotPinned
  BY <1>0, SameRun
<1>2. /\ recSha # None /\ ctSha # None /\ sha # None /\ sha = Documented(target)
      /\ recSha = Documented("recorder")
  BY <1>0 DEF ReadingInv
<1>3. /\ dirs[target].git = "ready" /\ dirs[target].tidy
      /\ dirs[target].head = Documented(target)
  BY <1>0, <1>2 DEF CloneInv, TurnEnds
<1>4. \A r \in Cloned(target) \cup {target} :
        /\ dirs[r].git = "ready" /\ dirs[r].tidy
        /\ dirs[r].head = Documented(r) /\ Documented(r) # None
  BY <1>0, <1>2, <1>3 DEF ClonedInv
<1>5. \A r \in Repos :
        pins'[r] = IF r \in {"codetracer", "recorder", target}
                         \cup IF target = "recorder" THEN {} ELSE Before(target)
                   THEN Documented(r) ELSE None
  <2>1. CASE target = "recorder"
    BY <1>0, <1>2, <2>1, DocumentedPins DEF TurnEnds, NoPins, Repos
  <2>2. CASE target # "recorder"
    <3>1. target \in ToSet(Siblings)
      BY <1>0, <2>2 DEF Pinned, Repos
    <3>2. \A r \in Repos :
            pins[r] = IF r \in {"codetracer", "recorder"} \cup Before(target)
                      THEN Documented(r) ELSE None
      BY <1>0, <3>1 DEF PinsInv
    <3> QED
      BY <1>0, <1>2, <2>2, <3>2 DEF TurnEnds, TypeOK
  <2> QED
    BY <2>1, <2>2
<1>6. pins' \in [Repos -> Objects \cup {None}]
  BY <1>0, ProvisionAssumption DEF TurnEnds, TypeOK, NoPins
<1>7. CASE ~HasSiblingAfter(target)
  <2>1. step' = "done" /\ target' = target /\ sha' = sha
    BY <1>7 DEF TurnEnds, NextSibling
  <2>2. TypeOK'
    BY <1>0, <1>6, <2>1 DEF TypeOK, Ended
  <2>3. ReadingInv' /\ CloneInv' /\ ClonedInv' /\ PinsInv' /\ FailuresAreExplained'
    <3>1. Cloned(target)' = Cloned(target)
      BY <1>0, <1>1, <2>1 DEF Cloned
    <3> QED
      BY <1>0, <1>1, <1>2, <1>4, <2>1, <3>1, "recorder" \in Repos, ClonedBefore
         DEF ReadingInv, CloneInv, ClonedInv, PinsInv, FailuresAreExplained, CloneSteps, Repos
  <2>4. SuccessIsAsPinned'
    <3>1. ToSet(Siblings) = IF target = "recorder" THEN {} ELSE Before(target) \cup {target}
      BY <1>0, <1>7, LastInOrder
    <3>2. Pinned \subseteq Cloned(target) \cup {target}
      BY <1>0, <3>1, SiblingNames DEF Cloned, Pinned, Repos
    <3>3. withCt => Repos \subseteq Cloned(target) \cup {target}
      BY <1>0, <3>2 DEF Cloned, Pinned
    <3>4. \A r \in Repos : pins'[r] = Documented(r) /\ Documented(r) # None
      <4>1. \A r \in Repos : pins'[r] = Documented(r)
        BY <1>5, <3>1 DEF Repos
      <4>2. Documented("codetracer") # None
        BY <1>2, DocumentedPins
      <4> QED
        BY <1>4, <3>2, <4>1, <4>2 DEF Pinned
    <3>5. \A r \in Repos : dirs[r] = [git |-> dirs[r].git, head |-> dirs[r].head, tidy |-> dirs[r].tidy]
      BY <1>0 DEF TypeOK, Clones
    <3>6. \A r \in IF withCt THEN Repos ELSE Pinned :
            dirs[r] = [git |-> "ready", head |-> Documented(r), tidy |-> TRUE]
      <4>1. \A r \in IF withCt THEN Repos ELSE Pinned :
              r \in Repos /\ r \in Cloned(target) \cup {target} /\ dirs[r].tidy \in BOOLEAN
        BY <1>0, <3>2, <3>3 DEF Pinned, TypeOK, Clones
      <4> QED
        BY <1>4, <3>5, <4>1
    <3> QED
      BY <1>0, <1>1, <3>4, <3>6 DEF SuccessIsAsPinned, Pinned
  <2> QED
    BY <2>2, <2>3, <2>4 DEF ProvisionInv
<1>8. CASE HasSiblingAfter(target)
  <2> DEFINE s == SiblingAfter(target)
  <2>1. /\ s \in ToSet(Siblings) /\ s \in Repos /\ s \in Pinned /\ s # "codetracer"
        /\ Before(s) = IF target = "recorder" THEN {} ELSE Before(target) \cup {target}
    BY <1>0, <1>8, NextInOrder, SiblingNames DEF Repos, Pinned
  <2>2. SiblingRev(s) = Documented(s)
    BY <1>0, <2>1, LoopReadsTheLocks DEF TurnEnds
  <2>3. /\ target' = s /\ sha' = Documented(s)
        /\ step' = IF Documented(s) = None THEN "failed" ELSE "prepare"
    BY <1>8, <2>2 DEF TurnEnds, NextSibling, CloneNext
  <2>4. TypeOK'
    <3>1. Documented(s) \in Objects \cup {None}
      BY <1>0, <1>2, <2>1, DocumentedType
    <3> QED
      BY <1>0, <1>2, <1>6, <2>1, <2>3, <3>1 DEF TypeOK, Ended
  <2>5. Cloned(s) \subseteq Cloned(target) \cup {target}
    <3>1. Cloned(s) = {q \in {"codetracer"} : withCt} \cup {"recorder"} \cup Before(s)
      BY <2>1, SiblingNames DEF Cloned
    <3>2. Cloned(target) = {q \in {"codetracer"} : withCt}
                \cup IF target = "recorder" THEN {} ELSE {"recorder"} \cup Before(target)
      BY <1>0, SiblingNames DEF Cloned, Pinned
    <3>3. Cloned(s) \subseteq Cloned(target) \cup {target}
      <4>1. CASE target = "recorder"
        <5>1. Before(s) = {}
          BY <2>1, <4>1
        <5> QED
          BY <3>1, <3>2, <4>1, <5>1, Zenon
      <4>2. CASE target # "recorder"
        <5>1. Before(s) = Before(target) \cup {target}
          BY <2>1, <4>2
        <5> QED
          BY <3>1, <3>2, <4>2, <5>1, Zenon
      <4> QED
        BY <4>1, <4>2
    <3> QED
      BY <3>3
  <2>6. Cloned(target)' = Cloned(s)
    BY <1>0, <2>1, <2>3, SiblingNames DEF Cloned
  <2>7. ReadingInv' /\ CloneInv' /\ ClonedInv'
    <3>1. Documented(target)' = Documented(s)
      BY <1>0, <1>1, <2>1, <2>3, SiblingNames DEF Documented
    <3> QED
      BY <1>0, <1>1, <1>2, <1>4, <2>1, <2>3, <2>5, <2>6, <3>1, "recorder" \in Repos, ClonedBefore
         DEF ReadingInv, CloneInv, ClonedInv, CloneSteps, Repos
  <2>8. PinsInv' /\ SuccessIsAsPinned'
    <3>1. \A r \in Repos : pins'[r] = IF r \in {"codetracer", "recorder"} \cup Before(s)
                                      THEN Documented(r) ELSE None
      BY <1>5, <2>1
    <3> QED
      BY <1>1, <2>3, <3>1 DEF PinsInv, SuccessIsAsPinned
  <2>9. FailuresAreExplained'
    BY <1>1, <2>1, <2>3 DEF FailuresAreExplained, NotPinned
  <2> QED
    BY <2>4, <2>7, <2>8, <2>9 DEF ProvisionInv
<1> QED
  BY <1>7, <1>8

LEMMA CodetracerKeeps == ProvisionInv /\ CodetracerCloned => ProvisionInv'
<1> SUFFICES ASSUME ProvisionInv, CodetracerCloned PROVE ProvisionInv'
  OBVIOUS
<1>0. /\ TypeOK /\ ReadingInv /\ CloneInv /\ step = "compare" /\ step \in CloneSteps
      /\ target = "codetracer" /\ dirs[target].head = sha
      /\ step' = "prepare" /\ target' = "recorder" /\ sha' = recSha
      /\ UNCHANGED <<dirs, pins, override, withCt, ctSha, recSha, fault>>
  BY DEF ProvisionInv, CodetracerCloned, CloneNext, CloneSteps
<1>1. /\ \A r \in Repos : Documented(r)' = Documented(r)
      /\ \A r \in Repos : Cloned(r)' = Cloned(r)
  BY <1>0, SameRun
<1>2. recSha # None /\ ctSha # None /\ recSha = Documented("recorder") /\ withCt
      /\ sha = Documented("codetracer") /\ sha # None
  BY <1>0 DEF ReadingInv
<1>3. TypeOK'
  BY <1>0, <1>2 DEF TypeOK, Ended, Repos
<1>4. ReadingInv' /\ CloneInv'
  <2>1. Documented(target)' = recSha
    BY <1>0, <1>2 DEF Documented
  <2> QED
    BY <1>0, <1>1, <1>2, <2>1, "recorder" \in Repos DEF ReadingInv, CloneInv, CloneSteps, Repos
<1>5. ClonedInv'
  <2>1. Cloned(target)' = {"codetracer"}
    BY <1>0, <1>2 DEF Cloned
  <2>2. dirs["codetracer"].git = "ready" /\ dirs["codetracer"].tidy
    BY <1>0 DEF CloneInv
  <2> QED
    BY <1>0, <1>1, <1>2, <2>1, <2>2 DEF ClonedInv, Repos
<1>6. PinsInv' /\ SuccessIsAsPinned' /\ FailuresAreExplained'
  BY <1>0, SiblingNames DEF PinsInv, SuccessIsAsPinned, FailuresAreExplained
<1> QED
  BY <1>3, <1>4, <1>5, <1>6 DEF ProvisionInv

\* The steps before the clones, and the ends of a run.
LEMMA ReadingKeeps ==
    ProvisionInv /\ (UseClones \/ Start \/ Resolve \/ ReadLock \/ NetworkFails) => ProvisionInv'
<1> SUFFICES ASSUME ProvisionInv, UseClones \/ Start \/ Resolve \/ ReadLock \/ NetworkFails
             PROVE ProvisionInv'
  OBVIOUS
<1>0. TypeOK /\ ReadingInv /\ CloneInv /\ ClonedInv /\ PinsInv /\ FailuresAreExplained
  BY DEF ProvisionInv
<1>a. Cloned("codetracer") = {} /\ Cloned("codetracer")' = {} /\ "codetracer" \notin ToSet(Siblings)
  BY SiblingNames DEF Cloned
<1>b. step \in {"resolve", "lock"} => recSha = None /\ target = "codetracer"
  BY <1>0 DEF ReadingInv
<1>1. CASE UseClones
  <2>1. /\ step' = "idle" /\ UNCHANGED <<pins, run, fault>>
        /\ dirs' \in [Repos -> Clones]
        /\ \A r \in Repos : dirs'[r].git = dirs[r].git /\ dirs'[r].head = dirs[r].head
    BY <1>0, <1>1 DEF UseClones, TypeOK, Clones
  <2>2. /\ \A r \in Repos : Documented(r)' = Documented(r)
        /\ Cloned(target)' = Cloned(target) /\ Cloned(target) \subseteq Repos
    BY <1>0, <2>1, SameRun, ClonedBefore DEF run, TypeOK, Cloned
  <2>3. TypeOK'
    BY <1>0, <2>1 DEF TypeOK, run, Ended
  <2>4. ReadingInv' /\ ClonedInv'
    BY <1>0, <2>1, <2>2, "recorder" \in Repos DEF ReadingInv, ClonedInv, run, CloneSteps, Repos
  <2>5. CloneInv' /\ PinsInv' /\ SuccessIsAsPinned' /\ FailuresAreExplained'
    BY <2>1 DEF CloneInv, PinsInv, SuccessIsAsPinned, FailuresAreExplained
  <2> QED
    BY <2>3, <2>4, <2>5 DEF ProvisionInv
<1>2. CASE Start
  <2>1. TypeOK'
    BY <1>0, <1>2 DEF Start, TypeOK, Repos, Ended
  <2>2. Cloned(target)' = {}
    BY <1>2 DEF Start, Cloned
  <2> QED
    BY <1>2, <1>a, <2>1, <2>2 DEF Start, ProvisionInv, ReadingInv, CloneInv, ClonedInv, PinsInv,
       SuccessIsAsPinned, FailuresAreExplained, CloneSteps
<1>3. CASE Resolve
  <2>1. target' = "codetracer" /\ target = "codetracer" /\ recSha' = None /\ UNCHANGED <<dirs, pins, fault>>
    BY <1>3, <1>b DEF Resolve, Fail, run
  <2>2. TypeOK' /\ step' \in {"failed", "lock"}
    BY <1>0, <1>3, ProvisionAssumption DEF Resolve, Fail, run, TypeOK, Ended
  <2>3. Cloned(target)' = {}
    BY <2>1 DEF Cloned
  <2>4. FailuresAreExplained'
    <3>1. step' = "failed" => ctSha' = None
      BY <1>0, <1>3 DEF Resolve, Fail, run, ReadingInv
    <3> QED
      BY <3>1 DEF FailuresAreExplained, NotPinned
  <2> QED
    BY <1>a, <2>1, <2>2, <2>3, <2>4 DEF ProvisionInv, ReadingInv, CloneInv, ClonedInv, PinsInv,
       SuccessIsAsPinned, CloneSteps
<1>4. CASE ReadLock
  <2> DEFINE rec == IF override = None THEN CtLock[ctSha]["recorder"] ELSE override
  <2>1. ctSha \in CtCommits /\ ctSha \in Objects /\ ctSha # None
    BY <1>0, <1>4, ProvisionAssumption DEF ReadLock, TypeOK, Ended
  <2>2. rec = Documented("recorder") /\ Documented("codetracer") = ctSha
    BY DocumentedPins
  <2>3. rec \in Objects \cup {None}
    <3>1. CtLock[ctSha]["recorder"] \in Objects \cup {None}
      BY <2>1, "recorder" \in Pinned, ProvisionAssumption DEF Pinned, Repos
    <3> QED
      BY <1>0, <3>1, ProvisionAssumption DEF TypeOK
  <2>4. UNCHANGED <<dirs, pins, override, withCt, ctSha, fault>> /\ step = "lock"
    BY <1>4 DEF ReadLock, Fail, run
  <2>5. CASE rec = None
    <3>1. step' = "failed" /\ UNCHANGED <<dirs, pins, run, fault>>
      BY <1>4, <2>5 DEF ReadLock, Fail
    <3>2. TypeOK'
      BY <1>0, <3>1 DEF TypeOK, run, Ended
    <3>3. FailuresAreExplained'
      BY <1>b, <2>4, <3>1, "recorder" \in Pinned DEF FailuresAreExplained, NotPinned, run, Pinned, Repos
    <3>4. Cloned(target)' = {} /\ target' = "codetracer" /\ recSha' = None
      BY <1>b, <2>4, <3>1 DEF run, Cloned
    <3> QED
      BY <1>a, <3>1, <3>2, <3>3, <3>4 DEF ProvisionInv, ReadingInv, CloneInv, ClonedInv, PinsInv,
         SuccessIsAsPinned, CloneSteps
  <2>6. CASE rec # None
    <3>1. /\ recSha' = rec /\ step' = "prepare"
          /\ target' = IF withCt THEN "codetracer" ELSE "recorder"
          /\ sha' = IF withCt THEN ctSha ELSE rec
      BY <1>4, <2>6 DEF ReadLock, CloneNext
    <3>2. TypeOK'
      BY <1>0, <2>1, <2>3, <2>4, <2>6, <3>1 DEF TypeOK, Ended, Repos
    <3>3. Documented("recorder")' = rec /\ Documented("codetracer")' = ctSha
      BY <2>2, <2>4, DocumentedPins DEF Documented
    <3>4. ReadingInv' /\ CloneInv'
      <4>1. Documented(target)' = sha'
        BY <2>4, <3>1, <3>3 DEF Documented
      <4> QED
        BY <2>1, <2>4, <2>6, <3>1, <3>3, <4>1 DEF ReadingInv, CloneInv, CloneSteps
    <3>5. Cloned(target)' = {}
      BY <2>4, <3>1 DEF Cloned
    <3>6. ClonedInv' /\ PinsInv' /\ SuccessIsAsPinned' /\ FailuresAreExplained'
      BY <3>1, <3>5, SiblingNames DEF ClonedInv, PinsInv, SuccessIsAsPinned, FailuresAreExplained
    <3> QED
      BY <3>2, <3>4, <3>6 DEF ProvisionInv
  <2> QED
    BY <2>5, <2>6
<1>5. CASE NetworkFails
  <2>1. step' = "failed" /\ fault' = TRUE /\ UNCHANGED <<dirs, pins, run>> /\ step \notin Ended
    BY <1>5 DEF NetworkFails, Ended
  <2>2. TypeOK'
    BY <1>0, <2>1 DEF TypeOK, run, Ended
  <2>3. ReadingInv' /\ ClonedInv' /\ PinsInv' /\ SuccessIsAsPinned'
    BY <2>1, WithinClone DEF CloneSteps
  <2> QED
    BY <2>1, <2>2, <2>3 DEF ProvisionInv, CloneInv, FailuresAreExplained
<1> QED
  BY <1>1, <1>2, <1>3, <1>4, <1>5

\* The steps of one clone, and a kill.
LEMMA CloneKeeps ==
    ProvisionInv /\ (\/ InitClone \/ AddRemote \/ ReuseClone \/ Fetch \/ Checkout \/ Clean
                     \/ Differs \/ Killed)
        => ProvisionInv'
<1> SUFFICES ASSUME ProvisionInv, \/ InitClone \/ AddRemote \/ ReuseClone \/ Fetch \/ Checkout \/ Clean
                                  \/ Differs \/ Killed
             PROVE ProvisionInv'
  OBVIOUS
<1>0. TypeOK /\ ReadingInv /\ CloneInv
  BY DEF ProvisionInv
<1>1. /\ UNCHANGED <<pins, run, fault>> /\ step \notin Ended
      /\ step' \in CloneSteps \cup {"failed", "killed"}
      /\ step' \in CloneSteps => step \in CloneSteps
  BY DEF InitClone, AddRemote, ReuseClone, Fetch, Checkout, Clean, Differs, Killed, Fail, Ended,
     CloneSteps
<1>2. \A r \in Repos \ {target} : dirs'[r] = dirs[r]
  BY <1>0 DEF InitClone, AddRemote, ReuseClone, Fetch, Checkout, Clean, Differs, Killed, Fail, TypeOK
<1>3. ReadingInv' /\ ClonedInv' /\ PinsInv' /\ SuccessIsAsPinned'
  BY <1>1, <1>2, WithinClone
<1>4. dirs' \in [Repos -> Clones]
  <2>1. CASE Checkout
    <3>1. Peel[sha] \in Objects
      BY <1>0, <2>1, ProvisionAssumption DEF Checkout, TypeOK, Ended
    <3> QED
      BY <1>0, <2>1, <3>1 DEF Checkout, TypeOK, Clones
  <2>2. CASE InitClone
    BY <1>0, <2>2 DEF InitClone, NoClone, TypeOK, Clones
  <2>3. CASE AddRemote
    BY <1>0, <2>3 DEF AddRemote, TypeOK, Clones
  <2>5. CASE Clean
    BY <1>0, <2>5 DEF Clean, TypeOK, Clones
  <2>6. CASE Killed
    BY <1>0, <2>6 DEF Killed, TypeOK, Clones
  <2>4. CASE ReuseClone \/ Fetch \/ Differs
    BY <1>0, <2>4 DEF ReuseClone, Fetch, Differs, Fail, TypeOK
  <2> QED
    BY <2>1, <2>2, <2>3, <2>4, <2>5, <2>6
<1>5. TypeOK'
  <2>1. step' \notin Ended \cup {"resolve", "lock"} => step \notin Ended \cup {"resolve", "lock"}
    BY <1>1 DEF CloneSteps, Ended
  <2> QED
    BY <1>0, <1>1, <1>4, <2>1 DEF TypeOK, run, Ended, CloneSteps
<1>6. CloneInv'
  BY <1>0 DEF InitClone, AddRemote, ReuseClone, Fetch, Checkout, Clean, Differs, Killed, Fail,
     CloneInv, TypeOK, Clones, run
<1>7. FailuresAreExplained'
  <2>1. NotPinned' = NotPinned
    BY <1>1, SameRun DEF run
  <2>2. CASE Fetch
    BY <1>1, <2>2 DEF Fetch, Fail, FailuresAreExplained, run
  <2>3. CASE Differs
    <3>1. /\ dirs[target].head = Peel[sha] /\ dirs[target].head # sha
          /\ recSha # None /\ ctSha # None /\ sha = Documented(target) /\ sha # None
      BY <1>0, <2>3 DEF Differs, CloneInv, ReadingInv, CloneSteps
    <3>2. target = "recorder"
      BY <1>0, <3>1, PinsAreCommits DEF TypeOK
    <3> QED
      BY <1>1, <2>3, <3>1, <3>2 DEF FailuresAreExplained, run
  <2>4. CASE ~Fetch /\ ~Differs
    BY <2>4 DEF InitClone, AddRemote, ReuseClone, Checkout, Clean, Killed, FailuresAreExplained
  <2> QED
    BY <2>2, <2>3, <2>4
<1> QED
  BY <1>3, <1>5, <1>6, <1>7 DEF ProvisionInv

LEMMA ProvisionStep == ProvisionInv /\ [Next]_vars => ProvisionInv'
<1> SUFFICES ASSUME ProvisionInv, [Next]_vars PROVE ProvisionInv'
  OBVIOUS
<1>1. CASE Next
  BY <1>1, ReadingKeeps, CloneKeeps, CodetracerKeeps, TurnsEnd, TurnKeeps DEF Next, RunStep
<1>2. CASE UNCHANGED vars
  <2>1. Before(target)' = Before(target) /\ Cloned(target)' = Cloned(target)
    BY <1>2 DEF vars, run, Before, Cloned
  <2>2. /\ \A r \in Repos : Documented(r)' = Documented(r)
        /\ NotPinned' = NotPinned /\ Cloned(target) \subseteq Repos
    BY <1>2, SameRun, ClonedBefore DEF vars, run, ProvisionInv, TypeOK
  <2>3. TypeOK' /\ CloneInv' /\ FailuresAreExplained'
    BY <1>2, <2>2 DEF ProvisionInv, TypeOK, CloneInv, FailuresAreExplained, vars, run
  <2>0. TypeOK /\ ReadingInv /\ ClonedInv /\ PinsInv /\ SuccessIsAsPinned
        /\ target \in Repos /\ "recorder" \in Repos /\ Pinned \subseteq Repos
    BY DEF ProvisionInv, TypeOK, Repos, Pinned
  <2>4. ReadingInv' /\ ClonedInv'
    BY <1>2, <2>0, <2>1, <2>2 DEF ReadingInv, ClonedInv, vars, run
  <2>5. PinsInv'
    BY <1>2, <2>0, <2>1, <2>2 DEF PinsInv, vars, run
  <2>6. SuccessIsAsPinned'
    BY <1>2, <2>0, <2>2 DEF SuccessIsAsPinned, vars, run
  <2> QED
    BY <2>3, <2>4, <2>5, <2>6 DEF ProvisionInv
<1> QED
  BY <1>1, <1>2

THEOREM ProvisionInvariant == Spec => []ProvisionInv
BY ProvisionInitial, ProvisionStep, PTL DEF Spec

\* The pins follow the clones: see PinsFollowClones.
LEMMA InvPins == ProvisionInv => PinsFollowClones
<1> SUFFICES ASSUME ProvisionInv, target \in ToSet(Siblings), step \notin {"idle", "done"},
                    NEW r \in Pinned
             PROVE  pins[r] = IF r = "recorder" \/ r \in Before(target) THEN dirs[r].head ELSE None
  BY DEF PinsFollowClones
<1>1. pins[r] = IF r \in {"codetracer", "recorder"} \cup Before(target) THEN Documented(r) ELSE None
  BY DEF ProvisionInv, PinsInv, Pinned
<1>2. r = "recorder" \/ r \in Before(target) => dirs[r].head = Documented(r)
  BY SiblingNames DEF ProvisionInv, ClonedInv, Cloned
<1> QED
  BY <1>1, <1>2 DEF Pinned

\* A successful run has cloned what one codetracer commit pins, and says so: for
\* every list of siblings and all locks (provision-recorder.sh:1-33).
THEOREM ProvisionedAsPinned == Spec => []SuccessIsAsPinned
BY ProvisionInvariant, PTL DEF ProvisionInv

\* The pins file of a run cut short in its loop names what that run has cloned
\* (provision-recorder.sh:151-180).
THEOREM PinsNameTheClones == Spec => []PinsFollowClones
BY ProvisionInvariant, InvPins, PTL

\* A run that fails without the network failing has a missing pin, a clone left
\* without its remote, or an annotated tag for an override
\* (provision-recorder.sh:77-121, 160-177).
THEOREM ProvisioningFailuresExplained == Spec => []FailuresAreExplained
BY ProvisionInvariant, PTL DEF ProvisionInv
=============================================================================
