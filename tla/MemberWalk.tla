------------------------------ MODULE MemberWalk ------------------------------
(***************************************************************************)
(* readV4MemberBytes of ctfs_v4_to_v5: how a member of a version-4         *)
(* container is read.  Its mapping is a chain of blocks, one per level:    *)
(* each has Usable pointers and, in its last slot, a pointer to the block  *)
(* of the next level.  At level 1 the pointers name data blocks; at level n*)
(* each heads a tree of level n - 1.  Block 0 holds the header and the root*)
(* directory, so no pointer may name it.  The container may hold anything: *)
(* pointers past its end, cycles, blocks shared by two pointers.           *)
(***************************************************************************)
EXTENDS Naturals, Sequences, SequencesExt

CONSTANTS
    Containers,     \* the containers: blocks, the slots of each, a member's root and size
    Usable,         \* pointers per mapping block
    MaxChainLevels, \* levels of a mapping
    Cap             \* Cap[n]: data blocks of level n, Usable to the n

BlockSize == 8 * (Usable + 1)

ASSUME WalkAssumption ==
    /\ Usable \in Nat /\ MaxChainLevels \in Nat \ {0}
    /\ Cap \in [0..MaxChainLevels -> Nat]
    /\ Cap[0] = 1
    /\ \A n \in 1..MaxChainLevels : Cap[n] = Usable * Cap[n - 1]
    /\ \A c \in Containers :
        /\ c.blocks \in Nat /\ c.root \in Nat /\ c.size \in Nat
        /\ c.slots \in [1..(c.blocks - 1) -> [0..Usable -> Nat]]

VARIABLES
    container,  \* what is read
    step,       \* "start", "locate", "descend", "done" or "refused"
    blockIdx,   \* the member's block being looked for
    current,    \* the mapping block reached
    level,      \* its level
    idx,        \* the index of the block below it
    out         \* what was copied: from which block, how many bytes

walk == <<current, level, idx>>
vars == <<container, step, blockIdx, walk, out>>

\* A block whose bytes all lie in the container, floored to whole blocks.
InContainer(b) == b \in 1..(container.blocks - 1)

\* Bug for Bad: a pointer to the block just past the end passes.
BadPastEnd(pointer) == pointer = 0 \/ pointer > container.blocks

Bad(pointer) == pointer = 0 \/ pointer >= container.blocks

LastLevel == level = MaxChainLevels

remaining == container.size - blockIdx * BlockSize

Init ==
    /\ container \in Containers
    /\ step = "start"
    /\ blockIdx = 0 /\ current = 0 /\ level = 1 /\ idx = 0
    /\ out = <<>>

Refuse ==
    /\ step' = "refused"
    /\ UNCHANGED <<container, blockIdx, walk, out>>

\* An empty member has no mapping.
Empty ==
    /\ step = "start"
    /\ container.size = 0
    /\ step' = "done"
    /\ UNCHANGED <<container, blockIdx, walk, out>>

Root ==
    /\ step = "start"
    /\ container.size # 0
    /\ \/ /\ ~Bad(container.root)
          /\ step' = "locate"
          /\ current' = container.root
          /\ UNCHANGED <<container, blockIdx, level, idx, out>>
       \/ Bad(container.root) /\ Refuse

\* Bug for NextLevel: the blocks of the level are not counted off.
NextLevelKeepingIndex ==
    /\ step = "locate"
    /\ idx >= Cap[level]
    /\ LET chain == container.slots[current][Usable] IN
       \/ /\ ~LastLevel /\ ~Bad(chain)
          /\ current' = chain
          /\ level' = level + 1
          /\ UNCHANGED <<container, step, blockIdx, idx, out>>
       \/ (LastLevel \/ Bad(chain)) /\ Refuse

\* The block is not of this level: its chain pointer leads to the next.
NextLevel ==
    /\ step = "locate"
    /\ idx >= Cap[level]
    /\ LET chain == container.slots[current][Usable] IN
       \/ /\ ~LastLevel /\ ~Bad(chain)
          /\ current' = chain
          /\ level' = level + 1
          /\ idx' = idx - Cap[level]
          /\ UNCHANGED <<container, step, blockIdx, out>>
       \/ (LastLevel \/ Bad(chain)) /\ Refuse

LevelFound ==
    /\ step = "locate"
    /\ idx < Cap[level]
    /\ step' = "descend"
    /\ UNCHANGED <<container, blockIdx, walk, out>>

\* Bug for Descend: the level is not counted down.
DescendForever ==
    /\ step = "descend" /\ level > 1
    /\ LET child == container.slots[current][idx \div Cap[level - 1]] IN
       \/ /\ ~Bad(child)
          /\ current' = child
          /\ idx' = idx % Cap[level - 1]
          /\ UNCHANGED <<container, step, blockIdx, level, out>>
       \/ Bad(child) /\ Refuse

Descend ==
    /\ step = "descend" /\ level > 1
    /\ LET child == container.slots[current][idx \div Cap[level - 1]] IN
       \/ /\ ~Bad(child)
          /\ current' = child
          /\ level' = level - 1
          /\ idx' = idx % Cap[level - 1]
          /\ UNCHANGED <<container, step, blockIdx, out>>
       \/ Bad(child) /\ Refuse

\* Bug for CopyBlock: the last block is copied whole.
CopyWholeBlock ==
    /\ step = "descend" /\ level = 1
    /\ LET data == container.slots[current][idx] IN
       \/ /\ ~Bad(data)
          /\ out' = Append(out, [block |-> data, bytes |-> BlockSize])
          /\ blockIdx' = blockIdx + 1
          /\ step' = IF remaining <= BlockSize THEN "done" ELSE "locate"
          /\ current' = container.root /\ level' = 1 /\ idx' = blockIdx'
          /\ UNCHANGED container
       \/ Bad(data) /\ Refuse

\* min(remaining, blockSize) bytes, and the next block from the root again.
CopyBlock ==
    /\ step = "descend" /\ level = 1
    /\ LET data == container.slots[current][idx]
           toCopy == IF remaining < BlockSize THEN remaining ELSE BlockSize
       IN
       \/ /\ ~Bad(data)
          /\ out' = Append(out, [block |-> data, bytes |-> toCopy])
          /\ blockIdx' = blockIdx + 1
          /\ step' = IF remaining <= BlockSize THEN "done" ELSE "locate"
          /\ current' = container.root /\ level' = 1 /\ idx' = blockIdx'
          /\ UNCHANGED container
       \/ Bad(data) /\ Refuse

Next ==
    \/ Empty \/ Root
    \/ NextLevel \/ LevelFound
    \/ Descend \/ CopyBlock
    \/ step \in {"done", "refused"} /\ UNCHANGED vars

Spec == Init /\ [][Next]_vars

FairSpec == Spec /\ WF_vars(Next)

-----------------------------------------------------------------------------
(* Properties. *)

Copied == [block : Nat, bytes : 1..BlockSize]

TypeOK ==
    /\ container \in Containers
    /\ step \in {"start", "locate", "descend", "done", "refused"}
    /\ blockIdx \in Nat /\ current \in Nat /\ idx \in Nat
    /\ level \in 1..MaxChainLevels
    /\ out \in Seq(Copied)

\* Whatever the pointers say, every slot the walk reads lies in a whole block of
\* the container other than the first, the slot is a pointer of the mapping and
\* not its chain, and nothing is divided by zero: the bounds checks on each of
\* the walk's reads can only fire where a pointer was followed before
\* (ctfs_v4_to_v5.nim:90-124).
ReadsInContainer ==
    /\ step \in {"locate", "descend"} => InContainer(current)
    /\ step = "descend" =>
        /\ Cap[level - 1] > 0
        /\ idx \div Cap[level - 1] \in 0..(Usable - 1)

\* Only so many bytes are copied as the member has, and never past the blocks
\* read (ctfs_v4_to_v5.nim:124-130).
CopiesInMember ==
    /\ step \in {"locate", "descend"} => blockIdx * BlockSize < container.size
    /\ Len(out) = blockIdx
    /\ \A k \in 1..Len(out) :
        /\ (k - 1) * BlockSize + out[k].bytes <= container.size
        /\ out[k].block \in 1..(container.blocks - 1)

(***************************************************************************)
(* The mapping as the format defines it, without index arithmetic: for each*)
(* level, its block is replaced as often as its number says by what its    *)
(* pointers name.  A pointer from or to nowhere names no block.            *)
(***************************************************************************)
IsBlock(c, b) == b \in 1..(c.blocks - 1)

Pointer(c, b, s) == IF IsBlock(c, b) THEN c.slots[b][s] ELSE 0

Children(c, bs) ==
    FlattenSeq([i \in DOMAIN bs |-> [s \in 1..Usable |-> Pointer(c, bs[i], s - 1)]])

DataBlocks(c, root, n) ==
    LET below[k \in 0..n] == IF k = 0 THEN <<root>> ELSE Children(c, below[k - 1])
    IN  below[n]

LevelRoot(c, n) ==
    LET root[k \in 1..n] == IF k = 1 THEN c.root ELSE Pointer(c, root[k - 1], Usable)
    IN  root[n]

MemberBlocks(c) == FlattenSeq([n \in 1..MaxChainLevels |-> DataBlocks(c, LevelRoot(c, n), n)])

BlockCount(c) == (c.size + BlockSize - 1) \div BlockSize

\* The mapping names every block the member needs.
Complete(c) ==
    /\ BlockCount(c) <= Len(MemberBlocks(c))
    /\ \A k \in 1..BlockCount(c) : IsBlock(c, MemberBlocks(c)[k])

\* The walk reads the blocks of the mapping in their order, each once and the
\* last in part, and refuses exactly the members that need a block that is not there.
WalkReadsTheMapping ==
    step \in {"done", "refused"} =>
        IF Complete(container)
        THEN /\ step = "done"
             /\ out = [k \in 1..BlockCount(container) |->
                    [block |-> MemberBlocks(container)[k],
                     bytes |-> IF k < BlockCount(container) THEN BlockSize
                               ELSE container.size - (k - 1) * BlockSize]]
        ELSE step = "refused"

\* The walk ends, cycles in the mapping included.
WalkEnds == <>(step \in {"done", "refused"})

\* The inductive invariant: below the level found, the index is within it.
WalkInv ==
    /\ TypeOK
    /\ step = "start" => blockIdx = 0
    /\ step \in {"locate", "descend"} => InContainer(container.root) /\ InContainer(current)
    /\ step = "descend" => idx < Cap[level]
    /\ CopiesInMember

\* The blocks of the mapping before each level.
LevelStart[n \in 1..(MaxChainLevels + 1)] ==
    IF n = 1 THEN 0 ELSE LevelStart[n - 1] + Cap[n - 1]

\* What was copied are the blocks of the mapping so far.
CopiedSoFar ==
    \A k \in 1..blockIdx :
        /\ k <= Len(MemberBlocks(container)) /\ InContainer(MemberBlocks(container)[k])
        /\ out[k] = [block |-> MemberBlocks(container)[k], bytes |-> BlockSize]

\* The walk has come down level n: current is the block of the tree, as deep as
\* it has come, that the next data block stands under.
DownLevel(n) ==
    LET i == blockIdx - LevelStart[n]
    IN  /\ i \in Nat /\ i < Cap[n]
        /\ current = DataBlocks(container, LevelRoot(container, n), n - level)[i \div Cap[level] + 1]
        /\ idx = i % Cap[level]

\* Inductive with WalkInv: where the walk is, in terms of the mapping.
MappingInv ==
    /\ step = "start" => level = 1 /\ idx = 0
    /\ step \in {"locate", "descend"} => CopiedSoFar
    /\ step = "locate" =>
        blockIdx = LevelStart[level] + idx /\ current = LevelRoot(container, level)
    /\ step = "descend" => \E n \in level..MaxChainLevels : DownLevel(n)
    /\ WalkReadsTheMapping
=============================================================================
