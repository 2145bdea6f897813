----------------------------- MODULE MCMemberWalk -----------------------------
(* MemberWalk for TLC: small containers with every content of their mapping  *)
(* blocks, and a whole mapping of three levels: right, with one pointer       *)
(* wrong, or with a fourth level below a member that needs it.                *)
EXTENDS MemberWalk

MCCap == [n \in 0..3 |-> 2 ^ n]

Slots == 0..2
AContainer(blocks, slots, root, size) ==
    [blocks |-> blocks, slots |-> slots, root |-> root, size |-> size]

\* Two mapping blocks: each slot names the root directory, either block or none.
Small ==
    {AContainer(3, slots, 1, 49) : slots \in [1..2 -> [Slots -> 0..3]]}
    \cup {AContainer(2, [b \in 1..1 |-> s], r, n) :
            s \in [Slots -> 0..2], r \in 0..2, n \in {0, 1, 24, 25}}

\* Mapping blocks 1 to 11 of a member of 14 blocks, 12 to 25.
Tree == <<
    [s \in Slots |-> <<12, 13, 2>>[s + 1]],
    [s \in Slots |-> <<3, 4, 5>>[s + 1]],
    [s \in Slots |-> <<14, 15, 0>>[s + 1]],
    [s \in Slots |-> <<16, 17, 0>>[s + 1]],
    [s \in Slots |-> <<6, 7, 0>>[s + 1]],
    [s \in Slots |-> <<8, 9, 0>>[s + 1]],
    [s \in Slots |-> <<10, 11, 0>>[s + 1]],
    [s \in Slots |-> <<18, 19, 0>>[s + 1]],
    [s \in Slots |-> <<20, 21, 0>>[s + 1]],
    [s \in Slots |-> <<22, 23, 0>>[s + 1]],
    [s \in Slots |-> <<24, 25, 0>>[s + 1]]>>

Filled(tree) == [b \in 1..25 |-> IF b <= 11 THEN tree[b] ELSE [s \in Slots |-> 0]]

Large ==
    {AContainer(26, Filled(Tree), 1, 24 * n - r) : n \in {1, 2, 3, 6, 7, 14, 15}, r \in {0, 7}}
    \cup {AContainer(26, Filled([Tree EXCEPT ![b][s] = p]), 1, 24 * 14) :
            b \in 1..11, s \in Slots, p \in {0, 1, 26}}
    \cup {AContainer(26, Filled([Tree EXCEPT ![5][2] = 1]), 1, 24 * 15)}

MCContainers == Small \cup Large
=============================================================================
