---------------------------- MODULE MCNameInputs ----------------------------
(* What MemberNames is run on, for names of up to three of three characters:   *)
(* every key up to some beyond the last name; good, free, bad and nameless     *)
(* slots in every order, the last one declared or not; two files on a command  *)
(* line.                                                                       *)
EXTENDS Naturals, Sequences

Slot(key, size) == [key |-> key, size |-> size]
Listed(slots, declared) == [container |-> TRUE, declared |-> declared, slots |-> slots]
Unlisted == [container |-> FALSE, declared |-> 0, slots |-> <<>>]

MCSlots == {Slot(5, 1), Slot(0, 0), Slot(4, 1), Slot(0, 1)}
Few == {Listed(<<>>, 0), Listed(<<Slot(1, 1)>>, 1), Listed(<<Slot(1, 1)>>, 3), Listed(<<Slot(64, 1)>>, 1), Unlisted}

MCListings ==
    {<<Listed(<<Slot(key, size)>>, 1)>> : key \in 0 .. 80, size \in {0, 1}}
    \cup {<<Listed(<<a, b, c>>, n)>> : a \in MCSlots, b \in MCSlots, c \in MCSlots, n \in 2 .. 4}
    \cup {<<f, g>> : f \in Few, g \in Few}
=============================================================================
