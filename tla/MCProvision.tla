----------------------------- MODULE MCProvision -----------------------------
(* Provision for TLC: a codetracer commit that leaves a sibling to the         *)
(* recorder's lock and one that pins no recorder; a recorder commit that pins  *)
(* everything, an annotated tag of it, and one that does not.                  *)
EXTENDS Provision

MCSiblings == <<"nim", "replay">>
MCObjects == {"c1", "c2", "a", "b", "tag", "x1", "x2", "y1"}
MCPeel == [o \in MCObjects |-> IF o = "tag" THEN "a" ELSE o]
MCCtLock == [c \in CtCommits |->
    IF c = "c1" THEN [recorder |-> "a", nim |-> "x1", replay |-> None]
    ELSE [recorder |-> None, nim |-> "x1", replay |-> "y1"]]
MCRecLock == [c \in MCObjects |->
    IF MCPeel[c] = "a" THEN [nim |-> "x2", replay |-> "y1"] ELSE [nim |-> "x2", replay |-> None]]
=============================================================================
