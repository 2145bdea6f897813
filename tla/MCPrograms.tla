------------------------------ MODULE MCPrograms ------------------------------
(* The two C programs of programs/ that have a module, for TLC, each run by     *)
(* itself: the CTSP client beside its receiver, and the fixture program with    *)
(* three workers.  What is not run stays as it was loaded.  The client's        *)
(* fairness therefore speaks of its own runs only.                              *)
EXTENDS CtspClient, FixtureProgram

CONSTANT Programs       \* those that are run: "client", "fixture"

VARIABLE program

MCInit == program \in Programs /\ Init /\ ProgramInit

MCNext ==
    /\ UNCHANGED program
    /\ \/ program = "client" /\ Next /\ UNCHANGED programVars
       \/ program = "fixture" /\ ProgramNext /\ UNCHANGED vars

MCSpec ==
    /\ MCInit /\ [][MCNext]_<<program, vars, programVars>>
    /\ WF_vars(Client)
=============================================================================
