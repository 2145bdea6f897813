------------------------------ MODULE MCWorkflows ------------------------------
(* The workflows for TLC, each by itself: the verification of every change, and *)
(* the jobs of one kind that record again; jobs of two kinds share no file, no  *)
(* branch and no group.  Two codetracer commits pin different readers and one   *)
(* pins only the first.  Two runners on Macs and one on Windows.                *)
EXTENDS VerificationJobs, RegenerationJobs

CONSTANT Workflows      \* those that run: "verification" or a kind of job

VARIABLE workflow       \* which of them it is

MCCtLock == [c \in CtCommits |->
    CASE c = "c1" -> [nim |-> "a", rust |-> "a"]
      [] c = "c2" -> [nim |-> "b", rust |-> "b"]
      [] OTHER -> [nim |-> "b", rust |-> None]]

MCTakes == [a \in Agents |-> IF a = "win" THEN {"windows"} ELSE {"platform", "emulator"}]

MCInit == workflow \in Workflows /\ Init /\ JobsInit

MCNext ==
    /\ UNCHANGED workflow
    /\ \/ workflow = "verification" /\ Next /\ UNCHANGED jobsVars
       \/ /\ workflow \in Kinds /\ JobsNext /\ UNCHANGED vars
          /\ \A j \in Jobs : jobs'[j].kind \in {"none", workflow}

\* No regeneration job can start, time out or be ended before one is dispatched.
MCSpec ==
    /\ MCInit /\ [][MCNext]_<<workflow, vars, jobsVars>>
    /\ Fairness
=============================================================================
