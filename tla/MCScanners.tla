------------------------------ MODULE MCScanners ------------------------------
(***************************************************************************)
(* The three programs that refuse a recording, for TLC: ct_leak_scan,      *)
(* ct_credential_scan and ct_member_names, each run by itself on its own   *)
(* command lines.  The variables of those that do not run stay as they are *)
(* before a program starts.                                                *)
(***************************************************************************)
EXTENDS LeakScan, CredentialScan, MemberNames, MCLeakInputs, MCCredentialInputs, MCNameInputs

CONSTANT Programs       \* those that are run: "leak", "credential", "names"

VARIABLE program

LeakRests ==
    leakFiles = <<>> /\ leakAt = 1 /\ leakVerdicts = <<>> /\ leakExit = 9 /\ stack = <<>> /\ found = {}
CredentialRests ==
    files = <<>> /\ at = 1 /\ work = <<>> /\ pos = 1 /\ member = 0 /\ hits = {} /\ verdicts = <<>> /\ exit = 9
NamesRest == listed = <<>> /\ nth = 1 /\ slot = 0 /\ bad = FALSE /\ told = <<>> /\ code = 9

MCInit ==
    /\ program \in Programs
    /\ \/ program = "leak" /\ LeakInit /\ CredentialRests /\ NamesRest
       \/ program = "credential" /\ Init /\ LeakRests /\ NamesRest
       \/ program = "names" /\ NamesInit /\ LeakRests /\ CredentialRests

MCNext ==
    /\ UNCHANGED program
    /\ \/ program = "leak" /\ LeakNext /\ UNCHANGED <<vars, namesVars>>
       \/ program = "credential" /\ Next /\ UNCHANGED <<leakVars, namesVars>>
       \/ program = "names" /\ NamesNext /\ UNCHANGED <<leakVars, vars>>

MCSpec == MCInit /\ [][MCNext]_<<program, leakVars, vars, namesVars>>
=============================================================================
