------------------------------ MODULE Records ------------------------------
(***************************************************************************)
(* Token budgets, the office hierarchy and the workers' repositories, as   *)
(* one system.  None reads what another keeps, so steps of two can be      *)
(* swapped: a behaviour has the steps of one of them, its scene.           *)
(***************************************************************************)
EXTENDS TokenBudget, Offices, WorkerGit

recordVars == <<scene, tokenVars, officeVars, gitVars>>

RecordsInit ==
    /\ scene \in {"tokens", "offices", "git"}
    /\ TokenInit /\ OfficesInit /\ GitInit

RecordsNext ==
    /\ \/ scene = "tokens"  /\ TokenNext   /\ UNCHANGED <<officeVars, gitVars>>
       \/ scene = "offices" /\ OfficesNext /\ UNCHANGED <<tokenVars, gitVars>>
       \/ scene = "git"     /\ GitNext     /\ UNCHANGED <<tokenVars, officeVars>>
    /\ UNCHANGED scene

RecordsSpec == RecordsInit /\ [][RecordsNext]_recordVars
=============================================================================
