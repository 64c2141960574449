---------------------------- MODULE RecordStore ----------------------------
(***************************************************************************)
(* What the records beside the queue share: token budgets, offices,        *)
(* presence, the operations chat and the workers' repositories.            *)
(***************************************************************************)
EXTENDS Snapshots

CONSTANTS
    None,
    Missions,
    Agents

VARIABLE
    scene      \* the record the behaviour is about (see Records)
=============================================================================
