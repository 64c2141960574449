-------------------------- MODULE MissionContract --------------------------
(***************************************************************************)
(* What the operations API promises the owner of the missions, whatever    *)
(* handlers run, overlap or die to keep it: a row is being executed only   *)
(* under a job that a worker took for this very row, and a row counts as   *)
(* done only if work on its mission was taken at some time, or if it is a  *)
(* row the closing rule of a block closes.  Records may be lost, put back  *)
(* and repeated; a record that nobody earned never appears.                *)
(***************************************************************************)
CONSTANTS
    Rows,
    Missions,
    MissionOf,
    Exempt,     \* missions that may be closed without having been executed
    Jobs,
    None

VARIABLES
    phase,      \* what is recorded of a row
    lease,      \* the job it is recorded under
    taken       \* <<row, job>>: a worker took the row as this job

contract == <<phase, lease, taken>>

Phase == {"absent", "waiting", "running", "done"}

Earned(m) == \E r \in Rows, j \in Jobs : MissionOf[r] = m /\ <<r, j>> \in taken

Backed ==
    \A r \in Rows :
        /\ phase[r] = "running" => <<r, lease[r]>> \in taken
        /\ phase[r] = "done" => MissionOf[r] \in Exempt \/ Earned(MissionOf[r])

Init ==
    /\ phase = [r \in Rows |-> "absent"]
    /\ lease = [r \in Rows |-> None]
    /\ taken = {}

(* A worker takes a row; nothing is recorded in the same step. *)
Take ==
    /\ \E r \in Rows, j \in Jobs : taken' = taken \cup {<<r, j>>}
    /\ UNCHANGED <<phase, lease>>

(* A record of any rows is stored, one that is backed. *)
Record ==
    /\ phase' \in [Rows -> Phase]
    /\ lease' \in [Rows -> Jobs \cup {None}]
    /\ taken' = taken
    /\ Backed'

Next == Take \/ Record

Spec == Init /\ [][Next]_contract
=============================================================================
