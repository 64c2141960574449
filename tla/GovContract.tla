---------------------------- MODULE GovContract ----------------------------
(***************************************************************************)
(* The operations API as an implementation of MissionContract: the phase   *)
(* and the lease of a row are read off the stored queue, what workers took *)
(* off the jobs they answered starts with.                                 *)
(***************************************************************************)
EXTENDS GovOperations

PhaseOf(x) ==
    IF x = None THEN "absent"
    ELSE IF x.status = "done" THEN "done"
    ELSE IF x.status = "in_progress" THEN "running"
    ELSE "waiting"

LeaseOf(x) == IF x = None THEN None ELSE x.job

Contract == INSTANCE MissionContract WITH
    Exempt <- {m \in Missions : ClosedByRule(m)},
    phase  <- [r \in Rows |-> PhaseOf(queue[r])],
    lease  <- [r \in Rows |-> LeaseOf(queue[r])],
    taken  <- jobs

(* The handlers implement the contract, however their requests overlap,    *)
(* fail or die: no save, however old the copy it stores, runs a row under  *)
(* a job taken for another row or makes one done that nobody worked on     *)
(* (queue/route.ts:781-1071, queue/relay/route.ts:179-252, sessions/       *)
(* route.ts:325-401, watchdog/route.ts:206-290).                           *)
KeepsContract == Contract!Spec
=============================================================================
