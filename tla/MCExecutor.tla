----------------------------- MODULE MCExecutor -----------------------------
(* Instances with two missions, one of them with two rows, and staff work  *)
(* only: starts are acknowledged locally and need no worker.               *)
EXTENDS GovOperations, TLC

CONSTANTS b1, m1, m2, g1

MCMissionOf == [r \in Rows |-> IF r = b1 THEN m2 ELSE m1]

MCBlock == [m \in Missions |-> m]

MCPart == [m \in Missions |-> "BLOCK"]

MCAgentRole == [a \in Agents |-> "STAFF"]

MCSessionAgent == [s \in Sessions |-> g1]

MCSessionRole == [s \in Sessions |-> "STAFF"]

MCPreferred == [who \in Assignee |-> None]

MCRoleOf == [i \in Requests |-> "engineer"]

MCSymmetry == Permutations(Sessions) \cup Permutations(Jobs) \cup Permutations(Rows \ {b1})
              \cup Permutations(Requests)
=============================================================================
