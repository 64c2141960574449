---------------------------- MODULE MCExecutors ----------------------------
(* Two missions of one row, one worker agent with one session. *)
EXTENDS Executors

CONSTANTS r1, r2, m1, m2, g1, s1

MCMissionOf == [r \in Rows |-> IF r = r1 THEN m1 ELSE m2]

MCBlock == [m \in Missions |-> m]

MCPart == [m \in Missions |-> "BLOCK"]

MCAgentRole == [a \in Agents |-> "CPP"]

MCSessionAgent == [s \in Sessions |-> g1]

MCSessionRole == [s \in Sessions |-> "CPP"]

MCPreferred == [who \in Assignee |-> None]

MCRoleOf == [i \in Requests |-> "admin"]
=============================================================================
