------------------------------- MODULE MCRow -------------------------------
(* Instances with rows of a single ordinary mission and one worker agent.  *)
EXTENDS GovContract, TLC

CONSTANTS g1, g2, s1, s2

MCMissionOf == [r \in Rows |-> CHOOSE m \in Missions : TRUE]

MCBlock == [m \in Missions |-> m]

MCPart == [m \in Missions |-> "BLOCK"]

MCAgentRole == [a \in Agents |-> "CPP"]

MCSessionAgent == [s \in Sessions |-> IF s = s2 /\ g2 \in Agents THEN g2 ELSE g1]

MCSessionRole == [s \in Sessions |-> "CPP"]

MCPreferred == [who \in Assignee |-> IF who = "CPP" THEN g1 ELSE None]

MCRoleOf == [i \in Requests |-> "admin"]

(* The row waits at the gate; its worker and a session are registered. *)
MCReady ==
    /\ queue = [r \in Rows |-> CreatedRow("CPP", None)]
    /\ agents = [a \in Agents |-> 0]
    /\ sessions = [s \in Sessions |-> FreeSession]
    /\ board = {}
    /\ req = [i \in Requests |-> Blank]
    /\ minted = Rows \cup Sessions
    /\ jobs = {}

MCReadySpec == MCReady /\ [][Next]_vars

MCSymmetry == Permutations(Jobs) \cup Permutations(Rows) \cup Permutations(Requests)
=============================================================================
