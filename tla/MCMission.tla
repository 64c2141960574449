----------------------------- MODULE MCMission -----------------------------
(* One mission with a row that a CPP worker executes, and a CPP-IA worker  *)
(* the mission may be given to.                                            *)
EXTENDS GovOperations, TLC

CONSTANTS a1, m1, g1, g2, s1, j1

MCMissionOf == [r \in Rows |-> m1]

MCBlock == [m \in Missions |-> m]

MCPart == [m \in Missions |-> "BLOCK"]

MCAgentRole == [a \in Agents |-> IF a = g1 THEN "CPP" ELSE "CPP-IA"]

MCSessionAgent == [s \in Sessions |-> g1]

MCSessionRole == [s \in Sessions |-> "CPP"]

MCPreferred == [who \in Assignee |-> IF who = "CPP" THEN g1 ELSE None]

MCRoleOf == [i \in Requests |-> "admin"]

(* The row runs under job j1 and session s1; both workers are known. *)
MCWorking ==
    /\ queue = [r \in Rows |-> IF r = a1 THEN StartedRow(CreatedRow("CPP", g1), j1, s1, g1)
                                         ELSE None]
    /\ agents = [a \in Agents |-> IF a = g1 THEN 1 ELSE 0]
    /\ sessions = [s \in Sessions |-> IF s = s1 THEN SessionOn(m1, "busy") ELSE None]
    /\ board = {}
    /\ req = [i \in Requests |-> Blank]
    /\ minted = {a1, s1}
    /\ jobs = {<<a1, j1>>}

MCWorkingSpec == MCWorking /\ [][Next]_vars
=============================================================================
