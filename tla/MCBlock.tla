------------------------------ MODULE MCBlock ------------------------------
(* One MPB block: a parent mission and its four nominal parts.             *)
EXTENDS GovOperations, DirectRoute, TLC

CONSTANTS blk, staff, pa, cpp1, cpp2, g1, s1, j1, j2, j3

(* One row per mission; the row is named like its mission. *)
MCMissionOf == [r \in Rows |-> r]

MCBlockOf == [m \in Missions |-> blk]

MCPart == [m \in Missions |-> CASE m = staff -> "STAFF"
                                [] m = pa    -> "PA"
                                [] m = cpp1  -> "CPP1"
                                [] m = cpp2  -> "CPP2"
                                [] OTHER     -> "BLOCK"]

MCAgentRole == [a \in Agents |-> "STAFF"]

MCSessionAgent == [s \in Sessions |-> g1]

MCSessionRole == [s \in Sessions |-> "STAFF"]

MCPreferred == [who \in Assignee |-> None]

MCRoleOf == [i \in Requests |-> "admin"]

MCJob == cpp1 :> j1 @@ cpp2 :> j2 @@ pa :> j3

(* The block at work: staff took on the parts CPP1, CPP2 and PA one after  *)
(* the other, with one session released and claimed again each time.       *)
MCInit ==
    /\ queue = [r \in Rows |->
                  IF r \in DOMAIN MCJob
                    THEN StartedRow(CreatedRow("STAFF", None), MCJob[r], s1, g1)
                    ELSE CreatedRow("STAFF", None)]
    /\ agents = EmptyRegistry
    /\ sessions = s1 :> SessionOn(pa, "busy")
    /\ board = {}
    /\ req = [i \in Requests |-> Blank]
    /\ minted = Rows \cup Sessions
    /\ jobs = {<<r, MCJob[r]>> : r \in DOMAIN MCJob}

MCSpec == MCInit /\ [][Next]_vars
=============================================================================
