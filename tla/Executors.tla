------------------------------ MODULE Executors ------------------------------
(***************************************************************************)
(* An executor and its bridge beside callers that start rows, hand         *)
(* missions over directly and release the session.                         *)
(***************************************************************************)
EXTENDS DirectRoute, SessionBridge, QueueRoute

CONSTANT
    Turns       \* bound: how many requests callers make and answers get lost

VARIABLE calls

executors == <<vars, bridge, calls>>

Callers == Requests \ {BridgeSlot}

CallerNext(i) ==
    /\ At(i, "idle") => calls + bridge.losses < Turns
    /\ calls' = IF At(i, "idle") THEN calls + 1 ELSE calls
    /\ \/ QueueNext(i) \/ DirectNext(i)
       \/ ReleaseSession(i) \/ SaveSessions(i)
    /\ UNCHANGED bridge

(* The rows are open, and one may have been started in the bridge's        *)
(* session.                                                                *)
ExecutorsInit ==
    \E S \in SUBSET Rows, j \in Jobs :
    /\ \A r, x \in S : r = x
    /\ queue = [r \in Rows |->
                  IF r \in S THEN StartedRow(NewRow("CPP", None, "open"), j,
                                            BridgeSession, BridgeAgent)
                             ELSE NewRow("CPP", None, "open")]
    /\ agents = [a \in Agents |-> IF a = BridgeAgent /\ S # {} THEN 1 ELSE 0]
    /\ sessions = [s \in Sessions |->
                     IF s = BridgeSession /\ S # {}
                       THEN SessionOn(MissionOf[CHOOSE r \in S : TRUE], "busy")
                       ELSE FreeSession]
    /\ board = {}
    /\ req = [i \in Requests |-> Blank]
    /\ minted = Rows \cup Sessions
    /\ jobs = S \X {j}
    /\ calls = 0
    /\ BridgeInit

ExecutorsNext ==
    \/ \E i \in Callers : CallerNext(i)
    \/ /\ BridgeNext /\ UNCHANGED calls
       /\ bridge'.losses # bridge.losses => calls + bridge.losses < Turns

(* The bridge's loop goes on: its command ends or is ended, and the hub    *)
(* works its requests off.  Callers may take as long as they like.         *)
Fairness == WF_executors((BridgeStep \/ BridgeRequest) /\ UNCHANGED calls)

ExecutorsSpec == ExecutorsInit /\ [][ExecutorsNext]_executors /\ Fairness
-----------------------------------------------------------------------------
SessionMission == sessions[BridgeSession].mission

(* Nothing but the bridge is at work any more, and nothing gets lost. *)
Quiet ==
    /\ calls + bridge.losses = Turns
    /\ \A i \in Callers : At(i, "idle")

(* A done file completes the mission it was written for, although the      *)
(* session may be given another one as soon as the hub has stored the      *)
(* completion: the file is gone before the next mission can be read        *)
(* (gov-codex-session-bridge.mjs:260-289).  It takes a lost answer, a      *)
(* killed bridge or two requests of others, one that frees the session and *)
(* one that gives it away, to close a mission by the file of another.      *)
DoneFilesCloseTheirMission ==
    bridge.pc = "completeSent" /\ calls <= 1 /\ bridge.losses = 0
       => bridge.done = bridge.seen

(* The load the registry shows for the bridge's agent is, in the end, what *)
(* its session says, whatever starts, releases and late heartbeats wrote   *)
(* meanwhile (agents/route.ts:147, gov-codex-session-bridge.mjs:196-211).  *)
LoadSettles ==
    <>[](agents[BridgeAgent] = IF SessionMission = None THEN 0 ELSE 1)

(* Work reported done by file is done in the queue, and its session free,  *)
(* if from then on nothing but the bridge is at work and the bridge is     *)
(* between two ticks (gov-codex-session-bridge.mjs:275-288, sessions/      *)
(* route.ts:325-401).                                                      *)
ReportedWorkIsClosed ==
    \A m \in Missions :
       (/\ Quiet /\ bridge.pc = "asleep" /\ Idle
        /\ bridge.done = m /\ SessionMission = m
        /\ \A r \in RowsOf(queue, m) : queue[r].status = "in_progress")
       ~> (/\ SessionMission = None
           /\ \A r \in RowsOf(queue, m) : queue[r].status = "done")
=============================================================================
