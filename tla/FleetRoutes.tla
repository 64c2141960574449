----------------------------- MODULE FleetRoutes -----------------------------
(***************************************************************************)
(* POST /api/govhub/operations/agents, where workers report themselves,    *)
(* and POST /api/govhub/operations/watchdog, which stops the rows whose    *)
(* executor is gone.                                                       *)
(***************************************************************************)
EXTENDS GovStore

CONSTANT Loads   \* the loads workers report

ASSUME LoadsAssumption == Loads \subseteq 0..MaxLoad

(* register, heartbeat, set_job and set_health: the load is the one        *)
(* reported, or the one known, 0 for an agent not seen before.             *)
ReportAgent(i) ==
    /\ Begins(i, "agent") /\ Engineer(i)
    /\ \E g \in Loaded(agents, EmptyRegistry), a \in Agents :
       \E load \in Loads \cup {IF g[a] = None THEN 0 ELSE g[a]} :
          Goto(i, [Blank EXCEPT !.pc = "agentsSave", !.op = "agent",
                                !.g = [g EXCEPT ![a] = load]])
    /\ UNCHANGED <<store, minted, jobs>>

SaveAgents(i) ==
    /\ At(i, "agentsSave")
    /\ \E result \in SaveResults :
          /\ agents' = Stored(result, agents, req[i].g)
          /\ Finish(i, Answer(result))
    /\ UNCHANGED <<queue, sessions, board, minted, jobs>>

-----------------------------------------------------------------------------
Running(q) == {r \in Live(q) : q[r].status = "in_progress"}

(* isRowStuck /\ ~ hasRecentAssigneeHeartbeat, for a row whose role has a  *)
(* usable agent: only when the row names an agent of the role that is not  *)
(* usable any more.  How old the row is, is left open.                     *)
MayBeStuck(g, up, row) ==
    /\ row.agent \in Registered(g) \ up
    /\ AgentRole[row.agent] = row.assignee
    /\ row.assignee # "STAFF"

(* The queue and the registry are asked for together; either may have been *)
(* read first.                                                             *)
RunWatchdog(i) ==
    /\ Begins(i, "watchdog")
    /\ \/ \E q \in Loaded(queue, EmptyQueue) :
             Goto(i, [Blank EXCEPT !.pc = "watchAgents", !.op = "watchdog", !.q = q])
       \/ \E g \in Loaded(agents, EmptyRegistry) :
             Goto(i, [Blank EXCEPT !.pc = "watchQueue", !.op = "watchdog", !.g = g])
    /\ UNCHANGED <<store, minted, jobs>>

(* The rows whose role has no usable agent are paused; of the others,      *)
(* stuck ones are reopened or, after two attempts, paused.                 *)
Watch(i, q, g) ==
    \E up \in SUBSET Registered(g) :
    LET off == {r \in Running(q) : ~ HasHealthyAgent(up, q[r].assignee)}
    IN  \E stuck \in SUBSET {r \in Running(q) \ off : MayBeStuck(g, up, q[r])} :
        \E to \in [stuck -> {"open", "paused_waiting_owner"}] :
           IF off \cup stuck = {}
             THEN Finish(i, "ok")
             ELSE Goto(i, [Blank EXCEPT !.pc = "queueSave", !.op = "watchdog",
                                        !.q = Watched(q, off, stuck, to)])

WatchRows(i) ==
    /\ \/ At(i, "watchAgents") /\ \E g \in Loaded(agents, EmptyRegistry) : Watch(i, req[i].q, g)
       \/ At(i, "watchQueue") /\ \E q \in Loaded(queue, EmptyQueue) : Watch(i, q, req[i].g)
    /\ UNCHANGED <<store, minted, jobs>>

FleetNext(i) == ReportAgent(i) \/ SaveAgents(i) \/ RunWatchdog(i) \/ WatchRows(i)
=============================================================================
