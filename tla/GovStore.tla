------------------------------ MODULE GovStore ------------------------------
(***************************************************************************)
(* The state every route works on: the snapshots GovHub stores, each read  *)
(* and replaced as a whole, and the requests in flight.  A route never     *)
(* locks anything: it loads a snapshot into a copy of its own, changes the *)
(* copy, and saves it over whatever is stored by then.                     *)
(*                                                                         *)
(* A request slot stands for one handler running in the event loop.  Its   *)
(* pc names the await it stands at; everything between two awaits is one   *)
(* step.  Presence, audit and alert snapshots are not kept: no other route *)
(* decides on what they hold.                                              *)
(***************************************************************************)
EXTENDS AgentRegistry, ExecutionSessions, Snapshots

CONSTANTS
    Requests,    \* requests that can be in flight at the same time
    RoleOf,      \* the role the caller of a request has
    Ops,         \* the operations the instance issues
    Asked,       \* the assignees callers ask for
    Crashes      \* TRUE: the process may die with requests in flight

VARIABLES
    queue,       \* stored snapshots
    agents,
    sessions,
    board,       \* missions the mission board shows as done
    req,         \* the requests in flight
    minted,      \* row and session ids ever created (they carry a time stamp)
    jobs         \* <<row, job>>: the workers took the row's start as this job

store == <<queue, agents, sessions, board>>
vars  == <<queue, agents, sessions, board, req, minted, jobs>>

Op == {"create", "remove", "update", "relay", "register", "heartbeat", "release",
       "start", "complete", "event", "agent", "watchdog",
       "manage", "registerMission", "newMission", "onboard", "direct"}

Pc == {"idle", "queueSave", "decide", "dispatch", "bump", "claim", "bind",
       "unload", "boardLoad", "boardSave",
       "relayQueue", "relayBoardLoad", "relayBoardSave", "relayAgentsLoad",
       "relayAgentsSave",
       "startQueue", "completeQueue", "completeSave", "completeBoardLoad",
       "completeBoardSave", "sessionsSave", "agentsSave",
       "watchAgents", "watchQueue",
       "manageBoard", "manageQueue", "manage", "groupSave", "editBoardSave",
       "editQueueSave", "plan", "planSave", "openMission", "missionSave",
       "missionBoardLoad", "missionBoardSave", "onboardSave", "onboardQueue",
       "directQueue", "directSessions", "direct", "directReconcile",
       "directReconciled", "directSave", "directDispatch", "directRelease",
       "directQueueSave"}

(* A free slot remembers how its last request ended; "lost": no answer. *)
Reply == {"none", "ok", "refused", "failed", "lost"}

Slot == [pc      : Pc,
         op      : Op \cup {"none"},
         row     : Rows \cup {None},
         mission : Missions \cup {None},
         session : Sessions \cup {None},
         agent   : Agents \cup {None},
         job     : Jobs \cup {None},
         status  : QueueStatus \cup {None},
         old     : Row \cup {None},          \* relay: the row whose load is released
         q       : Queue,
         t       : SessionTable,
         g       : Registry,
         b       : SUBSET Missions,
         reply   : Reply]

Blank ==
    [pc |-> "idle", op |-> "none", row |-> None, mission |-> None,
     session |-> None, agent |-> None, job |-> None, status |-> None,
     old |-> None, q |-> EmptyQueue, t |-> EmptySessions,
     g |-> EmptyRegistry, b |-> {}, reply |-> "none"]

ASSUME StoreAssumption ==
    /\ RoleOf \in [Requests -> {"viewer", "engineer", "admin"}]
    /\ Ops \subseteq Op
    /\ Asked \subseteq Assignee
    /\ Crashes \in BOOLEAN
    /\ None \notin Rows

-----------------------------------------------------------------------------
(* What the caller is told. *)
Answer(result) == IF result = "ok" THEN "ok" ELSE "failed"

-----------------------------------------------------------------------------
Goto(i, slot) == req' = [req EXCEPT ![i] = slot]

(* The handler returns. *)
Finish(i, reply) == Goto(i, [Blank EXCEPT !.reply = reply])

At(i, pc) == req[i].pc = pc

(* requireRole(request, "engineer") *)
Engineer(i) == RoleOf[i] \in {"engineer", "admin"}

Admin(i) == RoleOf[i] = "admin"

(* A new request of operation op arrives. *)
Begins(i, op) == op \in Ops /\ At(i, "idle")

Init ==
    /\ queue = EmptyQueue
    /\ agents = EmptyRegistry
    /\ sessions = EmptySessions
    /\ board = {}
    /\ req = [i \in Requests |-> Blank]
    /\ minted = {}
    /\ jobs = {}

(* The process dies: the handler is gone, what it saved stays. *)
Crash(i) ==
    /\ Crashes
    /\ ~ At(i, "idle")
    /\ Finish(i, "lost")
    /\ UNCHANGED <<store, minted, jobs>>

-----------------------------------------------------------------------------
(* What the stored snapshots promise, whichever routes are at work.        *)

(* Type invariant: the stored snapshots and every request's copies of them *)
(* are values of their types.                                              *)
TypeOK ==
    /\ queue \in Queue
    /\ agents \in Registry
    /\ sessions \in SessionTable
    /\ board \subseteq Missions
    /\ req \in [Requests -> Slot]
    /\ minted \subseteq Rows \cup Sessions
    /\ jobs \subseteq Rows \X Jobs

(* A session that offers itself for a claim (online or registered) works   *)
(* on no mission, and one that does not offer itself works on one: no      *)
(* interleaving of claims, heartbeats, events and releases parks a session *)
(* where resolveClaimableSession can neither take it nor skip it           *)
(* (execution-sessions.ts:228-234).                                        *)
FreeSessionsCarryNoMission ==
    \A s \in Known(sessions) :
        sessions[s].mission = None <=> sessions[s].status \in {"registered", "online"}

(* The nominal parts and the parent of an MPB block. *)
HasParts(m) == \E c \in Missions : Block[c] = m /\ Part[c] \in ChildParts

ClosedByRule(m) == Part[m] \in {"STAFF", "PA"} \/ HasParts(m)

(* A done row names the agent that executed it, unless the MPB closure     *)
(* closed it: only STAFF and PA parts and block parents are ever done      *)
(* without having been executed (queue/route.ts:164-233).                  *)
DoneRowsWereExecuted ==
    \A r \in Live(queue) :
        queue[r].status = "done" /\ queue[r].exec = None => ClosedByRule(MissionOf[r])
=============================================================================
