--------------------------- MODULE GovOperations ---------------------------
(***************************************************************************)
(* The operations API: any number of requests of the routes, working on    *)
(* the same snapshots at the same time.                                    *)
(***************************************************************************)
EXTENDS QueueRoute, RelayRoute, SessionRoutes, FleetRoutes, MissionRoutes

Next == \E i \in Requests :
    \/ QueueNext(i) \/ RelayNext(i) \/ SessionNext(i)
    \/ FleetNext(i) \/ MissionNext(i) \/ Crash(i)

Spec == Init /\ [][Next]_vars

-----------------------------------------------------------------------------
(* A row that runs is bound to a session, names the agent that executes it *)
(* and carries a job that a worker accepted for this very row, whichever   *)
(* route put it there and however requests overlap: start                  *)
(* (queue/route.ts:781-975), relay (queue/relay/route.ts:179-192) and the  *)
(* watchdog never leave one without.                                       *)
RunningRowsAreBound ==
    \A r \in Running(queue) :
        queue[r].session # None /\ queue[r].exec # None /\ <<r, queue[r].job>> \in jobs

(* No row is done, the MPB closure aside, unless a start of a row of its   *)
(* mission was accepted at some time: the done contract                    *)
(* (transition-validator.ts:44-75), applied to a stale copy of the queue   *)
(* or to one row on behalf of its siblings, never lets more through.       *)
DoneMissionsWereStarted ==
    \A r \in Live(queue) :
        queue[r].status = "done" =>
            \/ ClosedByRule(MissionOf[r])
            \/ \E x \in Rows, j \in Jobs : MissionOf[x] = MissionOf[r] /\ <<x, j>> \in jobs

-----------------------------------------------------------------------------
(* The inductive invariant behind the four invariants above.  A request    *)
(* saves a copy that may be old, so what a row promises has to hold in     *)
(* every copy, not only in the stored queue.  It is stated of one row with *)
(* the jobs issued so far, which only grow: an old copy stays right.       *)

StartedMission(m, J) == \E y \in Rows, j \in Jobs : MissionOf[y] = m /\ <<y, j>> \in J

RowOK(r, x, J) ==
    /\ x.session # None => x.exec # None /\ <<r, x.job>> \in J
    /\ x.status = "in_progress" => x.session # None
    /\ x.status = "done" /\ x.exec = None => ClosedByRule(MissionOf[r])
    /\ x.status = "done" => ClosedByRule(MissionOf[r]) \/ StartedMission(MissionOf[r], J)

QueueOK(q, J) == q \in Queue /\ \A r \in Live(q) : RowOK(r, q[r], J)

TableOK(t) ==
    /\ t \in SessionTable
    /\ \A s \in Known(t) : t[s].mission = None <=> t[s].status \in {"registered", "online"}

(* What a request knows at each await: the row it found is in its copy, a  *)
(* start past the dispatch carries a job issued for its row, and so on.    *)
SlotOK(x, J) ==
    /\ x \in Slot
    /\ QueueOK(x.q, J)
    /\ TableOK(x.t)
    /\ x.pc \in {"decide", "unload", "dispatch", "bump", "claim", "bind"} => x.row \in Live(x.q)
    /\ x.pc \in {"boardLoad", "boardSave", "relayQueue", "relayBoardLoad", "relayBoardSave"}
          => x.row \in Rows
    /\ x.pc = "unload" => x.status \in QueueStatus \ {"in_progress"}
    /\ x.pc = "dispatch" => x.agent \in Registered(x.g) \cup {None}
    /\ x.pc = "bump" => x.agent \in Registered(x.g)
    /\ x.pc \in {"bump", "claim", "bind"} => x.job \in Jobs /\ <<x.row, x.job>> \in J
    /\ x.pc \in {"bind", "startQueue", "completeQueue"} => x.session \in Sessions
    /\ x.pc \in {"startQueue", "completeQueue", "completeSave", "completeBoardLoad"}
          => x.mission \in Missions
    /\ x.pc = "relayAgentsLoad" => x.old \in Row

(* Nothing an operation reads or is about to save, however old, breaks     *)
(* what TypeOK, RunningRowsAreBound, FreeSessionsCarryNoMission,           *)
(* DoneRowsWereExecuted and DoneMissionsWereStarted promise of the stored  *)
(* snapshots: a stale save loses updates, but never corrupts a row.        *)
Inv ==
    /\ TypeOK
    /\ QueueOK(queue, jobs)
    /\ TableOK(sessions)
    /\ \A i \in Requests : SlotOK(req[i], jobs)

-----------------------------------------------------------------------------
(* What every step keeps as long as requests do not overlap (one request   *)
(* slot).                                                                  *)

RunsBeforeAndAfter(r) ==
    /\ r \in Running(queue) /\ r \in Live(queue')
    /\ queue'[r].status = "in_progress"

(* A row that runs keeps its job and its session: a second start of it is  *)
(* idempotent (queue/route.ts:955-975) and a relay under another job is    *)
(* refused (relay/route.ts:190-192).  Two starts that overlap break it:    *)
(* each finds the row open in its own copy.                                *)
RunningRowsKeepTheirJob ==
    [][\A r \in Rows : RunsBeforeAndAfter(r) =>
          queue'[r].job = queue[r].job /\ queue'[r].session = queue[r].session]_vars

(* The MPB closure may close row r of queue q: both CPP parts are done.    *)
ClosedByMpb(q, r) ==
    /\ ClosedByRule(MissionOf[r])
    /\ \A p \in {"CPP1", "CPP2"} :
          \E c \in PartRows(q, Block[MissionOf[r]], p) : q[c].status = "done"

(* The MPB rule closed row r of n; a block parent it closed has no         *)
(* unfinished part left.                                                   *)
ClosedWhole(n, r) ==
    /\ ClosedByMpb(n, r)
    /\ HasParts(MissionOf[r]) =>
          \A c \in ChildRows(n, MissionOf[r]) : n[c].status = "done"

(* Row r, done in n and not in q, has earned it: a row of its mission runs *)
(* in q, or the MPB rule closed it.                                        *)
Earned(q, n, r) ==
    (\E x \in Running(q) : MissionOf[x] = MissionOf[r]) \/ ClosedWhole(n, r)

(* A row becomes done only while a row of its mission runs                 *)
(* (transition-validator.ts:49-56), or by the MPB closure after its CPP    *)
(* parts; a block parent closed by the rule has no unfinished part left.   *)
DoneIsEarned ==
    [][\A r \in Live(queue) \cap Live(queue') :
          queue[r].status # "done" /\ queue'[r].status = "done" => Earned(queue, queue', r)]_vars

(* In queue q the rule has closed all it may close of block b.             *)
MpbClosed(q, b) ==
    /\ FourChildren(q, b)
    /\ \A p \in {"CPP1", "CPP2"} :
          /\ PartRows(q, b, p) # {}
          /\ \A c \in PartRows(q, b, p) : q[c].status = "done"
    => /\ OpenReviews(q, b) = {}
       /\ (\A c \in ChildRows(q, b) : q[c].status = "done")
             => \A r \in ParentRows(q, b) : q[r].status = "done"

(* An update of a row of a block, once stored, has closed what the MPB     *)
(* rule closes: with both CPP parts done no STAFF or PA part of a complete *)
(* block is left open, and a block whose parts are all done has a done     *)
(* parent (queue/route.ts:194-233).                                        *)
MpbClosureIsComplete ==
    [][\A i \in Requests :
          req[i].op = "update" /\ At(i, "queueSave") /\ req'[i].reply = "ok" =>
             MpbClosed(queue', Block[MissionOf[req[i].row]])]_vars

(* A session leaves a mission for another one only when its own executor   *)
(* says so (start_mission or an event); a claim on behalf of a row never   *)
(* takes a session that works (queue/route.ts:868-880).                    *)
NoSessionIsTaken ==
    [][\A s \in Known(sessions) \cap Known(sessions') :
          /\ sessions[s].mission # None /\ sessions'[s].mission # None
          /\ sessions'[s].mission # sessions[s].mission
          => \E i \in Requests : req[i].op \in {"start", "event"} /\ req[i].session = s]_vars

(* When update_status has started a row, the session the row names is      *)
(* stored busy with the row's mission: a session whose save failed is      *)
(* never bound (queue/route.ts:926-953).                                   *)
StartsAreBound ==
    [][\A r \in Live(queue') \ Running(queue) :
          /\ queue'[r].status = "in_progress"
          /\ \E i \in Requests : req[i].op = "update" /\ req[i].row = r
          => /\ queue'[r].session \in Known(sessions)
             /\ sessions[queue'[r].session] = SessionOn(MissionOf[r], "busy")]_vars

(* A relay that answers ok to done left the row done and its mission done  *)
(* on the board (relay/route.ts:283-337).                                  *)
RelayedDoneIsStored ==
    [][\A i \in Requests :
          req[i].op = "relay" /\ req[i].status = "done" /\ req'[i].reply = "ok" =>
             /\ MissionOf[req[i].row] \in board'
             /\ req[i].row \in Live(queue') /\ queue'[req[i].row].status = "done"]_vars

(* A row that runs keeps its assignee: an edit of its mission that names   *)
(* another one stops the row in the same save (manage/route.ts:567-617),   *)
(* so that no worker goes on with a row that is somebody else's.           *)
RunningRowsKeepTheirAssignee ==
    [][\A r \in Rows : RunsBeforeAndAfter(r) =>
          queue'[r].assignee = queue[r].assignee]_vars

(* A mission opened by the chat with the answer that it was created has    *)
(* work in the queue and is not shown as done any more, although either of *)
(* the two saves may fail (operations/chat/route.ts:441-481).              *)
CreatedMissionsAreOpen ==
    [][\A i \in Requests :
          At(i, "missionBoardSave") /\ req'[i].reply = "ok" =>
             /\ req[i].mission \notin board'
             /\ \E r \in RowsOf(queue', req[i].mission) : queue'[r].status = "open"]_vars

-----------------------------------------------------------------------------
(* The inductive invariant behind these action properties: what a request  *)
(* is about to save, compared with what is stored, when no other request   *)
(* has stored anything since it loaded its copy.                           *)

Alone == \A i, j \in Requests : i = j

(* No block is itself named like a part of another block. *)
BlocksAreFlat == \A m \in Missions : Part[Block[m]] = "BLOCK"

SameWork(x, y) == x.job = y.job /\ x.session = y.session /\ x.assignee = y.assignee

(* Queue n may be saved over queue q.                                      *)
SavesOver(q, n) ==
    /\ \A r \in Running(q) \cap Running(n) : SameWork(q[r], n[r])
    /\ BlocksAreFlat =>
          \A r \in Live(q) \cap Live(n) :
             q[r].status # "done" /\ n[r].status = "done" => Earned(q, n, r)

(* Table u, saved over table t by operation op for session s, takes no     *)
(* other session.                                                          *)
TakesNone(t, u, op, s) ==
    \A x \in Known(t) \cap Known(u) :
       t[x].mission # None /\ u[x].mission # None /\ u[x].mission # t[x].mission
          => op \in {"start", "event"} /\ s = x

BoundIn(t, r, s) == s \in Known(t) /\ t[s] = SessionOn(MissionOf[r], "busy")

UpdatePc == {"decide", "dispatch", "bump", "claim", "bind", "unload", "boardLoad",
             "boardSave", "queueSave"}

RelayPc == {"relayQueue", "relayBoardLoad", "relayBoardSave", "relayAgentsLoad",
            "relayAgentsSave"}

QueueSavePc == {"boardLoad", "boardSave", "queueSave", "relayQueue", "completeSave",
                "editBoardSave", "editQueueSave", "planSave", "missionSave"}

(* What holds of a request whatever the others do.                         *)
OwnOK(x) ==
    /\ x.op \in {"update", "relay"} => x.reply = "none"
    /\ x.op = "update" => x.pc \in UpdatePc
    /\ x.op = "relay" => x.pc \in RelayPc
    /\ x.pc \in {"dispatch", "bump", "claim", "bind"} => x.q[x.row].status # "in_progress"
    /\ x.op = "update" /\ x.pc \in {"boardLoad", "boardSave", "queueSave"}
          => MpbClosed(x.q, Block[MissionOf[x.row]])

(* A relay of a done: the row is done in the copy that is to be saved, and *)
(* in the queue once that was saved; then its mission is, on the board.    *)
RelayOK(x, q, b) ==
    /\ x.pc = "relayQueue" => x.row \in Live(x.q) /\ x.q[x.row].status = "done"
    /\ x.pc # "relayQueue" => x.row \in Live(q) /\ q[x.row].status = "done"
    /\ x.pc = "relayBoardSave" => MissionOf[x.row] \in x.b
    /\ x.pc \in {"relayAgentsLoad", "relayAgentsSave"} => MissionOf[x.row] \in b

(* What holds of it, given the stored queue, sessions and board, when      *)
(* nobody else stores anything.                                            *)
StoreOK(x, q, t, b) ==
    /\ x.pc \in {"decide", "unload", "dispatch", "bump", "claim", "bind", "manageBoard",
                  "manage", "plan", "watchAgents"} => x.q \in Loaded(q, EmptyQueue)
    /\ x.pc \in {"startQueue", "completeQueue"} => x.t \in Loaded(t, EmptySessions)
    /\ x.pc \in QueueSavePc => SavesOver(q, x.q)
    /\ x.pc \in {"bind", "completeSave", "completeBoardLoad", "completeBoardSave",
                  "sessionsSave"} => TakesNone(t, x.t, x.op, x.session)
    /\ x.pc = "bind" => BoundIn(x.t, x.row, x.session)
    /\ x.op = "update" /\ x.pc \in QueueSavePc /\ x.row \in Running(x.q) \ Running(q)
          => BoundIn(t, x.row, x.q[x.row].session)
    /\ x.op = "relay" /\ x.status = "done" => RelayOK(x, q, b)
    /\ x.pc = "missionSave" => \E r \in RowsOf(x.q, x.mission) : x.q[r].status = "open"
    /\ x.pc \in {"missionBoardLoad", "missionBoardSave"} /\ x.reply = "ok"
          => \E r \in RowsOf(q, x.mission) : q[r].status = "open"
    /\ x.pc = "missionBoardSave" => x.mission \notin x.b

SerialInv ==
    \A i \in Requests :
       OwnOK(req[i]) /\ (Alone => StoreOK(req[i], queue, sessions, board))

-----------------------------------------------------------------------------
(* What the documents and tests say of the program and the code does not   *)
(* do.                                                                     *)

(* A row becomes done only out of in_progress, the MPB closure aside       *)
(* (transition-validator.test.ts:20): complete_mission validates the first *)
(* row of the mission and closes the others with it (sessions/route.ts:    *)
(* 325-382).                                                               *)
DoneOnlyFromRunning ==
    [][\A r \in Live(queue) \cap Live(queue') :
          queue[r].status # "done" /\ queue'[r].status = "done" =>
             queue[r].status = "in_progress" \/ ClosedByMpb(queue', r)]_vars

(* A row that an edit took from its executor starts again only by a start  *)
(* that a worker acknowledged ("Troca de executor exige novo start com ACK *)
(* obrigatório", manage/route.ts:586).  Such a row is open under a session *)
(* that is not one of its assignee; a relay of the former executor puts it *)
(* in progress all the same (relay/route.ts:179-192).                      *)
RequeuedRowsNeedAStart ==
    [][\A r \in Live(queue) \cap Running(queue') :
          /\ queue[r].status = "open" /\ queue[r].session # None
          /\ SessionRole[queue[r].session] # queue[r].assignee
          => queue'[r].session # queue[r].session]_vars

(* The authority matrix (GOV-MANAGER-QUEUE-GOVERNANCA-V1.md:24-36): what   *)
(* an engineer does to the queue starts, pauses or resumes rows, and       *)
(* neither removes, reopens nor concludes one.                             *)
EngineerMatrix ==
    {<<"open", "in_progress">>, <<"in_progress", "paused_waiting_owner">>,
     <<"paused_waiting_owner", "in_progress">>}

EngineersStayInMatrix ==
    [][\A i \in Requests, r \in Live(queue) :
          /\ RoleOf[i] = "engineer"
          /\ req[i].op \in {"update", "remove"} /\ At(i, "queueSave")
          => /\ r \in Live(queue')
             /\ \/ queue'[r].status = queue[r].status
                \/ <<queue[r].status, queue'[r].status>> \in EngineerMatrix]_vars
=============================================================================
