-------------------------- MODULE ExecutorsProofs --------------------------
(***************************************************************************)
(* An executor and its bridge beside callers of the queue and the direct   *)
(* route, for any number of callers, rows, missions and sessions.          *)
(*                                                                         *)
(* The hub (HubInv).  As in GovOperationsProofs, what is asked of a stored *)
(* snapshot is asked of every copy of it, and is about each row and each   *)
(* session alone, so an old copy that is saved does no harm.  This holds   *)
(* with failing saves and loads.                                           *)
(*                                                                         *)
(* The file (BridgeInv) needs the history between hub, bridge and caller;  *)
(* its argument stands before its definitions below.                       *)
(***************************************************************************)
EXTENDS Executors, InvariantLemmas

-----------------------------------------------------------------------------
(* What the hub keeps beside the direct route. *)

(* A row that runs names who executes it, and so does a done one that the  *)
(* closure may not close.                                                  *)
Executed(r, x) ==
    /\ x.status = "in_progress" => x.exec # None
    /\ x.status = "done" /\ x.exec = None => ClosedByRule(MissionOf[r])

QueueExecuted(q) == q \in Queue /\ \A r \in Live(q) : Executed(r, q[r])

RowPc == {"decide", "unload", "dispatch", "bump", "claim", "bind"}

DirectPc == {"directReconcile", "directReconciled", "directSave", "directDispatch",
             "directRelease"}

(* What a request knows at each await. *)
SlotKnows(x) ==
    /\ x \in Slot
    /\ QueueExecuted(x.q)
    /\ TableOK(x.t)
    /\ x.pc \in RowPc => x.row \in Live(x.q)
    /\ x.pc \in {"boardLoad", "boardSave"} => x.row \in Rows
    /\ x.pc = "unload" => x.status \in QueueStatus \ {"in_progress"}
    /\ x.pc = "dispatch" => x.agent \in Registered(x.g) \cup {None}
    /\ x.pc = "bump" => x.agent \in Registered(x.g)
    /\ x.pc \in {"bump", "claim", "bind"} => x.job \in Jobs
    /\ x.pc \in {"bind", "startQueue", "completeQueue"} \cup DirectPc => x.session \in Sessions
    /\ x.pc \in {"startQueue", "completeQueue", "completeSave", "completeBoardLoad"} \cup DirectPc
          => x.mission \in Missions

HubInv ==
    /\ TypeOK
    /\ QueueExecuted(queue)
    /\ TableOK(sessions)
    /\ \A i \in Requests : SlotKnows(req[i])

-----------------------------------------------------------------------------
(* Rows and queues. *)

(* A row that waits promises nothing. *)
LEMMA WaitingExecuted ==
    ASSUME NEW r, NEW x, x.status \notin {"in_progress", "done"}
    PROVE  Executed(r, x)
  BY DEF Executed

(* A row of a good queue is a good row.                                    *)
LEMMA LiveExecuted ==
    ASSUME NEW q, QueueExecuted(q), NEW r \in Live(q)
    PROVE  r \in Rows /\ q[r] \in Row /\ Executed(r, q[r])
  BY DEF QueueExecuted, Queue, Live

(* The queue is empty after a load that failed.                            *)
LEMMA EmptyExecuted == QueueExecuted(EmptyQueue)
  BY DEF EmptyQueue, Queue, QueueExecuted, Live

(* A queue is good when each of its entries is.                            *)
LEMMA QueueOfExecuted ==
    ASSUME NEW q, q = [r \in Rows |-> q[r]],
           \A r \in Rows : q[r] = None \/ (q[r] \in Row /\ Executed(r, q[r]))
    PROVE  QueueExecuted(q)
  BY DEF QueueExecuted, Queue, Live

(* Replacing a row by a good one keeps the queue good,                     *)
LEMMA WithExecuted ==
    ASSUME NEW q, QueueExecuted(q), NEW r \in Rows, NEW x \in Row, Executed(r, x)
    PROVE  QueueExecuted(With(q, r, x)) /\ r \in Live(With(q, r, x))
  BY QueueAssumption DEF With, QueueExecuted, Queue, Live

(* and so does removing rows,                                              *)
LEMMA WithoutExecuted ==
    ASSUME NEW q, QueueExecuted(q), NEW S
    PROVE  QueueExecuted(Without(q, S))
  BY DEF Without, QueueExecuted, Queue, Live

(* and adding created ones, which wait.                                    *)
LEMMA AddedExecuted ==
    ASSUME NEW q, QueueExecuted(q), NEW S \in SUBSET Rows,
           NEW who \in [S -> Assignee], NEW agent \in [S -> Agents \cup {None}]
    PROVE  QueueExecuted(Added(q, S, who, agent))
  <1> DEFINE n == Added(q, S, who, agent)
  <1>1. n = [r \in Rows |-> n[r]]
    BY DEF Added
  <1>2. ASSUME NEW r \in Rows
        PROVE  n[r] = None \/ (n[r] \in Row /\ Executed(r, n[r]))
    <2>1. CASE r \in S
      <3>1. n[r] = CreatedRow(who[r], agent[r])
        BY <2>1 DEF Added
      <3>2. n[r] \in Row
        BY <2>1, <3>1, CreatedRowOK
      <3>3. n[r].status \notin {"in_progress", "done"}
        BY <3>1 DEF CreatedRow
      <3> QED
        BY <3>2, <3>3, WaitingExecuted
    <2>2. CASE r \notin S
      BY <2>2 DEF Added, QueueExecuted, Queue, Live
    <2> QED
      BY <2>1, <2>2
  <1> HIDE DEF n
  <1> QED
    BY <1>1, <1>2, QueueOfExecuted DEF n

(* Each handler's row keeps it: rows that wait,                            *)
LEMMA BoundRowExecuted ==
    ASSUME NEW r, NEW x \in Row, NEW who \in Assignee, NEW agent \in Agents \cup {None}
    PROVE  BoundRow(x, who, agent) \in Row /\ Executed(r, BoundRow(x, who, agent))
  BY DEF BoundRow, Row, QueueStatus, Executed

(* a row put back for want of an agent or a session,                       *)
LEMMA FallbackRowExecuted ==
    ASSUME NEW r, NEW x \in Row
    PROVE  FallbackRow(x) \in Row /\ Executed(r, FallbackRow(x))
  BY DEF FallbackRow, Row, QueueStatus, Assignee, Executed

(* a row moved to any status but running and done,                         *)
LEMMA MovedRowExecuted ==
    ASSUME NEW r, NEW x \in Row, NEW next \in QueueStatus \ {"in_progress", "done"}
    PROVE  MovedRow(x, next) \in Row /\ Executed(r, MovedRow(x, next))
  BY DEF MovedRow, Row, Executed

(* rows that run,                                                          *)
LEMMA StartedRowExecuted ==
    ASSUME NEW r, NEW x \in Row, NEW job \in Jobs, NEW s \in Sessions, NEW a \in Agents
    PROVE  StartedRow(x, job, s, a) \in Row /\ Executed(r, StartedRow(x, job, s, a))
  BY QueueAssumption DEF StartedRow, Row, QueueStatus, Executed

(* a running row synchronized once more,                                   *)
LEMMA SyncedRowExecuted ==
    ASSUME NEW r, NEW x \in Row, Executed(r, x)
    PROVE  SyncedRow(x) \in Row /\ Executed(r, SyncedRow(x))
  BY DEF SyncedRow, Row, Executed

(* and done ones: from a running row, by the executor, by the closure.     *)
LEMMA DoneRowExecuted ==
    ASSUME NEW r, NEW x \in Row, Executed(r, x),
           x.status = "in_progress" \/ ClosedByRule(MissionOf[r])
    PROVE  DoneRow(x) \in Row /\ Executed(r, DoneRow(x))
  BY DEF DoneRow, Row, QueueStatus, Executed

(* A completed row names the agent of the session it was completed from.   *)
LEMMA CompletedRowExecuted ==
    ASSUME NEW r, NEW x \in Row, NEW a \in Agents
    PROVE  CompletedRow(x, a) \in Row /\ Executed(r, CompletedRow(x, a))
  BY QueueAssumption DEF CompletedRow, Row, QueueStatus, Executed

(* The direct route names the executor of the row it writes. *)
LEMMA NamedRowExecuted ==
    ASSUME NEW r, NEW x \in Row, NEW s \in Sessions, NEW a \in Agents \cup {None}
    PROVE  /\ NamedRow(x, s, a) \in Row /\ Executed(r, NamedRow(x, s, a))
           /\ DirectDoneRow(x, s, a) \in Row /\ Executed(r, DirectDoneRow(x, s, a))
  <1>1. SessionRole[s] \in Assignee /\ SessionAgent[s] \in Agents /\ SessionAgent[s] # None
    BY SessionAssumption, QueueAssumption
  <1> DEFINE n == NamedRow(x, s, a)
  <1>2. n \in Row /\ n.exec # None
    BY <1>1 DEF NamedRow, Row
  <1> HIDE DEF n
  <1>3. [n EXCEPT !.status = "done"] \in Row /\ [n EXCEPT !.status = "done"].exec = n.exec
    BY <1>2 DEF Row, QueueStatus
  <1> QED
    BY <1>2, <1>3 DEF n, DirectDoneRow, Executed

(* complete_mission names the agent of the session in all rows. *)
LEMMA MissionCompletedExecuted ==
    ASSUME NEW q, QueueExecuted(q), NEW m, NEW a \in Agents
    PROVE  QueueExecuted(MissionCompleted(q, m, a))
  <1> DEFINE n == MissionCompleted(q, m, a)
  <1>1. n = [r \in Rows |-> n[r]]
    BY DEF MissionCompleted
  <1>2. ASSUME NEW r \in Rows
        PROVE  n[r] = None \/ (n[r] \in Row /\ Executed(r, n[r]))
    <2>1. CASE r \in RowsOf(q, m)
      <3>1. n[r] = CompletedRow(q[r], a) /\ r \in Live(q)
        BY <2>1 DEF MissionCompleted, RowsOf
      <3> QED
        BY <3>1, LiveExecuted, CompletedRowExecuted
    <2>2. CASE r \notin RowsOf(q, m)
      BY <2>2 DEF MissionCompleted, QueueExecuted, Queue, Live
    <2> QED
      BY <2>1, <2>2
  <1> HIDE DEF n
  <1> QED
    BY <1>1, <1>2, QueueOfExecuted DEF n

(* The closures close rows they may close. *)
LEMMA ClosedExecuted ==
    ASSUME NEW q, QueueExecuted(q), NEW S \in SUBSET Live(q),
           \A r \in S : ClosedByRule(MissionOf[r])
    PROVE  QueueExecuted(Closed(q, S)) /\ Live(Closed(q, S)) = Live(q)
  <1> DEFINE n == Closed(q, S)
  <1>1. n = [r \in Rows |-> n[r]]
    BY DEF Closed
  <1>2. ASSUME NEW r \in S
        PROVE  n[r] \in Row /\ Executed(r, n[r]) /\ n[r] # None
    <2>1. n[r] = DoneRow(q[r])
      BY DEF Closed, Live
    <2> QED
      BY <2>1, LiveExecuted, DoneRowExecuted, QueueAssumption
  <1>3. ASSUME NEW r \in Rows, r \notin S
        PROVE  n[r] = q[r]
    BY <1>3 DEF Closed
  <1>4. \A r \in Rows : n[r] = None \/ (n[r] \in Row /\ Executed(r, n[r]))
    BY <1>2, <1>3 DEF QueueExecuted, Queue, Live
  <1>5. Live(n) = Live(q)
    BY <1>2, <1>3 DEF Live
  <1> SUFFICES QueueExecuted(n) /\ Live(n) = Live(q)
    OBVIOUS
  <1> HIDE DEF n
  <1> QED
    BY <1>1, <1>4, <1>5, QueueOfExecuted

(* The reviews of a block, and its parent if it has a child row. *)
LEMMA BlockIsClosable ==
    ASSUME NEW q, NEW b
    PROVE  /\ OpenReviews(q, b) \in SUBSET Live(q)
           /\ \A r \in OpenReviews(q, b) : ClosedByRule(MissionOf[r])
           /\ ChildRows(q, b) # {} =>
                 \A p : ParentRows(p, b) \subseteq Live(p)
                        /\ \A r \in ParentRows(p, b) : ClosedByRule(MissionOf[r])
  <1>1. /\ OpenReviews(q, b) \in SUBSET Live(q)
        /\ \A r \in OpenReviews(q, b) : ClosedByRule(MissionOf[r])
    BY DEF OpenReviews, PartRows, ChildRows, ClosedByRule
  <1>2. ASSUME NEW x \in ChildRows(q, b)
        PROVE  HasParts(b)
    <2>1. x \in Rows /\ Block[MissionOf[x]] = b /\ Part[MissionOf[x]] \in ChildParts
      BY DEF ChildRows, Live
    <2> QED
      BY <2>1, QueueAssumption DEF HasParts
  <1> QED
    BY <1>1, <1>2 DEF ParentRows, RowsOf, ClosedByRule

(* The closure after an update closes only rows it may close.              *)
LEMMA ClosuresExecuted ==
    ASSUME NEW q, QueueExecuted(q), NEW m, NEW n \in Closures(q, m)
    PROVE  QueueExecuted(n)
  <1> DEFINE b == Block[m]
             p == Closed(q, OpenReviews(q, b))
             S == {r \in ParentRows(p, b) : p[r].status # "done"}
  <1>1. CASE n = q
    BY <1>1
  <1>2. CASE n = ParentFinalized(p, b) /\ FourChildren(q, b)
    <2>1. QueueExecuted(p)
      BY BlockIsClosable, ClosedExecuted
    <2>2. ChildRows(q, b) # {}
      BY <1>2 DEF FourChildren
    <2>3. S \in SUBSET Live(p) /\ \A r \in S : ClosedByRule(MissionOf[r])
      BY <2>2, BlockIsClosable
    <2>4. QueueExecuted(Closed(p, S))
      BY <2>1, <2>3, ClosedExecuted
    <2> QED
      BY <1>2, <2>1, <2>4 DEF ParentFinalized
  <1> QED
    BY <1>1, <1>2 DEF Closures

(* So does the copy of the closure in the direct route.                    *)
LEMMA DirectClosuresExecuted ==
    ASSUME NEW q, QueueExecuted(q), NEW m, NEW n \in DirectClosures(q, m)
    PROVE  QueueExecuted(n)
  <1> DEFINE b == Block[m]
             p == Closed(q, OpenReviews(q, b))
  <1>1. CASE n = q
    BY <1>1
  <1>2. QueueExecuted(p) /\ Live(p) = Live(q)
    BY BlockIsClosable, ClosedExecuted
  <1>3. CASE n = p
    BY <1>2, <1>3
  <1>4. ASSUME NEW r \in ParentRows(q, b), n = Closed(p, {r}), FourChildren(q, b)
        PROVE  QueueExecuted(n)
    <2>1. ChildRows(q, b) # {}
      BY <1>4 DEF FourChildren
    <2>2. {r} \in SUBSET Live(p) /\ ClosedByRule(MissionOf[r])
      BY <1>2, <2>1, BlockIsClosable
    <2> QED
      BY <1>2, <1>4, <2>2, ClosedExecuted
  <1> QED
    BY <1>1, <1>3, <1>4 DEF DirectClosures

(* What the direct route writes over a queue. *)
LEMMA AnsweredExecuted ==
    ASSUME NEW x, QueueExecuted(x.q), x.session \in Sessions, x.agent \in Agents \cup {None},
           NEW finished, NEW n \in Answered(x, finished)
    PROVE  QueueExecuted(n)
  <1>1. PICK r \in RowsOf(x.q, x.mission) :
           n \in IF finished
             THEN DirectClosures(With(x.q, r, DirectDoneRow(x.q[r], x.session, x.agent)),
                                 x.mission)
             ELSE {With(x.q, r, NamedRow(x.q[r], x.session, x.agent))}
    BY DEF Answered
  <1>2. r \in Rows /\ x.q[r] \in Row
    BY LiveExecuted DEF RowsOf
  <1>3. /\ QueueExecuted(With(x.q, r, DirectDoneRow(x.q[r], x.session, x.agent)))
        /\ QueueExecuted(With(x.q, r, NamedRow(x.q[r], x.session, x.agent)))
    BY <1>2, NamedRowExecuted, WithExecuted
  <1> QED
    BY <1>1, <1>3, DirectClosuresExecuted

-----------------------------------------------------------------------------
(* Steps: the slot of the request that moves, and what it stores. *)

(* A slot whose handler has returned.                                      *)
LEMMA FinishedKnows ==
    ASSUME NEW reply \in Reply
    PROVE  SlotKnows([Blank EXCEPT !.reply = reply])
  <1> DEFINE x == [Blank EXCEPT !.reply = reply]
  <1>1. x \in Slot
    BY BlankOK DEF Slot, Reply
  <1>2. x.q = EmptyQueue /\ x.t = EmptySessions /\ x.pc = "idle"
    BY DEF Blank
  <1> HIDE DEF x
  <1>3. SlotKnows(x)
    BY <1>1, <1>2, EmptyExecuted, EmptySessionsOK DEF SlotKnows, RowPc, DirectPc
  <1> QED
    BY <1>3 DEF x

(* A step is good when the slot it leaves and the snapshots it stores are. *)
LEMMA StepKeepsHub ==
    ASSUME HubInv, NEW i \in Requests, NEW x, Goto(i, x), SlotKnows(x),
           jobs' \subseteq Rows \X Jobs,
           QueueExecuted(queue'), TableOK(sessions'),
           agents' \in Registry, board' \subseteq Missions,
           minted' \subseteq Rows \cup Sessions
    PROVE  HubInv'
  <1>1. x \in Slot
    BY DEF SlotKnows
  <1>2. req' \in [Requests -> Slot]
    BY <1>1 DEF HubInv, TypeOK, Goto
  <1>3. TypeOK'
    BY <1>2 DEF TypeOK, QueueExecuted, TableOK
  <1>4. ASSUME NEW j \in Requests
        PROVE  SlotKnows(req'[j])
    BY DEF HubInv, TypeOK, Goto
  <1> QED
    BY <1>3, <1>4 DEF HubInv

(* A step that stores nothing needs a good slot only.                      *)
LEMMA QuietStepKeepsHub ==
    ASSUME HubInv, NEW i \in Requests, NEW x, Goto(i, x), SlotKnows(x),
           UNCHANGED <<store, jobs>>, minted' \subseteq Rows \cup Sessions
    PROVE  HubInv'
  <1>1. /\ queue' = queue /\ agents' = agents /\ sessions' = sessions
        /\ board' = board /\ jobs' = jobs
    BY DEF store
  <1> QED
    BY <1>1, StepKeepsHub DEF HubInv, TypeOK

(* What a load brings is good, a failed load too.                          *)
LEMMA LoadedGood ==
    ASSUME HubInv
    PROVE  /\ \A q \in Loaded(queue, EmptyQueue) : QueueExecuted(q)
           /\ \A t \in Loaded(sessions, EmptySessions) : TableOK(t)
           /\ \A g \in Loaded(agents, EmptyRegistry) : g \in Registry
           /\ \A b \in Loaded(board, {}) : b \subseteq Missions
  BY EmptyExecuted, EmptySessionsOK, EmptyRegistryOK DEF Loaded, HubInv, TypeOK

(* Returning, after a save,                                                *)
LEMMA FinishKeepsHub ==
    ASSUME HubInv, NEW i \in Requests, NEW reply \in Reply, Finish(i, reply),
           jobs' \subseteq Rows \X Jobs,
           QueueExecuted(queue'), TableOK(sessions'),
           agents' \in Registry, board' \subseteq Missions,
           minted' \subseteq Rows \cup Sessions
    PROVE  HubInv'
  BY FinishedKnows, StepKeepsHub DEF Finish

(* or without one.                                                         *)
LEMMA QuietFinishKeepsHub ==
    ASSUME HubInv, NEW i \in Requests, NEW reply \in Reply, Finish(i, reply),
           UNCHANGED <<store, minted, jobs>>
    PROVE  HubInv'
  BY FinishedKnows, QuietStepKeepsHub DEF Finish, HubInv, TypeOK

(* Slots that carry a copy to its save. *)
LEMMA QueueSaveKnows ==
    ASSUME NEW q, QueueExecuted(q), NEW op \in Op
    PROVE  SlotKnows([Blank EXCEPT !.pc = "queueSave", !.op = op, !.q = q])
  <1> DEFINE x == [Blank EXCEPT !.pc = "queueSave", !.op = op, !.q = q]
  <1>1. x \in Slot
    BY ZenonT(60), BlankOK DEF Slot, Pc, QueueExecuted
  <1>2. x.q = q /\ x.t = EmptySessions /\ x.pc = "queueSave"
    BY DEF Blank
  <1> HIDE DEF x
  <1>3. SlotKnows(x)
    BY <1>1, <1>2, EmptySessionsOK DEF SlotKnows, RowPc, DirectPc
  <1> QED
    BY <1>3 DEF x

(* And slots that carry a table to its save.                               *)
LEMMA SaveTableKnows ==
    ASSUME NEW t, TableOK(t), NEW op \in Op, NEW s \in Sessions
    PROVE  SlotKnows([Blank EXCEPT !.pc = "sessionsSave", !.op = op, !.session = s, !.t = t])
  <1> DEFINE x == [Blank EXCEPT !.pc = "sessionsSave", !.op = op, !.session = s, !.t = t]
  <1>1. x \in Slot
    BY ZenonT(60), BlankOK DEF Slot, Pc, TableOK
  <1>2. x.t = t /\ x.q = EmptyQueue /\ x.pc = "sessionsSave"
    BY DEF Blank
  <1> HIDE DEF x
  <1>3. SlotKnows(x)
    BY <1>1, <1>2, EmptyExecuted DEF SlotKnows, RowPc, DirectPc
  <1> QED
    BY <1>3 DEF x

-----------------------------------------------------------------------------
(* The queue route. *)

(* Created rows wait and are new.                                          *)
LEMMA CreateRowsKeepsHub ==
    ASSUME HubInv, NEW i \in Requests, CreateRows(i)
    PROVE  HubInv'
  <1>1. PICK q \in Loaded(queue, EmptyQueue), m \in Missions :
        \E S \in SUBSET {r \in Rows \ minted : MissionOf[r] = m} :
        \E who \in [S -> Asked], agent \in [S -> Agents \cup {None}] :
           /\ minted' = minted \cup S
           /\ Goto(i, [Blank EXCEPT !.pc = "queueSave", !.op = "create",
                                    !.q = Added(q, S, who, agent)])
    BY DEF CreateRows
  <1>2. PICK S \in SUBSET {r \in Rows \ minted : MissionOf[r] = m} :
        \E who \in [S -> Asked], agent \in [S -> Agents \cup {None}] :
           /\ minted' = minted \cup S
           /\ Goto(i, [Blank EXCEPT !.pc = "queueSave", !.op = "create",
                                    !.q = Added(q, S, who, agent)])
    BY <1>1
  <1>3. PICK who \in [S -> Asked], agent \in [S -> Agents \cup {None}] :
           /\ minted' = minted \cup S
           /\ Goto(i, [Blank EXCEPT !.pc = "queueSave", !.op = "create",
                                    !.q = Added(q, S, who, agent)])
    BY <1>2
  <1>4. who \in [S -> Assignee]
    BY StoreAssumption
  <1>5. QueueExecuted(Added(q, S, who, agent))
    BY <1>4, LoadedGood, AddedExecuted
  <1>6. SlotKnows([Blank EXCEPT !.pc = "queueSave", !.op = "create",
                             !.q = Added(q, S, who, agent)])
    BY <1>5, QueueSaveKnows DEF Op
  <1>7. minted' \subseteq Rows \cup Sessions
    BY <1>3 DEF HubInv, TypeOK
  <1> QED
    BY <1>3, <1>6, <1>7, QuietStepKeepsHub DEF CreateRows

(* Removing rows, or clearing, leaves the others as they were.             *)
LEMMA RemoveRowsKeepsHub ==
    ASSUME HubInv, NEW i \in Requests, RemoveRows(i)
    PROVE  HubInv'
  <1>1. PICK q \in Loaded(queue, EmptyQueue) : \E S :
           Goto(i, [Blank EXCEPT !.pc = "queueSave", !.op = "remove",
                                 !.q = Without(q, S)])
    BY DEF RemoveRows
  <1>2. PICK S :
           Goto(i, [Blank EXCEPT !.pc = "queueSave", !.op = "remove",
                                 !.q = Without(q, S)])
    BY <1>1
  <1>3. SlotKnows([Blank EXCEPT !.pc = "queueSave", !.op = "remove",
                             !.q = Without(q, S)])
    BY LoadedGood, WithoutExecuted, QueueSaveKnows DEF Op
  <1> QED
    BY <1>2, <1>3, QuietStepKeepsHub DEF RemoveRows, HubInv, TypeOK

(* Whatever became of the queue meanwhile, the copy saved is well formed.  *)
LEMMA SaveQueueKeepsHub ==
    ASSUME HubInv, NEW i \in Requests, SaveQueue(i)
    PROVE  HubInv'
  <1>1. PICK result \in SaveResults :
           queue' = Stored(result, queue, req[i].q) /\ Finish(i, Answer(result))
    BY DEF SaveQueue
  <1>2. QueueExecuted(queue')
    BY <1>1 DEF Stored, HubInv, SlotKnows, RowPc, DirectPc
  <1>3. Answer(result) \in Reply
    BY DEF Answer, Reply
  <1> QED
    BY <1>1, <1>2, <1>3, FinishKeepsHub DEF SaveQueue, HubInv, TypeOK

(* An update loads its copy and knows its row is in it.                    *)
LEMMA UpdateStatusKeepsHub ==
    ASSUME HubInv, NEW i \in Requests, UpdateStatus(i)
    PROVE  HubInv'
  <1>1. PICK q \in Loaded(queue, EmptyQueue), r \in Rows :
          IF r \in Live(q)
            THEN Goto(i, [Blank EXCEPT !.pc = "decide", !.op = "update",
                                       !.row = r, !.q = q])
            ELSE Finish(i, "refused")
    BY DEF UpdateStatus
  <1>2. CASE r \in Live(q)
    <2> DEFINE x == [Blank EXCEPT !.pc = "decide", !.op = "update", !.row = r, !.q = q]
    <2>1. QueueExecuted(q)
      BY LoadedGood
    <2>2. x \in Slot
      BY ZenonT(60), <2>1, BlankOK DEF Slot, Pc, Op, QueueExecuted
    <2>3. x.q = q /\ x.t = EmptySessions /\ x.pc = "decide" /\ x.row = r
      BY DEF Blank
    <2>4. Goto(i, x)
      BY <1>1, <1>2
    <2> HIDE DEF x
    <2>5. SlotKnows(x)
      BY <1>2, <2>1, <2>2, <2>3, EmptySessionsOK DEF SlotKnows, RowPc, DirectPc
    <2> QED
      BY <2>4, <2>5, QuietStepKeepsHub DEF UpdateStatus, HubInv, TypeOK
  <1>3. CASE r \notin Live(q)
    BY <1>1, <1>3, QuietFinishKeepsHub DEF UpdateStatus, Reply
  <1> QED
    BY <1>2, <1>3

(* Past the lookup, the row at work is live in the copy, and good. *)
LEMMA CurrentKnows ==
    ASSUME HubInv, NEW i \in Requests,
           req[i].pc \in {"decide", "unload", "dispatch", "bump", "claim", "bind"}
    PROVE  /\ req[i] \in Slot /\ QueueExecuted(req[i].q) /\ TableOK(req[i].t)
           /\ req[i].row \in Rows /\ req[i].row \in Live(req[i].q)
           /\ Current(i) \in Row /\ Executed(req[i].row, Current(i))
  <1>1. SlotKnows(req[i])
    BY DEF HubInv
  <1>2. QueueExecuted(req[i].q) /\ req[i].row \in Live(req[i].q)
    BY <1>1 DEF SlotKnows, RowPc, DirectPc
  <1> QED
    BY <1>1, <1>2, LiveExecuted DEF SlotKnows, RowPc, DirectPc, Current

(* Committing a good row yields a slot that may save. *)
LEMMA CommitKeepsHub ==
    ASSUME HubInv, NEW i \in Requests,
           req[i].pc \in {"decide", "unload", "dispatch", "bump", "claim", "bind"},
           NEW row \in Row, Executed(req[i].row, row), Commit(i, row),
           queue' = queue, board' = board, minted' = minted, jobs' = jobs,
           agents' \in Registry, TableOK(sessions')
    PROVE  HubInv'
  <1> DEFINE w == With(req[i].q, req[i].row, row)
             m == MissionOf[req[i].row]
             pc == IF row.status = "done" THEN "boardLoad" ELSE "queueSave"
  <1>1. PICK q \in Closures(w, m) :
           Goto(i, [Blank EXCEPT !.op = "update", !.row = req[i].row, !.q = q, !.pc = pc])
    BY DEF Commit
  <1>2. QueueExecuted(w)
    BY CurrentKnows, WithExecuted
  <1>3. QueueExecuted(q)
    BY <1>2, ClosuresExecuted
  <1>4. pc \in {"boardLoad", "queueSave"}
    OBVIOUS
  <1> HIDE DEF pc
  <1> DEFINE x == [Blank EXCEPT !.op = "update", !.row = req[i].row, !.q = q, !.pc = pc]
  <1>5. req[i].row \in Rows
    BY CurrentKnows
  <1>6. x \in Slot
    BY ZenonT(60), <1>3, <1>5, <1>4, BlankOK DEF Slot, Pc, Op, QueueExecuted
  <1>7. x.q = q /\ x.t = EmptySessions /\ x.pc \in {"boardLoad", "queueSave"} /\ x.row \in Rows
    BY <1>5, <1>4 DEF Blank
  <1>8. Goto(i, x)
    BY <1>1
  <1> HIDE DEF x
  <1>9. SlotKnows(x)
    BY <1>3, <1>6, <1>7, EmptySessionsOK DEF SlotKnows, RowPc, DirectPc
  <1> QED
    BY <1>8, <1>9, StepKeepsHub DEF HubInv, TypeOK

(* A row at the gate is given to a worker or to staff, or stays there.     *)
LEMMA DecideGateKeepsHub ==
    ASSUME HubInv, NEW i \in Requests, DecideGate(i)
    PROVE  HubInv'
  <1> DEFINE row == Current(i)
  <1>1. PICK g \in Loaded(agents, EmptyRegistry) : \E up \in SUBSET Registered(g) :
           /\ AgentsLoaded(i, g, up)
           /\ \/ Commit(i, FallbackRow(row))
              \/ \E who \in Asked \ {"STAFF"}, agent \in Agents \cup {None} :
                    Commit(i, BoundRow(row, who, agent))
              \/ Finish(i, "refused")
    BY DEF DecideGate
  <1>2. req[i].pc = "decide" /\ UNCHANGED <<store, minted, jobs>>
    BY <1>1 DEF AgentsLoaded, At
  <1>3. /\ queue' = queue /\ board' = board /\ minted' = minted /\ jobs' = jobs
        /\ agents' \in Registry /\ TableOK(sessions')
    BY <1>2 DEF store, HubInv, TypeOK
  <1>4. row \in Row /\ Executed(req[i].row, row) /\ req[i].row \in Rows
    BY <1>2, CurrentKnows
  <1>5. CASE Commit(i, FallbackRow(row))
    <2>1. FallbackRow(row) \in Row /\ Executed(req[i].row, FallbackRow(row))
      BY <1>4, FallbackRowExecuted
    <2> QED
      BY <1>2, <1>3, <1>5, <2>1, CommitKeepsHub
  <1>6. ASSUME NEW who \in Asked, NEW agent \in Agents \cup {None},
               Commit(i, BoundRow(row, who, agent))
        PROVE  HubInv'
    <2>1. who \in Assignee
      BY StoreAssumption
    <2>2. /\ BoundRow(row, who, agent) \in Row
          /\ Executed(req[i].row, BoundRow(row, who, agent))
      BY <1>4, <2>1, BoundRowExecuted
    <2> QED
      BY <1>2, <1>3, <1>6, <2>2, CommitKeepsHub
  <1>7. CASE Finish(i, "refused")
    BY <1>2, <1>7, QuietFinishKeepsHub DEF Reply
  <1> QED
    BY <1>1, <1>5, <1>6, <1>7

(* A running row that is asked to run is only synchronized.                *)
LEMMA DecideSyncKeepsHub ==
    ASSUME HubInv, NEW i \in Requests, DecideSync(i)
    PROVE  HubInv'
  <1> DEFINE row == Current(i)
  <1>1. PICK g \in Loaded(agents, EmptyRegistry) : \E up \in SUBSET Registered(g) :
           /\ AgentsLoaded(i, g, up)
           /\ Commit(i, SyncedRow(row)) \/ Finish(i, "refused")
    BY DEF DecideSync
  <1>2. req[i].pc = "decide" /\ UNCHANGED <<store, minted, jobs>>
    BY <1>1 DEF AgentsLoaded, At
  <1>3. /\ queue' = queue /\ board' = board /\ minted' = minted /\ jobs' = jobs
        /\ agents' \in Registry /\ TableOK(sessions')
    BY <1>2 DEF store, HubInv, TypeOK
  <1>4. SyncedRow(row) \in Row /\ Executed(req[i].row, SyncedRow(row))
    BY <1>2, CurrentKnows, SyncedRowExecuted
  <1>5. CASE Commit(i, SyncedRow(row))
    BY <1>2, <1>3, <1>4, <1>5, CommitKeepsHub
  <1>6. CASE Finish(i, "refused")
    BY <1>2, <1>6, QuietFinishKeepsHub DEF Reply
  <1> QED
    BY <1>1, <1>5, <1>6

(* A start chooses a registered agent.                                     *)
LEMMA DecideStartKeepsHub ==
    ASSUME HubInv, NEW i \in Requests, DecideStart(i)
    PROVE  HubInv'
  <1>1. PICK g \in Loaded(agents, EmptyRegistry) : \E up \in SUBSET Registered(g) :
           /\ AgentsLoaded(i, g, up)
           /\ \/ \E a \in StartAgents(g, up, Current(i).assignee) :
                    Goto(i, [req[i] EXCEPT !.pc = "dispatch", !.g = g, !.agent = a])
              \/ Finish(i, "refused")
    BY DEF DecideStart
  <1>2. PICK up \in SUBSET Registered(g) :
           /\ AgentsLoaded(i, g, up)
           /\ \/ \E a \in StartAgents(g, up, Current(i).assignee) :
                    Goto(i, [req[i] EXCEPT !.pc = "dispatch", !.g = g, !.agent = a])
              \/ Finish(i, "refused")
    BY <1>1
  <1>3. req[i].pc = "decide" /\ UNCHANGED <<store, minted, jobs>>
    BY <1>2 DEF AgentsLoaded, At
  <1>4. ASSUME NEW a \in StartAgents(g, up, Current(i).assignee),
               Goto(i, [req[i] EXCEPT !.pc = "dispatch", !.g = g, !.agent = a])
        PROVE  HubInv'
    <2> DEFINE x == [req[i] EXCEPT !.pc = "dispatch", !.g = g, !.agent = a]
    <2>1. a \in Registered(g) \cup {None} /\ Registered(g) \subseteq Agents
      BY DEF StartAgents, Registered
    <2>2. g \in Registry
      BY LoadedGood
    <2>3. /\ req[i] \in Slot /\ req[i].row \in Live(req[i].q)
          /\ QueueExecuted(req[i].q) /\ TableOK(req[i].t)
      BY <1>3, CurrentKnows
    <2>4. x \in Slot
      BY ZenonT(60), <2>1, <2>2, <2>3 DEF Slot, Pc
    <2>5. /\ x.pc = "dispatch" /\ x.g = g /\ x.agent = a
          /\ x.q = req[i].q /\ x.t = req[i].t /\ x.row = req[i].row
      BY <2>3 DEF Slot
    <2> HIDE DEF x
    <2>6. SlotKnows(x)
      BY <2>1, <2>3, <2>4, <2>5 DEF SlotKnows, RowPc, DirectPc
    <2>7. Goto(i, x)
      BY <1>4 DEF x
    <2> QED
      BY <1>3, <2>6, <2>7, QuietStepKeepsHub DEF HubInv, TypeOK
  <1>5. CASE Finish(i, "refused")
    BY <1>3, <1>5, QuietFinishKeepsHub DEF Reply
  <1> QED
    BY <1>2, <1>4, <1>5

(* Any other update moves the row, a done only from a running one.         *)
LEMMA DecideMoveKeepsHub ==
    ASSUME HubInv, NEW i \in Requests, DecideMove(i)
    PROVE  HubInv'
  <1> DEFINE row == Current(i)
  <1>1. PICK g \in Loaded(agents, EmptyRegistry), next \in QueueStatus \ {"in_progress"} :
           /\ AgentsLoaded(i, g, {})
           /\ \/ \E released \in Releases(g, row) :
                    Goto(i, [req[i] EXCEPT !.pc = "unload", !.g = released,
                                           !.status = next])
              \/ Finish(i, "refused")
              \/ next # "done" /\ Commit(i, MovedRow(row, next))
    BY DEF DecideMove
  <1>2. req[i].pc = "decide" /\ UNCHANGED <<store, minted, jobs>>
    BY <1>1 DEF AgentsLoaded, At
  <1>3. ASSUME NEW released \in Releases(g, row),
               Goto(i, [req[i] EXCEPT !.pc = "unload", !.g = released, !.status = next])
        PROVE  HubInv'
    <2> DEFINE x == [req[i] EXCEPT !.pc = "unload", !.g = released, !.status = next]
    <2>1. released \in Registry
      BY LoadedGood, ReleasesOK
    <2>2. /\ req[i] \in Slot /\ req[i].row \in Live(req[i].q)
          /\ QueueExecuted(req[i].q) /\ TableOK(req[i].t)
      BY <1>2, CurrentKnows
    <2>3. x \in Slot
      BY ZenonT(60), <2>1, <2>2 DEF Slot, Pc
    <2>4. /\ x.pc = "unload" /\ x.status = next
          /\ x.q = req[i].q /\ x.t = req[i].t /\ x.row = req[i].row
      BY <2>2 DEF Slot
    <2> HIDE DEF x
    <2>5. SlotKnows(x)
      BY <2>2, <2>3, <2>4 DEF SlotKnows, RowPc, DirectPc
    <2>6. Goto(i, x)
      BY <1>3 DEF x
    <2> QED
      BY <1>2, <2>5, <2>6, QuietStepKeepsHub DEF HubInv, TypeOK
  <1>4. CASE Finish(i, "refused")
    BY <1>2, <1>4, QuietFinishKeepsHub DEF Reply
  <1>5. CASE next # "done" /\ Commit(i, MovedRow(row, next))
    <2>1. MovedRow(row, next) \in Row /\ Executed(req[i].row, MovedRow(row, next))
      BY <1>2, <1>5, CurrentKnows, MovedRowExecuted
    <2>2. /\ queue' = queue /\ board' = board /\ minted' = minted /\ jobs' = jobs
          /\ agents' \in Registry /\ TableOK(sessions')
      BY <1>2 DEF store, HubInv, TypeOK
    <2> QED
      BY <1>2, <1>5, <2>1, <2>2, CommitKeepsHub
  <1> QED
    BY <1>1, <1>3, <1>4, <1>5

(* The load of a row that stops is released.                               *)
LEMMA SaveUnloadKeepsHub ==
    ASSUME HubInv, NEW i \in Requests, SaveUnload(i)
    PROVE  HubInv'
  <1> DEFINE row == Current(i)
  <1>1. req[i].pc = "unload" /\ UNCHANGED <<queue, sessions, board, minted, jobs>>
    BY DEF SaveUnload, At
  <1>2. /\ req[i] \in Slot /\ row \in Row /\ Executed(req[i].row, row)
        /\ req[i].row \in Rows
    BY <1>1, CurrentKnows
  <1>3. req[i].status \in QueueStatus \ {"in_progress"}
    BY <1>1 DEF HubInv, SlotKnows, RowPc, DirectPc
  <1>4. agents' \in Registry
    BY <1>2 DEF SaveUnload, Stored, HubInv, TypeOK, Slot
  <1>5. TableOK(sessions')
    BY <1>1 DEF HubInv
  <1>6. CASE Finish(i, "refused")
    BY <1>1, <1>4, <1>5, <1>6, FinishKeepsHub DEF HubInv, TypeOK, Reply
  <1>7. CASE row.status = "in_progress" /\ Commit(i, DoneRow(row))
    <2>1. DoneRow(row) \in Row /\ Executed(req[i].row, DoneRow(row))
      BY <1>2, <1>7, DoneRowExecuted
    <2> QED
      BY <1>1, <1>4, <1>5, <1>7, <2>1, CommitKeepsHub
  <1>8. CASE req[i].status # "done" /\ Commit(i, MovedRow(row, req[i].status))
    <2>1. /\ MovedRow(row, req[i].status) \in Row
          /\ Executed(req[i].row, MovedRow(row, req[i].status))
      BY <1>2, <1>3, <1>8, MovedRowExecuted
    <2> QED
      BY <1>1, <1>4, <1>5, <1>8, <2>1, CommitKeepsHub
  <1> QED
    BY <1>6, <1>7, <1>8 DEF SaveUnload, ValidTransition

(* The board is loaded,                                                    *)
LEMMA LoadBoardKeepsHub ==
    ASSUME HubInv, NEW i \in Requests, LoadBoard(i)
    PROVE  HubInv'
  <1>1. PICK b \in Loaded(board, {}) :
           Goto(i, [req[i] EXCEPT !.pc = "boardSave",
                                  !.b = b \cup {MissionOf[req[i].row]}])
    BY DEF LoadBoard
  <1> DEFINE x == [req[i] EXCEPT !.pc = "boardSave", !.b = b \cup {MissionOf[req[i].row]}]
  <1>2. SlotKnows(req[i]) /\ req[i] \in Slot /\ req[i].row \in Rows
    BY DEF LoadBoard, At, HubInv, SlotKnows, RowPc, DirectPc
  <1>3. b \cup {MissionOf[req[i].row]} \subseteq Missions
    BY <1>2, LoadedGood, QueueAssumption
  <1>4. x \in Slot
    BY ZenonT(60), <1>2, <1>3 DEF Slot, Pc
  <1>5. x.pc = "boardSave" /\ x.q = req[i].q /\ x.t = req[i].t /\ x.row = req[i].row
    BY <1>2 DEF Slot
  <1> HIDE DEF x
  <1>6. SlotKnows(x)
    BY <1>2, <1>4, <1>5 DEF SlotKnows, RowPc, DirectPc
  <1>7. Goto(i, x)
    BY <1>1 DEF x
  <1> QED
    BY <1>6, <1>7, QuietStepKeepsHub DEF LoadBoard, HubInv, TypeOK

(* and saved.                                                              *)
LEMMA SaveBoardKeepsHub ==
    ASSUME HubInv, NEW i \in Requests, SaveBoard(i)
    PROVE  HubInv'
  <1> DEFINE x == [req[i] EXCEPT !.pc = "queueSave", !.b = {}]
  <1>1. SlotKnows(req[i]) /\ req[i] \in Slot
    BY DEF HubInv, SlotKnows, RowPc, DirectPc
  <1>2. x \in Slot
    BY ZenonT(60), <1>1 DEF Slot, Pc
  <1>3. x.pc = "queueSave" /\ x.q = req[i].q /\ x.t = req[i].t
    BY <1>1 DEF Slot
  <1>4. Goto(i, x)
    BY DEF SaveBoard
  <1> HIDE DEF x
  <1>5. SlotKnows(x)
    BY <1>1, <1>2, <1>3 DEF SlotKnows, RowPc, DirectPc
  <1>6. board' \subseteq Missions
    BY <1>1 DEF SaveBoard, Stored, HubInv, TypeOK, Slot
  <1> QED
    BY <1>4, <1>5, <1>6, StepKeepsHub DEF SaveBoard, HubInv, TypeOK

(* The job a worker takes a start as is noted; the answer may never arrive. *)
LEMMA DispatchKeepsHub ==
    ASSUME HubInv, NEW i \in Requests, Dispatch(i)
    PROVE  HubInv'
  <1>1. req[i].pc = "dispatch" /\ UNCHANGED <<store, minted>>
    BY DEF Dispatch, At
  <1>2. /\ req[i] \in Slot /\ req[i].row \in Live(req[i].q) /\ req[i].row \in Rows
        /\ QueueExecuted(req[i].q) /\ TableOK(req[i].t)
        /\ req[i].agent \in Registered(req[i].g) \cup {None}
    BY <1>1, CurrentKnows DEF HubInv, SlotKnows
  <1>3. /\ QueueExecuted(queue') /\ TableOK(sessions') /\ jobs' \subseteq Rows \X Jobs
        /\ agents' \in Registry /\ board' \subseteq Missions
        /\ minted' \subseteq Rows \cup Sessions
    <2>1. /\ queue' = queue /\ sessions' = sessions /\ agents' = agents
          /\ board' = board /\ minted' = minted
      BY <1>1 DEF store
    <2>2. jobs' \subseteq Rows \X Jobs
      <3>1. jobs' = jobs \/ \E j \in Jobs : jobs' = jobs \cup {<<req[i].row, j>>}
        BY DEF Dispatch, JobsFor
      <3> QED
        BY <1>2, <3>1 DEF HubInv, TypeOK
    <2> QED
      BY <2>1, <2>2 DEF HubInv, TypeOK
  <1>4. ASSUME NEW j \in Jobs, NEW pc \in {"claim", "bump"},
               pc = "bump" => req[i].agent # None,
               Goto(i, [req[i] EXCEPT !.pc = pc, !.job = j])
        PROVE  HubInv'
    <2> DEFINE x == [req[i] EXCEPT !.pc = pc, !.job = j]
    <2>1. x \in Slot
      BY ZenonT(60), <1>2 DEF Slot, Pc
    <2>2. /\ x.pc = pc /\ x.job = j /\ x.agent = req[i].agent /\ x.g = req[i].g
          /\ x.q = req[i].q /\ x.t = req[i].t /\ x.row = req[i].row
      BY <1>2 DEF Slot
    <2>3. Goto(i, x)
      BY <1>4
    <2> HIDE DEF x
    <2>4. SlotKnows(x)
      BY <1>2, <1>4, <2>1, <2>2 DEF SlotKnows, RowPc, DirectPc
    <2> QED
      BY <1>3, <2>3, <2>4, StepKeepsHub
  <1>5. CASE Finish(i, "refused")
    BY <1>3, <1>5, FinishKeepsHub DEF Reply
  <1>6. \/ \E j \in Jobs :
              Goto(i, [req[i] EXCEPT !.pc = IF req[i].agent = None THEN "claim" ELSE "bump",
                                     !.job = j])
        \/ Finish(i, "refused")
    BY DEF Dispatch, JobsFor
  <1>7. ASSUME NEW j \in Jobs,
               Goto(i, [req[i] EXCEPT !.pc = IF req[i].agent = None THEN "claim" ELSE "bump",
                                      !.job = j])
        PROVE  HubInv'
    <2>1. CASE req[i].agent = None
      <3>1. Goto(i, [req[i] EXCEPT !.pc = "claim", !.job = j])
        BY <1>7, <2>1
      <3> QED
        BY <1>4, <3>1
    <2>2. CASE req[i].agent # None
      <3>1. Goto(i, [req[i] EXCEPT !.pc = "bump", !.job = j])
        BY <1>7, <2>2
      <3> QED
        BY <1>4, <2>2, <3>1
    <2> QED
      BY <2>1, <2>2
  <1> QED
    BY <1>5, <1>6, <1>7

(* The load raised for a start is saved.                                   *)
LEMMA SaveBumpKeepsHub ==
    ASSUME HubInv, NEW i \in Requests, SaveBump(i)
    PROVE  HubInv'
  <1> DEFINE x == [req[i] EXCEPT !.pc = "claim", !.g = EmptyRegistry, !.agent = None]
  <1>1. SlotKnows(req[i]) /\ req[i].pc = "bump" /\ req[i] \in Slot
    BY DEF SaveBump, At, HubInv, SlotKnows, RowPc, DirectPc
  <1>2. x \in Slot
    BY ZenonT(60), <1>1, EmptyRegistryOK DEF Slot, Pc
  <1>3. /\ x.pc = "claim" /\ x.q = req[i].q /\ x.t = req[i].t
        /\ x.row = req[i].row /\ x.job = req[i].job
    BY <1>1 DEF Slot
  <1>4. Goto(i, x)
    BY DEF SaveBump
  <1> HIDE DEF x
  <1>5. SlotKnows(x)
    BY <1>1, <1>2, <1>3 DEF SlotKnows, RowPc, DirectPc
  <1>6. agents' \in Registry
    <2>1. Bumped(req[i].g, req[i].agent) \in Registry
      BY <1>1, BumpedOK DEF SlotKnows, RowPc, DirectPc, Slot
    <2> QED
      BY <2>1 DEF SaveBump, Stored, HubInv, TypeOK
  <1> QED
    BY <1>4, <1>5, <1>6, StepKeepsHub DEF SaveBump, HubInv, TypeOK

(* A start claims a session and binds it in its copy of the table.         *)
LEMMA ClaimSessionKeepsHub ==
    ASSUME HubInv, NEW i \in Requests, ClaimSession(i)
    PROVE  HubInv'
  <1> DEFINE m == MissionOf[req[i].row]
  <1>1. PICK t \in Loaded(sessions, EmptySessions) :
           \/ Finish(i, "refused")
           \/ \E s \in StartSessions(t, req[i].row, Current(i)) :
                 Goto(i, [req[i] EXCEPT
                            !.pc = "bind", !.session = s, !.g = EmptyRegistry,
                            !.t = Set(t, s, SessionOn(m, "busy"))])
    BY DEF ClaimSession
  <1>2. req[i].pc = "claim" /\ UNCHANGED <<store, minted, jobs>>
    BY DEF ClaimSession, At
  <1>3. /\ req[i] \in Slot /\ req[i].row \in Live(req[i].q) /\ m \in Missions
        /\ QueueExecuted(req[i].q)
        /\ req[i].job \in Jobs
    BY <1>2, CurrentKnows, QueueAssumption DEF HubInv, SlotKnows, RowPc, DirectPc
  <1>4. ASSUME NEW s \in StartSessions(t, req[i].row, Current(i)),
               Goto(i, [req[i] EXCEPT
                            !.pc = "bind", !.session = s, !.g = EmptyRegistry,
                            !.t = Set(t, s, SessionOn(m, "busy"))])
        PROVE  HubInv'
    <2> DEFINE u == Set(t, s, SessionOn(m, "busy"))
    <2>1. s \in Sessions
      BY StartSessionKnown
    <2>2. TableOK(u)
      BY <1>3, <2>1, LoadedGood, SetOnOK
    <2>3. Goto(i, [req[i] EXCEPT !.pc = "bind", !.session = s, !.g = EmptyRegistry,
                                 !.t = u])
      BY <1>4
    <2> HIDE DEF u
    <2> DEFINE x == [req[i] EXCEPT !.pc = "bind", !.session = s, !.g = EmptyRegistry,
                                   !.t = u]
    <2>4. x \in Slot
      BY ZenonT(60), <1>3, <2>1, <2>2, EmptyRegistryOK DEF Slot, Pc, TableOK
    <2>5. /\ x.pc = "bind" /\ x.q = req[i].q /\ x.t = u
          /\ x.row = req[i].row /\ x.job = req[i].job /\ x.session = s
      BY <1>3 DEF Slot
    <2> HIDE DEF x
    <2>6. SlotKnows(x)
      BY <1>3, <2>1, <2>2, <2>4, <2>5 DEF SlotKnows, RowPc, DirectPc
    <2>7. Goto(i, x)
      BY <2>3 DEF x
    <2> QED
      BY <1>2, <2>6, <2>7, QuietStepKeepsHub DEF HubInv, TypeOK
  <1>5. CASE Finish(i, "refused")
    BY <1>2, <1>5, QuietFinishKeepsHub DEF Reply
  <1> QED
    BY <1>1, <1>4, <1>5

(* The started row names the session, its agent and the job taken for it.  *)
LEMMA BindSessionKeepsHub ==
    ASSUME HubInv, NEW i \in Requests, BindSession(i)
    PROVE  HubInv'
  <1> DEFINE agent == SessionAgent[req[i].session]
             row == StartedRow(Current(i), req[i].job, req[i].session, agent)
  <1>1. req[i].pc = "bind" /\ UNCHANGED <<queue, agents, board, minted, jobs>>
    BY DEF BindSession, At
  <1>2. /\ req[i].session \in Sessions /\ req[i].job \in Jobs
       
        /\ Current(i) \in Row /\ req[i].row \in Rows /\ TableOK(req[i].t)
    BY <1>1, CurrentKnows DEF HubInv, SlotKnows, RowPc, DirectPc
  <1>3. row \in Row /\ Executed(req[i].row, row)
    BY <1>2, StartedRowExecuted, SessionAssumption
  <1>4. TableOK(sessions')
    BY <1>2 DEF BindSession, Stored, HubInv
  <1>5. Commit(i, row) \/ Finish(i, "failed")
    BY DEF BindSession
  <1> HIDE DEF row
  <1>6. CASE Commit(i, row)
    BY <1>1, <1>3, <1>4, <1>6, CommitKeepsHub DEF HubInv, TypeOK
  <1>7. CASE Finish(i, "failed")
    BY <1>1, <1>4, <1>7, FinishKeepsHub DEF HubInv, TypeOK, Reply
  <1> QED
    BY <1>5, <1>6, <1>7

(* All steps of the queue route together.                                  *)
LEMMA QueueRouteKeepsHub ==
    ASSUME HubInv, NEW i \in Requests, QueueNext(i)
    PROVE  HubInv'
  BY CreateRowsKeepsHub, RemoveRowsKeepsHub, SaveQueueKeepsHub, UpdateStatusKeepsHub,
     DecideGateKeepsHub, DecideSyncKeepsHub, DecideStartKeepsHub, DecideMoveKeepsHub,
     SaveUnloadKeepsHub, LoadBoardKeepsHub, SaveBoardKeepsHub, DispatchKeepsHub,
     SaveBumpKeepsHub, ClaimSessionKeepsHub, BindSessionKeepsHub
  DEF QueueNext

-----------------------------------------------------------------------------
(* The routes of sessions and execution events. *)

(* A handler that loads the table, changes one session and goes to its save. *)
LEMMA SaveTableKeepsHub ==
    ASSUME HubInv, NEW i \in Requests, NEW op \in Op, NEW s \in Sessions, NEW x, NEW t,
           TableOK(Set(t, s, x)), SaveTable(i, op, s, x, t),
           UNCHANGED <<store, jobs>>, minted' \subseteq Rows \cup Sessions
    PROVE  HubInv'
  <1> DEFINE u == Set(t, s, x)
  <1>1. SlotKnows([Blank EXCEPT !.pc = "sessionsSave", !.op = op, !.session = s, !.t = u])
    BY SaveTableKnows
  <1> QED
    BY <1>1, QuietStepKeepsHub DEF SaveTable

(* A new session has no mission.                                           *)
LEMMA RegisterSessionKeepsHub ==
    ASSUME HubInv, NEW i \in Requests, RegisterSession(i)
    PROVE  HubInv'
  <1>1. PICK t \in Loaded(sessions, EmptySessions), s \in Sessions \ minted :
          SaveTable(i, "register", s, FreeSession, t) /\ minted' = minted \cup {s}
    BY DEF RegisterSession
  <1>2. TableOK(Set(t, s, FreeSession))
    BY LoadedGood, SetFreeOK
  <1> QED
    BY <1>1, <1>2, SaveTableKeepsHub DEF RegisterSession, HubInv, TypeOK, Op

(* A heartbeat leaves the mission alone.                                   *)
LEMMA HeartbeatSessionKeepsHub ==
    ASSUME HubInv, NEW i \in Requests, HeartbeatSession(i)
    PROVE  HubInv'
  <1>1. PICK t \in Loaded(sessions, EmptySessions), s \in Sessions :
          IF s \in Known(t) THEN SaveTable(i, "heartbeat", s, Beaten(t[s]), t)
                            ELSE Finish(i, "refused")
    BY DEF HeartbeatSession
  <1>2. CASE s \in Known(t)
    <2>1. TableOK(Set(t, s, Beaten(t[s])))
      BY <1>2, LoadedGood, SetBeatenOK
    <2> QED
      BY <1>1, <1>2, <2>1, SaveTableKeepsHub DEF HeartbeatSession, HubInv, TypeOK, Op
  <1>3. CASE s \notin Known(t)
    BY <1>1, <1>3, QuietFinishKeepsHub DEF HeartbeatSession, Reply
  <1> QED
    BY <1>2, <1>3

(* A released session has no mission.                                      *)
LEMMA ReleaseSessionKeepsHub ==
    ASSUME HubInv, NEW i \in Requests, ReleaseSession(i)
    PROVE  HubInv'
  <1>1. PICK t \in Loaded(sessions, EmptySessions), s \in Sessions :
          IF s \in Known(t) THEN SaveTable(i, "release", s, FreeSession, t)
                            ELSE Finish(i, "refused")
    BY DEF ReleaseSession
  <1>2. CASE s \in Known(t)
    <2>1. TableOK(Set(t, s, FreeSession))
      BY LoadedGood, SetFreeOK
    <2> QED
      BY <1>1, <1>2, <2>1, SaveTableKeepsHub DEF ReleaseSession, HubInv, TypeOK, Op
  <1>3. CASE s \notin Known(t)
    BY <1>1, <1>3, QuietFinishKeepsHub DEF ReleaseSession, Reply
  <1> QED
    BY <1>2, <1>3

(* An event binds the session to its mission, whatever it was on.          *)
LEMMA ExecutionEventKeepsHub ==
    ASSUME HubInv, NEW i \in Requests, ExecutionEvent(i)
    PROVE  HubInv'
  <1>1. PICK t \in Loaded(sessions, EmptySessions), s \in Sessions, m \in Missions,
             event \in {"blocked", "failed", "done", "progress"} :
          IF s \in Known(t)
            THEN SaveTable(i, "event", s, SessionOn(m, EventStatus(event)), t)
            ELSE Finish(i, "refused")
    BY DEF ExecutionEvent
  <1>2. CASE s \in Known(t)
    <2>1. EventStatus(event) \in {"busy", "waiting", "stale"}
      BY DEF EventStatus
    <2>2. TableOK(Set(t, s, SessionOn(m, EventStatus(event))))
      BY <2>1, LoadedGood, SetOnOK
    <2> QED
      BY <1>1, <1>2, <2>2, SaveTableKeepsHub DEF ExecutionEvent, HubInv, TypeOK, Op
  <1>3. CASE s \notin Known(t)
    BY <1>1, <1>3, QuietFinishKeepsHub DEF ExecutionEvent, Reply
  <1> QED
    BY <1>2, <1>3

(* The copy of the table saved is well formed.                             *)
LEMMA SaveSessionsKeepsHub ==
    ASSUME HubInv, NEW i \in Requests, SaveSessions(i)
    PROVE  HubInv'
  <1>1. PICK result \in SaveResults :
           sessions' = Stored(result, sessions, req[i].t) /\ Finish(i, Answer(result))
    BY DEF SaveSessions
  <1>2. TableOK(sessions')
    BY <1>1 DEF Stored, HubInv, SlotKnows, RowPc, DirectPc
  <1>3. Answer(result) \in Reply
    BY DEF Answer, Reply
  <1> QED
    BY <1>1, <1>2, <1>3, FinishKeepsHub DEF SaveSessions, HubInv, TypeOK

(* A session asks to start or complete a mission.                          *)
LEMMA MissionRequestKeepsHub ==
    ASSUME HubInv, NEW i \in Requests, NEW op \in Op, NEW pc \in {"startQueue", "completeQueue"},
           MissionRequest(i, op, pc)
    PROVE  HubInv'
  <1>1. PICK t \in Loaded(sessions, EmptySessions), s \in Sessions, m \in Missions :
          IF s \in Known(t)
            THEN Goto(i, [Blank EXCEPT !.pc = pc, !.op = op, !.session = s,
                                       !.mission = m, !.t = t])
            ELSE Finish(i, "refused")
    BY DEF MissionRequest
  <1>2. CASE s \in Known(t)
    <2> DEFINE x == [Blank EXCEPT !.pc = pc, !.op = op, !.session = s,
                                  !.mission = m, !.t = t]
    <2>1. TableOK(t)
      BY LoadedGood
    <2>2. x \in Slot
      BY ZenonT(60), <2>1, BlankOK DEF Slot, Pc, TableOK
    <2>3. x.q = EmptyQueue /\ x.t = t /\ x.pc = pc /\ x.session = s /\ x.mission = m
      BY DEF Blank
    <2>4. Goto(i, x)
      BY <1>1, <1>2
    <2> HIDE DEF x
    <2>5. SlotKnows(x)
      BY <2>1, <2>2, <2>3, EmptyExecuted DEF SlotKnows, RowPc, DirectPc
    <2> QED
      BY <2>4, <2>5, QuietStepKeepsHub DEF MissionRequest, HubInv, TypeOK
  <1>3. CASE s \notin Known(t)
    BY <1>1, <1>3, QuietFinishKeepsHub DEF MissionRequest, Reply
  <1> QED
    BY <1>2, <1>3

(* A start by a session binds it to the mission; no row changes.           *)
LEMMA StartLoadQueueKeepsHub ==
    ASSUME HubInv, NEW i \in Requests, StartLoadQueue(i)
    PROVE  HubInv'
  <1>1. /\ req[i].session \in Sessions /\ req[i].mission \in Missions
        /\ TableOK(req[i].t) /\ UNCHANGED <<store, minted, jobs>>
    BY DEF StartLoadQueue, At, HubInv, SlotKnows, RowPc, DirectPc
  <1>2. \/ SaveTable(i, "start", req[i].session, SessionOn(req[i].mission, "busy"), req[i].t)
        \/ Finish(i, "refused")
    BY DEF StartLoadQueue
  <1>3. TableOK(Set(req[i].t, req[i].session, SessionOn(req[i].mission, "busy")))
    BY <1>1, SetOnOK
  <1>4. CASE SaveTable(i, "start", req[i].session, SessionOn(req[i].mission, "busy"), req[i].t)
    BY <1>1, <1>3, <1>4, SaveTableKeepsHub DEF HubInv, TypeOK, Op
  <1>5. CASE Finish(i, "refused")
    BY <1>1, <1>5, QuietFinishKeepsHub DEF Reply
  <1> QED
    BY <1>2, <1>4, <1>5

(* The first row of the mission is validated; all of them are completed.   *)
LEMMA CompleteLoadQueueKeepsHub ==
    ASSUME HubInv, NEW i \in Requests, CompleteLoadQueue(i)
    PROVE  HubInv'
  <1> DEFINE m == req[i].mission
             s == req[i].session
             n(q) == MissionCompleted(q, m, SessionAgent[s])
             t == Set(req[i].t, s, FreeSession)
  <1>1. /\ req[i] \in Slot /\ m \in Missions /\ s \in Sessions /\ TableOK(req[i].t)
        /\ UNCHANGED <<store, minted, jobs>>
    BY DEF CompleteLoadQueue, At, HubInv, SlotKnows, RowPc, DirectPc
  <1>2. PICK q \in Loaded(queue, EmptyQueue) :
          \/ Finish(i, "refused")
          \/ \E first \in RowsOf(q, m) :
                /\ q[first].status = "in_progress"
                /\ Goto(i, [req[i] EXCEPT !.pc = "completeSave", !.q = n(q), !.t = t])
    BY DEF CompleteLoadQueue, ValidTransition
  <1>3. CASE Finish(i, "refused")
    BY <1>1, <1>3, QuietFinishKeepsHub DEF Reply
  <1>4. ASSUME NEW first \in RowsOf(q, m), q[first].status = "in_progress",
               Goto(i, [req[i] EXCEPT !.pc = "completeSave", !.q = n(q), !.t = t])
        PROVE  HubInv'
    <2>1. QueueExecuted(n(q))
      <3>1. SessionAgent[s] \in Agents
        BY <1>1, SessionAssumption
      <3>2. QueueExecuted(q)
        BY LoadedGood
      <3> QED
        BY <1>4, <3>1, <3>2, MissionCompletedExecuted
    <2>2. TableOK(t)
      BY <1>1, SetFreeOK
    <2> DEFINE w == n(q)
    <2>3. QueueExecuted(w) /\ Goto(i, [req[i] EXCEPT !.pc = "completeSave", !.q = w, !.t = t])
      BY <1>4, <2>1
    <2> HIDE DEF w, t
    <2> DEFINE x == [req[i] EXCEPT !.pc = "completeSave", !.q = w, !.t = t]
    <2>4. x \in Slot
      BY ZenonT(60), <1>1, <2>2, <2>3 DEF Slot, Pc, QueueExecuted, TableOK
    <2>5. x.pc = "completeSave" /\ x.q = w /\ x.t = t /\ x.mission \in Missions
      BY <1>1 DEF Slot
    <2> HIDE DEF x
    <2>6. SlotKnows(x)
      BY <2>2, <2>3, <2>4, <2>5 DEF SlotKnows, RowPc, DirectPc
    <2>7. Goto(i, x)
      BY <2>3 DEF x
    <2> QED
      BY <1>1, <2>6, <2>7, QuietStepKeepsHub DEF HubInv, TypeOK
  <1> QED
    BY <1>2, <1>3, <1>4

(* The completed rows are saved,                                           *)
LEMMA CompleteSaveQueueKeepsHub ==
    ASSUME HubInv, NEW i \in Requests, CompleteSaveQueue(i)
    PROVE  HubInv'
  <1> DEFINE x == [req[i] EXCEPT !.pc = "completeBoardLoad", !.q = EmptyQueue]
  <1>1. SlotKnows(req[i]) /\ req[i] \in Slot /\ req[i].mission \in Missions
    BY DEF CompleteSaveQueue, At, HubInv, SlotKnows, RowPc, DirectPc
  <1>2. x \in Slot
    BY ZenonT(60), <1>1, EmptyExecuted DEF Slot, Pc, QueueExecuted
  <1>3. /\ x.pc = "completeBoardLoad" /\ x.q = EmptyQueue /\ x.t = req[i].t
        /\ x.mission \in Missions
    BY <1>1 DEF Slot
  <1>4. Goto(i, x)
    BY DEF CompleteSaveQueue
  <1> HIDE DEF x
  <1>5. SlotKnows(x)
    BY <1>1, <1>2, <1>3, EmptyExecuted DEF SlotKnows, RowPc, DirectPc
  <1>6. QueueExecuted(queue')
    BY <1>1 DEF CompleteSaveQueue, Stored, SlotKnows, RowPc, DirectPc, HubInv
  <1> QED
    BY <1>4, <1>5, <1>6, StepKeepsHub DEF CompleteSaveQueue, HubInv, TypeOK

(* the board is loaded,                                                    *)
LEMMA CompleteLoadBoardKeepsHub ==
    ASSUME HubInv, NEW i \in Requests, CompleteLoadBoard(i)
    PROVE  HubInv'
  <1>1. PICK b \in Loaded(board, {}) :
           Goto(i, [req[i] EXCEPT !.pc = "completeBoardSave",
                                  !.b = b \cup {req[i].mission}])
    BY DEF CompleteLoadBoard
  <1> DEFINE x == [req[i] EXCEPT !.pc = "completeBoardSave", !.b = b \cup {req[i].mission}]
  <1>2. SlotKnows(req[i]) /\ req[i] \in Slot /\ req[i].mission \in Missions
    BY DEF CompleteLoadBoard, At, HubInv, SlotKnows, RowPc, DirectPc
  <1>3. x \in Slot
    BY ZenonT(60), <1>2, LoadedGood DEF Slot, Pc
  <1>4. x.pc = "completeBoardSave" /\ x.q = req[i].q /\ x.t = req[i].t
    BY <1>2 DEF Slot
  <1> HIDE DEF x
  <1>5. SlotKnows(x)
    BY <1>2, <1>3, <1>4 DEF SlotKnows, RowPc, DirectPc
  <1>6. Goto(i, x)
    BY <1>1 DEF x
  <1> QED
    BY <1>5, <1>6, QuietStepKeepsHub DEF CompleteLoadBoard, HubInv, TypeOK

(* and saved; the table follows, the session freed.                        *)
LEMMA CompleteSaveBoardKeepsHub ==
    ASSUME HubInv, NEW i \in Requests, CompleteSaveBoard(i)
    PROVE  HubInv'
  <1> DEFINE x == [req[i] EXCEPT !.pc = "sessionsSave", !.b = {}]
  <1>1. SlotKnows(req[i]) /\ req[i] \in Slot
    BY DEF HubInv, SlotKnows, RowPc, DirectPc
  <1>2. x \in Slot
    BY ZenonT(60), <1>1 DEF Slot, Pc
  <1>3. x.pc = "sessionsSave" /\ x.q = req[i].q /\ x.t = req[i].t
    BY <1>1 DEF Slot
  <1>4. Goto(i, x)
    BY DEF CompleteSaveBoard
  <1> HIDE DEF x
  <1>5. SlotKnows(x)
    BY <1>1, <1>2, <1>3 DEF SlotKnows, RowPc, DirectPc
  <1>6. board' \subseteq Missions
    BY <1>1 DEF CompleteSaveBoard, Stored, HubInv, TypeOK, Slot
  <1> QED
    BY <1>4, <1>5, <1>6, StepKeepsHub DEF CompleteSaveBoard, HubInv, TypeOK

(* All steps of the sessions and events routes together.                   *)
LEMMA SessionRoutesKeepHub ==
    ASSUME HubInv, NEW i \in Requests, SessionNext(i)
    PROVE  HubInv'
  <1>1. CASE StartMission(i)
    BY <1>1, MissionRequestKeepsHub DEF StartMission, Op
  <1>2. CASE CompleteMission(i)
    BY <1>2, MissionRequestKeepsHub DEF CompleteMission, Op
  <1> QED
    BY <1>1, <1>2, RegisterSessionKeepsHub, HeartbeatSessionKeepsHub,
       ReleaseSessionKeepsHub, ExecutionEventKeepsHub, SaveSessionsKeepsHub,
       StartLoadQueueKeepsHub, CompleteLoadQueueKeepsHub, CompleteSaveQueueKeepsHub,
       CompleteLoadBoardKeepsHub, CompleteSaveBoardKeepsHub
    DEF SessionNext

-----------------------------------------------------------------------------
(* The reports of agents. *)

(* An agent reports a load.                                                *)
LEMMA ReportAgentKeepsHub ==
    ASSUME HubInv, NEW i \in Requests, ReportAgent(i)
    PROVE  HubInv'
  <1>1. PICK g \in Loaded(agents, EmptyRegistry), a \in Agents :
        \E load \in Loads \cup {IF g[a] = None THEN 0 ELSE g[a]} :
          Goto(i, [Blank EXCEPT !.pc = "agentsSave", !.op = "agent",
                                !.g = [g EXCEPT ![a] = load]])
    BY DEF ReportAgent
  <1>2. PICK load \in Loads \cup {IF g[a] = None THEN 0 ELSE g[a]} :
          Goto(i, [Blank EXCEPT !.pc = "agentsSave", !.op = "agent",
                                !.g = [g EXCEPT ![a] = load]])
    BY <1>1
  <1> DEFINE n == [g EXCEPT ![a] = load]
  <1>3. g \in Registry
    BY LoadedGood
  <1>4. load \in 0..MaxLoad
    BY <1>3, LoadsAssumption, RegistryAssumption DEF Registry
  <1>5. n \in Registry
    BY <1>3, <1>4 DEF Registry
  <1>6. Goto(i, [Blank EXCEPT !.pc = "agentsSave", !.op = "agent", !.g = n])
    BY <1>2
  <1> HIDE DEF n
  <1> DEFINE x == [Blank EXCEPT !.pc = "agentsSave", !.op = "agent", !.g = n]
  <1>7. x \in Slot
    BY ZenonT(60), <1>5, BlankOK DEF Slot, Pc, Op
  <1>8. x.pc = "agentsSave" /\ x.q = EmptyQueue /\ x.t = EmptySessions
    BY DEF Blank
  <1> HIDE DEF x
  <1>9. SlotKnows(x)
    BY <1>7, <1>8, EmptyExecuted, EmptySessionsOK DEF SlotKnows, RowPc, DirectPc
  <1>10. Goto(i, x)
    BY <1>6 DEF x
  <1> QED
    BY <1>9, <1>10, QuietStepKeepsHub DEF ReportAgent, HubInv, TypeOK

(* A reported load is a load.                                              *)
LEMMA SaveAgentsKeepsHub ==
    ASSUME HubInv, NEW i \in Requests, SaveAgents(i)
    PROVE  HubInv'
  <1>1. PICK result \in SaveResults :
           agents' = Stored(result, agents, req[i].g) /\ Finish(i, Answer(result))
    BY DEF SaveAgents
  <1>2. agents' \in Registry
    BY <1>1 DEF Stored, HubInv, TypeOK, Slot
  <1>3. Answer(result) \in Reply
    BY DEF Answer, Reply
  <1> QED
    BY <1>1, <1>2, <1>3, FinishKeepsHub DEF SaveAgents, HubInv, TypeOK

-----------------------------------------------------------------------------
(* The direct route. *)

(* One of the two copies is loaded, *)
LEMMA DirectCallKeepsHub ==
    ASSUME HubInv, NEW i \in Requests, DirectCall(i)
    PROVE  HubInv'
  <1>1. UNCHANGED <<store, minted, jobs>>
    BY DEF DirectCall
  <1>2. ASSUME NEW q \in Loaded(queue, EmptyQueue),
               Goto(i, [Blank EXCEPT !.pc = "directSessions", !.op = "direct", !.q = q])
        PROVE  HubInv'
    <2> DEFINE x == [Blank EXCEPT !.pc = "directSessions", !.op = "direct", !.q = q]
    <2>1. QueueExecuted(q)
      BY LoadedGood
    <2>2. x \in Slot
      BY ZenonT(60), <2>1, BlankOK DEF Slot, Pc, Op, QueueExecuted
    <2>3. x.q = q /\ x.t = EmptySessions /\ x.pc = "directSessions"
      BY DEF Blank
    <2>4. Goto(i, x)
      BY <1>2
    <2> HIDE DEF x
    <2>5. SlotKnows(x)
      BY <2>1, <2>2, <2>3, EmptySessionsOK DEF SlotKnows, RowPc, DirectPc
    <2> QED
      BY <1>1, <2>4, <2>5, QuietStepKeepsHub DEF HubInv, TypeOK
  <1>3. ASSUME NEW t \in Loaded(sessions, EmptySessions),
               Goto(i, [Blank EXCEPT !.pc = "directQueue", !.op = "direct", !.t = t])
        PROVE  HubInv'
    <2> DEFINE x == [Blank EXCEPT !.pc = "directQueue", !.op = "direct", !.t = t]
    <2>1. TableOK(t)
      BY LoadedGood
    <2>2. x \in Slot
      BY ZenonT(60), <2>1, BlankOK DEF Slot, Pc, Op, TableOK
    <2>3. x.q = EmptyQueue /\ x.t = t /\ x.pc = "directQueue"
      BY DEF Blank
    <2>4. Goto(i, x)
      BY <1>3
    <2> HIDE DEF x
    <2>5. SlotKnows(x)
      BY <2>1, <2>2, <2>3, EmptyExecuted DEF SlotKnows, RowPc, DirectPc
    <2> QED
      BY <1>1, <2>4, <2>5, QuietStepKeepsHub DEF HubInv, TypeOK
  <1> QED
    BY <1>2, <1>3 DEF DirectCall

(* and then the other. *)
LEMMA DirectLoadKeepsHub ==
    ASSUME HubInv, NEW i \in Requests, DirectLoad(i)
    PROVE  HubInv'
  <1>1. UNCHANGED <<store, minted, jobs>> /\ SlotKnows(req[i]) /\ req[i] \in Slot
    BY DEF DirectLoad, HubInv, SlotKnows
  <1>2. ASSUME NEW t \in Loaded(sessions, EmptySessions),
               Goto(i, [req[i] EXCEPT !.pc = "direct", !.t = t])
        PROVE  HubInv'
    <2> DEFINE x == [req[i] EXCEPT !.pc = "direct", !.t = t]
    <2>1. TableOK(t)
      BY LoadedGood
    <2>2. x \in Slot
      BY ZenonT(60), <1>1, <2>1 DEF Slot, Pc, TableOK
    <2>3. x.q = req[i].q /\ x.t = t /\ x.pc = "direct"
      BY <1>1 DEF Slot
    <2>4. Goto(i, x)
      BY <1>2
    <2> HIDE DEF x
    <2>5. SlotKnows(x)
      BY <1>1, <2>1, <2>2, <2>3 DEF SlotKnows, RowPc, DirectPc
    <2> QED
      BY <1>1, <2>4, <2>5, QuietStepKeepsHub DEF HubInv, TypeOK
  <1>3. ASSUME NEW q \in Loaded(queue, EmptyQueue),
               Goto(i, [req[i] EXCEPT !.pc = "direct", !.q = q])
        PROVE  HubInv'
    <2> DEFINE x == [req[i] EXCEPT !.pc = "direct", !.q = q]
    <2>1. QueueExecuted(q)
      BY LoadedGood
    <2>2. x \in Slot
      BY ZenonT(60), <1>1, <2>1 DEF Slot, Pc, QueueExecuted
    <2>3. x.q = q /\ x.t = req[i].t /\ x.pc = "direct"
      BY <1>1 DEF Slot
    <2>4. Goto(i, x)
      BY <1>3
    <2> HIDE DEF x
    <2>5. SlotKnows(x)
      BY <1>1, <2>1, <2>2, <2>3 DEF SlotKnows, RowPc, DirectPc
    <2> QED
      BY <1>1, <2>4, <2>5, QuietStepKeepsHub DEF HubInv, TypeOK
  <1> QED
    BY <1>2, <1>3 DEF DirectLoad

(* A slot of the direct route, past the choice of its session. *)
LEMMA DirectKnows ==
    ASSUME NEW x \in Slot, x.pc \in DirectPc, QueueExecuted(x.q), TableOK(x.t),
           x.session \in Sessions, x.mission \in Missions
    PROVE  SlotKnows(x)
  BY DEF SlotKnows, RowPc, DirectPc

(* The table an assignment leaves is well formed.                          *)
LEMMA AssignedOK ==
    ASSUME NEW t, TableOK(t), NEW s \in Sessions, NEW m \in Missions, NEW final
    PROVE  TableOK(Assigned(t, s, m, final))
  BY SetFreeOK, SetOnOK DEF Assigned

(* A session the direct route may take is a session.                       *)
LEMMA DirectSessionsKnown ==
    ASSUME NEW t, NEW who, NEW agent, NEW exact \in SessionsOfAgent(t, who, agent) \cup {None},
           NEW s \in DirectSessions(t, who, agent, exact)
    PROVE  s \in Sessions
  BY SessionAssumption DEF DirectSessions, ClaimableFor, SessionsOfAgent, Known

(* A session is taken, looked at first, or not found.                      *)
LEMMA DirectResolveKeepsHub ==
    ASSUME HubInv, NEW i \in Requests, DirectResolve(i)
    PROVE  HubInv'
  <1>1. UNCHANGED <<store, minted, jobs>> /\ SlotKnows(req[i]) /\ req[i] \in Slot
    BY DEF DirectResolve, HubInv, SlotKnows
  <1>2. PICK m \in Missions, who \in Asked \ {"STAFF"}, agent \in Agents \cup {None},
             final \in {"done", None} :
        LET t     == req[i].t
            found == SessionsOfAgent(t, who, agent)
            call  == [req[i] EXCEPT !.mission = m, !.agent = agent, !.status = final]
        IN  \E exact \in IF found = {} THEN {None} ELSE found :
             \/ /\ exact # None /\ WorksElsewhere(t[exact], m)
                /\ Goto(i, [call EXCEPT !.pc = "directReconcile", !.session = exact])
             \/ /\ exact # None => ~ WorksElsewhere(t[exact], m)
                /\ \/ /\ DirectSessions(t, who, agent, exact) = {}
                      /\ Finish(i, "refused")
                   \/ \E s \in DirectSessions(t, who, agent, exact) :
                        Goto(i, [call EXCEPT !.pc = "directSave", !.session = s,
                                             !.t = Assigned(t, s, m, final)])
    BY DEF DirectResolve
  <1> DEFINE t     == req[i].t
             found == SessionsOfAgent(t, who, agent)
             call  == [req[i] EXCEPT !.mission = m, !.agent = agent, !.status = final]
  <1> HIDE DEF call
  <1>3. PICK exact \in IF found = {} THEN {None} ELSE found :
             \/ /\ exact # None
                /\ Goto(i, [call EXCEPT !.pc = "directReconcile", !.session = exact])
             \/ Finish(i, "refused")
             \/ \E s \in DirectSessions(t, who, agent, exact) :
                  Goto(i, [call EXCEPT !.pc = "directSave", !.session = s,
                                       !.t = Assigned(t, s, m, final)])
    BY <1>2 DEF call
  <1>4. exact \in found \cup {None}
    OBVIOUS
  <1> USE DEF call
  <1>5. call \in Slot /\ call.t = t /\ call.q = req[i].q /\ call.mission = m
    <2>1. final \in QueueStatus \cup {None}
      BY DEF QueueStatus
    <2>2. call \in Slot
      BY ZenonT(60), <1>1, <2>1 DEF Slot
    <2> QED
      BY <1>1, <2>2 DEF Slot
  <1> HIDE DEF call
  <1>6. CASE exact # None
             /\ Goto(i, [call EXCEPT !.pc = "directReconcile", !.session = exact])
    <2> DEFINE x == [call EXCEPT !.pc = "directReconcile", !.session = exact]
    <2>1. exact \in Sessions
      BY <1>6, <1>4 DEF SessionsOfAgent, Known
    <2>2. x \in Slot
      BY ZenonT(60), <1>5, <2>1 DEF Slot, Pc
    <2>3. /\ x.q = req[i].q /\ x.t = t /\ x.pc = "directReconcile" /\ x.session = exact
          /\ x.mission = m
      BY <1>5 DEF Slot
    <2>4. Goto(i, x)
      BY <1>6
    <2> HIDE DEF x
    <2>5. SlotKnows(x)
      BY <1>1, <2>1, <2>2, <2>3, DirectKnows DEF SlotKnows, DirectPc
    <2> QED
      BY <1>1, <2>4, <2>5, QuietStepKeepsHub DEF HubInv, TypeOK
  <1>7. CASE Finish(i, "refused")
    BY <1>1, <1>7, QuietFinishKeepsHub DEF Reply
  <1>8. ASSUME NEW s \in DirectSessions(t, who, agent, exact),
               Goto(i, [call EXCEPT !.pc = "directSave", !.session = s,
                                    !.t = Assigned(t, s, m, final)])
        PROVE  HubInv'
    <2> DEFINE u == Assigned(t, s, m, final)
    <2>1. s \in Sessions
      BY <1>4, DirectSessionsKnown
    <2>2. TableOK(u)
      BY <1>1, <2>1, AssignedOK DEF SlotKnows
    <2>3. Goto(i, [call EXCEPT !.pc = "directSave", !.session = s, !.t = u])
      BY <1>8
    <2> HIDE DEF u
    <2> DEFINE x == [call EXCEPT !.pc = "directSave", !.session = s, !.t = u]
    <2>4. x \in Slot
      BY ZenonT(60), <1>5, <2>1, <2>2 DEF Slot, Pc, TableOK
    <2>5. /\ x.q = req[i].q /\ x.t = u /\ x.pc = "directSave" /\ x.session = s
          /\ x.mission = m
      BY <1>5 DEF Slot
    <2>6. Goto(i, x)
      BY <2>3
    <2> HIDE DEF x
    <2>7. SlotKnows(x)
      BY <1>1, <2>1, <2>2, <2>4, <2>5, DirectKnows DEF SlotKnows, DirectPc
    <2> QED
      BY <1>1, <2>6, <2>7, QuietStepKeepsHub DEF HubInv, TypeOK
  <1> QED
    BY <1>3, <1>6, <1>7, <1>8

(* A busy session's mission is looked at, *)
LEMMA DirectReconcileKeepsHub ==
    ASSUME HubInv, NEW i \in Requests, DirectReconcile(i)
    PROVE  HubInv'
  <1>1. /\ UNCHANGED <<store, minted, jobs>> /\ SlotKnows(req[i]) /\ req[i] \in Slot
        /\ req[i].session \in Sessions /\ req[i].mission \in Missions
    BY DEF DirectReconcile, At, HubInv, SlotKnows, DirectPc
  <1> DEFINE u == Set(req[i].t, req[i].session, FreeSession)
             x == [req[i] EXCEPT !.pc = "directReconciled",
                                 !.t = Set(@, req[i].session, FreeSession)]
  <1>2. TableOK(u)
    BY <1>1, SetFreeOK DEF SlotKnows
  <1>3. Finish(i, "refused") \/ Goto(i, x)
    BY DEF DirectReconcile
  <1>4. x = [req[i] EXCEPT !.pc = "directReconciled", !.t = u]
    OBVIOUS
  <1> HIDE DEF u, x
  <1>5. x \in Slot
    BY ZenonT(60), <1>1, <1>2, <1>4 DEF Slot, Pc, TableOK
  <1>6. /\ x.q = req[i].q /\ x.t = u /\ x.pc = "directReconciled"
        /\ x.session = req[i].session /\ x.mission = req[i].mission
    BY <1>1, <1>4 DEF Slot
  <1>7. SlotKnows(x)
    BY <1>1, <1>2, <1>5, <1>6, DirectKnows DEF SlotKnows, DirectPc
  <1> QED
    BY <1>1, <1>3, <1>7, QuietStepKeepsHub, QuietFinishKeepsHub DEF HubInv, TypeOK, Reply

(* freed and taken, *)
LEMMA SaveReconciledKeepsHub ==
    ASSUME HubInv, NEW i \in Requests, SaveReconciled(i)
    PROVE  HubInv'
  <1>1. /\ UNCHANGED <<queue, agents, board, minted, jobs>>
        /\ SlotKnows(req[i]) /\ req[i] \in Slot
        /\ req[i].session \in Sessions /\ req[i].mission \in Missions
    BY DEF SaveReconciled, At, HubInv, SlotKnows, DirectPc
  <1> DEFINE u == Assigned(req[i].t, req[i].session, req[i].mission, req[i].status)
             x == [req[i] EXCEPT !.pc = "directSave",
                                 !.t = Assigned(@, req[i].session, req[i].mission,
                                                req[i].status)]
  <1>2. TableOK(u)
    BY <1>1, AssignedOK DEF SlotKnows
  <1>3. Goto(i, x)
    BY DEF SaveReconciled
  <1>4. x = [req[i] EXCEPT !.pc = "directSave", !.t = u]
    OBVIOUS
  <1> HIDE DEF u, x
  <1>5. x \in Slot
    BY ZenonT(60), <1>1, <1>2, <1>4 DEF Slot, Pc, TableOK
  <1>6. /\ x.q = req[i].q /\ x.t = u /\ x.pc = "directSave"
        /\ x.session = req[i].session /\ x.mission = req[i].mission
    BY <1>1, <1>4 DEF Slot
  <1>7. SlotKnows(x)
    BY <1>1, <1>2, <1>5, <1>6, DirectKnows DEF SlotKnows, DirectPc
  <1>8. TableOK(sessions')
    BY <1>1 DEF SaveReconciled, Stored, HubInv, SlotKnows
  <1> QED
    BY <1>1, <1>3, <1>7, <1>8, StepKeepsHub DEF HubInv, TypeOK

(* and the table with the mission on the session is saved. *)
LEMMA SaveAssignedKeepsHub ==
    ASSUME HubInv, NEW i \in Requests, SaveAssigned(i)
    PROVE  HubInv'
  <1>1. /\ UNCHANGED <<queue, agents, board, minted, jobs>>
        /\ SlotKnows(req[i]) /\ req[i] \in Slot
        /\ req[i].session \in Sessions /\ req[i].mission \in Missions
    BY DEF SaveAssigned, At, HubInv, SlotKnows, DirectPc
  <1> DEFINE x == [req[i] EXCEPT !.pc = "directDispatch"]
  <1>2. Goto(i, x)
    BY DEF SaveAssigned
  <1>3. x \in Slot
    BY ZenonT(60), <1>1 DEF Slot, Pc
  <1>4. /\ x.q = req[i].q /\ x.t = req[i].t /\ x.pc = "directDispatch"
        /\ x.session = req[i].session /\ x.mission = req[i].mission
    BY <1>1 DEF Slot
  <1> HIDE DEF x
  <1>5. SlotKnows(x)
    BY <1>1, <1>3, <1>4, DirectKnows DEF SlotKnows, DirectPc
  <1>6. TableOK(sessions')
    BY <1>1 DEF SaveAssigned, Stored, HubInv, SlotKnows
  <1> QED
    BY <1>1, <1>2, <1>5, <1>6, StepKeepsHub DEF HubInv, TypeOK

(* The answer is written over the row as it was. *)
LEMMA RecordAnswerKeepsHub ==
    ASSUME HubInv, NEW i \in Requests, NEW finished, RecordAnswer(i, finished),
           req[i].session \in Sessions,
           UNCHANGED <<queue, agents, board, minted, jobs>>, TableOK(sessions')
    PROVE  HubInv'
  <1>1. SlotKnows(req[i]) /\ req[i] \in Slot
    BY DEF HubInv, SlotKnows
  <1>2. CASE Finish(i, "ok")
    BY <1>2, FinishKeepsHub DEF HubInv, TypeOK, Reply
  <1>3. ASSUME NEW q \in Answered(req[i], finished),
               Goto(i, [req[i] EXCEPT !.pc = "directQueueSave", !.q = q])
        PROVE  HubInv'
    <2> DEFINE x == [req[i] EXCEPT !.pc = "directQueueSave", !.q = q]
    <2>1. QueueExecuted(q)
      BY <1>1, AnsweredExecuted DEF SlotKnows, Slot
    <2>2. x \in Slot
      BY ZenonT(60), <1>1, <2>1 DEF Slot, Pc, QueueExecuted
    <2>3. x.q = q /\ x.t = req[i].t /\ x.pc = "directQueueSave"
      BY <1>1 DEF Slot
    <2>4. Goto(i, x)
      BY <1>3
    <2> HIDE DEF x
    <2>5. SlotKnows(x)
      BY <1>1, <2>1, <2>2, <2>3 DEF SlotKnows, RowPc, DirectPc
    <2> QED
      BY <2>4, <2>5, StepKeepsHub DEF HubInv, TypeOK
  <1> QED
    BY <1>2, <1>3 DEF RecordAnswer

(* The answer is recorded, after a release when the workers failed.        *)
LEMMA DirectDispatchKeepsHub ==
    ASSUME HubInv, NEW i \in Requests, DirectDispatch(i)
    PROVE  HubInv'
  <1>1. /\ UNCHANGED <<store, minted, jobs>> /\ SlotKnows(req[i]) /\ req[i] \in Slot
        /\ req[i].session \in Sessions /\ req[i].mission \in Missions
    BY DEF DirectDispatch, At, HubInv, SlotKnows, DirectPc
  <1> DEFINE u == Set(req[i].t, req[i].session, FreeSession)
             x == [req[i] EXCEPT !.pc = "directRelease",
                                 !.t = Set(@, req[i].session, FreeSession)]
  <1>2. TableOK(u)
    BY <1>1, SetFreeOK DEF SlotKnows
  <1>3. Finish(i, "failed") \/ RecordAnswer(i, req[i].status = "done") \/ Goto(i, x)
    BY DEF DirectDispatch
  <1>4. x = [req[i] EXCEPT !.pc = "directRelease", !.t = u]
    OBVIOUS
  <1> HIDE DEF u, x
  <1>5. x \in Slot
    BY ZenonT(60), <1>1, <1>2, <1>4 DEF Slot, Pc, TableOK
  <1>6. /\ x.q = req[i].q /\ x.t = u /\ x.pc = "directRelease"
        /\ x.session = req[i].session /\ x.mission = req[i].mission
    BY <1>1, <1>4 DEF Slot
  <1>7. SlotKnows(x)
    BY <1>1, <1>2, <1>5, <1>6, DirectKnows DEF SlotKnows, DirectPc
  <1>8. CASE RecordAnswer(i, req[i].status = "done")
    <2>1. UNCHANGED <<queue, agents, board, minted, jobs>> /\ TableOK(sessions')
      BY <1>1 DEF store, HubInv
    <2> QED
      BY <1>1, <1>8, <2>1, RecordAnswerKeepsHub
  <1> QED
    BY <1>1, <1>3, <1>7, <1>8, QuietStepKeepsHub, QuietFinishKeepsHub
    DEF HubInv, TypeOK, Reply

(* The freed session is saved before the answer is recorded,               *)
LEMMA SaveDirectReleaseKeepsHub ==
    ASSUME HubInv, NEW i \in Requests, SaveDirectRelease(i)
    PROVE  HubInv'
  <1>1. req[i].session \in Sessions /\ TableOK(sessions')
    BY DEF SaveDirectRelease, Stored, At, HubInv, SlotKnows, DirectPc
  <1> QED
    BY <1>1, RecordAnswerKeepsHub DEF SaveDirectRelease

(* and the recorded answer last.                                           *)
LEMMA SaveDirectQueueKeepsHub ==
    ASSUME HubInv, NEW i \in Requests, SaveDirectQueue(i)
    PROVE  HubInv'
  <1>1. QueueExecuted(queue')
    BY DEF SaveDirectQueue, Stored, HubInv, SlotKnows
  <1> QED
    BY <1>1, FinishKeepsHub DEF SaveDirectQueue, HubInv, TypeOK, Reply

(* All steps of the direct route together. *)
LEMMA DirectRouteKeepsHub ==
    ASSUME HubInv, NEW i \in Requests, DirectNext(i)
    PROVE  HubInv'
  BY DirectCallKeepsHub, DirectLoadKeepsHub, DirectResolveKeepsHub, DirectReconcileKeepsHub,
     SaveReconciledKeepsHub, SaveAssignedKeepsHub, DirectDispatchKeepsHub,
     SaveDirectReleaseKeepsHub, SaveDirectQueueKeepsHub
  DEF DirectNext

-----------------------------------------------------------------------------
(* An executor and its bridge. *)

(* At first the rows are open, or one runs in the session.                 *)
LEMMA InitHub == ExecutorsInit => HubInv
  <1> SUFFICES ASSUME ExecutorsInit
               PROVE  HubInv
    OBVIOUS
  <1>1. PICK S \in SUBSET Rows, j \in Jobs :
    /\ \A r, x \in S : r = x
    /\ queue = [r \in Rows |->
                  IF r \in S THEN StartedRow(NewRow("CPP", None, "open"), j,
                                            BridgeSession, BridgeAgent)
                             ELSE NewRow("CPP", None, "open")]
    /\ agents = [a \in Agents |-> IF a = BridgeAgent /\ S # {} THEN 1 ELSE 0]
    /\ sessions = [s \in Sessions |->
                     IF s = BridgeSession /\ S # {}
                       THEN SessionOn(MissionOf[CHOOSE r \in S : TRUE], "busy")
                       ELSE FreeSession]
    /\ jobs = S \X {j}
    BY DEF ExecutorsInit
  <1>2. BridgeAgent \in Agents /\ BridgeSession \in Sessions
    BY BridgeAssumption, SessionAssumption DEF BridgeAgent
  <1>3. QueueExecuted(queue)
    <2> DEFINE fresh == NewRow("CPP", None, "open")
               begun == StartedRow(fresh, j, BridgeSession, BridgeAgent)
    <2>1. fresh \in Row /\ fresh.status = "open"
      BY DEF NewRow, CreatedRow, Row, QueueStatus, Assignee
    <2>2. \A r \in Rows : Executed(r, fresh) /\ begun \in Row /\ Executed(r, begun)
      BY <1>2, <2>1, StartedRowExecuted, WaitingExecuted
    <2>3. queue = [r \in Rows |-> IF r \in S THEN begun ELSE fresh]
      BY <1>1
    <2> HIDE DEF fresh, begun
    <2> QED
      BY <2>1, <2>2, <2>3 DEF QueueExecuted, Queue, Live
  <1>4. TableOK(sessions)
    <2>1. S # {} => (CHOOSE r \in S : TRUE) \in Rows
      OBVIOUS
    <2>2. S # {} => MissionOf[CHOOSE r \in S : TRUE] \in Missions
      BY <2>1, QueueAssumption
    <2> DEFINE m == MissionOf[CHOOSE r \in S : TRUE]
    <2>3. sessions = [s \in Sessions |->
                        IF s = BridgeSession /\ S # {} THEN SessionOn(m, "busy")
                                                       ELSE FreeSession]
      BY <1>1
    <2> HIDE DEF m
    <2>4. FreeSession \in Session /\ (S # {} => SessionOn(m, "busy") \in Session)
      BY <2>2 DEF FreeSession, SessionOn, Session, SessionStatus, m
    <2>5. S # {} => m # None
      BY <2>2, SessionAssumption DEF m
    <2> QED
      BY <2>3, <2>4, <2>5 DEF TableOK, SessionTable, Known, FreeSession, SessionOn
  <1>5. agents \in Registry
    BY <1>1, RegistryAssumption DEF Registry
  <1>6. req = [i \in Requests |-> Blank] /\ board = {} /\ minted = Rows \cup Sessions
    BY DEF ExecutorsInit
  <1>7. SlotKnows(Blank)
    <2>1. Blank.q = EmptyQueue /\ Blank.t = EmptySessions /\ Blank.pc = "idle"
      BY DEF Blank
    <2> QED
      BY <2>1, BlankOK, EmptyExecuted, EmptySessionsOK DEF SlotKnows, RowPc, DirectPc
  <1>8. TypeOK
    <2>1. req \in [Requests -> Slot]
      BY <1>6, BlankOK
    <2>2. jobs \subseteq Rows \X Jobs
      BY <1>1
    <2> QED
      BY <1>3, <1>4, <1>5, <1>6, <2>1, <2>2 DEF TypeOK, QueueExecuted, TableOK
  <1> QED
    BY <1>3, <1>4, <1>6, <1>7, <1>8 DEF HubInv

(* A caller's step, *)
LEMMA CallerKeepsHub ==
    ASSUME HubInv, NEW i \in Callers, CallerNext(i)
    PROVE  HubInv'
  BY QueueRouteKeepsHub, DirectRouteKeepsHub, ReleaseSessionKeepsHub, SaveSessionsKeepsHub
  DEF CallerNext, Callers

(* The bridge thinks, or nothing happens.                                  *)
LEMMA UnchangedKeepsHub ==
    ASSUME HubInv, UNCHANGED vars
    PROVE  HubInv'
  BY DEF HubInv, TypeOK, vars

(* and the bridge's: what it asks for is one of the routes' requests. *)
LEMMA BridgeKeepsHub ==
    ASSUME HubInv, BridgeNext
    PROVE  HubInv'
  <1>1. CompleteMission(BridgeSlot) => HubInv'
    BY BridgeAssumption, MissionRequestKeepsHub DEF CompleteMission, Op
  <1>2. ASSUME BridgeStep
        PROVE  HubInv'
    <2>1. \/ ReportAgent(BridgeSlot) \/ HeartbeatSession(BridgeSlot)
          \/ ExecutionEvent(BridgeSlot) \/ CompleteMission(BridgeSlot) \/ UNCHANGED vars
      BY <1>2 DEF BridgeStep, Wake, BeatAgent, BeatSession, Rest, PostBlocked, PostResume,
                  PostDone, Completed, StartCommand, CompleteCommand, CommandCompleted,
                  PostFailure, FailureTold, PostAlive, Post, Complete
    <2> QED
      BY <1>1, <2>1, BridgeAssumption, ReportAgentKeepsHub, HeartbeatSessionKeepsHub,
         ExecutionEventKeepsHub, UnchangedKeepsHub
  <1>3. BridgeRequest => HubInv'
    BY BridgeAssumption, SessionRoutesKeepHub, SaveAgentsKeepsHub DEF BridgeRequest
  <1>4. LoseAnswer => HubInv'
    BY BridgeAssumption, QuietFinishKeepsHub DEF LoseAnswer, Reply
  <1>5. KillBridge \/ WriteFile => HubInv'
    BY UnchangedKeepsHub DEF KillBridge, WriteFile
  <1> QED
    BY <1>2, <1>3, <1>4, <1>5 DEF BridgeNext

(* HubInv is inductive.                                                    *)
LEMMA NextHub == HubInv /\ [ExecutorsNext]_executors => HubInv'
  <1> SUFFICES ASSUME HubInv, [ExecutorsNext]_executors
               PROVE  HubInv'
    OBVIOUS
  <1>1. CASE UNCHANGED executors
    BY <1>1, UnchangedKeepsHub DEF executors
  <1> QED
    BY <1>1, CallerKeepsHub, BridgeKeepsHub DEF ExecutorsNext

(* The snapshots and all copies of them keep their types and promises.     *)
THEOREM HubInvariance == ExecutorsSpec => []HubInv
  BY InitHub, NextHub, PTL DEF ExecutorsSpec

(* No interleaving of starts, direct handovers, releases and the bridge's  *)
(* own requests parks a session between free and taken.                    *)
THEOREM FreeIsIdleBesideABridge == ExecutorsSpec => []FreeSessionsCarryNoMission
  <1>1. HubInv => FreeSessionsCarryNoMission
    BY DEF HubInv, TableOK, FreeSessionsCarryNoMission
  <1> QED
    BY <1>1, HubInvariance, PTL

(* The direct route and its own copy of the closure leave no done row      *)
(* without the agent that executed it, the closure's rows aside.           *)
THEOREM DoneIsExecutedBesideABridge == ExecutorsSpec => []DoneRowsWereExecuted
  <1>1. HubInv => DoneRowsWereExecuted
    BY DEF HubInv, QueueExecuted, Executed, DoneRowsWereExecuted
  <1> QED
    BY <1>1, HubInvariance, PTL

-----------------------------------------------------------------------------
(* Of done files.  From here on nothing fails to be loaded or saved.       *)
(*                                                                         *)
(* The argument.  As long as nothing of the bridge gets lost and others    *)
(* made one request at most, either all that is known of the session (its  *)
(* stored entry, every copy, what the bridge read, the file) is about one  *)
(* mission b (Single), or the hub is past the completion of the file's     *)
(* mission and only others' copies and, at the end, the stored entry name  *)
(* the next mission m (Handover).  To get from the one to the other the    *)
(* request must take the session; it can only where a table it read shows  *)
(* the session free or a row done, and as long as the request has not yet  *)
(* done so these show only when the file is as good as gone (Over).        *)

NoFaults == ~ SaveFaults /\ ~ LoadFaults

Hub == req[BridgeSlot]

(* What is stored, and what a request's copy says, of the bridge's session. *)
Work == sessions[BridgeSession]

Copy(i) == req[i].t[BridgeSession]

OnlyOn(x, b) == x = None \/ x.mission \in {b, None}

IsFree(x) == x # None /\ x.mission = None

SomeDone == \E r \in Live(queue) : queue[r].status = "done"

(* Where a request has a copy of the session table. *)
TablePc == {"bind", "sessionsSave", "startQueue", "completeQueue", "completeSave",
            "completeBoardLoad", "completeBoardSave", "directQueue", "direct",
            "directReconcile", "directReconciled", "directSave", "directDispatch",
            "directRelease"}

(* Where a caller may yet take a session. *)
PreClaim == {"decide", "dispatch", "bump", "claim", "directSessions", "directQueue",
             "direct", "directReconcile"}

(* The completion is through but for its saves. *)
ClosingPc == {"completeSave", "completeBoardLoad", "completeBoardSave", "sessionsSave"}

Closing ==
    /\ bridge.pc = "completeSent"
    /\ \/ Hub.pc \in ClosingPc /\ IsFree(Copy(BridgeSlot))
       \/ Hub.pc = "idle" /\ Hub.reply = "ok"

(* Where the bridge of an executor that leaves files stands, and its       *)
(* request.                                                                *)
BridgeKnows ==
    /\ ~ bridge.adapter
    /\ bridge.pc \in {"asleep", "awake", "agentBeat", "sessionBeat", "blockedSent",
                      "resumeSent", "completeSent", "aliveSent"}
    /\ bridge.pc \in {"blockedSent", "resumeSent", "completeSent", "aliveSent"}
          => bridge.seen # None
    /\ bridge.pc = "completeSent" => bridge.done = bridge.seen
    /\ bridge.pc \in {"asleep", "awake"} => Hub.pc = "idle"
    /\ bridge.pc = "agentBeat" => Hub.pc \in {"idle", "agentsSave"}
    /\ bridge.pc \in {"sessionBeat", "blockedSent", "resumeSent", "aliveSent"}
          => Hub.pc \in {"idle", "sessionsSave"}
    /\ bridge.pc = "completeSent" => Hub.pc \in {"idle", "completeQueue"} \cup ClosingPc
    /\ bridge.pc = "completeSent" /\ Hub.pc \in ClosingPc => IsFree(Copy(BridgeSlot))
    /\ Hub.pc = "completeQueue" => Hub.session = BridgeSession

SlotHolds(i) ==
    /\ req[i].pc \in TablePc => Copy(i) # None
    /\ req[i].pc = "idle" => Copy(i) = None

OneCall ==
    /\ calls = 0 => \A i \in Callers : req[i].pc = "idle"
    /\ \A i, j \in Callers : req[i].pc = "idle" \/ req[j].pc = "idle" \/ i = j

(* The one request of others is to come, or has not yet taken a session. *)
Unspent == calls = 0 \/ \E i \in Callers : req[i].pc \in PreClaim

(* A session that was found busy, and is taken. *)
Reconciles(i, b) ==
    req[i].pc = "directReconciled" /\ req[i].session = BridgeSession => req[i].mission = b

Single(b) ==
    /\ Work.mission \in {b, None}
    /\ bridge.done \in {b, None}
    /\ bridge.pc # "asleep" => bridge.seen \in {b, None}
    /\ \A i \in Requests : OnlyOn(Copy(i), b)
    /\ \A i \in Callers : Reconciles(i, b)

(* The file's mission is over: the completion is through, or there is no   *)
(* file, and no mission it could be written for.                           *)
Over ==
    \/ Closing
    \/ /\ bridge.done = None
       /\ bridge.pc = "asleep" \/ bridge.seen = None
       /\ Work.mission = None
       /\ OnlyOn(Copy(BridgeSlot), None)

Watchful ==
    /\ Work.mission = None => Over
    /\ \A i \in Requests : IsFree(Copy(i)) => Over
    /\ SomeDone => Over
    /\ Closing /\ Hub.pc = "idle" => Work.mission = None

Handover(m) ==
    /\ Closing
    /\ Hub.pc = "idle" => Work.mission \in {m, None}
    /\ \A i \in Callers : OnlyOn(Copy(i), m) /\ Reconciles(i, m)

Files ==
    \/ bridge.adapter /\ bridge.done = None /\ bridge.pc # "completeSent"
    \/ /\ BridgeKnows
       /\ \/ \E b \in Missions \cup {None} : Single(b) /\ (Unspent => Watchful)
          \/ \E m \in Missions : Handover(m) /\ ~ Unspent

Slots ==
    /\ Work # None
    /\ \A i \in Requests : SlotHolds(i)
    /\ OneCall

BridgeInv ==
    /\ bridge \in Bridge
    /\ calls \in Nat
    /\ calls <= 1 /\ bridge.losses = 0 => Slots /\ Files

-----------------------------------------------------------------------------
(* What a step of a caller does to what is known of the bridge's session.  *)

Before == PreClaim \cup {"idle"}

(* It takes the session for m: the table it works on shows it free or on m, *)
(* or the session was found busy with a mission that is done.              *)
Takes(i, m) ==
    \/ req[i].pc = "claim" /\ Work.mission \in {m, None}
    \/ req[i].pc = "direct" /\ Copy(i) # None /\ Copy(i).mission \in {m, None}
    \/ req[i].pc = "directReconciled" /\ req[i].session = BridgeSession /\ req[i].mission = m

CallerEffect(i) ==
    /\ req[i].pc \in Before => sessions' = sessions /\ queue' = queue
    /\ \/ Work' = Work
       \/ Work' = Copy(i) /\ req[i].pc \in TablePc
    /\ req'[i].pc = "idle" => Copy(i)' = None
    /\ req'[i].pc \in TablePc => Copy(i)' # None
    /\ req'[i].pc \in PreClaim => req[i].pc \in Before /\ Copy(i)' \in {None, Copy(i), Work}
    /\ \/ Copy(i)' \in {None, Copy(i)}
       \/ Copy(i)' = FreeSession
       \/ Copy(i)' = Work /\ req[i].pc \in Before
       \/ /\ \E m \in Missions : Copy(i)' = SessionOn(m, "busy") /\ Takes(i, m)
          /\ req'[i].pc \notin PreClaim
    /\ req'[i].pc = "directReconciled" /\ req'[i].session = BridgeSession
          => /\ req[i].pc = "directReconcile" /\ SomeDone /\ req'[i].mission \in Missions
             /\ Copy(i)' = FreeSession

(* A request at work on a table has the session in it. *)
Steady(i) == HubInv /\ NoFaults /\ Work # None /\ SlotHolds(i)

(* Without faults a load brings what is stored, and a save stores it.      *)
LEMMA NothingFails ==
    ASSUME NoFaults
    PROVE  /\ \A stored, empty : Loaded(stored, empty) = {stored}
           /\ SaveResults = {"ok"}
           /\ \A old, new : Stored("ok", old, new) = new
  BY DEF NoFaults, Loaded, SaveResults, Stored

(* What a change of one entry does to the bridge's session.                *)
LEMMA SetAt ==
    ASSUME NEW t \in SessionTable, NEW s \in Sessions, NEW x
    PROVE  Set(t, s, x)[BridgeSession] = IF s = BridgeSession THEN x ELSE t[BridgeSession]
  BY BridgeAssumption DEF Set, SessionTable

(* A free session has no mission; one that was put on a mission has it.    *)
LEMMA SessionShape ==
    /\ FreeSession # None /\ FreeSession.mission = None
    /\ \A m \in Missions : \A status \in {"busy", "waiting", "stale"} :
          SessionOn(m, status) # None /\ SessionOn(m, status).mission = m /\ m # None
  <1>1. FreeSession \in Session
    BY DEF FreeSession, Session, SessionStatus
  <1>2. \A m \in Missions : \A status \in {"busy", "waiting", "stale"} :
           SessionOn(m, status) \in Session
    BY DEF SessionOn, Session, SessionStatus
  <1> QED
    BY <1>1, <1>2, SessionAssumption DEF FreeSession, SessionOn

(* A blank slot has no copy of the session.                                *)
LEMMA BlankCopy == Blank.t[BridgeSession] = None /\ Blank.session = None
  BY BridgeAssumption DEF Blank, EmptySessions

(* A step moves one slot. *)
LEMMA OneMoves ==
    ASSUME HubInv, NEW i \in Requests, NEW x, Goto(i, x)
    PROVE  /\ req'[i] = x /\ Copy(i)' = x.t[BridgeSession]
           /\ \A j \in Requests : j # i => req'[j] = req[j]
  BY DEF HubInv, TypeOK, Goto, Copy

(* A handler that returns leaves a blank slot,                             *)
LEMMA FinishMoves ==
    ASSUME HubInv, NEW i \in Requests, NEW reply, Finish(i, reply)
    PROVE  /\ req'[i].pc = "idle" /\ Copy(i)' = None /\ req'[i].reply = reply
           /\ req'[i].session = None
           /\ \A j \in Requests : j # i => req'[j] = req[j]
  <1> DEFINE x == [Blank EXCEPT !.reply = reply]
  <1>1. x.pc = "idle" /\ x.t = Blank.t /\ x.reply = reply /\ x.session = None
    BY DEF Blank
  <1>2. Goto(i, x)
    BY DEF Finish
  <1> HIDE DEF x
  <1> QED
    BY <1>1, <1>2, OneMoves, BlankCopy

(* and one that commits a row keeps no table.                              *)
LEMMA CommitMoves ==
    ASSUME HubInv, NEW i \in Requests, NEW row, Commit(i, row)
    PROVE  /\ req'[i].pc \in {"boardLoad", "queueSave"} /\ Copy(i)' = None
           /\ \A j \in Requests : j # i => req'[j] = req[j]
  <1>1. PICK q :
           Goto(i, [Blank EXCEPT !.op = "update", !.row = req[i].row, !.q = q,
                                 !.pc = IF row.status = "done" THEN "boardLoad"
                                                               ELSE "queueSave"])
    BY DEF Commit
  <1> DEFINE x == [Blank EXCEPT !.op = "update", !.row = req[i].row, !.q = q,
                                !.pc = IF row.status = "done" THEN "boardLoad"
                                                              ELSE "queueSave"]
  <1>2. x.pc \in {"boardLoad", "queueSave"} /\ x.t = Blank.t
    BY DEF Blank
  <1>3. Goto(i, x)
    BY <1>1
  <1> HIDE DEF x
  <1> QED
    BY <1>2, <1>3, OneMoves, BlankCopy

(* A request that drops its copy, or keeps it, beside what it saves. *)
SavesOwn(i) ==
    /\ req[i].pc \in Before => sessions' = sessions /\ queue' = queue
    /\ \/ Work' = Work
       \/ Work' = Copy(i) /\ req[i].pc \in TablePc

(* A step that drops its copy is harmless beside what it saves,            *)
LEMMA DropsCopy ==
    ASSUME NEW i, SavesOwn(i), Copy(i)' = None,
           req'[i].pc \in {"idle", "boardLoad", "queueSave"}
    PROVE  CallerEffect(i)
  BY DEF CallerEffect, SavesOwn, TablePc, PreClaim

(* and so is one that carries it on.                                       *)
LEMMA KeepsCopy ==
    ASSUME NEW i, SlotHolds(i), SavesOwn(i), Copy(i)' = Copy(i),
           req'[i].pc \notin {"idle", "directReconciled"},
           req'[i].pc \in TablePc => req[i].pc \in TablePc,
           req'[i].pc \in PreClaim => req[i].pc \in PreClaim
    PROVE  CallerEffect(i)
  BY DEF CallerEffect, SavesOwn, SlotHolds, TablePc, PreClaim, Before

(* A step that stores nothing saves nothing of its own.                    *)
LEMMA SavesNothing ==
    ASSUME NEW i, UNCHANGED store
    PROVE  SavesOwn(i)
  BY DEF SavesOwn, store, Work

(* The queue route takes a session where it claims one, and stores it where *)
(* it binds it.                                                             *)
LEMMA QueueEntryEffect ==
    ASSUME NEW i \in Requests, Steady(i),
           CreateRows(i) \/ RemoveRows(i) \/ UpdateStatus(i)
    PROVE  CallerEffect(i)
  <1>1. HubInv /\ SavesOwn(i) /\ req[i].pc = "idle"
    BY SavesNothing DEF CreateRows, RemoveRows, UpdateStatus, Begins, At, Steady
  <1>2. ASSUME NEW op, NEW q, Goto(i, [Blank EXCEPT !.pc = "queueSave", !.op = op, !.q = q])
        PROVE  CallerEffect(i)
    <2> DEFINE x == [Blank EXCEPT !.pc = "queueSave", !.op = op, !.q = q]
    <2>1. x.pc = "queueSave" /\ x.t = Blank.t
      BY DEF Blank
    <2>2. Goto(i, x)
      BY <1>2
    <2> HIDE DEF x
    <2>3. req'[i].pc = "queueSave" /\ Copy(i)' = None
      BY <1>1, <2>1, <2>2, OneMoves, BlankCopy
    <2> QED
      BY <1>1, <2>3, DropsCopy
  <1>3. CASE CreateRows(i)
    <2>1. PICK q \in Loaded(queue, EmptyQueue), m \in Missions :
          \E S \in SUBSET {r \in Rows \ minted : MissionOf[r] = m} :
          \E who \in [S -> Asked], agent \in [S -> Agents \cup {None}] :
             Goto(i, [Blank EXCEPT !.pc = "queueSave", !.op = "create",
                                   !.q = Added(q, S, who, agent)])
      BY <1>3 DEF CreateRows
    <2>2. PICK S \in SUBSET {r \in Rows \ minted : MissionOf[r] = m} :
          \E who \in [S -> Asked], agent \in [S -> Agents \cup {None}] :
             Goto(i, [Blank EXCEPT !.pc = "queueSave", !.op = "create",
                                   !.q = Added(q, S, who, agent)])
      BY <2>1
    <2> QED
      BY <1>2, <2>2
  <1>4. CASE RemoveRows(i)
    <2>1. PICK q \in Loaded(queue, EmptyQueue) : \E S :
             Goto(i, [Blank EXCEPT !.pc = "queueSave", !.op = "remove",
                                   !.q = Without(q, S)])
      BY <1>4 DEF RemoveRows
    <2> QED
      BY <1>2, <2>1
  <1>5. CASE UpdateStatus(i)
    <2>1. PICK q \in Loaded(queue, EmptyQueue), r \in Rows :
            \/ Goto(i, [Blank EXCEPT !.pc = "decide", !.op = "update", !.row = r, !.q = q])
            \/ Finish(i, "refused")
      BY <1>5 DEF UpdateStatus
    <2> DEFINE x == [Blank EXCEPT !.pc = "decide", !.op = "update", !.row = r, !.q = q]
    <2>2. x.pc = "decide" /\ x.t = Blank.t
      BY DEF Blank
    <2> HIDE DEF x
    <2>3. CASE Goto(i, x)
      <3>1. req'[i].pc = "decide" /\ Copy(i)' = None
        BY <1>1, <2>2, <2>3, OneMoves, BlankCopy
      <3> QED
        BY <1>1, <3>1 DEF CallerEffect, SavesOwn, Before, PreClaim, TablePc
    <2>4. CASE Finish(i, "refused")
      BY <1>1, <2>4, FinishMoves, DropsCopy
    <2> QED
      BY <2>1, <2>3, <2>4 DEF x
  <1> QED
    BY <1>3, <1>4, <1>5

(* The decision on an update reads no sessions.                            *)
LEMMA DecideEffect ==
    ASSUME NEW i \in Requests, Steady(i),
           DecideGate(i) \/ DecideSync(i) \/ DecideStart(i) \/ DecideMove(i)
    PROVE  CallerEffect(i)
  <1>1. \/ \E row : Commit(i, row)
        \/ Finish(i, "refused")
        \/ \E g, a : Goto(i, [req[i] EXCEPT !.pc = "dispatch", !.g = g, !.agent = a])
        \/ \E g, next : Goto(i, [req[i] EXCEPT !.pc = "unload", !.g = g, !.status = next])
    BY DEF DecideGate, DecideSync, DecideStart, DecideMove
  <1>2. /\ HubInv /\ SavesOwn(i) /\ req[i].pc = "decide" /\ SlotHolds(i)
        /\ req[i] \in Slot
    BY SavesNothing
    DEF DecideGate, DecideSync, DecideStart, DecideMove, AgentsLoaded, At, Steady, HubInv,
        SlotKnows
  <1>3. ASSUME NEW row, Commit(i, row)
        PROVE  CallerEffect(i)
    BY <1>2, <1>3, CommitMoves, DropsCopy
  <1>4. CASE Finish(i, "refused")
    BY <1>2, <1>4, FinishMoves, DropsCopy
  <1>5. ASSUME NEW g, NEW a, Goto(i, [req[i] EXCEPT !.pc = "dispatch", !.g = g, !.agent = a])
        PROVE  CallerEffect(i)
    <2> DEFINE x == [req[i] EXCEPT !.pc = "dispatch", !.g = g, !.agent = a]
    <2>1. x.pc = "dispatch" /\ x.t = req[i].t /\ Goto(i, x)
      BY <1>2, <1>5 DEF Slot
    <2> HIDE DEF x
    <2>2. req'[i].pc = "dispatch" /\ Copy(i)' = Copy(i)
      BY <1>2, <2>1, OneMoves DEF Copy
    <2> QED
      BY <1>2, <2>2, KeepsCopy DEF TablePc, PreClaim
  <1>6. ASSUME NEW g, NEW next,
               Goto(i, [req[i] EXCEPT !.pc = "unload", !.g = g, !.status = next])
        PROVE  CallerEffect(i)
    <2> DEFINE x == [req[i] EXCEPT !.pc = "unload", !.g = g, !.status = next]
    <2>1. x.pc = "unload" /\ x.t = req[i].t /\ Goto(i, x)
      BY <1>2, <1>6 DEF Slot
    <2> HIDE DEF x
    <2>2. req'[i].pc = "unload" /\ Copy(i)' = Copy(i)
      BY <1>2, <2>1, OneMoves DEF Copy
    <2> QED
      BY <1>2, <2>2, KeepsCopy DEF TablePc, PreClaim
  <1> QED
    BY <1>1, <1>3, <1>4, <1>5, <1>6

(* A save of another snapshot. *)
LEMMA SavesElsewhere ==
    ASSUME NEW i, sessions' = sessions, req[i].pc \notin Before
    PROVE  SavesOwn(i)
  BY DEF SavesOwn, Work

(* Neither do the saves of the queue, of the load and of the board.        *)
LEMMA MovingEffect ==
    ASSUME NEW i \in Requests, Steady(i),
           SaveQueue(i) \/ SaveUnload(i) \/ LoadBoard(i) \/ SaveBoard(i)
    PROVE  CallerEffect(i)
  <1>1. /\ HubInv /\ SlotHolds(i) /\ req[i] \in Slot
        /\ req[i].pc \in {"queueSave", "unload", "boardLoad", "boardSave"}
    BY DEF SaveQueue, SaveUnload, LoadBoard, SaveBoard, At, Steady, HubInv, SlotKnows
  <1>2. SavesOwn(i)
    <2>1. sessions' = sessions
      BY DEF SaveQueue, SaveUnload, LoadBoard, SaveBoard, store
    <2> QED
      BY <1>1, <2>1, SavesElsewhere DEF Before, PreClaim
  <1>3. \/ \E row : Commit(i, row)
        \/ \E reply : Finish(i, reply)
        \/ \E b : Goto(i, [req[i] EXCEPT !.pc = "boardSave", !.b = b])
        \/ Goto(i, [req[i] EXCEPT !.pc = "queueSave", !.b = {}])
    BY DEF SaveQueue, SaveUnload, LoadBoard, SaveBoard
  <1>4. ASSUME NEW row, Commit(i, row)
        PROVE  CallerEffect(i)
    BY <1>1, <1>2, <1>4, CommitMoves, DropsCopy
  <1>5. ASSUME NEW reply, Finish(i, reply)
        PROVE  CallerEffect(i)
    BY <1>1, <1>2, <1>5, FinishMoves, DropsCopy
  <1>6. ASSUME NEW b, NEW pc \in {"boardSave", "queueSave"},
               Goto(i, [req[i] EXCEPT !.pc = pc, !.b = b])
        PROVE  CallerEffect(i)
    <2> DEFINE x == [req[i] EXCEPT !.pc = pc, !.b = b]
    <2>1. x.pc = pc /\ x.t = req[i].t /\ Goto(i, x)
      BY <1>1, <1>6 DEF Slot
    <2> HIDE DEF x
    <2>2. req'[i].pc = pc /\ Copy(i)' = Copy(i)
      BY <1>1, <2>1, OneMoves DEF Copy
    <2> QED
      BY <1>1, <1>2, <2>2, KeepsCopy DEF TablePc, PreClaim
  <1> QED
    BY <1>3, <1>4, <1>5, <1>6

(* A start goes through the workers and the registry first.                *)
LEMMA StartingEffect ==
    ASSUME NEW i \in Requests, Steady(i), Dispatch(i) \/ SaveBump(i)
    PROVE  CallerEffect(i)
  <1>1. /\ HubInv /\ SlotHolds(i) /\ req[i] \in Slot
        /\ req[i].pc \in {"dispatch", "bump"}
    BY DEF Dispatch, SaveBump, At, Steady, HubInv, SlotKnows
  <1>2. SavesOwn(i)
    BY DEF Dispatch, SaveBump, SavesOwn, store, Work
  <1>3. \/ \E pc \in {"claim", "bump"} : \E j : Goto(i, [req[i] EXCEPT !.pc = pc, !.job = j])
        \/ Finish(i, "refused")
        \/ Goto(i, [req[i] EXCEPT !.pc = "claim", !.g = EmptyRegistry, !.agent = None])
    <2>1. CASE Dispatch(i)
      <3>1. \/ Finish(i, "refused")
            \/ \E j : Goto(i, [req[i] EXCEPT
                                 !.pc = IF req[i].agent = None THEN "claim" ELSE "bump",
                                 !.job = j])
        BY <2>1 DEF Dispatch
      <3> DEFINE pc == IF req[i].agent = None THEN "claim" ELSE "bump"
      <3>2. pc \in {"claim", "bump"}
        OBVIOUS
      <3> QED
        BY <3>1, <3>2
    <2>2. CASE SaveBump(i)
      BY <2>2 DEF SaveBump
    <2> QED
      BY <2>1, <2>2
  <1>4. ASSUME NEW pc \in {"claim", "bump"}, NEW j,
               Goto(i, [req[i] EXCEPT !.pc = pc, !.job = j])
        PROVE  CallerEffect(i)
    <2> DEFINE x == [req[i] EXCEPT !.pc = pc, !.job = j]
    <2>1. x.pc = pc /\ x.t = req[i].t /\ Goto(i, x)
      BY <1>1, <1>4 DEF Slot
    <2> HIDE DEF x
    <2>2. req'[i].pc = pc /\ Copy(i)' = Copy(i)
      BY <1>1, <2>1, OneMoves DEF Copy
    <2> QED
      BY <1>1, <1>2, <2>2, KeepsCopy DEF TablePc, PreClaim
  <1>5. CASE Finish(i, "refused")
    BY <1>1, <1>2, <1>5, FinishMoves, DropsCopy
  <1>6. CASE Goto(i, [req[i] EXCEPT !.pc = "claim", !.g = EmptyRegistry, !.agent = None])
    <2> DEFINE x == [req[i] EXCEPT !.pc = "claim", !.g = EmptyRegistry, !.agent = None]
    <2>1. x.pc = "claim" /\ x.t = req[i].t /\ Goto(i, x)
      BY <1>1, <1>6 DEF Slot
    <2> HIDE DEF x
    <2>2. req'[i].pc = "claim" /\ Copy(i)' = Copy(i)
      BY <1>1, <2>1, OneMoves DEF Copy
    <2> QED
      BY <1>1, <1>2, <2>2, KeepsCopy DEF TablePc, PreClaim
  <1> QED
    BY <1>3, <1>4, <1>5, <1>6

(* The claim takes the bridge's session only free or on the mission already. *)
LEMMA ClaimEffect ==
    ASSUME NEW i \in Requests, Steady(i), ClaimSession(i)
    PROVE  CallerEffect(i)
  <1> DEFINE m == MissionOf[req[i].row]
  <1>1. /\ HubInv /\ SavesOwn(i) /\ SlotHolds(i) /\ req[i] \in Slot /\ Work # None
        /\ req[i].pc = "claim" /\ sessions \in SessionTable /\ m \in Missions
    BY SavesNothing, QueueAssumption
    DEF ClaimSession, At, Steady, HubInv, TypeOK, SlotKnows, RowPc, Live
  <1>2. \/ Finish(i, "refused")
        \/ \E s \in StartSessions(sessions, req[i].row, Current(i)) :
              Goto(i, [req[i] EXCEPT !.pc = "bind", !.session = s, !.g = EmptyRegistry,
                                     !.t = Set(sessions, s, SessionOn(m, "busy"))])
    BY NothingFails DEF ClaimSession, Steady
  <1>3. ASSUME NEW s \in StartSessions(sessions, req[i].row, Current(i)),
               Goto(i, [req[i] EXCEPT !.pc = "bind", !.session = s, !.g = EmptyRegistry,
                                      !.t = Set(sessions, s, SessionOn(m, "busy"))])
        PROVE  CallerEffect(i)
    <2> DEFINE u == Set(sessions, s, SessionOn(m, "busy"))
               x == [req[i] EXCEPT !.pc = "bind", !.session = s, !.g = EmptyRegistry,
                                   !.t = u]
    <2>1. s \in Sessions /\ (s = BridgeSession => Work.mission \in {m, None})
      BY DEF StartSessions, MissionBound, Claimable, Known, Work
    <2>2. u[BridgeSession] = IF s = BridgeSession THEN SessionOn(m, "busy") ELSE Work
      BY <1>1, <2>1, SetAt DEF Work
    <2>3. Goto(i, x)
      BY <1>3
    <2> HIDE DEF u
    <2>4. x.pc = "bind" /\ x.t = u
      BY <1>1 DEF Slot
    <2> HIDE DEF x
    <2>5. /\ req'[i].pc = "bind"
          /\ Copy(i)' = IF s = BridgeSession THEN SessionOn(m, "busy") ELSE Work
      BY <1>1, <2>2, <2>3, <2>4, OneMoves
    <2>6. CASE s = BridgeSession
      BY <1>1, <2>1, <2>5, <2>6, SessionShape
      DEF CallerEffect, SavesOwn, Takes, Before, PreClaim, TablePc
    <2>7. CASE s # BridgeSession
      BY <1>1, <2>5, <2>7 DEF CallerEffect, SavesOwn, Before, PreClaim, TablePc
    <2> QED
      BY <2>6, <2>7
  <1>4. CASE Finish(i, "refused")
    BY <1>1, <1>4, FinishMoves, DropsCopy
  <1> QED
    BY <1>2, <1>3, <1>4

(* The copy is stored, *)
LEMMA StoresOwn ==
    ASSUME NEW i, NoFaults, req[i].pc \in TablePc \ Before,
           \E result \in SaveResults : sessions' = Stored(result, sessions, req[i].t)
    PROVE  SavesOwn(i) /\ sessions' = req[i].t
  <1>1. sessions' = req[i].t
    BY NothingFails
  <1> QED
    BY <1>1 DEF SavesOwn, Work, Copy

(* What was claimed is stored.                                             *)
LEMMA BindEffect ==
    ASSUME NEW i \in Requests, Steady(i), BindSession(i)
    PROVE  CallerEffect(i)
  <1>1. HubInv /\ SavesOwn(i)
    BY StoresOwn DEF BindSession, At, Steady, TablePc, Before, PreClaim
  <1>2. (\E row : Commit(i, row)) \/ Finish(i, "failed")
    BY DEF BindSession
  <1> QED
    BY <1>1, <1>2, CommitMoves, FinishMoves, DropsCopy

(* and so it is at the end of a release. *)
LEMMA ReleaseEffect ==
    ASSUME NEW i \in Requests, Steady(i), ReleaseSession(i) \/ SaveSessions(i)
    PROVE  CallerEffect(i)
  <1>1. HubInv /\ Work # None /\ sessions \in SessionTable
    BY DEF Steady, HubInv, TypeOK
  <1>2. CASE ReleaseSession(i)
    <2>1. SavesOwn(i) /\ req[i].pc = "idle"
      BY <1>2, SavesNothing DEF ReleaseSession, Begins, At
    <2>2. \/ Finish(i, "refused")
          \/ \E s \in Sessions : SaveTable(i, "release", s, FreeSession, sessions)
      BY <1>2, NothingFails DEF ReleaseSession, Steady
    <2>3. ASSUME NEW s \in Sessions, SaveTable(i, "release", s, FreeSession, sessions)
          PROVE  CallerEffect(i)
      <3> DEFINE u == Set(sessions, s, FreeSession)
                 x == [Blank EXCEPT !.pc = "sessionsSave", !.op = "release",
                                    !.session = s, !.t = u]
      <3>1. u[BridgeSession] = IF s = BridgeSession THEN FreeSession ELSE Work
        BY <1>1, SetAt DEF Work
      <3>2. Goto(i, x)
        BY <2>3 DEF SaveTable
      <3> HIDE DEF u
      <3>3. x.pc = "sessionsSave" /\ x.t = u
        BY DEF Blank
      <3> HIDE DEF x
      <3>4. req'[i].pc = "sessionsSave" /\ Copy(i)' \in {FreeSession, Work}
        BY <1>1, <3>1, <3>2, <3>3, OneMoves
      <3> QED
        BY <1>1, <2>1, <3>4, SessionShape
        DEF CallerEffect, SavesOwn, Before, PreClaim, TablePc
    <2> QED
      BY <1>1, <2>1, <2>2, <2>3, FinishMoves, DropsCopy
  <1>3. CASE SaveSessions(i)
    <2>1. SavesOwn(i)
      BY <1>3, StoresOwn DEF SaveSessions, At, Steady, TablePc, Before, PreClaim
    <2> QED
      BY <1>1, <1>3, <2>1, FinishMoves, DropsCopy DEF SaveSessions
  <1> QED
    BY <1>2, <1>3

(* The direct route reads the table first or second, *)
LEMMA DirectEntryEffect ==
    ASSUME NEW i \in Requests, Steady(i), DirectCall(i) \/ DirectLoad(i)
    PROVE  CallerEffect(i)
  <1>1. /\ HubInv /\ SavesOwn(i) /\ SlotHolds(i) /\ req[i] \in Slot /\ Work # None
        /\ req[i].pc \in {"idle", "directSessions", "directQueue"}
    BY SavesNothing DEF DirectCall, DirectLoad, Begins, At, Steady, HubInv, SlotKnows
  <1>2. \/ \E q : Goto(i, [Blank EXCEPT !.pc = "directSessions", !.op = "direct", !.q = q])
        \/ Goto(i, [Blank EXCEPT !.pc = "directQueue", !.op = "direct", !.t = sessions])
        \/ Goto(i, [req[i] EXCEPT !.pc = "direct", !.t = sessions])
        \/ /\ req[i].pc = "directQueue"
           /\ \E q : Goto(i, [req[i] EXCEPT !.pc = "direct", !.q = q])
    <2>1. Loaded(sessions, EmptySessions) = {sessions}
      BY NothingFails DEF Steady
    <2>2. CASE DirectCall(i)
      BY <2>1, <2>2 DEF DirectCall
    <2>3. CASE DirectLoad(i)
      BY <2>1, <2>3 DEF DirectLoad, At
    <2> QED
      BY <2>2, <2>3
  <1>3. ASSUME NEW q,
               Goto(i, [Blank EXCEPT !.pc = "directSessions", !.op = "direct", !.q = q])
        PROVE  CallerEffect(i)
    <2> DEFINE x == [Blank EXCEPT !.pc = "directSessions", !.op = "direct", !.q = q]
    <2>1. x.pc = "directSessions" /\ x.t = Blank.t /\ Goto(i, x)
      BY <1>3 DEF Blank
    <2> HIDE DEF x
    <2>2. req'[i].pc = "directSessions" /\ Copy(i)' = None
      BY <1>1, <2>1, OneMoves, BlankCopy
    <2> QED
      BY <1>1, <2>2 DEF CallerEffect, SavesOwn, Before, PreClaim, TablePc
  <1>4. CASE Goto(i, [Blank EXCEPT !.pc = "directQueue", !.op = "direct", !.t = sessions])
    <2> DEFINE x == [Blank EXCEPT !.pc = "directQueue", !.op = "direct", !.t = sessions]
    <2>1. x.pc = "directQueue" /\ x.t = sessions /\ Goto(i, x)
      BY <1>4 DEF Blank
    <2> HIDE DEF x
    <2>2. req'[i].pc = "directQueue" /\ Copy(i)' = Work
      BY <1>1, <2>1, OneMoves DEF Work
    <2> QED
      BY <1>1, <2>2 DEF CallerEffect, SavesOwn, Before, PreClaim, TablePc
  <1>5. CASE Goto(i, [req[i] EXCEPT !.pc = "direct", !.t = sessions])
    <2> DEFINE x == [req[i] EXCEPT !.pc = "direct", !.t = sessions]
    <2>1. x.pc = "direct" /\ x.t = sessions /\ Goto(i, x)
      BY <1>1, <1>5 DEF Slot
    <2> HIDE DEF x
    <2>2. req'[i].pc = "direct" /\ Copy(i)' = Work
      BY <1>1, <2>1, OneMoves DEF Work
    <2> QED
      BY <1>1, <2>2 DEF CallerEffect, SavesOwn, Before, PreClaim, TablePc
  <1>6. ASSUME NEW q, req[i].pc = "directQueue",
               Goto(i, [req[i] EXCEPT !.pc = "direct", !.q = q])
        PROVE  CallerEffect(i)
    <2> DEFINE x == [req[i] EXCEPT !.pc = "direct", !.q = q]
    <2>1. x.pc = "direct" /\ x.t = req[i].t /\ Goto(i, x)
      BY <1>1, <1>6 DEF Slot
    <2> HIDE DEF x
    <2>2. req'[i].pc = "direct" /\ Copy(i)' = Copy(i)
      BY <1>1, <2>1, OneMoves DEF Copy
    <2> QED
      BY <1>1, <1>6, <2>2, KeepsCopy DEF TablePc, PreClaim
  <1> QED
    BY <1>2, <1>3, <1>4, <1>5, <1>6

(* What an assignment makes of the bridge's session. *)
LEMMA AssignedAt ==
    ASSUME NEW t \in SessionTable, NEW s \in Sessions, NEW m, NEW final
    PROVE  /\ s # BridgeSession => Assigned(t, s, m, final)[BridgeSession] = t[BridgeSession]
           /\ s = BridgeSession =>
                 Assigned(t, s, m, final)[BridgeSession] \in {FreeSession, SessionOn(m, "busy")}
  BY SetAt DEF Assigned

(* takes the session it found free or on the mission, *)
LEMMA ResolveEffect ==
    ASSUME NEW i \in Requests, Steady(i), DirectResolve(i)
    PROVE  CallerEffect(i) /\ \E x : Goto(i, x)
  <1>1. /\ HubInv /\ SavesOwn(i) /\ SlotHolds(i) /\ req[i] \in Slot /\ Work # None
        /\ req[i].pc = "direct" /\ req[i].t \in SessionTable /\ Copy(i) # None
    BY SavesNothing DEF DirectResolve, At, Steady, HubInv, SlotKnows, TableOK, SlotHolds, TablePc
  <1>2. PICK m \in Missions, who \in Asked \ {"STAFF"}, agent \in Agents \cup {None},
             final \in {"done", None} :
        LET t     == req[i].t
            found == SessionsOfAgent(t, who, agent)
            call  == [req[i] EXCEPT !.mission = m, !.agent = agent, !.status = final]
        IN  \E exact \in IF found = {} THEN {None} ELSE found :
             \/ /\ exact # None /\ WorksElsewhere(t[exact], m)
                /\ Goto(i, [call EXCEPT !.pc = "directReconcile", !.session = exact])
             \/ /\ exact # None => ~ WorksElsewhere(t[exact], m)
                /\ \/ /\ DirectSessions(t, who, agent, exact) = {}
                      /\ Finish(i, "refused")
                   \/ \E s \in DirectSessions(t, who, agent, exact) :
                        Goto(i, [call EXCEPT !.pc = "directSave", !.session = s,
                                             !.t = Assigned(t, s, m, final)])
    BY DEF DirectResolve
  <1> DEFINE t     == req[i].t
             found == SessionsOfAgent(t, who, agent)
             call  == [req[i] EXCEPT !.mission = m, !.agent = agent, !.status = final]
  <1>3. call.t = t /\ DOMAIN call = DOMAIN req[i]
    BY <1>1 DEF Slot
  <1> HIDE DEF call
  <1>4. PICK exact \in IF found = {} THEN {None} ELSE found :
             \/ Goto(i, [call EXCEPT !.pc = "directReconcile", !.session = exact])
             \/ Finish(i, "refused")
             \/ /\ exact # None => ~ WorksElsewhere(t[exact], m)
                /\ \E s \in DirectSessions(t, who, agent, exact) :
                     Goto(i, [call EXCEPT !.pc = "directSave", !.session = s,
                                          !.t = Assigned(t, s, m, final)])
    BY <1>2 DEF call
  <1>5. exact \in found \cup {None}
    OBVIOUS
  <1>6. "pc" \in DOMAIN call /\ "t" \in DOMAIN call
    BY <1>1, <1>3 DEF Slot
  <1>7. ASSUME Goto(i, [call EXCEPT !.pc = "directReconcile", !.session = exact])
        PROVE  CallerEffect(i)
    <2> DEFINE x == [call EXCEPT !.pc = "directReconcile", !.session = exact]
    <2>1. x.pc = "directReconcile" /\ x.t = req[i].t /\ Goto(i, x)
      BY <1>3, <1>6, <1>7
    <2> HIDE DEF x
    <2>2. req'[i].pc = "directReconcile" /\ Copy(i)' = Copy(i)
      BY <1>1, <2>1, OneMoves DEF Copy
    <2> QED
      BY <1>1, <2>2, KeepsCopy DEF TablePc, PreClaim
  <1>8. ASSUME Finish(i, "refused")
        PROVE  CallerEffect(i)
    BY <1>1, <1>8, FinishMoves, DropsCopy
  <1>9. ASSUME exact # None => ~ WorksElsewhere(t[exact], m),
               NEW s \in DirectSessions(t, who, agent, exact),
               Goto(i, [call EXCEPT !.pc = "directSave", !.session = s,
                                    !.t = Assigned(t, s, m, final)])
        PROVE  CallerEffect(i)
    <2> DEFINE u == Assigned(t, s, m, final)
               x == [call EXCEPT !.pc = "directSave", !.session = s, !.t = u]
    <2>1. s \in Sessions
      BY <1>5, DirectSessionsKnown
    <2>2. s = BridgeSession => Copy(i).mission \in {m, None}
      BY <1>5, <1>9 DEF DirectSessions, ClaimableFor, WorksElsewhere, Copy
    <2>3. /\ s # BridgeSession => u[BridgeSession] = Copy(i)
          /\ s = BridgeSession => u[BridgeSession] \in {FreeSession, SessionOn(m, "busy")}
      BY <1>1, <2>1, AssignedAt DEF Copy
    <2> HIDE DEF u
    <2>4. x.pc = "directSave" /\ x.t = u
      BY <1>6
    <2>5. Goto(i, x)
      BY <1>9 DEF u
    <2> HIDE DEF x
    <2>6. req'[i].pc = "directSave" /\ Copy(i)' = u[BridgeSession]
      BY <1>1, <2>4, <2>5, OneMoves
    <2>7. CASE s # BridgeSession
      <3>1. Copy(i)' = Copy(i)
        BY <2>3, <2>6, <2>7
      <3> QED
        BY <1>1, <2>6, <3>1, KeepsCopy DEF TablePc, PreClaim
    <2>8. CASE s = BridgeSession
      BY <1>1, <2>2, <2>3, <2>6, <2>8, SessionShape
      DEF CallerEffect, SavesOwn, Takes, Before, PreClaim, TablePc
    <2> QED
      BY <2>7, <2>8
  <1>10. \E x : Goto(i, x)
    BY <1>4 DEF Finish
  <1> QED
    BY <1>4, <1>7, <1>8, <1>9, <1>10

(* or one whose mission is done, *)
LEMMA ReconcileEffect ==
    ASSUME NEW i \in Requests, Steady(i), DirectReconcile(i)
    PROVE  CallerEffect(i)
  <1>1. /\ HubInv /\ SavesOwn(i) /\ SlotHolds(i) /\ req[i] \in Slot
        /\ req[i].pc = "directReconcile" /\ req[i].t \in SessionTable /\ Copy(i) # None
        /\ req[i].session \in Sessions /\ req[i].mission \in Missions
    BY SavesNothing
    DEF DirectReconcile, At, Steady, HubInv, SlotKnows, TableOK, SlotHolds, TablePc, DirectPc
  <1> DEFINE u == Set(req[i].t, req[i].session, FreeSession)
             x == [req[i] EXCEPT !.pc = "directReconciled", !.t = u]
  <1>2. Finish(i, "refused") \/ (SomeDone /\ Goto(i, x))
    <2>1. Loaded(queue, EmptyQueue) = {queue}
      BY NothingFails DEF Steady
    <2> QED
      BY <2>1 DEF DirectReconcile, SomeDone, RowsOf
  <1>3. u[BridgeSession] = IF req[i].session = BridgeSession THEN FreeSession ELSE Copy(i)
    BY <1>1, SetAt DEF Copy
  <1> HIDE DEF u
  <1>4. /\ x.pc = "directReconciled" /\ x.t = u /\ x.session = req[i].session
        /\ x.mission = req[i].mission
    BY <1>1 DEF Slot
  <1> HIDE DEF x
  <1>5. CASE Finish(i, "refused")
    BY <1>1, <1>5, FinishMoves, DropsCopy
  <1>6. CASE SomeDone /\ Goto(i, x)
    <2>1. /\ req'[i].pc = "directReconciled" /\ req'[i].session = req[i].session
          /\ req'[i].mission = req[i].mission /\ Copy(i)' = u[BridgeSession]
      BY <1>1, <1>4, <1>6, OneMoves
    <2> QED
      BY <1>1, <1>3, <1>6, <2>1, SessionShape
      DEF CallerEffect, SavesOwn, Before, PreClaim, TablePc
  <1> QED
    BY <1>2, <1>5, <1>6

(* and saves what it made of its copy. *)
LEMMA AssignEffect ==
    ASSUME NEW i \in Requests, Steady(i), SaveReconciled(i) \/ SaveAssigned(i)
    PROVE  CallerEffect(i)
  <1>1. /\ HubInv /\ SlotHolds(i) /\ req[i] \in Slot
        /\ req[i].pc \in {"directReconciled", "directSave"}
        /\ req[i].t \in SessionTable /\ Copy(i) # None
        /\ req[i].session \in Sessions /\ req[i].mission \in Missions
    BY DEF SaveReconciled, SaveAssigned, At, Steady, HubInv, SlotKnows, TableOK, SlotHolds,
           TablePc, DirectPc
  <1>2. SavesOwn(i)
    BY <1>1, StoresOwn DEF SaveReconciled, SaveAssigned, Steady, TablePc, Before, PreClaim
  <1>3. CASE SaveReconciled(i)
    <2> DEFINE u == Assigned(req[i].t, req[i].session, req[i].mission, req[i].status)
               x == [req[i] EXCEPT !.pc = "directSave", !.t = u]
    <2>1. /\ req[i].session # BridgeSession => u[BridgeSession] = Copy(i)
          /\ req[i].session = BridgeSession =>
                u[BridgeSession] \in {FreeSession, SessionOn(req[i].mission, "busy")}
      BY <1>1, AssignedAt DEF Copy
    <2>2. Goto(i, x) /\ req[i].pc = "directReconciled"
      BY <1>3 DEF SaveReconciled, At
    <2> HIDE DEF u
    <2>3. x.pc = "directSave" /\ x.t = u
      BY <1>1 DEF Slot
    <2> HIDE DEF x
    <2>4. req'[i].pc = "directSave" /\ Copy(i)' = u[BridgeSession]
      BY <1>1, <2>2, <2>3, OneMoves
    <2> QED
      BY <1>1, <1>2, <2>1, <2>2, <2>4, SessionShape
      DEF CallerEffect, SavesOwn, Takes, Before, PreClaim, TablePc
  <1>4. CASE SaveAssigned(i)
    <2> DEFINE x == [req[i] EXCEPT !.pc = "directDispatch"]
    <2>1. x.pc = "directDispatch" /\ x.t = req[i].t /\ Goto(i, x)
      BY <1>1, <1>4 DEF Slot, SaveAssigned
    <2> HIDE DEF x
    <2>2. req'[i].pc = "directDispatch" /\ Copy(i)' = Copy(i)
      BY <1>1, <2>1, OneMoves DEF Copy
    <2> QED
      BY <1>1, <1>2, <2>2, KeepsCopy DEF TablePc, PreClaim
  <1> QED
    BY <1>3, <1>4

(* An answer leaves the copy alone, or frees the session in it. *)
LEMMA AnswerEffect ==
    ASSUME NEW i \in Requests, Steady(i),
           DirectDispatch(i) \/ SaveDirectRelease(i) \/ SaveDirectQueue(i)
    PROVE  CallerEffect(i)
  <1>1. /\ HubInv /\ SlotHolds(i) /\ req[i] \in Slot /\ req[i].t \in SessionTable
        /\ req[i].pc \in {"directDispatch", "directRelease", "directQueueSave"}
        /\ DirectDispatch(i) => req[i].session \in Sessions /\ Copy(i) # None
    BY DEF DirectDispatch, SaveDirectRelease, SaveDirectQueue, At, Steady, HubInv, SlotKnows,
           TableOK, SlotHolds, TablePc, DirectPc
  <1>2. SavesOwn(i)
    <2>1. CASE DirectDispatch(i)
      BY <2>1, SavesNothing DEF DirectDispatch
    <2>2. CASE SaveDirectRelease(i)
      BY <1>1, <2>2, StoresOwn DEF SaveDirectRelease, At, Steady, TablePc, Before, PreClaim
    <2>3. CASE SaveDirectQueue(i)
      BY <1>1, <2>3, SavesElsewhere DEF SaveDirectQueue, Before, PreClaim
    <2> QED
      BY <2>1, <2>2, <2>3
  <1> DEFINE u == Set(req[i].t, req[i].session, FreeSession)
             x == [req[i] EXCEPT !.pc = "directRelease", !.t = u]
  <1>3. \/ \E reply : Finish(i, reply)
        \/ \E q : Goto(i, [req[i] EXCEPT !.pc = "directQueueSave", !.q = q])
        \/ DirectDispatch(i) /\ Goto(i, x)
    BY DEF DirectDispatch, SaveDirectRelease, SaveDirectQueue, RecordAnswer
  <1> HIDE DEF x
  <1>4. ASSUME NEW reply, Finish(i, reply)
        PROVE  CallerEffect(i)
    BY <1>1, <1>2, <1>4, FinishMoves, DropsCopy
  <1>5. ASSUME NEW q, Goto(i, [req[i] EXCEPT !.pc = "directQueueSave", !.q = q])
        PROVE  CallerEffect(i)
    <2> DEFINE y == [req[i] EXCEPT !.pc = "directQueueSave", !.q = q]
    <2>1. y.pc = "directQueueSave" /\ y.t = req[i].t /\ Goto(i, y)
      BY <1>1, <1>5 DEF Slot
    <2> HIDE DEF y
    <2>2. req'[i].pc = "directQueueSave" /\ Copy(i)' = Copy(i)
      BY <1>1, <2>1, OneMoves DEF Copy
    <2> QED
      BY <1>1, <1>2, <2>2, KeepsCopy DEF TablePc, PreClaim
  <1>6. CASE DirectDispatch(i) /\ Goto(i, x)
    <2>1. u[BridgeSession] \in {FreeSession, Copy(i)}
      BY <1>1, <1>6, SetAt DEF Copy
    <2> HIDE DEF u
    <2>2. x.pc = "directRelease" /\ x.t = u
      BY <1>1 DEF Slot, x
    <2>3. req'[i].pc = "directRelease" /\ Copy(i)' \in {FreeSession, Copy(i)}
      BY <1>1, <1>6, <2>1, <2>2, OneMoves
    <2> QED
      BY <1>1, <1>2, <1>6, <2>3, SessionShape
      DEF CallerEffect, SavesOwn, Before, PreClaim, TablePc
  <1> QED
    BY <1>3, <1>4, <1>5, <1>6

(* All that a caller does. *)
LEMMA CallersEffect ==
    ASSUME NEW i \in Callers, Steady(i), CallerNext(i)
    PROVE  /\ CallerEffect(i)
           /\ \A j \in Requests : j # i => req'[j] = req[j]
  <1>1. i \in Requests /\ HubInv
    BY DEF Callers, Steady
  <1>2. QueueNext(i) => CallerEffect(i)
    BY <1>1, QueueEntryEffect, DecideEffect, MovingEffect, StartingEffect, ClaimEffect,
       BindEffect
    DEF QueueNext
  <1>3. DirectNext(i) => CallerEffect(i)
    BY <1>1, DirectEntryEffect, ResolveEffect, ReconcileEffect, AssignEffect, AnswerEffect
    DEF DirectNext
  <1>4. CallerEffect(i)
    BY <1>1, <1>2, <1>3, ReleaseEffect DEF CallerNext
  <1>5. \E x : Goto(i, x)
    <2>1. \A row : Commit(i, row) => \E x : Goto(i, x)
      BY DEF Commit
    <2>2. CreateRows(i) \/ RemoveRows(i) \/ SaveQueue(i) \/ UpdateStatus(i) => \E x : Goto(i, x)
      BY DEF CreateRows, RemoveRows, SaveQueue, UpdateStatus, Finish
    <2>3. DecideGate(i) \/ DecideSync(i) \/ DecideStart(i) \/ DecideMove(i)
             => \E x : Goto(i, x)
      BY <2>1 DEF DecideGate, DecideSync, DecideStart, DecideMove, Finish
    <2>4. SaveUnload(i) \/ LoadBoard(i) \/ SaveBoard(i) => \E x : Goto(i, x)
      BY <2>1 DEF SaveUnload, LoadBoard, SaveBoard, Finish
    <2>5. Dispatch(i) \/ SaveBump(i) \/ ClaimSession(i) \/ BindSession(i)
             => \E x : Goto(i, x)
      BY <2>1 DEF Dispatch, SaveBump, ClaimSession, BindSession, Finish
    <2>6. DirectCall(i) \/ DirectLoad(i) \/ DirectReconcile(i) => \E x : Goto(i, x)
      BY DEF DirectCall, DirectLoad, DirectReconcile, Finish
    <2>7. DirectResolve(i) => \E x : Goto(i, x)
      BY <1>1, ResolveEffect
    <2>8. SaveReconciled(i) \/ SaveAssigned(i) \/ DirectDispatch(i) \/ SaveDirectRelease(i)
             \/ SaveDirectQueue(i) => \E x : Goto(i, x)
      BY DEF SaveReconciled, SaveAssigned, DirectDispatch, RecordAnswer, SaveDirectRelease,
             SaveDirectQueue, Finish
    <2>9. ReleaseSession(i) \/ SaveSessions(i) => \E x : Goto(i, x)
      BY DEF ReleaseSession, SaveTable, SaveSessions, Finish
    <2> QED
      BY <2>2, <2>3, <2>4, <2>5, <2>6, <2>7, <2>8, <2>9 DEF CallerNext, QueueNext, DirectNext
  <1> QED
    BY <1>1, <1>4, <1>5, OneMoves

-----------------------------------------------------------------------------
(* Callers keep it. *)

(* Where the file's mission is over a request may take the session for any *)
(* other one.                                                              *)
LEMMA TakenOver ==
    ASSUME NEW i \in Callers, NEW m \in Missions, Over, Watchful, BridgeKnows',
           Work' = Work, bridge' = bridge, req'[BridgeSlot] = req[BridgeSlot],
           OnlyOn(Copy(i)', m), Reconciles(i, m)', ~ Unspent',
           \A j \in Callers : j # i => req'[j].pc = "idle" /\ Copy(j)' = None
    PROVE  Files'
  <1>1. Copy(BridgeSlot)' = Copy(BridgeSlot) /\ Hub' = Hub
    BY DEF Copy, Hub
  <1>2. \A j \in Callers : OnlyOn(Copy(j)', m) /\ Reconciles(j, m)'
    BY DEF OnlyOn, Reconciles
  <1>3. CASE Closing
    <2>1. Closing'
      BY <1>1, <1>3 DEF Closing
    <2>2. Handover(m)'
      BY <1>1, <1>2, <1>3, <2>1 DEF Handover, Watchful
    <2> QED
      BY <2>2 DEF Files
  <1>4. CASE ~ Closing
    <2>1. /\ bridge.done = None /\ (bridge.pc = "asleep" \/ bridge.seen = None)
          /\ Work.mission = None /\ OnlyOn(Copy(BridgeSlot), None)
      BY <1>4 DEF Over
    <2>2. \A j \in Requests : OnlyOn(Copy(j)', m)
      BY <1>1, <1>2, <2>1 DEF Callers, OnlyOn
    <2>3. Single(m)'
      BY <1>2, <2>1, <2>2 DEF Single
    <2> QED
      BY <2>3 DEF Files
  <1> QED
    BY <1>3, <1>4

(* A caller's step keeps the slots in order and the file with its mission. *)
LEMMA CallerKeepsFiles ==
    ASSUME NEW i \in Callers, HubInv, calls \in Nat, Slots, Files, CallerEffect(i),
           \A j \in Requests : j # i => req'[j] = req[j],
           bridge' = bridge, calls' = IF At(i, "idle") THEN calls + 1 ELSE calls,
           calls' <= 1
    PROVE  Slots' /\ Files'
  <1>1. /\ i \in Requests /\ BridgeSlot \in Requests /\ i # BridgeSlot
        /\ req'[BridgeSlot] = req[BridgeSlot]
    BY BridgeAssumption DEF Callers
  <1>2. /\ \A j \in Callers : j # i => req[j].pc = "idle" /\ req'[j] = req[j] /\ Copy(j) = None
                                        /\ Copy(j)' = None
        /\ calls' = 1
        /\ req[i].pc \in Before => Unspent
    <2>1. CASE req[i].pc = "idle"
      <3>1. calls = 0 /\ calls' = 1
        BY <2>1 DEF At
      <3> QED
        BY <1>1, <3>1 DEF Slots, OneCall, SlotHolds, Copy, Callers, Unspent
    <2>2. CASE req[i].pc # "idle"
      <3>1. calls # 0 /\ calls' = calls
        BY <2>2 DEF At, Slots, OneCall
      <3>2. calls' = 1
        BY <3>1
      <3> QED
        BY <1>1, <2>2, <3>2 DEF Slots, OneCall, SlotHolds, Copy, Callers, Unspent, Before
    <2> QED
      BY <2>1, <2>2
  <1>3. Unspent' => req'[i].pc \in PreClaim /\ Unspent
    <2>1. Unspent' => req'[i].pc \in PreClaim
      BY <1>2 DEF Unspent, PreClaim
    <2> QED
      BY <1>2, <2>1 DEF CallerEffect
  <1>4. Slots'
    <2>1. Work' # None
      BY <1>1 DEF CallerEffect, Slots, SlotHolds
    <2>2. \A j \in Requests : SlotHolds(j)'
      <3>1. SlotHolds(i)'
        BY DEF SlotHolds, CallerEffect
      <3>2. ASSUME NEW j \in Requests, j # i
            PROVE  SlotHolds(j)'
        BY <3>2 DEF Slots, SlotHolds, Copy
      <3> QED
        BY <3>1, <3>2
    <2>3. OneCall'
      BY <1>2 DEF OneCall
    <2> QED
      BY <2>1, <2>2, <2>3 DEF Slots
  <1>5. /\ Copy(BridgeSlot)' = Copy(BridgeSlot) /\ Hub' = Hub
        /\ Closing' = Closing /\ BridgeKnows' = BridgeKnows
    BY <1>1 DEF Copy, Hub, Closing, BridgeKnows
  <1>6. ASSUME bridge.adapter, bridge.done = None, bridge.pc # "completeSent"
        PROVE  Files'
    BY <1>6 DEF Files
  <1>7. ASSUME NEW b \in Missions \cup {None}, BridgeKnows, Single(b), Unspent => Watchful
        PROVE  Files'
    <2>1. CASE req'[i].pc = "directReconciled" /\ req'[i].session = BridgeSession
      <3>1. /\ req[i].pc = "directReconcile" /\ SomeDone /\ req'[i].mission \in Missions
            /\ Copy(i)' = FreeSession
        BY <2>1 DEF CallerEffect
      <3>2. req[i].pc \in Before
        BY <3>1 DEF Before, PreClaim
      <3>3. Watchful /\ Over /\ Work' = Work
        BY <1>2, <1>7, <3>1, <3>2 DEF Watchful, CallerEffect, Work
      <3>4. ~ Unspent'
        BY <1>3, <2>1 DEF PreClaim
      <3>5. PICK m \in Missions : req'[i].mission = m
        BY <3>1
      <3>6. OnlyOn(Copy(i)', m) /\ Reconciles(i, m)'
        BY <3>1, <3>5, SessionShape DEF OnlyOn, Reconciles
      <3> QED
        BY <1>1, <1>2, <1>5, <1>7, <3>3, <3>4, <3>6, TakenOver
    <2>2. ASSUME NEW m \in Missions, Copy(i)' = SessionOn(m, "busy"),
                 req[i].pc \in {"claim", "direct"}, req'[i].pc \notin PreClaim,
                 Work.mission = None \/ IsFree(Copy(i)),
                 ~ (req'[i].pc = "directReconciled" /\ req'[i].session = BridgeSession)
          PROVE  Files'
      <3>1. req[i].pc \in Before
        BY <2>2 DEF Before, PreClaim
      <3>2. Watchful /\ Over /\ Work' = Work
        BY <1>1, <1>2, <1>7, <2>2, <3>1 DEF Watchful, CallerEffect, Work
      <3>3. ~ Unspent'
        BY <1>3, <2>2
      <3>4. OnlyOn(Copy(i)', m) /\ Reconciles(i, m)'
        BY <2>2, SessionShape DEF OnlyOn, Reconciles
      <3> QED
        BY <1>1, <1>2, <1>5, <1>7, <3>2, <3>3, <3>4, TakenOver
    <2>3. ASSUME OnlyOn(Copy(i)', b),
                 ~ (req'[i].pc = "directReconciled" /\ req'[i].session = BridgeSession)
          PROVE  Files'
      <3>1. Work'.mission \in {b, None}
        BY <1>1, <1>7 DEF CallerEffect, Single, OnlyOn, Slots, SlotHolds
      <3>2. \A j \in Requests : OnlyOn(Copy(j)', b)
        <4>1. ASSUME NEW j \in Requests, j # i
              PROVE  OnlyOn(Copy(j)', b)
          <5>1. Copy(j)' = Copy(j)
            BY <4>1 DEF Copy
          <5> QED
            BY <1>7, <5>1 DEF Single
        <4> QED
          BY <2>3, <4>1
      <3>3. \A j \in Callers : Reconciles(j, b)'
        BY <1>2, <2>3 DEF Reconciles
      <3>4. Single(b)'
        BY <1>7, <3>1, <3>2, <3>3 DEF Single
      <3>5. ASSUME Unspent'
            PROVE  Watchful'
        <4>1. /\ req[i].pc \in Before /\ Copy(i)' \in {None, Copy(i), Work} /\ Watchful
              /\ sessions' = sessions /\ queue' = queue
          BY <1>2, <1>3, <1>7, <3>5 DEF CallerEffect
        <4>2. Work' = Work /\ SomeDone' = SomeDone /\ Over' = Over
          BY <1>5, <4>1 DEF Work, SomeDone, Over
        <4>3. ASSUME NEW j \in Requests, IsFree(Copy(j)')
              PROVE  Over
          <5>1. j # i => Copy(j)' = Copy(j)
            BY DEF Copy
          <5> QED
            BY <1>1, <4>1, <4>3, <5>1 DEF Watchful, IsFree
        <4> QED
          BY <1>5, <4>1, <4>2, <4>3 DEF Watchful, IsFree
      <3> QED
        BY <1>5, <1>7, <3>4, <3>5 DEF Files
    <2>4. CASE ~ (req'[i].pc = "directReconciled" /\ req'[i].session = BridgeSession)
      <3>1. OnlyOn(Copy(i), b) /\ Reconciles(i, b)
        BY <1>1, <1>7 DEF Single
      <3>2. CASE Copy(i)' \in {None, Copy(i), FreeSession} \/ Copy(i)' = Work
        <4>1. OnlyOn(Copy(i)', b)
          BY <1>7, <3>1, <3>2, SessionShape DEF OnlyOn, Single
        <4> QED
          BY <2>3, <2>4, <4>1
      <3>3. ASSUME NEW m \in Missions, Copy(i)' = SessionOn(m, "busy"), Takes(i, m),
                   req'[i].pc \notin PreClaim
            PROVE  Files'
        <4>1. m # None /\ Copy(i)' # None /\ Copy(i)'.mission = m
          BY <3>3, SessionShape
        <4>2. CASE m = b
          BY <2>3, <2>4, <4>1, <4>2 DEF OnlyOn
        <4>3. CASE m # b
          <5>1. /\ req[i].pc \in {"claim", "direct"}
                /\ Work.mission = None \/ IsFree(Copy(i))
            BY <1>1, <1>7, <3>1, <3>3, <4>1, <4>3
            DEF Takes, Single, OnlyOn, Reconciles, IsFree
          <5> QED
            BY <2>2, <2>4, <3>3, <5>1
        <4> QED
          BY <4>2, <4>3
      <3> QED
        BY <3>2, <3>3 DEF CallerEffect
    <2> QED
      BY <2>1, <2>4
  <1>8. ASSUME NEW m \in Missions, BridgeKnows, Handover(m), ~ Unspent
        PROVE  Files'
    <2>1. req[i].pc \notin Before /\ ~ Unspent'
      BY <1>2, <1>3, <1>8
    <2>2. OnlyOn(Copy(i), m) /\ Reconciles(i, m) /\ Closing
      BY <1>8 DEF Handover
    <2>3. Hub.pc = "idle" => Work'.mission \in {m, None}
      BY <1>1, <1>8, <2>2 DEF CallerEffect, Handover, OnlyOn, Slots, SlotHolds
    <2>4. OnlyOn(Copy(i)', m)
      BY <2>1, <2>2, SessionShape
      DEF CallerEffect, Takes, OnlyOn, Reconciles, Before, PreClaim
    <2>5. ~ (req'[i].pc = "directReconciled" /\ req'[i].session = BridgeSession)
      BY <2>1 DEF CallerEffect, Before, PreClaim
    <2>6. \A j \in Callers : OnlyOn(Copy(j)', m) /\ Reconciles(j, m)'
      BY <1>2, <2>4, <2>5 DEF OnlyOn, Reconciles
    <2>7. Handover(m)'
      BY <1>5, <2>2, <2>3, <2>6 DEF Handover
    <2> QED
      BY <1>5, <1>8, <2>1, <2>7 DEF Files
  <1>9. Files'
    BY <1>6, <1>7, <1>8 DEF Files
  <1> QED
    BY <1>4, <1>9

-----------------------------------------------------------------------------
(* What the bridge itself does. *)

BridgePc == {"asleep", "awake", "agentBeat", "sessionBeat", "blockedSent", "resumeSent",
             "completeSent", "commandStarted", "commandDone", "failureSent", "aliveSent"}

(* The part of the bridge that the argument looks at. *)
Same == bridge'.seen = bridge.seen /\ bridge'.done = bridge.done
           /\ bridge'.adapter = bridge.adapter

(* Between two posts the bridge moves its pc and may drop the resume file. *)
LEMMA LeftShape ==
    ASSUME bridge \in Bridge, NEW pc \in BridgePc
    PROVE  /\ Left(pc) \in Bridge
           /\ Left(pc).pc = pc /\ Left(pc).seen = bridge.seen /\ Left(pc).done = bridge.done
           /\ Left(pc).adapter = bridge.adapter /\ Left(pc).losses = bridge.losses
  <1>1. /\ Left(pc).pc = pc /\ Left(pc).seen = bridge.seen /\ Left(pc).done = bridge.done
        /\ Left(pc).adapter = bridge.adapter /\ Left(pc).losses = bridge.losses
    BY DEF Left, Bridge
  <1>2. (bridge.resume /\ ~ ResumeTold) \in BOOLEAN
    OBVIOUS
  <1>3. Left(pc) \in Bridge
    BY <1>2, ZenonT(60) DEF Left, Bridge, BridgePc
  <1> QED
    BY <1>1, <1>3

(* The same of the step.                                                   *)
LEMMA ToShape ==
    ASSUME bridge \in Bridge, NEW pc \in BridgePc, To(pc)
    PROVE  bridge' \in Bridge /\ bridge'.pc = pc /\ Same /\ bridge'.losses = bridge.losses
  BY LeftShape DEF To, Same

(* A tick reads the mission of its session and keeps the files.            *)
LEMMA WakeShape ==
    ASSUME HubInv, bridge \in Bridge, Wake
    PROVE  /\ bridge' \in Bridge /\ bridge'.pc = "awake" /\ bridge'.losses = bridge.losses
           /\ bridge'.done = bridge.done /\ bridge'.adapter = bridge.adapter
           /\ bridge'.seen = IF Work = None THEN None ELSE Work.mission
  <1> DEFINE m == IF BridgeSession \in Known(sessions)
                    THEN sessions[BridgeSession].mission ELSE None
  <1>1. /\ m \in Missions \cup {None}
        /\ m = IF Work = None THEN None ELSE Work.mission
    BY BridgeAssumption DEF HubInv, TypeOK, SessionTable, Session, Known, Work
  <1>2. bridge' = [bridge EXCEPT !.pc = "awake", !.seen = m, !.run = NewRun(m)]
    BY DEF Wake
  <1> HIDE DEF m
  <1>3. NewRun(m) \in {"none", "running", "done", "blocked"}
    BY DEF NewRun, Bridge
  <1>4. /\ bridge'.pc = "awake" /\ bridge'.losses = bridge.losses
        /\ bridge'.done = bridge.done /\ bridge'.adapter = bridge.adapter
        /\ bridge'.seen = m
    BY <1>2 DEF Bridge
  <1>5. bridge' \in Bridge
    BY <1>1, <1>2, <1>3, ZenonT(60) DEF Bridge
  <1> QED
    BY <1>1, <1>4, <1>5

(* A completion that was answered removes the file.                        *)
LEMMA CompletedShape ==
    ASSUME bridge \in Bridge, Completed
    PROVE  /\ bridge' \in Bridge /\ bridge'.pc = "asleep" /\ bridge'.losses = bridge.losses
           /\ bridge'.seen = bridge.seen /\ bridge'.adapter = bridge.adapter
           /\ bridge'.done = None
  <1>1. bridge' = [Left("asleep") EXCEPT !.done = None]
    BY DEF Completed
  <1>2. Left("asleep") \in Bridge /\ Left("asleep").pc = "asleep"
        /\ Left("asleep").losses = bridge.losses /\ Left("asleep").seen = bridge.seen
        /\ Left("asleep").adapter = bridge.adapter
    BY LeftShape DEF BridgePc
  <1> DEFINE x == Left("asleep")
  <1>3. /\ [x EXCEPT !.done = None].pc = x.pc /\ [x EXCEPT !.done = None].losses = x.losses
        /\ [x EXCEPT !.done = None].seen = x.seen /\ [x EXCEPT !.done = None].done = None
        /\ [x EXCEPT !.done = None].adapter = x.adapter
    BY <1>2 DEF Bridge
  <1>4. [x EXCEPT !.done = None] \in Bridge
    BY <1>2, ZenonT(60) DEF Bridge
  <1> QED
    BY <1>1, <1>2, <1>3, <1>4

(* The adapter notes the state of its run.                                 *)
LEMMA CommandShape ==
    ASSUME bridge \in Bridge, NEW pc \in BridgePc,
           NEW run \in {"none", "running", "done", "blocked"},
           bridge' = [Left(pc) EXCEPT !.run = run]
    PROVE  bridge' \in Bridge /\ bridge'.pc = pc /\ Same /\ bridge'.losses = bridge.losses
  <1> DEFINE x == Left(pc)
  <1>1. /\ x \in Bridge /\ x.pc = pc /\ x.seen = bridge.seen /\ x.done = bridge.done
        /\ x.adapter = bridge.adapter /\ x.losses = bridge.losses
    BY LeftShape
  <1>2. bridge' = [x EXCEPT !.run = run]
    OBVIOUS
  <1> HIDE DEF x
  <1>3. /\ bridge'.pc = x.pc /\ bridge'.losses = x.losses /\ bridge'.seen = x.seen
        /\ bridge'.done = x.done /\ bridge'.adapter = x.adapter
    BY <1>1, <1>2 DEF Bridge
  <1>4. bridge' \in Bridge
    BY <1>1, <1>2, ZenonT(60) DEF Bridge
  <1> QED
    BY <1>1, <1>3, <1>4 DEF Same

(* A lost answer and a killed bridge are counted.                          *)
LEMMA LosesShape ==
    ASSUME bridge \in Bridge, LoseAnswer \/ KillBridge
    PROVE  bridge' \in Bridge /\ bridge'.losses = bridge.losses + 1
  <1>1. bridge.losses + 1 \in 0..Losses
    BY BridgeAssumption DEF Bridge, LoseAnswer, KillBridge
  <1>2. CASE LoseAnswer
    <2>1. bridge' = [bridge EXCEPT !.losses = @ + 1]
      BY <1>2 DEF LoseAnswer
    <2>2. bridge'.losses = bridge.losses + 1
      BY <2>1 DEF Bridge
    <2>3. bridge' \in Bridge
      BY <1>1, <2>1, ZenonT(60) DEF Bridge
    <2> QED
      BY <2>2, <2>3
  <1>3. CASE KillBridge
    <2>1. bridge' = [bridge EXCEPT !.pc = "asleep", !.losses = @ + 1]
      BY <1>3 DEF KillBridge
    <2>2. bridge'.losses = bridge.losses + 1
      BY <2>1 DEF Bridge
    <2>3. bridge' \in Bridge
      BY <1>1, <2>1, ZenonT(60) DEF Bridge
    <2> QED
      BY <2>2, <2>3
  <1> QED
    BY <1>2, <1>3

(* A file is written for the mission the session has, where there is none. *)
LEMMA WriteShape ==
    ASSUME bridge \in Bridge, WriteFile
    PROVE  /\ bridge' \in Bridge /\ bridge'.pc = bridge.pc /\ bridge'.losses = bridge.losses
           /\ bridge'.seen = bridge.seen /\ bridge'.adapter = bridge.adapter
           /\ ~ bridge.adapter /\ bridge.done = None
           /\ Work.mission \in Missions /\ bridge'.done \in {None, Work.mission}
  <1>1. PICK m \in Missions :
          /\ sessions[BridgeSession].mission = m
          /\ \/ bridge' = [bridge EXCEPT !.done = m]
             \/ bridge' = [bridge EXCEPT !.blocked = TRUE]
             \/ bridge' = [bridge EXCEPT !.blocked = FALSE, !.resume = TRUE]
    BY DEF WriteFile
  <1>2. ~ bridge.adapter /\ bridge.done = None /\ Work.mission = m
    BY <1>1 DEF WriteFile, Work
  <1>3. /\ bridge'.pc = bridge.pc /\ bridge'.losses = bridge.losses
        /\ bridge'.seen = bridge.seen /\ bridge'.adapter = bridge.adapter
        /\ bridge'.done \in {None, m}
    BY <1>1, <1>2 DEF Bridge
  <1>4. bridge' \in Bridge
    <2>1. CASE bridge' = [bridge EXCEPT !.done = m]
      BY <2>1, ZenonT(60) DEF Bridge
    <2>2. CASE bridge' = [bridge EXCEPT !.blocked = TRUE]
      BY <2>2, ZenonT(60) DEF Bridge
    <2>3. CASE bridge' = [bridge EXCEPT !.blocked = FALSE, !.resume = TRUE]
      BY <2>3, ZenonT(60) DEF Bridge
    <2> QED
      BY <1>1, <2>1, <2>2, <2>3
  <1> QED
    BY <1>2, <1>3, <1>4

(* The bridge keeps its type, and loses something only where it says so. *)
LEMMA BridgeShape ==
    ASSUME HubInv, bridge \in Bridge, BridgeNext
    PROVE  /\ bridge' \in Bridge
           /\ bridge'.losses = 0 =>
                 bridge.losses = 0 /\ (BridgeStep \/ BridgeRequest \/ WriteFile)
  <1>1. /\ BridgeRequest => bridge' = bridge
        /\ bridge.losses \in Nat
    BY DEF BridgeRequest, Bridge
  <1>2. ASSUME BridgeStep
        PROVE  bridge' \in Bridge /\ bridge'.losses = bridge.losses
    <2>1. \/ Wake \/ Completed
          \/ \E pc \in BridgePc : To(pc)
          \/ \E pc \in BridgePc, run \in {"none", "running", "done", "blocked"} :
                bridge' = [Left(pc) EXCEPT !.run = run]
      BY <1>2
      DEF BridgeStep, BeatAgent, BeatSession, Rest, PostBlocked, PostResume, PostDone,
          StartCommand, CompleteCommand, CommandCompleted, PostFailure, FailureTold,
          PostAlive, Post, Complete, BridgePc
    <2> QED
      BY <2>1, WakeShape, CompletedShape, ToShape, CommandShape
  <1> QED
    BY <1>1, <1>2, LosesShape, WriteShape DEF BridgeNext

-----------------------------------------------------------------------------
(* What the bridge's requests do at the hub. *)

(* The request ends at once, or goes on at pc. *)
Opens(pc) ==
    /\ Hub.pc = "idle" /\ sessions' = sessions /\ queue' = queue
    /\ \A j \in Requests : j # BridgeSlot => req'[j] = req[j]
    /\ \/ Hub'.pc = "idle" /\ Copy(BridgeSlot)' = None /\ Hub'.reply = "refused"
       \/ Hub'.pc = pc /\ (pc \in TablePc => Copy(BridgeSlot)' # None)

(* The heartbeat of the agent touches no session.                          *)
LEMMA AgentOpens ==
    ASSUME HubInv, ReportAgent(BridgeSlot)
    PROVE  Opens("agentsSave") /\ Copy(BridgeSlot)' = None
  <1>1. PICK g : Goto(BridgeSlot, [Blank EXCEPT !.pc = "agentsSave", !.op = "agent", !.g = g])
    BY DEF ReportAgent
  <1> DEFINE x == [Blank EXCEPT !.pc = "agentsSave", !.op = "agent", !.g = g]
  <1>2. x.pc = "agentsSave" /\ x.t = Blank.t /\ Goto(BridgeSlot, x)
    BY <1>1 DEF Blank
  <1> HIDE DEF x
  <1>3. /\ req'[BridgeSlot].pc = "agentsSave" /\ Copy(BridgeSlot)' = None
        /\ \A j \in Requests : j # BridgeSlot => req'[j] = req[j]
    BY <1>2, OneMoves, BlankCopy, BridgeAssumption
  <1> QED
    BY <1>3 DEF Opens, Hub, TablePc, ReportAgent, Begins, At, store

(* A saved table has the session in it, whichever entry is replaced. *)
LEMMA SavesTableAt ==
    ASSUME HubInv, NEW i \in Requests, NEW op, NEW s \in Sessions, NEW x,
           NEW t \in SessionTable, SaveTable(i, op, s, x, t)
    PROVE  /\ req'[i].pc = "sessionsSave" /\ req'[i].session = s
           /\ Copy(i)' = IF s = BridgeSession THEN x ELSE t[BridgeSession]
           /\ \A j \in Requests : j # i => req'[j] = req[j]
  <1> DEFINE u == Set(t, s, x)
             y == [Blank EXCEPT !.pc = "sessionsSave", !.op = op, !.session = s, !.t = u]
  <1>1. u[BridgeSession] = IF s = BridgeSession THEN x ELSE t[BridgeSession]
    BY SetAt
  <1>2. Goto(i, y)
    BY DEF SaveTable
  <1> HIDE DEF u
  <1>3. y.pc = "sessionsSave" /\ y.t = u /\ y.session = s
    BY DEF Blank
  <1> HIDE DEF y
  <1> QED
    BY <1>1, <1>2, <1>3, OneMoves

(* A heartbeat leaves the mission of a session alone.                      *)
LEMMA BeatenShape ==
    ASSUME NEW x \in Session
    PROVE  Beaten(x) # None /\ Beaten(x).mission = x.mission
  <1>1. Beaten(x) \in Session /\ Beaten(x).mission = x.mission
    BY DEF Beaten, Session, SessionStatus
  <1> QED
    BY <1>1, SessionAssumption

(* The heartbeat of the session carries its mission as stored.             *)
LEMMA HeartbeatOpens ==
    ASSUME HubInv, NoFaults, Work # None, HeartbeatSession(BridgeSlot)
    PROVE  /\ Opens("sessionsSave")
           /\ Copy(BridgeSlot)' = None \/ Copy(BridgeSlot)'.mission = Work.mission
  <1>1. /\ sessions \in SessionTable /\ BridgeSlot \in Requests
        /\ Hub.pc = "idle" /\ sessions' = sessions /\ queue' = queue
    BY BridgeAssumption DEF HubInv, TypeOK, HeartbeatSession, Begins, At, Hub, store
  <1>2. \/ Finish(BridgeSlot, "refused")
        \/ \E s \in Known(sessions) :
              SaveTable(BridgeSlot, "heartbeat", s, Beaten(sessions[s]), sessions)
    BY NothingFails DEF HeartbeatSession, Known
  <1>3. ASSUME NEW s \in Known(sessions),
               SaveTable(BridgeSlot, "heartbeat", s, Beaten(sessions[s]), sessions)
        PROVE  /\ Opens("sessionsSave")
               /\ Copy(BridgeSlot)' = None \/ Copy(BridgeSlot)'.mission = Work.mission
    <2>1. s \in Sessions /\ sessions[s] \in Session
      BY <1>1 DEF Known, SessionTable
    <2>2. /\ req'[BridgeSlot].pc = "sessionsSave"
          /\ Copy(BridgeSlot)' = IF s = BridgeSession THEN Beaten(sessions[s]) ELSE Work
          /\ \A j \in Requests : j # BridgeSlot => req'[j] = req[j]
      BY <1>1, <1>3, <2>1, SavesTableAt DEF Work
    <2>3. Copy(BridgeSlot)' # None /\ Copy(BridgeSlot)'.mission = Work.mission
      BY <2>1, <2>2, BeatenShape DEF Work
    <2> QED
      BY <1>1, <2>2, <2>3 DEF Opens, Hub
  <1>4. CASE Finish(BridgeSlot, "refused")
    BY <1>1, <1>4, FinishMoves DEF Opens, Hub
  <1> QED
    BY <1>2, <1>3, <1>4

(* An event carries a table that has the session in it.                    *)
LEMMA EventOpens ==
    ASSUME HubInv, NoFaults, Work # None, ExecutionEvent(BridgeSlot)
    PROVE  Opens("sessionsSave")
  <1>1. /\ sessions \in SessionTable /\ BridgeSlot \in Requests
        /\ Hub.pc = "idle" /\ sessions' = sessions /\ queue' = queue
    BY BridgeAssumption DEF HubInv, TypeOK, ExecutionEvent, Begins, At, Hub, store
  <1>2. \/ Finish(BridgeSlot, "refused")
        \/ \E s \in Sessions, m \in Missions, event \in {"blocked", "failed", "done", "progress"} :
              SaveTable(BridgeSlot, "event", s, SessionOn(m, EventStatus(event)), sessions)
    BY NothingFails DEF ExecutionEvent
  <1>3. \A event : EventStatus(event) \in {"busy", "waiting", "stale"}
    BY DEF EventStatus
  <1>4. ASSUME NEW s \in Sessions, NEW m \in Missions,
               NEW status \in {"busy", "waiting", "stale"},
               SaveTable(BridgeSlot, "event", s, SessionOn(m, status), sessions)
        PROVE  Opens("sessionsSave")
    <2>1. /\ req'[BridgeSlot].pc = "sessionsSave"
          /\ Copy(BridgeSlot)' = IF s = BridgeSession THEN SessionOn(m, status) ELSE Work
          /\ \A j \in Requests : j # BridgeSlot => req'[j] = req[j]
      BY <1>1, <1>4, SavesTableAt DEF Work
    <2> QED
      BY <1>1, <2>1, SessionShape DEF Opens, Hub
  <1>5. CASE Finish(BridgeSlot, "refused")
    BY <1>1, <1>5, FinishMoves DEF Opens, Hub
  <1> QED
    BY <1>2, <1>3, <1>4, <1>5

(* A completion carries the session as stored.                             *)
LEMMA CompleteOpens ==
    ASSUME HubInv, NoFaults, Work # None, CompleteMission(BridgeSlot)
    PROVE  Opens("completeQueue") /\ Copy(BridgeSlot)' \in {None, Work}
  <1>1. /\ BridgeSlot \in Requests
        /\ Hub.pc = "idle" /\ sessions' = sessions /\ queue' = queue
    BY BridgeAssumption
    DEF CompleteMission, MissionRequest, Begins, At, Hub, store
  <1>2. \/ Finish(BridgeSlot, "refused")
        \/ \E s, m : Goto(BridgeSlot, [Blank EXCEPT !.pc = "completeQueue", !.op = "complete",
                                          !.session = s, !.mission = m, !.t = sessions])
    BY NothingFails DEF CompleteMission, MissionRequest
  <1>3. ASSUME NEW s, NEW m,
               Goto(BridgeSlot, [Blank EXCEPT !.pc = "completeQueue", !.op = "complete",
                                          !.session = s, !.mission = m, !.t = sessions])
        PROVE  Opens("completeQueue") /\ Copy(BridgeSlot)' \in {None, Work}
    <2> DEFINE x == [Blank EXCEPT !.pc = "completeQueue", !.op = "complete",
                                  !.session = s, !.mission = m, !.t = sessions]
    <2>1. x.pc = "completeQueue" /\ x.t = sessions /\ Goto(BridgeSlot, x)
      BY <1>3 DEF Blank
    <2> HIDE DEF x
    <2>2. /\ req'[BridgeSlot].pc = "completeQueue" /\ Copy(BridgeSlot)' = Work
          /\ \A j \in Requests : j # BridgeSlot => req'[j] = req[j]
      BY <1>1, <2>1, OneMoves DEF Work
    <2> QED
      BY <1>1, <2>2 DEF Opens, Hub
  <1>4. CASE Finish(BridgeSlot, "refused")
    BY <1>1, <1>4, FinishMoves DEF Opens, Hub
  <1> QED
    BY <1>2, <1>3, <1>4

(* A request on its way. *)
Proceeds ==
    /\ Hub.pc # "idle"
    /\ \A j \in Requests : j # BridgeSlot => req'[j] = req[j]
    /\ Work' # None /\ SlotHolds(BridgeSlot)'
    /\ Hub.pc = "agentsSave"
          => Hub'.pc = "idle" /\ sessions' = sessions /\ queue' = queue
    /\ Hub.pc = "sessionsSave"
          => Hub'.pc = "idle" /\ Hub'.reply = "ok" /\ Work' = Copy(BridgeSlot) /\ queue' = queue
    /\ Hub.pc = "completeQueue"
          => /\ sessions' = sessions /\ queue' = queue
             /\ \/ Hub'.pc = "idle" /\ Hub'.reply = "refused"
                \/ /\ Hub'.pc = "completeSave"
                   /\ Hub.session = BridgeSession => IsFree(Copy(BridgeSlot)')
    /\ Hub.pc \in ClosingPc \ {"sessionsSave"}
          => /\ sessions' = sessions /\ Copy(BridgeSlot)' = Copy(BridgeSlot)
             /\ Hub'.pc \in ClosingPc

(* The request returns.                                                    *)
LEMMA FinishProceeds ==
    ASSUME HubInv, NEW reply, Finish(BridgeSlot, reply), Hub.pc # "idle",
           Work' # None, Hub.pc \notin ClosingPc \ {"sessionsSave"},
           Hub.pc = "agentsSave" => sessions' = sessions /\ queue' = queue,
           Hub.pc = "sessionsSave"
              => reply = "ok" /\ Work' = Copy(BridgeSlot) /\ queue' = queue,
           Hub.pc = "completeQueue"
              => reply = "refused" /\ sessions' = sessions /\ queue' = queue
    PROVE  Proceeds
  <1>1. /\ req'[BridgeSlot].pc = "idle" /\ Copy(BridgeSlot)' = None
        /\ req'[BridgeSlot].reply = reply
        /\ \A j \in Requests : j # BridgeSlot => req'[j] = req[j]
    BY BridgeAssumption, FinishMoves
  <1>2. SlotHolds(BridgeSlot)'
    BY <1>1 DEF SlotHolds, TablePc
  <1> QED
    BY <1>1, <1>2 DEF Proceeds, Hub

(* The registry or the session table is saved, and the request returns.    *)
LEMMA SaveProceeds ==
    ASSUME HubInv, NoFaults, Work # None, SlotHolds(BridgeSlot),
           SaveAgents(BridgeSlot) \/ SaveSessions(BridgeSlot)
    PROVE  Proceeds
  <1>1. CASE SaveAgents(BridgeSlot)
    <2>1. /\ Hub.pc = "agentsSave" /\ sessions' = sessions /\ queue' = queue
          /\ \E reply : Finish(BridgeSlot, reply)
      BY <1>1 DEF SaveAgents, At, Hub
    <2>2. Work' # None
      BY <2>1 DEF Work
    <2> QED
      BY <2>1, <2>2, FinishProceeds DEF ClosingPc
  <1>2. CASE SaveSessions(BridgeSlot)
    <2>1. /\ Hub.pc = "sessionsSave" /\ sessions' = Hub.t /\ queue' = queue
          /\ Finish(BridgeSlot, "ok")
      BY <1>2, NothingFails DEF SaveSessions, At, Hub, Answer
    <2>2. Work' = Copy(BridgeSlot) /\ Work' # None
      BY <2>1 DEF Work, Copy, Hub, SlotHolds, TablePc
    <2> QED
      BY <2>1, <2>2, FinishProceeds
  <1> QED
    BY <1>1, <1>2

(* A start finds the mission in the queue, or is refused.                  *)
LEMMA StartProceeds ==
    ASSUME HubInv, NoFaults, Work # None, SlotHolds(BridgeSlot), StartLoadQueue(BridgeSlot)
    PROVE  Proceeds
  <1>1. /\ BridgeSlot \in Requests /\ Hub.pc = "startQueue" /\ sessions' = sessions
        /\ Hub.t \in SessionTable /\ Hub.session \in Sessions /\ Hub.mission \in Missions
        /\ Copy(BridgeSlot) # None /\ Work' # None
    BY BridgeAssumption
    DEF StartLoadQueue, At, Hub, store, HubInv, SlotKnows, TableOK, SlotHolds, TablePc, Work
  <1>2. \/ Finish(BridgeSlot, "refused")
        \/ SaveTable(BridgeSlot, "start", Hub.session, SessionOn(Hub.mission, "busy"), Hub.t)
    BY DEF StartLoadQueue, Hub
  <1>3. CASE Finish(BridgeSlot, "refused")
    BY <1>1, <1>3, FinishProceeds DEF ClosingPc
  <1>4. CASE SaveTable(BridgeSlot, "start", Hub.session, SessionOn(Hub.mission, "busy"), Hub.t)
    <2>1. /\ Hub'.pc = "sessionsSave"
          /\ Copy(BridgeSlot)' = IF Hub.session = BridgeSession
                                   THEN SessionOn(Hub.mission, "busy") ELSE Copy(BridgeSlot)
          /\ \A j \in Requests : j # BridgeSlot => req'[j] = req[j]
      <3>1. ASSUME NEW s \in Sessions, NEW t \in SessionTable, NEW x,
                   SaveTable(BridgeSlot, "start", s, x, t)
            PROVE  /\ req'[BridgeSlot].pc = "sessionsSave"
                   /\ Copy(BridgeSlot)' = IF s = BridgeSession THEN x ELSE t[BridgeSession]
                   /\ \A j \in Requests : j # BridgeSlot => req'[j] = req[j]
        BY <3>1, SavesTableAt, BridgeAssumption
      <3>2. Hub.t[BridgeSession] = Copy(BridgeSlot) /\ Hub' = req'[BridgeSlot]
        BY DEF Hub, Copy
      <3> QED
        BY <1>1, <1>4, <3>1, <3>2
    <2>2. SlotHolds(BridgeSlot)'
      BY <1>1, <2>1, SessionShape DEF SlotHolds, Hub
    <2> QED
      BY <1>1, <2>1, <2>2 DEF Proceeds, ClosingPc
  <1> QED
    BY <1>2, <1>3, <1>4

(* A valid completion frees the session in its copy.                       *)
LEMMA CompletionProceeds ==
    ASSUME HubInv, NoFaults, Work # None, SlotHolds(BridgeSlot), CompleteLoadQueue(BridgeSlot)
    PROVE  Proceeds
  <1>1. /\ BridgeSlot \in Requests /\ Hub.pc = "completeQueue" /\ sessions' = sessions
        /\ queue' = queue /\ Hub \in Slot
        /\ Hub.t \in SessionTable /\ Hub.session \in Sessions
        /\ Copy(BridgeSlot) # None /\ Work' # None
    BY BridgeAssumption
    DEF CompleteLoadQueue, At, Hub, store, HubInv, SlotKnows, TableOK, SlotHolds, TablePc,
        Work
  <1> DEFINE u == Set(Hub.t, Hub.session, FreeSession)
  <1>2. \/ Finish(BridgeSlot, "refused")
        \/ \E q : Goto(BridgeSlot, [Hub EXCEPT !.pc = "completeSave", !.q = q, !.t = u])
    BY DEF CompleteLoadQueue, Hub
  <1>3. CASE Finish(BridgeSlot, "refused")
    BY <1>1, <1>3, FinishProceeds DEF ClosingPc
  <1>4. ASSUME NEW q, Goto(BridgeSlot, [Hub EXCEPT !.pc = "completeSave", !.q = q, !.t = u])
        PROVE  Proceeds
    <2>1. u[BridgeSession] = IF Hub.session = BridgeSession THEN FreeSession
                                                             ELSE Copy(BridgeSlot)
      BY <1>1, SetAt DEF Hub, Copy
    <2> HIDE DEF u
    <2> DEFINE x == [Hub EXCEPT !.pc = "completeSave", !.q = q, !.t = u]
    <2>2. x.pc = "completeSave" /\ x.t = u /\ Goto(BridgeSlot, x)
      BY <1>1, <1>4 DEF Slot
    <2> HIDE DEF x
    <2>3. /\ Hub'.pc = "completeSave" /\ Copy(BridgeSlot)' = u[BridgeSession]
          /\ \A j \in Requests : j # BridgeSlot => req'[j] = req[j]
      BY <1>1, <2>2, OneMoves DEF Hub
    <2>4. SlotHolds(BridgeSlot)' /\ (Hub.session = BridgeSession => IsFree(Copy(BridgeSlot)'))
      BY <1>1, <2>1, <2>3, SessionShape DEF SlotHolds, IsFree, Hub
    <2> QED
      BY <1>1, <2>3, <2>4 DEF Proceeds, ClosingPc
  <1> QED
    BY <1>2, <1>3, <1>4

(* Past its validation a completion carries the freed session to its save. *)
LEMMA ClosingProceeds ==
    ASSUME HubInv, NoFaults, Work # None, SlotHolds(BridgeSlot),
           \/ CompleteSaveQueue(BridgeSlot) \/ CompleteLoadBoard(BridgeSlot)
           \/ CompleteSaveBoard(BridgeSlot)
    PROVE  Proceeds
  <1>1. /\ BridgeSlot \in Requests /\ sessions' = sessions /\ Hub \in Slot
        /\ Hub.pc \in {"completeSave", "completeBoardLoad", "completeBoardSave"}
        /\ Copy(BridgeSlot) # None /\ Work' # None
    BY BridgeAssumption
    DEF CompleteSaveQueue, CompleteLoadBoard, CompleteSaveBoard, At, Hub, store, HubInv,
        SlotKnows, SlotHolds, TablePc, Work
  <1>2. \/ Goto(BridgeSlot, [Hub EXCEPT !.pc = "completeBoardLoad", !.q = EmptyQueue])
        \/ \E pc \in {"completeBoardSave", "sessionsSave"} : \E b :
              Goto(BridgeSlot, [Hub EXCEPT !.pc = pc, !.b = b])
    BY DEF CompleteSaveQueue, CompleteLoadBoard, CompleteSaveBoard, Hub
  <1>3. \E x : /\ Goto(BridgeSlot, x) /\ x.t = Hub.t
               /\ x.pc \in {"completeBoardLoad", "completeBoardSave", "sessionsSave"}
    <2>1. CASE Goto(BridgeSlot, [Hub EXCEPT !.pc = "completeBoardLoad", !.q = EmptyQueue])
      <3> DEFINE x == [Hub EXCEPT !.pc = "completeBoardLoad", !.q = EmptyQueue]
      <3>1. x.pc = "completeBoardLoad" /\ x.t = Hub.t
        BY <1>1 DEF Slot
      <3> QED
        BY <2>1, <3>1
    <2>2. ASSUME NEW pc \in {"completeBoardSave", "sessionsSave"}, NEW b,
                 Goto(BridgeSlot, [Hub EXCEPT !.pc = pc, !.b = b])
          PROVE  \E x : /\ Goto(BridgeSlot, x) /\ x.t = Hub.t
                         /\ x.pc \in {"completeBoardLoad", "completeBoardSave",
                                      "sessionsSave"}
      <3> DEFINE x == [Hub EXCEPT !.pc = pc, !.b = b]
      <3>1. x.pc = pc /\ x.t = Hub.t
        BY <1>1 DEF Slot
      <3> QED
        BY <2>2, <3>1
    <2> QED
      BY <1>2, <2>1, <2>2
  <1>4. /\ Hub'.pc \in ClosingPc \ {"completeSave"} /\ Copy(BridgeSlot)' = Copy(BridgeSlot)
        /\ \A j \in Requests : j # BridgeSlot => req'[j] = req[j]
    BY <1>1, <1>3, OneMoves DEF Hub, Copy, ClosingPc
  <1>5. SlotHolds(BridgeSlot)'
    BY <1>1, <1>4 DEF SlotHolds, ClosingPc, Hub
  <1> QED
    BY <1>1, <1>4, <1>5 DEF Proceeds, ClosingPc

(* These are all steps a request of the bridge takes.                      *)
LEMMA RequestProceeds ==
    ASSUME HubInv, NoFaults, Work # None, SlotHolds(BridgeSlot), BridgeRequest
    PROVE  Proceeds
  <1>1. Hub.pc # "idle"
    BY DEF BridgeRequest, Idle, At, Hub
  <1>2. \/ SaveAgents(BridgeSlot) \/ SaveSessions(BridgeSlot) \/ StartLoadQueue(BridgeSlot)
        \/ CompleteLoadQueue(BridgeSlot) \/ CompleteSaveQueue(BridgeSlot)
        \/ CompleteLoadBoard(BridgeSlot) \/ CompleteSaveBoard(BridgeSlot)
    BY <1>1
    DEF BridgeRequest, SessionNext, RegisterSession, HeartbeatSession, ReleaseSession,
        ExecutionEvent, StartMission, CompleteMission, MissionRequest, Begins, At, Hub
  <1> QED
    BY <1>2, SaveProceeds, StartProceeds, CompletionProceeds, ClosingProceeds

-----------------------------------------------------------------------------
(* The bridge keeps it. *)

Works == BridgeStep \/ BridgeRequest \/ WriteFile

(* A step of the bridge asks for nothing, or opens one request.            *)
LEMMA StepOpens ==
    ASSUME HubInv, NoFaults, Work # None, BridgeStep
    PROVE  \/ UNCHANGED vars
           \/ \E pc \in {"agentsSave", "sessionsSave", "completeQueue"} : Opens(pc)
  <1>1. \/ ReportAgent(BridgeSlot) \/ HeartbeatSession(BridgeSlot)
        \/ ExecutionEvent(BridgeSlot) \/ CompleteMission(BridgeSlot) \/ UNCHANGED vars
    BY DEF BridgeStep, Wake, BeatAgent, BeatSession, Rest, PostBlocked, PostResume,
           PostDone, Completed, StartCommand, CompleteCommand, CommandCompleted,
           PostFailure, FailureTold, PostAlive, Post, Complete
  <1> QED
    BY <1>1, AgentOpens, HeartbeatOpens, EventOpens, CompleteOpens

(* Only the slot of the bridge moves, and it stays in order.               *)
LEMMA BridgeKeepsSlots ==
    ASSUME HubInv, NoFaults, Slots, Works, calls' = calls
    PROVE  /\ Slots'
           /\ \A j \in Requests : j # BridgeSlot => req'[j] = req[j] /\ Copy(j)' = Copy(j)
  <1>1. BridgeSlot \in Requests /\ Work # None /\ SlotHolds(BridgeSlot)
    BY BridgeAssumption DEF Slots
  <1>2. /\ Work' # None /\ SlotHolds(BridgeSlot)'
        /\ \A j \in Requests : j # BridgeSlot => req'[j] = req[j]
    <2>1. CASE UNCHANGED vars
      BY <1>1, <2>1 DEF vars, Work, SlotHolds, Copy
    <2>2. ASSUME NEW pc \in {"agentsSave", "sessionsSave", "completeQueue"}, Opens(pc)
          PROVE  /\ Work' # None /\ SlotHolds(BridgeSlot)'
                 /\ \A j \in Requests : j # BridgeSlot => req'[j] = req[j]
      BY <1>1, <2>2 DEF Opens, Work, SlotHolds, Hub, TablePc
    <2>3. BridgeRequest => Proceeds
      BY <1>1, RequestProceeds
    <2>4. WriteFile => UNCHANGED vars
      BY DEF WriteFile
    <2> QED
      BY <1>1, <2>1, <2>2, <2>3, <2>4, StepOpens DEF Works, Proceeds
  <1>3. \A j \in Requests : j # BridgeSlot => Copy(j)' = Copy(j)
    BY <1>2 DEF Copy
  <1>4. \A j \in Requests : SlotHolds(j)'
    BY <1>2, <1>3 DEF Slots, SlotHolds
  <1>5. OneCall'
    BY <1>2 DEF Slots, OneCall, Callers
  <1> QED
    BY <1>2, <1>3, <1>4, <1>5 DEF Slots

(* With an adapter there is no file. *)
LEMMA AdapterKeeps ==
    ASSUME HubInv, bridge \in Bridge, Works,
           bridge.adapter, bridge.done = None, bridge.pc # "completeSent"
    PROVE  bridge'.adapter /\ bridge'.done = None /\ bridge'.pc # "completeSent"
  <1>1. BridgeRequest => bridge' = bridge
    BY DEF BridgeRequest
  <1>2. ~ WriteFile
    BY DEF WriteFile
  <1>3. ASSUME BridgeStep
        PROVE  \/ Wake
               \/ \E pc \in BridgePc \ {"completeSent"} : To(pc)
               \/ \E pc \in BridgePc \ {"completeSent"} :
                  \E run \in {"none", "running", "done", "blocked"} :
                     bridge' = [Left(pc) EXCEPT !.run = run]
    BY <1>3
    DEF BridgeStep, BeatAgent, BeatSession, Rest, PostBlocked, PostResume, PostDone,
        Completed, StartCommand, CompleteCommand, CommandCompleted, PostFailure,
        FailureTold, PostAlive, Post, Complete, BridgePc
  <1> QED
    BY <1>1, <1>2, <1>3, WakeShape, ToShape, CommandShape DEF Works, Same

(* A step of the bridge that leaves everything on its mission. *)
LEMMA SingleKeeps ==
    ASSUME NEW b \in Missions \cup {None}, Single(b), Unspent => Watchful,
           \A j \in Requests : j # BridgeSlot => req'[j] = req[j] /\ Copy(j)' = Copy(j),
           calls' = calls, BridgeKnows',
           Work'.mission \in {b, None}, bridge'.done \in {b, None},
           bridge'.pc # "asleep" => bridge'.seen \in {b, None},
           OnlyOn(Copy(BridgeSlot)', b),
           Unspent /\ Watchful => Watchful'
    PROVE  Files'
  <1>1. \A j \in Callers : j \in Requests /\ req'[j] = req[j]
    BY DEF Callers
  <1>2. Unspent' = Unspent
    BY <1>1 DEF Unspent
  <1>3. Single(b)'
    BY <1>1 DEF Single, Reconciles
  <1> QED
    BY <1>2, <1>3 DEF Files

(* It shows the session free, and a row done, only where it did before.    *)
LEMMA WatchfulKeeps ==
    ASSUME Watchful, Over => Over',
           \A j \in Requests : j # BridgeSlot => req'[j] = req[j] /\ Copy(j)' = Copy(j),
           sessions' = sessions, queue' = queue,
           IsFree(Copy(BridgeSlot)') => Over,
           Closing' /\ Hub'.pc = "idle" => Work'.mission = None
    PROVE  Watchful'
  <1>1. Work' = Work /\ SomeDone' = SomeDone
    BY DEF Work, SomeDone
  <1>2. \A j \in Requests : IsFree(Copy(j)') => Over
    BY DEF Watchful, IsFree
  <1> QED
    BY <1>1, <1>2 DEF Watchful, IsFree

(* Where the mission is over the session may be free and rows may be done. *)
LEMMA OverShows ==
    ASSUME Over', Closing' /\ Hub'.pc = "idle" => Work'.mission = None
    PROVE  Watchful'
  BY DEF Watchful

(* Every tick but the one that completes a mission. *)
LEMMA TickKeepsFiles ==
    ASSUME HubInv, NoFaults, bridge \in Bridge, Slots, BridgeKnows, BridgeStep, ~ Completed,
           NEW b \in Missions \cup {None}, Single(b), Unspent => Watchful, calls' = calls
    PROVE  Files'
  <1>1. /\ BridgeSlot \in Requests /\ Work # None
        /\ Hub.pc = "idle" => Copy(BridgeSlot) = None
        /\ OnlyOn(Copy(BridgeSlot), b) /\ Work.mission \in {b, None}
    BY BridgeAssumption DEF Slots, SlotHolds, Hub, Single
  <1>2. \A j \in Requests : j # BridgeSlot => req'[j] = req[j] /\ Copy(j)' = Copy(j)
    BY BridgeKeepsSlots DEF Works
  <1>3. CASE Wake
    <2>1. /\ bridge'.pc = "awake" /\ bridge'.done = bridge.done
          /\ bridge'.adapter = bridge.adapter /\ bridge'.seen = Work.mission
          /\ bridge.pc = "asleep" /\ Hub.pc = "idle"
      BY <1>1, <1>3, WakeShape DEF Wake, Idle, At, Hub
    <2>2. sessions' = sessions /\ queue' = queue /\ req' = req
      BY <1>3 DEF Wake, vars
    <2>3. Work' = Work /\ Copy(BridgeSlot)' = None /\ Hub' = Hub
      BY <1>1, <2>1, <2>2 DEF Work, Copy, Hub
    <2>4. BridgeKnows' /\ ~ Closing'
      BY <2>1, <2>3 DEF BridgeKnows, Closing, ClosingPc
    <2>5. Over => Over'
      BY <2>1, <2>3 DEF Over, Closing, OnlyOn
    <2>6. Watchful => Watchful'
      BY <1>2, <2>2, <2>3, <2>4, <2>5, WatchfulKeeps DEF IsFree
    <2> QED
      BY <1>1, <1>2, <2>1, <2>3, <2>4, <2>6, SingleKeeps DEF Single, OnlyOn
  <1>4. CASE BeatAgent
    <2>1. /\ bridge'.pc = "agentBeat" /\ Same /\ bridge.pc = "awake"
      BY <1>4, ToShape DEF BeatAgent, BridgePc
    <2>2. Opens("agentsSave") /\ Copy(BridgeSlot)' = None
      BY <1>4, AgentOpens DEF BeatAgent
    <2>3. /\ sessions' = sessions /\ queue' = queue /\ Work' = Work
          /\ Hub'.pc \in {"idle", "agentsSave"}
      BY <2>2 DEF Opens, Work
    <2>4. BridgeKnows' /\ ~ Closing'
      BY <2>1, <2>3 DEF BridgeKnows, Closing, ClosingPc, Same
    <2>5. Over => Over'
      BY <2>1, <2>2, <2>3 DEF Over, Closing, OnlyOn, Same
    <2>6. Watchful => Watchful'
      BY <1>2, <2>2, <2>3, <2>4, <2>5, WatchfulKeeps DEF IsFree
    <2> QED
      BY <1>1, <1>2, <2>1, <2>2, <2>3, <2>4, <2>6, SingleKeeps DEF Single, OnlyOn, Same
  <1>5. CASE BeatSession
    <2>1. /\ bridge'.pc = "sessionBeat" /\ Same /\ bridge.pc = "agentBeat"
      BY <1>5, ToShape DEF BeatSession, BridgePc
    <2>2. /\ Opens("sessionsSave")
          /\ Copy(BridgeSlot)' = None \/ Copy(BridgeSlot)'.mission = Work.mission
      BY <1>1, <1>5, HeartbeatOpens DEF BeatSession
    <2>3. /\ sessions' = sessions /\ queue' = queue /\ Work' = Work
          /\ Hub'.pc \in {"idle", "sessionsSave"}
      BY <2>2 DEF Opens, Work
    <2>4. BridgeKnows' /\ ~ Closing'
      BY <2>1, <2>3 DEF BridgeKnows, Closing, ClosingPc, Same
    <2>5. Over => Over'
      BY <2>1, <2>2, <2>3 DEF Over, Closing, OnlyOn, Same
    <2>6. Watchful => Watchful'
      BY <1>2, <2>2, <2>3, <2>4, <2>5, WatchfulKeeps DEF IsFree, Watchful
    <2> QED
      BY <1>1, <1>2, <2>1, <2>2, <2>3, <2>4, <2>6, SingleKeeps DEF Single, OnlyOn, Same
  <1>6. CASE Rest
    <2>1. /\ bridge'.pc = "asleep" /\ Same
      BY <1>6, ToShape DEF Rest, BridgePc
    <2>2. /\ sessions' = sessions /\ queue' = queue /\ req' = req
          /\ Hub.pc = "idle" /\ bridge.pc # "completeSent"
      BY <1>6 DEF Rest, vars, Refused, Answered200, Idle, At, Hub
    <2>3. Work' = Work /\ Copy(BridgeSlot)' = None /\ Hub' = Hub
      BY <1>1, <2>2 DEF Work, Copy, Hub
    <2>4. BridgeKnows' /\ ~ Closing'
      BY <2>1, <2>2, <2>3 DEF BridgeKnows, Closing, ClosingPc, Same
    <2>5. Over => Over'
      BY <2>1, <2>2, <2>3 DEF Over, Closing, OnlyOn, Same
    <2>6. Watchful => Watchful'
      BY <1>2, <2>2, <2>3, <2>4, <2>5, WatchfulKeeps DEF IsFree
    <2> QED
      BY <1>1, <1>2, <2>1, <2>3, <2>4, <2>6, SingleKeeps DEF Single, OnlyOn, Same
  <1>7. CASE PostBlocked \/ PostResume \/ PostAlive
    <2>1. PICK event : Post(event, "blockedSent") \/ Post(event, "resumeSent")
                          \/ Post(event, "aliveSent")
      BY <1>7 DEF PostBlocked, PostResume, PostAlive
    <2>2. /\ bridge'.pc \in {"blockedSent", "resumeSent", "aliveSent"} /\ Same
          /\ ExecutionEvent(BridgeSlot)
          /\ Copy(BridgeSlot)' = Set(sessions, BridgeSession,
                                     SessionOn(bridge.seen, EventStatus(event)))[BridgeSession]
      BY <2>1, ToShape DEF Post, BridgePc, Copy
    <2>3. /\ bridge.seen \in Missions /\ ~ Over
          /\ bridge.pc # "asleep"
      <3>1. /\ bridge.pc \in {"sessionBeat", "blockedSent", "resumeSent", "completeSent",
                              "commandStarted", "failureSent"}
            /\ bridge.pc = "completeSent" => Hub.pc = "idle" /\ Hub.reply # "ok"
            /\ bridge.seen # None
        BY <1>7
        DEF PostBlocked, PostResume, PostAlive, LooksAtFiles, LooksForDone, ResumeTold,
            Refused, Answered200, Idle, At, Hub, BridgeKnows
      <3>2. bridge.seen \in Missions
        BY <3>1 DEF Bridge
      <3> QED
        BY <3>1, <3>2 DEF Over, Closing, ClosingPc
    <2>4. Opens("sessionsSave")
      BY <1>1, <2>2, EventOpens
    <2>5. /\ sessions' = sessions /\ queue' = queue /\ Work' = Work
          /\ Hub'.pc \in {"idle", "sessionsSave"}
      BY <2>4 DEF Opens, Work
    <2>6. Copy(BridgeSlot)' # None /\ Copy(BridgeSlot)'.mission = bridge.seen
                                   /\ bridge.seen # None
      <3>1. sessions \in SessionTable /\ BridgeSession \in Sessions
        BY BridgeAssumption DEF HubInv, TypeOK
      <3>2. EventStatus(event) \in {"busy", "waiting", "stale"}
        BY DEF EventStatus
      <3>3. Copy(BridgeSlot)' = SessionOn(bridge.seen, EventStatus(event))
        BY <2>2, <3>1, SetAt
      <3> QED
        BY <2>3, <3>2, <3>3, SessionShape
    <2>7. BridgeKnows' /\ ~ Closing'
      BY <2>2, <2>3, <2>5, <2>6 DEF BridgeKnows, Closing, ClosingPc, Same
    <2>8. Watchful => Watchful'
      BY <1>2, <2>3, <2>5, <2>6, <2>7, WatchfulKeeps DEF IsFree
    <2> QED
      BY <1>1, <1>2, <2>2, <2>3, <2>5, <2>6, <2>7, <2>8, SingleKeeps
      DEF Single, OnlyOn, Same
  <1>8. CASE PostDone
    <2>1. /\ bridge'.pc = "completeSent" /\ Same /\ CompleteMission(BridgeSlot)
          /\ Hub'.session = BridgeSession
      BY <1>8, ToShape DEF PostDone, Complete, BridgePc, Hub
    <2>2. /\ bridge.seen # None /\ bridge.done # None
          /\ bridge.pc \in {"sessionBeat", "resumeSent"}
      BY <1>8 DEF PostDone, LooksForDone, LooksAtFiles, ResumeTold, BridgeKnows
    <2>3. ~ Over /\ bridge.done = b /\ bridge.seen = b
      BY <2>2 DEF Over, Closing, Single
    <2>4. Opens("completeQueue") /\ Copy(BridgeSlot)' \in {None, Work}
      BY <1>1, <2>1, CompleteOpens
    <2>5. /\ sessions' = sessions /\ queue' = queue /\ Work' = Work
          /\ Hub'.pc = "completeQueue" \/ (Hub'.pc = "idle" /\ Hub'.reply = "refused")
      BY <2>4 DEF Opens, Work
    <2>6. BridgeKnows' /\ ~ Closing'
      BY <2>1, <2>2, <2>3, <2>5 DEF BridgeKnows, Closing, ClosingPc, Same
    <2>7. Watchful => Watchful'
      BY <1>2, <2>3, <2>4, <2>5, <2>6, WatchfulKeeps DEF IsFree, Watchful
    <2> QED
      BY <1>1, <1>2, <2>1, <2>3, <2>4, <2>5, <2>6, <2>7, SingleKeeps
      DEF Single, OnlyOn, Same
  <1>9. ~ StartCommand /\ ~ CompleteCommand /\ ~ CommandCompleted /\ ~ PostFailure
        /\ ~ FailureTold
    BY DEF StartCommand, AdapterDue, CompleteCommand, CommandCompleted, PostFailure,
           FailureTold, BridgeKnows
  <1> QED
    BY <1>3, <1>4, <1>5, <1>6, <1>7, <1>8, <1>9 DEF BridgeStep

(* The completion is answered, and the file removed. *)
LEMMA CompletedKeepsFiles ==
    ASSUME HubInv, NoFaults, bridge \in Bridge, Slots, Files, BridgeKnows, Completed,
           calls' = calls
    PROVE  Files'
  <1>1. BridgeSlot \in Requests /\ (Hub.pc = "idle" => Copy(BridgeSlot) = None)
    BY BridgeAssumption DEF Slots, SlotHolds, Hub
  <1>2. /\ bridge'.pc = "asleep" /\ bridge'.done = None /\ bridge'.adapter = bridge.adapter
    BY CompletedShape
  <1>3. /\ sessions' = sessions /\ queue' = queue /\ req' = req
        /\ bridge.pc = "completeSent" /\ Hub.pc = "idle" /\ Hub.reply = "ok"
    BY DEF Completed, vars, Answered200, Idle, At, Hub
  <1>4. Closing /\ Work' = Work /\ Hub' = Hub /\ \A j : Copy(j)' = Copy(j)
    BY <1>3 DEF Closing, Work, Hub, Copy
  <1>5. BridgeKnows' /\ ~ Closing'
    BY <1>2, <1>3, <1>4 DEF BridgeKnows, Closing, ClosingPc
  <1>6. Unspent' = Unspent
    BY <1>3 DEF Unspent
  <1>7. ASSUME NEW b \in Missions \cup {None}, Single(b), Unspent => Watchful
        PROVE  Files'
    <2>1. Watchful => Over'
      BY <1>1, <1>2, <1>3, <1>4 DEF Watchful, Over, OnlyOn
    <2>2. Watchful => Watchful'
      BY <1>5, <2>1, OverShows
    <2>3. Single(b)'
      BY <1>2, <1>3, <1>4, <1>7 DEF Single, Reconciles
    <2> QED
      BY <1>5, <1>6, <1>7, <2>2, <2>3 DEF Files
  <1>8. ASSUME NEW m \in Missions, Handover(m), ~ Unspent
        PROVE  Files'
    <2>1. \A j \in Requests : OnlyOn(Copy(j)', m)
      BY <1>1, <1>3, <1>4, <1>8 DEF Handover, Callers, OnlyOn
    <2>2. Single(m)'
      BY <1>2, <1>3, <1>4, <1>8, <2>1 DEF Single, Handover, Reconciles
    <2> QED
      BY <1>5, <1>6, <1>8, <2>2 DEF Files
  <1> QED
    BY <1>3, <1>7, <1>8 DEF Files, BridgeKnows

(* The hub works the request off. *)
LEMMA RequestKeepsFiles ==
    ASSUME HubInv, NoFaults, bridge \in Bridge, Slots, Files, BridgeKnows, BridgeRequest,
           calls' = calls
    PROVE  Files'
  <1>1. BridgeSlot \in Requests /\ Work # None /\ SlotHolds(BridgeSlot)
    BY BridgeAssumption DEF Slots
  <1>2. Proceeds /\ bridge' = bridge
    BY <1>1, RequestProceeds DEF BridgeRequest
  <1>3. \A j \in Requests : j # BridgeSlot => req'[j] = req[j] /\ Copy(j)' = Copy(j)
    BY BridgeKeepsSlots DEF Works
  <1>4. Unspent' = Unspent
    BY <1>3 DEF Unspent, Callers
  <1>5. /\ Work' # None /\ SlotHolds(BridgeSlot)' /\ Hub.pc # "idle"
        /\ Hub'.pc = "idle" => Copy(BridgeSlot)' = None
    BY <1>2 DEF Proceeds, SlotHolds, Hub
  <1>6. BridgeKnows'
    BY <1>2, <1>5 DEF BridgeKnows, Proceeds, ClosingPc, IsFree
  <1>7. Closing => Closing' /\ (Hub'.pc = "idle" => Work'.mission = None)
    BY <1>2, <1>5 DEF Closing, Proceeds, ClosingPc, IsFree
  <1>8. ASSUME NEW b \in Missions \cup {None}, Single(b), Unspent => Watchful
        PROVE  Files'
    <2>1. OnlyOn(Copy(BridgeSlot), b) /\ Work.mission \in {b, None}
      BY <1>1, <1>8 DEF Single
    <2>2. /\ Hub.pc \in {"agentsSave", "sessionsSave", "completeQueue"} \cup ClosingPc
          /\ bridge.pc # "asleep"
          /\ Hub.pc = "completeQueue" => bridge.pc = "completeSent" /\ bridge.seen # None
      BY <1>5 DEF BridgeKnows, ClosingPc
    <2>3. Work' = Work \/ (Work' = Copy(BridgeSlot) /\ Hub.pc = "sessionsSave")
      BY <1>2, <2>2 DEF Proceeds, Work, ClosingPc
    <2>4. Work'.mission \in {b, None}
      BY <1>1, <2>1, <2>3 DEF OnlyOn, SlotHolds, TablePc, Hub
    <2>5. \/ Copy(BridgeSlot)' \in {None, Copy(BridgeSlot)}
          \/ Hub.pc = "completeQueue" /\ IsFree(Copy(BridgeSlot)')
      BY <1>2, <1>5, <2>2 DEF Proceeds, BridgeKnows, ClosingPc
    <2>6. OnlyOn(Copy(BridgeSlot)', b)
      BY <2>1, <2>5 DEF OnlyOn, IsFree
    <2>7. ASSUME Watchful
          PROVE  Watchful'
      <3>1. CASE Closing
        BY <1>7, <3>1, OverShows DEF Over
      <3>2. CASE Hub.pc = "agentsSave"
        <4>1. Hub'.pc = "idle" /\ sessions' = sessions /\ queue' = queue /\ Work' = Work
          BY <1>2, <3>2 DEF Proceeds, Work
        <4>2. bridge.pc # "completeSent"
          BY <3>2 DEF BridgeKnows, ClosingPc
        <4>3. Over => Over'
          BY <1>2, <1>5, <4>1, <4>2 DEF Over, Closing, OnlyOn
        <4> QED
          BY <1>2, <1>3, <1>5, <2>7, <4>1, <4>2, <4>3, WatchfulKeeps DEF IsFree, Closing
      <3>3. CASE Hub.pc = "sessionsSave" /\ ~ Closing
        <4>1. /\ Hub'.pc = "idle" /\ Work' = Copy(BridgeSlot) /\ queue' = queue
              /\ Copy(BridgeSlot) # None
          BY <1>1, <1>2, <3>3 DEF Proceeds, SlotHolds, TablePc, Hub
        <4>2. bridge.pc # "completeSent"
          BY <3>3 DEF BridgeKnows, Closing, ClosingPc
        <4>3. Over => Over'
          BY <1>2, <1>5, <4>1, <4>2 DEF Over, Closing, OnlyOn
        <4>4. SomeDone' = SomeDone
          BY <4>1 DEF SomeDone
        <4>5. \A j \in Requests : IsFree(Copy(j)') => Over
          BY <1>3, <1>5, <2>7, <4>1 DEF Watchful, IsFree
        <4>6. Work'.mission = None => Over
          BY <1>1, <2>7, <4>1 DEF Watchful, IsFree
        <4> QED
          BY <1>2, <2>7, <4>2, <4>3, <4>4, <4>5, <4>6 DEF Watchful, IsFree, Closing
      <3>4. CASE Hub.pc = "completeQueue"
        <4>1. ~ Over
          BY <2>2, <3>4 DEF Over, Closing, ClosingPc
        <4>2. sessions' = sessions /\ queue' = queue
          BY <1>2, <3>4 DEF Proceeds
        <4>3. CASE Hub'.pc = "idle" /\ Hub'.reply = "refused"
          BY <1>3, <1>5, <2>7, <4>1, <4>2, <4>3, WatchfulKeeps
          DEF IsFree, Closing, ClosingPc
        <4>4. CASE Hub'.pc = "completeSave" /\ IsFree(Copy(BridgeSlot)')
          <5>1. Closing' /\ Hub'.pc # "idle"
            BY <1>2, <2>2, <3>4, <4>4 DEF Closing, ClosingPc, IsFree
          <5> QED
            BY <5>1, OverShows DEF Over
        <4> QED
          BY <1>2, <3>4, <4>3, <4>4 DEF Proceeds, BridgeKnows
      <3>5. Hub.pc \in ClosingPc \ {"sessionsSave"} => Closing
        BY <2>2 DEF Closing, ClosingPc, BridgeKnows
      <3> QED
        BY <2>2, <3>1, <3>2, <3>3, <3>4, <3>5
    <2> QED
      BY <1>2, <1>3, <1>6, <1>8, <2>2, <2>4, <2>6, <2>7, SingleKeeps DEF Single
  <1>9. ASSUME NEW m \in Missions, Handover(m), ~ Unspent
        PROVE  Files'
    <2>1. Handover(m)'
      BY <1>3, <1>7, <1>9 DEF Handover, Callers, Reconciles
    <2> QED
      BY <1>4, <1>6, <1>9, <2>1 DEF Files
  <1> QED
    BY <1>8, <1>9 DEF Files, BridgeKnows

(* The executor leaves a file. *)
LEMMA WriteKeepsFiles ==
    ASSUME bridge \in Bridge, Slots, BridgeKnows, WriteFile,
           NEW b \in Missions \cup {None}, Single(b), Unspent => Watchful, calls' = calls
    PROVE  Files'
  <1>1. /\ bridge'.pc = bridge.pc /\ bridge'.seen = bridge.seen
        /\ bridge'.adapter = bridge.adapter
        /\ bridge.done = None /\ Work.mission # None /\ bridge'.done \in {None, Work.mission}
    BY WriteShape, SessionAssumption
  <1>2. sessions' = sessions /\ queue' = queue /\ req' = req
    BY DEF WriteFile, vars
  <1>3. Work' = Work /\ Hub' = Hub /\ \A j : Copy(j)' = Copy(j) /\ req'[j] = req[j]
    BY <1>2 DEF Work, Hub, Copy
  <1>4. bridge.pc # "completeSent"
    BY <1>1 DEF BridgeKnows
  <1>5. BridgeKnows' /\ ~ Closing' /\ ~ Over
    BY <1>1, <1>3, <1>4 DEF BridgeKnows, Closing, ClosingPc, Over
  <1>6. Watchful => Watchful'
    BY <1>2, <1>3, <1>5, WatchfulKeeps, BridgeAssumption DEF Watchful
  <1> QED
    BY <1>1, <1>3, <1>5, <1>6, SingleKeeps, BridgeAssumption DEF Single

(* Whatever the bridge and its executor do keeps the file with its mission. *)
LEMMA BridgeKeepsFiles ==
    ASSUME HubInv, NoFaults, bridge \in Bridge, Slots, Files, Works, calls' = calls
    PROVE  Slots' /\ Files'
  <1>1. Slots'
    BY BridgeKeepsSlots
  <1>2. ASSUME bridge.adapter, bridge.done = None, bridge.pc # "completeSent"
        PROVE  Files'
    BY <1>2, AdapterKeeps DEF Files
  <1>3. ASSUME BridgeKnows, NEW b \in Missions \cup {None}, Single(b), Unspent => Watchful
        PROVE  Files'
    BY <1>3, TickKeepsFiles, CompletedKeepsFiles, RequestKeepsFiles, WriteKeepsFiles
    DEF Works, Files
  <1>4. ASSUME BridgeKnows, NEW m \in Missions, Handover(m), ~ Unspent
        PROVE  Files'
    <2>1. ~ WriteFile
      BY <1>4, WriteShape DEF Handover, Closing, BridgeKnows
    <2>2. BridgeStep => Completed
      BY <1>4
      DEF BridgeStep, Wake, BeatAgent, BeatSession, Rest, PostBlocked, PostResume, PostDone,
          LooksForDone, LooksAtFiles, ResumeTold, StartCommand, CompleteCommand,
          CommandCompleted, PostFailure, FailureTold, PostAlive, Refused, Idle, At, Hub,
          Handover, Closing, ClosingPc
    <2> QED
      BY <1>4, <2>1, <2>2, CompletedKeepsFiles, RequestKeepsFiles DEF Works, Files
  <1> QED
    BY <1>1, <1>2, <1>3, <1>4 DEF Files

(* At first there is no file, and nothing done.                            *)
LEMMA InitBridge ==
    ASSUME ExecutorsInit
    PROVE  BridgeInv
  <1>1. PICK S \in SUBSET Rows, j \in Jobs :
          /\ queue = [r \in Rows |->
                        IF r \in S THEN StartedRow(NewRow("CPP", None, "open"), j,
                                                  BridgeSession, BridgeAgent)
                                   ELSE NewRow("CPP", None, "open")]
          /\ sessions = [s \in Sessions |->
                           IF s = BridgeSession /\ S # {}
                             THEN SessionOn(MissionOf[CHOOSE r \in S : TRUE], "busy")
                             ELSE FreeSession]
    BY DEF ExecutorsInit
  <1>2. HubInv /\ BridgeSession \in Sessions /\ BridgeSlot \in Requests
    BY InitHub, BridgeAssumption
  <1>3. req = [i \in Requests |-> Blank] /\ calls = 0
    BY DEF ExecutorsInit
  <1>4. \A i \in Requests : req[i] = Blank /\ req[i].pc = "idle" /\ Copy(i) = None
    BY <1>3, BlankCopy DEF Blank, Copy
  <1>5. PICK adapter \in BOOLEAN :
          bridge = [pc |-> "asleep", seen |-> None, done |-> None, blocked |-> FALSE,
                    resume |-> FALSE, adapter |-> adapter, run |-> "none", losses |-> 0]
    BY DEF ExecutorsInit, BridgeInit
  <1>6. bridge \in Bridge /\ bridge.pc = "asleep" /\ bridge.done = None
    BY <1>5, BridgeAssumption DEF Bridge
  <1>7. Work # None /\ Work.mission \in Missions \cup {None}
    <2>1. Work \in Session \cup {None}
      BY <1>2 DEF HubInv, TypeOK, SessionTable, Work
    <2>2. S # {} => MissionOf[CHOOSE r \in S : TRUE] \in Missions
      BY QueueAssumption
    <2>3. Work # None
      BY <1>1, <1>2, <2>2, SessionShape DEF Work
    <2> QED
      BY <2>1, <2>3 DEF Session
  <1>8. ~ SomeDone
    <2>1. NewRow("CPP", None, "open") \in Row /\ NewRow("CPP", None, "open").status = "open"
      BY DEF NewRow, CreatedRow, Row, QueueStatus, Assignee
    <2>2. StartedRow(NewRow("CPP", None, "open"), j, BridgeSession, BridgeAgent).status
             = "in_progress"
      BY <2>1 DEF StartedRow, Row
    <2> QED
      BY <1>1, <2>1, <2>2 DEF SomeDone, Live
  <1>9. Slots
    BY <1>2, <1>3, <1>4, <1>7 DEF Slots, SlotHolds, OneCall, TablePc, Callers
  <1>10. Hub.pc = "idle" /\ Copy(BridgeSlot) = None /\ ~ Closing
    BY <1>2, <1>4, <1>6 DEF Hub, Closing
  <1>11. ~ bridge.adapter => BridgeKnows
    BY <1>6, <1>10 DEF BridgeKnows, ClosingPc
  <1>12. Single(Work.mission)
    BY <1>4, <1>6 DEF Single, OnlyOn, Reconciles, Callers
  <1>13. Watchful
    BY <1>4, <1>6, <1>8, <1>10 DEF Watchful, Over, OnlyOn, IsFree
  <1>14. Files
    BY <1>6, <1>7, <1>11, <1>12, <1>13 DEF Files
  <1> QED
    BY <1>3, <1>6, <1>9, <1>14 DEF BridgeInv

(* BridgeInv is inductive, beside HubInv.                                  *)
LEMMA NextBridge ==
    ASSUME NoFaults, HubInv, BridgeInv, [ExecutorsNext]_executors
    PROVE  BridgeInv'
  <1>1. bridge \in Bridge /\ calls \in Nat /\ bridge.losses \in Nat
    BY DEF BridgeInv, Bridge
  <1>2. CASE UNCHANGED executors
    BY <1>2
    DEF BridgeInv, executors, vars, Slots, Files, SlotHolds, OneCall, BridgeKnows, Single,
        Unspent, Watchful, Handover, Over, Closing, Reconciles, SomeDone, Work, Copy, Hub
  <1>3. ASSUME NEW i \in Callers, CallerNext(i)
        PROVE  BridgeInv'
    <2>1. bridge' = bridge /\ calls' = IF At(i, "idle") THEN calls + 1 ELSE calls
      BY <1>3 DEF CallerNext
    <2>2. ASSUME calls' <= 1, bridge.losses = 0
          PROVE  Slots' /\ Files'
      <3>1. calls <= 1
        BY <1>1, <2>1, <2>2
      <3>2. Slots /\ Files
        BY <2>2, <3>1 DEF BridgeInv
      <3>3. Steady(i)
        BY <3>2 DEF Steady, Slots, Callers
      <3> QED
        BY <1>1, <1>3, <2>1, <2>2, <3>2, <3>3, CallersEffect, CallerKeepsFiles
    <2>3. bridge' \in Bridge /\ calls' \in Nat
      BY <1>1, <2>1
    <2> QED
      BY <2>1, <2>2, <2>3 DEF BridgeInv
  <1>4. CASE BridgeNext /\ UNCHANGED calls
    <2>1. /\ bridge' \in Bridge
          /\ bridge'.losses = 0 =>
                bridge.losses = 0 /\ (BridgeStep \/ BridgeRequest \/ WriteFile)
      BY <1>1, <1>4, BridgeShape
    <2>2. ASSUME calls' <= 1, bridge'.losses = 0
          PROVE  Slots' /\ Files'
      <3>1. Slots /\ Files /\ Works
        BY <1>4, <2>1, <2>2 DEF BridgeInv, Works
      <3> QED
        BY <1>1, <1>4, <3>1, BridgeKeepsFiles
    <2> QED
      BY <1>1, <1>4, <2>1, <2>2 DEF BridgeInv
  <1> QED
    BY <1>2, <1>3, <1>4 DEF ExecutorsNext

(* Where no load and no save fails, the bridge's file, the mission it read *)
(* and every copy of its session stay together, as long as nothing of the  *)
(* bridge is lost and others made one request at most.                     *)
THEOREM BridgeInvariance ==
    ASSUME NoFaults
    PROVE  ExecutorsSpec => []BridgeInv
  BY HubInvariance, InitBridge, NextBridge, PTL DEF ExecutorsSpec

(* So the mission a done file completes is the one it was written for,     *)
(* however that request and the bridge's own interleave (gov-codex-        *)
(* session-bridge.mjs:260-289).                                            *)
THEOREM FilesCloseTheirMission ==
    ASSUME NoFaults
    PROVE  ExecutorsSpec => []DoneFilesCloseTheirMission
  <1>1. BridgeInv => DoneFilesCloseTheirMission
    BY DEF BridgeInv, Files, BridgeKnows, DoneFilesCloseTheirMission
  <1> QED
    BY <1>1, BridgeInvariance, PTL
=============================================================================
