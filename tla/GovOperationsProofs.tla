------------------------ MODULE GovOperationsProofs ------------------------
(***************************************************************************)
(* Type correctness and the four invariants of GovOperations, for any      *)
(* number of requests, rows, sessions and agents, with failing saves and   *)
(* loads and crashes.  Inv is inductive.                                   *)
(*                                                                         *)
(* Argument.  A request saves a copy of a snapshot that may be old, so Inv *)
(* asks the same of every copy as of the stored value.  What it asks of a  *)
(* row mentions nothing that can be taken back: the row itself, and the    *)
(* jobs issued so far, which only grow.  So an old copy stays good while   *)
(* others work (SlotMonotone), and a step has to be looked at only for the *)
(* request that takes it: its new slot and the snapshot it saves           *)
(* (StepKeepsInv).                                                         *)
(***************************************************************************)
EXTENDS MissionRoutesProofs

-----------------------------------------------------------------------------
(* The queue route. *)

LEMMA CreateRowsKeepsInv ==
    ASSUME Inv, NEW i \in Requests, CreateRows(i)
    PROVE  Inv'
  <1>1. PICK q \in Loaded(queue, EmptyQueue), m \in Missions :
        \E S \in SUBSET {r \in Rows \ minted : MissionOf[r] = m} :
        \E who \in [S -> Asked], agent \in [S -> Agents \cup {None}] :
           /\ minted' = minted \cup S
           /\ Goto(i, [Blank EXCEPT !.pc = "queueSave", !.op = "create",
                                    !.q = Added(q, S, who, agent)])
    BY DEF CreateRows
  <1>2. PICK S \in SUBSET {r \in Rows \ minted : MissionOf[r] = m} :
        \E who \in [S -> Asked], agent \in [S -> Agents \cup {None}] :
           /\ minted' = minted \cup S
           /\ Goto(i, [Blank EXCEPT !.pc = "queueSave", !.op = "create",
                                    !.q = Added(q, S, who, agent)])
    BY <1>1
  <1>3. PICK who \in [S -> Asked], agent \in [S -> Agents \cup {None}] :
           /\ minted' = minted \cup S
           /\ Goto(i, [Blank EXCEPT !.pc = "queueSave", !.op = "create",
                                    !.q = Added(q, S, who, agent)])
    BY <1>2
  <1>4. who \in [S -> Assignee]
    BY StoreAssumption
  <1>5. QueueOK(Added(q, S, who, agent), jobs)
    BY <1>4, LoadedOK, AddedOK
  <1>6. SlotOK([Blank EXCEPT !.pc = "queueSave", !.op = "create",
                             !.q = Added(q, S, who, agent)], jobs)
    BY <1>5, QueueSaveOK DEF Op
  <1>7. minted' \subseteq Rows \cup Sessions
    BY <1>3 DEF Inv, TypeOK
  <1> QED
    BY <1>3, <1>6, <1>7, QuietStepKeepsInv DEF CreateRows

(* Removing rows, or clearing, leaves the others as they were.             *)
LEMMA RemoveRowsKeepsInv ==
    ASSUME Inv, NEW i \in Requests, RemoveRows(i)
    PROVE  Inv'
  <1>1. PICK q \in Loaded(queue, EmptyQueue) : \E S :
           Goto(i, [Blank EXCEPT !.pc = "queueSave", !.op = "remove",
                                 !.q = Without(q, S)])
    BY DEF RemoveRows
  <1>2. PICK S :
           Goto(i, [Blank EXCEPT !.pc = "queueSave", !.op = "remove",
                                 !.q = Without(q, S)])
    BY <1>1
  <1>3. SlotOK([Blank EXCEPT !.pc = "queueSave", !.op = "remove",
                             !.q = Without(q, S)], jobs)
    BY LoadedOK, WithoutOK, QueueSaveOK DEF Op
  <1> QED
    BY <1>2, <1>3, QuietStepKeepsInv DEF RemoveRows, Inv, TypeOK

(* Whatever became of the queue meanwhile, the copy saved is well formed.  *)
LEMMA SaveQueueKeepsInv ==
    ASSUME Inv, NEW i \in Requests, SaveQueue(i)
    PROVE  Inv'
  <1>1. PICK result \in SaveResults :
           queue' = Stored(result, queue, req[i].q) /\ Finish(i, Answer(result))
    BY DEF SaveQueue
  <1>2. QueueOK(queue', jobs)
    BY <1>1 DEF Stored, Inv, SlotOK
  <1>3. Answer(result) \in Reply
    BY DEF Answer, Reply
  <1> QED
    BY <1>1, <1>2, <1>3, FinishKeepsInv DEF SaveQueue, Inv, TypeOK

(* An update loads its copy and knows its row is in it.                    *)
LEMMA UpdateStatusKeepsInv ==
    ASSUME Inv, NEW i \in Requests, UpdateStatus(i)
    PROVE  Inv'
  <1>1. PICK q \in Loaded(queue, EmptyQueue), r \in Rows :
          IF r \in Live(q)
            THEN Goto(i, [Blank EXCEPT !.pc = "decide", !.op = "update",
                                       !.row = r, !.q = q])
            ELSE Finish(i, "refused")
    BY DEF UpdateStatus
  <1>2. CASE r \in Live(q)
    <2> DEFINE x == [Blank EXCEPT !.pc = "decide", !.op = "update", !.row = r, !.q = q]
    <2>1. QueueOK(q, jobs)
      BY LoadedOK
    <2>2. x \in Slot
      BY ZenonT(60), <2>1, BlankOK DEF Slot, Pc, Op, QueueOK
    <2>3. x.q = q /\ x.t = EmptySessions /\ x.pc = "decide" /\ x.row = r
      BY DEF Blank
    <2>4. Goto(i, x)
      BY <1>1, <1>2
    <2> HIDE DEF x
    <2>5. SlotOK(x, jobs)
      BY <1>2, <2>1, <2>2, <2>3, EmptySessionsOK DEF SlotOK
    <2> QED
      BY <2>4, <2>5, QuietStepKeepsInv DEF UpdateStatus, Inv, TypeOK
  <1>3. CASE r \notin Live(q)
    BY <1>1, <1>3, QuietFinishKeepsInv DEF UpdateStatus, Reply
  <1> QED
    BY <1>2, <1>3

(* Past the lookup, the row at work is live in the copy, and good. *)
LEMMA CurrentOK ==
    ASSUME Inv, NEW i \in Requests,
           req[i].pc \in {"decide", "unload", "dispatch", "bump", "claim", "bind"}
    PROVE  /\ req[i] \in Slot /\ QueueOK(req[i].q, jobs) /\ TableOK(req[i].t)
           /\ req[i].row \in Rows /\ req[i].row \in Live(req[i].q)
           /\ Current(i) \in Row /\ RowOK(req[i].row, Current(i), jobs)
  <1>1. SlotOK(req[i], jobs)
    BY DEF Inv
  <1>2. QueueOK(req[i].q, jobs) /\ req[i].row \in Live(req[i].q)
    BY <1>1 DEF SlotOK
  <1> QED
    BY <1>1, <1>2, LiveRow DEF SlotOK, Current

(* Committing a good row yields a slot that may save. *)
LEMMA CommitKeepsInv ==
    ASSUME Inv, NEW i \in Requests,
           req[i].pc \in {"decide", "unload", "dispatch", "bump", "claim", "bind"},
           NEW row \in Row, RowOK(req[i].row, row, jobs), Commit(i, row),
           queue' = queue, board' = board, minted' = minted, jobs' = jobs,
           agents' \in Registry, TableOK(sessions')
    PROVE  Inv'
  <1> DEFINE w == With(req[i].q, req[i].row, row)
             m == MissionOf[req[i].row]
             pc == IF row.status = "done" THEN "boardLoad" ELSE "queueSave"
  <1>1. PICK q \in Closures(w, m) :
           Goto(i, [Blank EXCEPT !.op = "update", !.row = req[i].row, !.q = q, !.pc = pc])
    BY DEF Commit
  <1>2. QueueOK(w, jobs)
    BY CurrentOK, WithOK
  <1>3. QueueOK(q, jobs)
    BY <1>2, ClosuresOK
  <1>4. pc \in {"boardLoad", "queueSave"}
    OBVIOUS
  <1> HIDE DEF pc
  <1> DEFINE x == [Blank EXCEPT !.op = "update", !.row = req[i].row, !.q = q, !.pc = pc]
  <1>5. req[i].row \in Rows
    BY CurrentOK
  <1>6. x \in Slot
    BY ZenonT(60), <1>3, <1>5, <1>4, BlankOK DEF Slot, Pc, Op, QueueOK
  <1>7. x.q = q /\ x.t = EmptySessions /\ x.pc \in {"boardLoad", "queueSave"} /\ x.row \in Rows
    BY <1>5, <1>4 DEF Blank
  <1>8. Goto(i, x)
    BY <1>1
  <1> HIDE DEF x
  <1>9. SlotOK(x, jobs)
    BY <1>3, <1>6, <1>7, EmptySessionsOK DEF SlotOK
  <1> QED
    BY <1>8, <1>9, StepKeepsInv DEF Inv, TypeOK

(* A row at the gate is given to a worker or to staff, or stays there.     *)
LEMMA DecideGateKeepsInv ==
    ASSUME Inv, NEW i \in Requests, DecideGate(i)
    PROVE  Inv'
  <1> DEFINE row == Current(i)
  <1>1. PICK g \in Loaded(agents, EmptyRegistry) : \E up \in SUBSET Registered(g) :
           /\ AgentsLoaded(i, g, up)
           /\ \/ Commit(i, FallbackRow(row))
              \/ \E who \in Asked \ {"STAFF"}, agent \in Agents \cup {None} :
                    Commit(i, BoundRow(row, who, agent))
              \/ Finish(i, "refused")
    BY DEF DecideGate
  <1>2. req[i].pc = "decide" /\ UNCHANGED <<store, minted, jobs>>
    BY <1>1 DEF AgentsLoaded, At
  <1>3. /\ queue' = queue /\ board' = board /\ minted' = minted /\ jobs' = jobs
        /\ agents' \in Registry /\ TableOK(sessions')
    BY <1>2 DEF store, Inv, TypeOK
  <1>4. row \in Row /\ RowOK(req[i].row, row, jobs) /\ req[i].row \in Rows
    BY <1>2, CurrentOK
  <1>5. CASE Commit(i, FallbackRow(row))
    <2>1. FallbackRow(row) \in Row /\ RowOK(req[i].row, FallbackRow(row), jobs)
      BY <1>4, FallbackRowOK
    <2> QED
      BY <1>2, <1>3, <1>5, <2>1, CommitKeepsInv
  <1>6. ASSUME NEW who \in Asked, NEW agent \in Agents \cup {None},
               Commit(i, BoundRow(row, who, agent))
        PROVE  Inv'
    <2>1. who \in Assignee
      BY StoreAssumption
    <2>2. /\ BoundRow(row, who, agent) \in Row
          /\ RowOK(req[i].row, BoundRow(row, who, agent), jobs)
      BY <1>4, <2>1, BoundRowOK
    <2> QED
      BY <1>2, <1>3, <1>6, <2>2, CommitKeepsInv
  <1>7. CASE Finish(i, "refused")
    BY <1>2, <1>7, QuietFinishKeepsInv DEF Reply
  <1> QED
    BY <1>1, <1>5, <1>6, <1>7

(* A running row that is asked to run is only synchronized.                *)
LEMMA DecideSyncKeepsInv ==
    ASSUME Inv, NEW i \in Requests, DecideSync(i)
    PROVE  Inv'
  <1> DEFINE row == Current(i)
  <1>1. PICK g \in Loaded(agents, EmptyRegistry) : \E up \in SUBSET Registered(g) :
           /\ AgentsLoaded(i, g, up)
           /\ Commit(i, SyncedRow(row)) \/ Finish(i, "refused")
    BY DEF DecideSync
  <1>2. req[i].pc = "decide" /\ UNCHANGED <<store, minted, jobs>>
    BY <1>1 DEF AgentsLoaded, At
  <1>3. /\ queue' = queue /\ board' = board /\ minted' = minted /\ jobs' = jobs
        /\ agents' \in Registry /\ TableOK(sessions')
    BY <1>2 DEF store, Inv, TypeOK
  <1>4. SyncedRow(row) \in Row /\ RowOK(req[i].row, SyncedRow(row), jobs)
    BY <1>2, CurrentOK, SyncedRowOK
  <1>5. CASE Commit(i, SyncedRow(row))
    BY <1>2, <1>3, <1>4, <1>5, CommitKeepsInv
  <1>6. CASE Finish(i, "refused")
    BY <1>2, <1>6, QuietFinishKeepsInv DEF Reply
  <1> QED
    BY <1>1, <1>5, <1>6

(* A start chooses a registered agent.                                     *)
LEMMA DecideStartKeepsInv ==
    ASSUME Inv, NEW i \in Requests, DecideStart(i)
    PROVE  Inv'
  <1>1. PICK g \in Loaded(agents, EmptyRegistry) : \E up \in SUBSET Registered(g) :
           /\ AgentsLoaded(i, g, up)
           /\ \/ \E a \in StartAgents(g, up, Current(i).assignee) :
                    Goto(i, [req[i] EXCEPT !.pc = "dispatch", !.g = g, !.agent = a])
              \/ Finish(i, "refused")
    BY DEF DecideStart
  <1>2. PICK up \in SUBSET Registered(g) :
           /\ AgentsLoaded(i, g, up)
           /\ \/ \E a \in StartAgents(g, up, Current(i).assignee) :
                    Goto(i, [req[i] EXCEPT !.pc = "dispatch", !.g = g, !.agent = a])
              \/ Finish(i, "refused")
    BY <1>1
  <1>3. req[i].pc = "decide" /\ UNCHANGED <<store, minted, jobs>>
    BY <1>2 DEF AgentsLoaded, At
  <1>4. ASSUME NEW a \in StartAgents(g, up, Current(i).assignee),
               Goto(i, [req[i] EXCEPT !.pc = "dispatch", !.g = g, !.agent = a])
        PROVE  Inv'
    <2> DEFINE x == [req[i] EXCEPT !.pc = "dispatch", !.g = g, !.agent = a]
    <2>1. a \in Registered(g) \cup {None} /\ Registered(g) \subseteq Agents
      BY DEF StartAgents, Registered
    <2>2. g \in Registry
      BY LoadedOK
    <2>3. /\ req[i] \in Slot /\ req[i].row \in Live(req[i].q)
          /\ QueueOK(req[i].q, jobs) /\ TableOK(req[i].t)
      BY <1>3, CurrentOK
    <2>4. x \in Slot
      BY ZenonT(60), <2>1, <2>2, <2>3 DEF Slot, Pc
    <2>5. /\ x.pc = "dispatch" /\ x.g = g /\ x.agent = a
          /\ x.q = req[i].q /\ x.t = req[i].t /\ x.row = req[i].row
      BY <2>3 DEF Slot
    <2> HIDE DEF x
    <2>6. SlotOK(x, jobs)
      BY <2>1, <2>3, <2>4, <2>5 DEF SlotOK
    <2>7. Goto(i, x)
      BY <1>4 DEF x
    <2> QED
      BY <1>3, <2>6, <2>7, QuietStepKeepsInv DEF Inv, TypeOK
  <1>5. CASE Finish(i, "refused")
    BY <1>3, <1>5, QuietFinishKeepsInv DEF Reply
  <1> QED
    BY <1>2, <1>4, <1>5

(* Any other update moves the row, a done only from a running one.         *)
LEMMA DecideMoveKeepsInv ==
    ASSUME Inv, NEW i \in Requests, DecideMove(i)
    PROVE  Inv'
  <1> DEFINE row == Current(i)
  <1>1. PICK g \in Loaded(agents, EmptyRegistry), next \in QueueStatus \ {"in_progress"} :
           /\ AgentsLoaded(i, g, {})
           /\ \/ \E released \in Releases(g, row) :
                    Goto(i, [req[i] EXCEPT !.pc = "unload", !.g = released,
                                           !.status = next])
              \/ Finish(i, "refused")
              \/ next # "done" /\ Commit(i, MovedRow(row, next))
    BY DEF DecideMove
  <1>2. req[i].pc = "decide" /\ UNCHANGED <<store, minted, jobs>>
    BY <1>1 DEF AgentsLoaded, At
  <1>3. ASSUME NEW released \in Releases(g, row),
               Goto(i, [req[i] EXCEPT !.pc = "unload", !.g = released, !.status = next])
        PROVE  Inv'
    <2> DEFINE x == [req[i] EXCEPT !.pc = "unload", !.g = released, !.status = next]
    <2>1. released \in Registry
      BY LoadedOK, ReleasesOK
    <2>2. /\ req[i] \in Slot /\ req[i].row \in Live(req[i].q)
          /\ QueueOK(req[i].q, jobs) /\ TableOK(req[i].t)
      BY <1>2, CurrentOK
    <2>3. x \in Slot
      BY ZenonT(60), <2>1, <2>2 DEF Slot, Pc
    <2>4. /\ x.pc = "unload" /\ x.status = next
          /\ x.q = req[i].q /\ x.t = req[i].t /\ x.row = req[i].row
      BY <2>2 DEF Slot
    <2> HIDE DEF x
    <2>5. SlotOK(x, jobs)
      BY <2>2, <2>3, <2>4 DEF SlotOK
    <2>6. Goto(i, x)
      BY <1>3 DEF x
    <2> QED
      BY <1>2, <2>5, <2>6, QuietStepKeepsInv DEF Inv, TypeOK
  <1>4. CASE Finish(i, "refused")
    BY <1>2, <1>4, QuietFinishKeepsInv DEF Reply
  <1>5. CASE next # "done" /\ Commit(i, MovedRow(row, next))
    <2>1. MovedRow(row, next) \in Row /\ RowOK(req[i].row, MovedRow(row, next), jobs)
      BY <1>2, <1>5, CurrentOK, MovedRowOK
    <2>2. /\ queue' = queue /\ board' = board /\ minted' = minted /\ jobs' = jobs
          /\ agents' \in Registry /\ TableOK(sessions')
      BY <1>2 DEF store, Inv, TypeOK
    <2> QED
      BY <1>2, <1>5, <2>1, <2>2, CommitKeepsInv
  <1> QED
    BY <1>1, <1>3, <1>4, <1>5

(* The load of a row that stops is released.                               *)
LEMMA SaveUnloadKeepsInv ==
    ASSUME Inv, NEW i \in Requests, SaveUnload(i)
    PROVE  Inv'
  <1> DEFINE row == Current(i)
  <1>1. req[i].pc = "unload" /\ UNCHANGED <<queue, sessions, board, minted, jobs>>
    BY DEF SaveUnload, At
  <1>2. /\ req[i] \in Slot /\ row \in Row /\ RowOK(req[i].row, row, jobs)
        /\ req[i].row \in Rows
    BY <1>1, CurrentOK
  <1>3. req[i].status \in QueueStatus \ {"in_progress"}
    BY <1>1 DEF Inv, SlotOK
  <1>4. agents' \in Registry
    BY <1>2 DEF SaveUnload, Stored, Inv, TypeOK, Slot
  <1>5. TableOK(sessions')
    BY <1>1 DEF Inv
  <1>6. CASE Finish(i, "refused")
    BY <1>1, <1>4, <1>5, <1>6, FinishKeepsInv DEF Inv, TypeOK, Reply
  <1>7. CASE row.status = "in_progress" /\ Commit(i, DoneRow(row))
    <2>1. jobs \in SUBSET (Rows \X Jobs)
      BY DEF Inv, TypeOK
    <2>2. DoneRow(row) \in Row /\ RowOK(req[i].row, DoneRow(row), jobs)
      BY <1>2, <1>7, <2>1, DoneRowOK
    <2> QED
      BY <1>1, <1>4, <1>5, <1>7, <2>2, CommitKeepsInv
  <1>8. CASE req[i].status # "done" /\ Commit(i, MovedRow(row, req[i].status))
    <2>1. /\ MovedRow(row, req[i].status) \in Row
          /\ RowOK(req[i].row, MovedRow(row, req[i].status), jobs)
      BY <1>2, <1>3, <1>8, MovedRowOK
    <2> QED
      BY <1>1, <1>4, <1>5, <1>8, <2>1, CommitKeepsInv
  <1> QED
    BY <1>6, <1>7, <1>8 DEF SaveUnload, ValidTransition

(* The board is loaded,                                                    *)
LEMMA LoadBoardKeepsInv ==
    ASSUME Inv, NEW i \in Requests, LoadBoard(i)
    PROVE  Inv'
  <1>1. PICK b \in Loaded(board, {}) :
           Goto(i, [req[i] EXCEPT !.pc = "boardSave",
                                  !.b = b \cup {MissionOf[req[i].row]}])
    BY DEF LoadBoard
  <1> DEFINE x == [req[i] EXCEPT !.pc = "boardSave", !.b = b \cup {MissionOf[req[i].row]}]
  <1>2. SlotOK(req[i], jobs) /\ req[i] \in Slot /\ req[i].row \in Rows
    BY DEF LoadBoard, At, Inv, SlotOK
  <1>3. b \cup {MissionOf[req[i].row]} \subseteq Missions
    BY <1>2, LoadedOK, QueueAssumption
  <1>4. x \in Slot
    BY ZenonT(60), <1>2, <1>3 DEF Slot, Pc
  <1>5. x.pc = "boardSave" /\ x.q = req[i].q /\ x.t = req[i].t /\ x.row = req[i].row
    BY <1>2 DEF Slot
  <1> HIDE DEF x
  <1>6. SlotOK(x, jobs)
    BY <1>2, <1>4, <1>5 DEF SlotOK
  <1>7. Goto(i, x)
    BY <1>1 DEF x
  <1> QED
    BY <1>6, <1>7, QuietStepKeepsInv DEF LoadBoard, Inv, TypeOK

(* and saved.                                                              *)
LEMMA SaveBoardKeepsInv ==
    ASSUME Inv, NEW i \in Requests, SaveBoard(i)
    PROVE  Inv'
  <1> DEFINE x == [req[i] EXCEPT !.pc = "queueSave", !.b = {}]
  <1>1. SlotOK(req[i], jobs) /\ req[i] \in Slot
    BY DEF Inv, SlotOK
  <1>2. x \in Slot
    BY ZenonT(60), <1>1 DEF Slot, Pc
  <1>3. x.pc = "queueSave" /\ x.q = req[i].q /\ x.t = req[i].t
    BY <1>1 DEF Slot
  <1>4. Goto(i, x)
    BY DEF SaveBoard
  <1> HIDE DEF x
  <1>5. SlotOK(x, jobs)
    BY <1>1, <1>2, <1>3 DEF SlotOK
  <1>6. board' \subseteq Missions
    BY <1>1 DEF SaveBoard, Stored, Inv, TypeOK, Slot
  <1> QED
    BY <1>4, <1>5, <1>6, StepKeepsInv DEF SaveBoard, Inv, TypeOK

(* The job a worker takes a start as is issued for the row at work; the    *)
(* answer may never arrive.                                                *)
LEMMA DispatchKeepsInv ==
    ASSUME Inv, NEW i \in Requests, Dispatch(i)
    PROVE  Inv'
  <1>1. req[i].pc = "dispatch" /\ UNCHANGED <<store, minted>>
    BY DEF Dispatch, At
  <1>2. /\ req[i] \in Slot /\ req[i].row \in Live(req[i].q) /\ req[i].row \in Rows
        /\ QueueOK(req[i].q, jobs) /\ TableOK(req[i].t)
        /\ req[i].agent \in Registered(req[i].g) \cup {None}
    BY <1>1, CurrentOK DEF Inv, SlotOK
  <1>3. ASSUME NEW j \in Jobs, jobs' = jobs \cup {<<req[i].row, j>>}
        PROVE  /\ jobs \subseteq jobs' /\ jobs' \subseteq Rows \X Jobs
               /\ QueueOK(queue', jobs') /\ TableOK(sessions')
               /\ agents' \in Registry /\ board' \subseteq Missions
               /\ minted' \subseteq Rows \cup Sessions
    <2>1. jobs \subseteq jobs' /\ jobs' \subseteq Rows \X Jobs
      BY <1>2, <1>3 DEF Inv, TypeOK
    <2>2. /\ queue' = queue /\ sessions' = sessions /\ agents' = agents
          /\ board' = board /\ minted' = minted
      BY <1>1 DEF store
    <2>3. QueueOK(queue, jobs')
      BY <2>1, QueueMonotone DEF Inv
    <2> QED
      BY <2>1, <2>2, <2>3 DEF Inv, TypeOK
  <1>4. ASSUME NEW j \in Jobs, jobs' = jobs \cup {<<req[i].row, j>>},
               NEW pc \in {"claim", "bump"},
               pc = "bump" => req[i].agent # None,
               Goto(i, [req[i] EXCEPT !.pc = pc, !.job = j])
        PROVE  Inv'
    <2> DEFINE x == [req[i] EXCEPT !.pc = pc, !.job = j]
    <2>1. x \in Slot
      BY ZenonT(60), <1>2 DEF Slot, Pc
    <2>2. /\ x.pc = pc /\ x.job = j /\ x.agent = req[i].agent /\ x.g = req[i].g
          /\ x.q = req[i].q /\ x.t = req[i].t /\ x.row = req[i].row
      BY <1>2 DEF Slot
    <2>3. Goto(i, x)
      BY <1>4
    <2>4. <<x.row, x.job>> \in jobs'
      BY <1>4, <2>2
    <2>5. QueueOK(req[i].q, jobs')
      BY <1>2, <1>3, <1>4, QueueMonotone
    <2> HIDE DEF x
    <2>6. SlotOK(x, jobs')
      BY <1>2, <1>4, <2>1, <2>2, <2>4, <2>5 DEF SlotOK
    <2> QED
      BY <1>3, <1>4, <2>3, <2>6, StepKeepsInv
  <1>5. ASSUME NEW j \in Jobs, jobs' = jobs \cup {<<req[i].row, j>>}, Finish(i, "refused")
        PROVE  Inv'
    BY <1>3, <1>5, FinishKeepsInv DEF Reply
  <1>6. CASE Finish(i, "refused") /\ jobs' = jobs
    BY <1>1, <1>6, QuietFinishKeepsInv DEF Reply
  <1>7. \/ \E j \in Jobs :
              /\ jobs' = jobs \cup {<<req[i].row, j>>}
              /\ \/ Goto(i, [req[i] EXCEPT
                               !.pc = IF req[i].agent = None THEN "claim" ELSE "bump",
                               !.job = j])
                 \/ Finish(i, "refused")
        \/ Finish(i, "refused") /\ jobs' = jobs
    BY DEF Dispatch, JobsFor
  <1>8. ASSUME NEW j \in Jobs, jobs' = jobs \cup {<<req[i].row, j>>},
               Goto(i, [req[i] EXCEPT
                          !.pc = IF req[i].agent = None THEN "claim" ELSE "bump",
                          !.job = j])
        PROVE  Inv'
    <2>1. CASE req[i].agent = None
      <3>1. Goto(i, [req[i] EXCEPT !.pc = "claim", !.job = j])
        BY <1>8, <2>1
      <3> QED
        BY <1>4, <1>8, <3>1
    <2>2. CASE req[i].agent # None
      <3>1. Goto(i, [req[i] EXCEPT !.pc = "bump", !.job = j])
        BY <1>8, <2>2
      <3> QED
        BY <1>4, <1>8, <2>2, <3>1
    <2> QED
      BY <2>1, <2>2
  <1> QED
    BY <1>5, <1>6, <1>7, <1>8

(* The load raised for a start is saved.                                   *)
LEMMA SaveBumpKeepsInv ==
    ASSUME Inv, NEW i \in Requests, SaveBump(i)
    PROVE  Inv'
  <1> DEFINE x == [req[i] EXCEPT !.pc = "claim", !.g = EmptyRegistry, !.agent = None]
  <1>1. SlotOK(req[i], jobs) /\ req[i].pc = "bump" /\ req[i] \in Slot
    BY DEF SaveBump, At, Inv, SlotOK
  <1>2. x \in Slot
    BY ZenonT(60), <1>1, EmptyRegistryOK DEF Slot, Pc
  <1>3. /\ x.pc = "claim" /\ x.q = req[i].q /\ x.t = req[i].t
        /\ x.row = req[i].row /\ x.job = req[i].job
    BY <1>1 DEF Slot
  <1>4. Goto(i, x)
    BY DEF SaveBump
  <1> HIDE DEF x
  <1>5. SlotOK(x, jobs)
    BY <1>1, <1>2, <1>3 DEF SlotOK
  <1>6. agents' \in Registry
    <2>1. Bumped(req[i].g, req[i].agent) \in Registry
      BY <1>1, BumpedOK DEF SlotOK, Slot
    <2> QED
      BY <2>1 DEF SaveBump, Stored, Inv, TypeOK
  <1> QED
    BY <1>4, <1>5, <1>6, StepKeepsInv DEF SaveBump, Inv, TypeOK

(* A start claims a session and binds it in its copy of the table.         *)
LEMMA ClaimSessionKeepsInv ==
    ASSUME Inv, NEW i \in Requests, ClaimSession(i)
    PROVE  Inv'
  <1> DEFINE m == MissionOf[req[i].row]
  <1>1. PICK t \in Loaded(sessions, EmptySessions) :
           \/ Finish(i, "refused")
           \/ \E s \in StartSessions(t, req[i].row, Current(i)) :
                 Goto(i, [req[i] EXCEPT
                            !.pc = "bind", !.session = s, !.g = EmptyRegistry,
                            !.t = Set(t, s, SessionOn(m, "busy"))])
    BY DEF ClaimSession
  <1>2. req[i].pc = "claim" /\ UNCHANGED <<store, minted, jobs>>
    BY DEF ClaimSession, At
  <1>3. /\ req[i] \in Slot /\ req[i].row \in Live(req[i].q) /\ m \in Missions
        /\ QueueOK(req[i].q, jobs)
        /\ req[i].job \in Jobs /\ <<req[i].row, req[i].job>> \in jobs
    BY <1>2, CurrentOK, QueueAssumption DEF Inv, SlotOK
  <1>4. ASSUME NEW s \in StartSessions(t, req[i].row, Current(i)),
               Goto(i, [req[i] EXCEPT
                            !.pc = "bind", !.session = s, !.g = EmptyRegistry,
                            !.t = Set(t, s, SessionOn(m, "busy"))])
        PROVE  Inv'
    <2> DEFINE u == Set(t, s, SessionOn(m, "busy"))
    <2>1. s \in Sessions
      BY StartSessionKnown
    <2>2. TableOK(u)
      BY <1>3, <2>1, LoadedOK, SetOnOK
    <2>3. Goto(i, [req[i] EXCEPT !.pc = "bind", !.session = s, !.g = EmptyRegistry,
                                 !.t = u])
      BY <1>4
    <2> HIDE DEF u
    <2> DEFINE x == [req[i] EXCEPT !.pc = "bind", !.session = s, !.g = EmptyRegistry,
                                   !.t = u]
    <2>4. x \in Slot
      BY ZenonT(60), <1>3, <2>1, <2>2, EmptyRegistryOK DEF Slot, Pc, TableOK
    <2>5. /\ x.pc = "bind" /\ x.q = req[i].q /\ x.t = u
          /\ x.row = req[i].row /\ x.job = req[i].job /\ x.session = s
      BY <1>3 DEF Slot
    <2> HIDE DEF x
    <2>6. SlotOK(x, jobs)
      BY <1>3, <2>1, <2>2, <2>4, <2>5 DEF SlotOK
    <2>7. Goto(i, x)
      BY <2>3 DEF x
    <2> QED
      BY <1>2, <2>6, <2>7, QuietStepKeepsInv DEF Inv, TypeOK
  <1>5. CASE Finish(i, "refused")
    BY <1>2, <1>5, QuietFinishKeepsInv DEF Reply
  <1> QED
    BY <1>1, <1>4, <1>5

(* The started row names the session, its agent and the job taken for it.  *)
LEMMA BindSessionKeepsInv ==
    ASSUME Inv, NEW i \in Requests, BindSession(i)
    PROVE  Inv'
  <1> DEFINE agent == SessionAgent[req[i].session]
             row == StartedRow(Current(i), req[i].job, req[i].session, agent)
  <1>1. req[i].pc = "bind" /\ UNCHANGED <<queue, agents, board, minted, jobs>>
    BY DEF BindSession, At
  <1>2. /\ req[i].session \in Sessions /\ req[i].job \in Jobs
        /\ <<req[i].row, req[i].job>> \in jobs
        /\ Current(i) \in Row /\ req[i].row \in Rows /\ TableOK(req[i].t)
    BY <1>1, CurrentOK DEF Inv, SlotOK
  <1>3. row \in Row /\ RowOK(req[i].row, row, jobs)
    BY <1>2, StartedRowOK, SessionAssumption
  <1>4. TableOK(sessions')
    BY <1>2 DEF BindSession, Stored, Inv
  <1>5. Commit(i, row) \/ Finish(i, "failed")
    BY DEF BindSession
  <1> HIDE DEF row
  <1>6. CASE Commit(i, row)
    BY <1>1, <1>3, <1>4, <1>6, CommitKeepsInv DEF Inv, TypeOK
  <1>7. CASE Finish(i, "failed")
    BY <1>1, <1>4, <1>7, FinishKeepsInv DEF Inv, TypeOK, Reply
  <1> QED
    BY <1>5, <1>6, <1>7

(* All steps of the queue route together.                                  *)
LEMMA QueueRouteKeepsInv ==
    ASSUME Inv, NEW i \in Requests, QueueNext(i)
    PROVE  Inv'
  BY CreateRowsKeepsInv, RemoveRowsKeepsInv, SaveQueueKeepsInv, UpdateStatusKeepsInv,
     DecideGateKeepsInv, DecideSyncKeepsInv, DecideStartKeepsInv, DecideMoveKeepsInv,
     SaveUnloadKeepsInv, LoadBoardKeepsInv, SaveBoardKeepsInv, DispatchKeepsInv,
     SaveBumpKeepsInv, ClaimSessionKeepsInv, BindSessionKeepsInv
  DEF QueueNext

-----------------------------------------------------------------------------
(* The relay route. *)

LEMMA RelayKeepsInv ==
    ASSUME Inv, NEW i \in Requests, Relay(i)
    PROVE  Inv'
  <1>1. UNCHANGED <<store, minted, jobs>>
    BY DEF Relay
  <1>2. PICK q \in Loaded(queue, EmptyQueue), r \in Rows, next \in QueueStatus,
             job \in {None} \cup {j \in Jobs : \E x \in Rows : <<x, j>> \in jobs},
             complete \in BOOLEAN, release \in BOOLEAN :
          IF r \in Live(q) /\ RelayAllowed(q[r], next, job, complete)
            THEN Goto(i, [Blank EXCEPT
                            !.pc = "relayQueue", !.op = "relay",
                            !.row = r, !.status = next,
                            !.q = With(q, r, RelayedRow(q[r], next, job)),
                            !.old = IF release /\ q[r].status = "in_progress"
                                               /\ next # "in_progress"
                                      THEN q[r] ELSE None])
            ELSE Finish(i, "refused")
    BY DEF Relay
  <1>3. CASE r \in Live(q) /\ RelayAllowed(q[r], next, job, complete)
    <2> DEFINE n == With(q, r, RelayedRow(q[r], next, job))
               old == IF release /\ q[r].status = "in_progress" /\ next # "in_progress"
                        THEN q[r] ELSE None
    <2>1. q[r] \in Row /\ RowOK(r, q[r], jobs)
      BY <1>3, LoadedOK, LiveRow
    <2>2. jobs \in SUBSET (Rows \X Jobs)
      BY DEF Inv, TypeOK
    <2>3. /\ RelayedRow(q[r], next, job) \in Row
          /\ RowOK(r, RelayedRow(q[r], next, job), jobs)
      BY <1>3, <2>1, <2>2, RelayedRowOK
    <2>4. QueueOK(n, jobs)
      BY <2>3, LoadedOK, WithOK
    <2>5. old \in Row \cup {None}
      BY <2>1
    <2>6. Goto(i, [Blank EXCEPT !.pc = "relayQueue", !.op = "relay", !.row = r,
                                !.status = next, !.q = n, !.old = old])
      BY <1>2, <1>3
    <2> HIDE DEF n, old
    <2> DEFINE x == [Blank EXCEPT !.pc = "relayQueue", !.op = "relay", !.row = r,
                                  !.status = next, !.q = n, !.old = old]
    <2>7. x \in Slot
      BY ZenonT(60), <2>4, <2>5, BlankOK DEF Slot, Pc, Op, QueueOK
    <2>8. x.q = n /\ x.t = EmptySessions /\ x.pc = "relayQueue" /\ x.row = r
      BY DEF Blank
    <2> HIDE DEF x
    <2>9. SlotOK(x, jobs)
      BY <2>4, <2>7, <2>8, EmptySessionsOK DEF SlotOK
    <2>10. Goto(i, x)
      BY <2>6 DEF x
    <2> QED
      BY <1>1, <2>9, <2>10, QuietStepKeepsInv DEF Inv, TypeOK
  <1>4. CASE Finish(i, "refused")
    BY <1>1, <1>4, QuietFinishKeepsInv DEF Reply
  <1> QED
    BY <1>2, <1>3, <1>4

(* A relay of a done goes on to the registry; any other is through.        *)
LEMMA ReleaseOrFinishKeepsInv ==
    ASSUME Inv, NEW i \in Requests, ReleaseOrFinish(i),
           jobs' = jobs, minted' = minted, QueueOK(queue', jobs), TableOK(sessions'),
           agents' \in Registry, board' \subseteq Missions
    PROVE  Inv'
  <1>1. SlotOK(req[i], jobs) /\ req[i] \in Slot
    BY DEF Inv, SlotOK
  <1>2. CASE req[i].old = None
    BY <1>2, FinishKeepsInv DEF ReleaseOrFinish, Inv, TypeOK, Reply
  <1>3. CASE req[i].old # None
    <2> DEFINE x == [req[i] EXCEPT !.pc = "relayAgentsLoad", !.q = EmptyQueue, !.b = {}]
    <2>1. x \in Slot
      BY ZenonT(60), <1>1, EmptyQueueOK DEF Slot, Pc, QueueOK
    <2>2. x.pc = "relayAgentsLoad" /\ x.q = EmptyQueue /\ x.t = req[i].t /\ x.old \in Row
      BY <1>1, <1>3 DEF Slot
    <2>3. Goto(i, x)
      BY <1>3 DEF ReleaseOrFinish
    <2> HIDE DEF x
    <2>4. SlotOK(x, jobs)
      BY <1>1, <2>1, <2>2, EmptyQueueOK DEF SlotOK
    <2> QED
      BY <2>3, <2>4, StepKeepsInv DEF Inv, TypeOK
  <1> QED
    BY <1>2, <1>3

(* The relayed row is saved in a well formed queue.                        *)
LEMMA RelayQueueSaveKeepsInv ==
    ASSUME Inv, NEW i \in Requests, RelayQueueSave(i)
    PROVE  Inv'
  <1>1. /\ SlotOK(req[i], jobs) /\ req[i] \in Slot /\ req[i].row \in Rows
        /\ UNCHANGED <<agents, sessions, board, minted, jobs>>
    BY DEF RelayQueueSave, At, Inv, SlotOK
  <1>2. QueueOK(queue', jobs)
    BY <1>1 DEF RelayQueueSave, Stored, SlotOK, Inv
  <1>3. \/ Finish(i, "failed")
        \/ Goto(i, [req[i] EXCEPT !.pc = "relayBoardLoad", !.q = EmptyQueue])
        \/ ReleaseOrFinish(i)
    BY DEF RelayQueueSave
  <1>4. CASE Finish(i, "failed")
    BY <1>1, <1>2, <1>4, FinishKeepsInv DEF Inv, TypeOK, Reply
  <1>5. CASE Goto(i, [req[i] EXCEPT !.pc = "relayBoardLoad", !.q = EmptyQueue])
    <2> DEFINE x == [req[i] EXCEPT !.pc = "relayBoardLoad", !.q = EmptyQueue]
    <2>1. x \in Slot
      BY ZenonT(60), <1>1, EmptyQueueOK DEF Slot, Pc, QueueOK
    <2>2. x.pc = "relayBoardLoad" /\ x.q = EmptyQueue /\ x.t = req[i].t /\ x.row \in Rows
      BY <1>1 DEF Slot
    <2>3. Goto(i, x)
      BY <1>5
    <2> HIDE DEF x
    <2>4. SlotOK(x, jobs)
      BY <1>1, <2>1, <2>2, EmptyQueueOK DEF SlotOK
    <2> QED
      BY <1>1, <1>2, <2>3, <2>4, StepKeepsInv DEF Inv, TypeOK
  <1>6. CASE ReleaseOrFinish(i)
    BY <1>1, <1>2, <1>6, ReleaseOrFinishKeepsInv DEF Inv, TypeOK
  <1> QED
    BY <1>3, <1>4, <1>5, <1>6

(* For a done the board is loaded,                                         *)
LEMMA RelayBoardLoadKeepsInv ==
    ASSUME Inv, NEW i \in Requests, RelayBoardLoad(i)
    PROVE  Inv'
  <1>1. PICK b \in Loaded(board, {}) :
           Goto(i, [req[i] EXCEPT !.pc = "relayBoardSave",
                                  !.b = b \cup {MissionOf[req[i].row]}])
    BY DEF RelayBoardLoad
  <1> DEFINE x == [req[i] EXCEPT !.pc = "relayBoardSave",
                                 !.b = b \cup {MissionOf[req[i].row]}]
  <1>2. SlotOK(req[i], jobs) /\ req[i] \in Slot /\ req[i].row \in Rows
    BY DEF RelayBoardLoad, At, Inv, SlotOK
  <1>3. b \cup {MissionOf[req[i].row]} \subseteq Missions
    BY <1>2, LoadedOK, QueueAssumption
  <1>4. x \in Slot
    BY ZenonT(60), <1>2, <1>3 DEF Slot, Pc
  <1>5. x.pc = "relayBoardSave" /\ x.q = req[i].q /\ x.t = req[i].t /\ x.row = req[i].row
    BY <1>2 DEF Slot
  <1> HIDE DEF x
  <1>6. SlotOK(x, jobs)
    BY <1>2, <1>4, <1>5 DEF SlotOK
  <1>7. Goto(i, x)
    BY <1>1 DEF x
  <1> QED
    BY <1>6, <1>7, QuietStepKeepsInv DEF RelayBoardLoad, Inv, TypeOK

(* and saved.                                                              *)
LEMMA RelayBoardSaveKeepsInv ==
    ASSUME Inv, NEW i \in Requests, RelayBoardSave(i)
    PROVE  Inv'
  <1>1. UNCHANGED <<queue, agents, sessions, minted, jobs>>
    BY DEF RelayBoardSave
  <1>2. board' \subseteq Missions
    BY DEF RelayBoardSave, Stored, Inv, TypeOK, SlotOK, Slot
  <1>3. CASE ReleaseOrFinish(i)
    BY <1>1, <1>2, <1>3, ReleaseOrFinishKeepsInv DEF Inv, TypeOK
  <1>4. CASE Finish(i, "failed")
    BY <1>1, <1>2, <1>4, FinishKeepsInv DEF Inv, TypeOK, Reply
  <1> QED
    BY <1>3, <1>4 DEF RelayBoardSave

(* The loads are released in a copy of the registry,                       *)
LEMMA RelayAgentsLoadKeepsInv ==
    ASSUME Inv, NEW i \in Requests, RelayAgentsLoad(i)
    PROVE  Inv'
  <1>1. PICK g \in Loaded(agents, EmptyRegistry) :
           \/ Finish(i, "ok")
           \/ \E a \in ReleaseTargets(g, req[i].old) :
                 Goto(i, [req[i] EXCEPT !.pc = "relayAgentsSave", !.g = Released(g, a)])
    BY DEF RelayAgentsLoad
  <1>2. SlotOK(req[i], jobs) /\ req[i] \in Slot /\ UNCHANGED <<store, minted, jobs>>
    BY DEF RelayAgentsLoad, Inv, SlotOK
  <1>3. CASE Finish(i, "ok")
    BY <1>2, <1>3, QuietFinishKeepsInv DEF Reply
  <1>4. ASSUME NEW a \in ReleaseTargets(g, req[i].old),
               Goto(i, [req[i] EXCEPT !.pc = "relayAgentsSave", !.g = Released(g, a)])
        PROVE  Inv'
    <2> DEFINE n == Released(g, a)
    <2>1. n \in Registry
      BY LoadedOK, ReleasedOK DEF ReleaseTargets
    <2>2. Goto(i, [req[i] EXCEPT !.pc = "relayAgentsSave", !.g = n])
      BY <1>4
    <2> HIDE DEF n
    <2> DEFINE x == [req[i] EXCEPT !.pc = "relayAgentsSave", !.g = n]
    <2>3. x \in Slot
      BY ZenonT(60), <1>2, <2>1 DEF Slot, Pc
    <2>4. x.pc = "relayAgentsSave" /\ x.q = req[i].q /\ x.t = req[i].t
      BY <1>2 DEF Slot
    <2> HIDE DEF x
    <2>5. SlotOK(x, jobs)
      BY <1>2, <2>3, <2>4 DEF SlotOK
    <2>6. Goto(i, x)
      BY <2>2 DEF x
    <2> QED
      BY <1>2, <2>5, <2>6, QuietStepKeepsInv DEF Inv, TypeOK
  <1> QED
    BY <1>1, <1>3, <1>4

(* and saved.                                                              *)
LEMMA RelayAgentsSaveKeepsInv ==
    ASSUME Inv, NEW i \in Requests, RelayAgentsSave(i)
    PROVE  Inv'
  <1>1. agents' \in Registry
    BY DEF RelayAgentsSave, Stored, Inv, TypeOK, Slot
  <1> QED
    BY <1>1, FinishKeepsInv DEF RelayAgentsSave, Inv, TypeOK, Reply

(* All steps of the relay together.                                        *)
LEMMA RelayRouteKeepsInv ==
    ASSUME Inv, NEW i \in Requests, RelayNext(i)
    PROVE  Inv'
  BY RelayKeepsInv, RelayQueueSaveKeepsInv, RelayBoardLoadKeepsInv, RelayBoardSaveKeepsInv,
     RelayAgentsLoadKeepsInv, RelayAgentsSaveKeepsInv
  DEF RelayNext

-----------------------------------------------------------------------------
(* The routes of sessions and execution events. *)

(* A handler that loads the table, changes one session and goes to its save. *)
LEMMA SaveTableKeepsInv ==
    ASSUME Inv, NEW i \in Requests, NEW op \in Op, NEW s \in Sessions, NEW x, NEW t,
           TableOK(Set(t, s, x)), SaveTable(i, op, s, x, t),
           UNCHANGED <<store, jobs>>, minted' \subseteq Rows \cup Sessions
    PROVE  Inv'
  <1> DEFINE u == Set(t, s, x)
  <1>1. SlotOK([Blank EXCEPT !.pc = "sessionsSave", !.op = op, !.session = s, !.t = u], jobs)
    BY SaveTableOK
  <1> QED
    BY <1>1, QuietStepKeepsInv DEF SaveTable

(* A new session has no mission.                                           *)
LEMMA RegisterSessionKeepsInv ==
    ASSUME Inv, NEW i \in Requests, RegisterSession(i)
    PROVE  Inv'
  <1>1. PICK t \in Loaded(sessions, EmptySessions), s \in Sessions \ minted :
          SaveTable(i, "register", s, FreeSession, t) /\ minted' = minted \cup {s}
    BY DEF RegisterSession
  <1>2. TableOK(Set(t, s, FreeSession))
    BY LoadedOK, SetFreeOK
  <1> QED
    BY <1>1, <1>2, SaveTableKeepsInv DEF RegisterSession, Inv, TypeOK, Op

(* A heartbeat leaves the mission alone.                                   *)
LEMMA HeartbeatSessionKeepsInv ==
    ASSUME Inv, NEW i \in Requests, HeartbeatSession(i)
    PROVE  Inv'
  <1>1. PICK t \in Loaded(sessions, EmptySessions), s \in Sessions :
          IF s \in Known(t) THEN SaveTable(i, "heartbeat", s, Beaten(t[s]), t)
                            ELSE Finish(i, "refused")
    BY DEF HeartbeatSession
  <1>2. CASE s \in Known(t)
    <2>1. TableOK(Set(t, s, Beaten(t[s])))
      BY <1>2, LoadedOK, SetBeatenOK
    <2> QED
      BY <1>1, <1>2, <2>1, SaveTableKeepsInv DEF HeartbeatSession, Inv, TypeOK, Op
  <1>3. CASE s \notin Known(t)
    BY <1>1, <1>3, QuietFinishKeepsInv DEF HeartbeatSession, Reply
  <1> QED
    BY <1>2, <1>3

(* A released session has no mission.                                      *)
LEMMA ReleaseSessionKeepsInv ==
    ASSUME Inv, NEW i \in Requests, ReleaseSession(i)
    PROVE  Inv'
  <1>1. PICK t \in Loaded(sessions, EmptySessions), s \in Sessions :
          IF s \in Known(t) THEN SaveTable(i, "release", s, FreeSession, t)
                            ELSE Finish(i, "refused")
    BY DEF ReleaseSession
  <1>2. CASE s \in Known(t)
    <2>1. TableOK(Set(t, s, FreeSession))
      BY LoadedOK, SetFreeOK
    <2> QED
      BY <1>1, <1>2, <2>1, SaveTableKeepsInv DEF ReleaseSession, Inv, TypeOK, Op
  <1>3. CASE s \notin Known(t)
    BY <1>1, <1>3, QuietFinishKeepsInv DEF ReleaseSession, Reply
  <1> QED
    BY <1>2, <1>3

(* An event binds the session to its mission, whatever it was on.          *)
LEMMA ExecutionEventKeepsInv ==
    ASSUME Inv, NEW i \in Requests, ExecutionEvent(i)
    PROVE  Inv'
  <1>1. PICK t \in Loaded(sessions, EmptySessions), s \in Sessions, m \in Missions,
             event \in {"blocked", "failed", "done", "progress"} :
          IF s \in Known(t)
            THEN SaveTable(i, "event", s, SessionOn(m, EventStatus(event)), t)
            ELSE Finish(i, "refused")
    BY DEF ExecutionEvent
  <1>2. CASE s \in Known(t)
    <2>1. EventStatus(event) \in {"busy", "waiting", "stale"}
      BY DEF EventStatus
    <2>2. TableOK(Set(t, s, SessionOn(m, EventStatus(event))))
      BY <2>1, LoadedOK, SetOnOK
    <2> QED
      BY <1>1, <1>2, <2>2, SaveTableKeepsInv DEF ExecutionEvent, Inv, TypeOK, Op
  <1>3. CASE s \notin Known(t)
    BY <1>1, <1>3, QuietFinishKeepsInv DEF ExecutionEvent, Reply
  <1> QED
    BY <1>2, <1>3

(* The copy of the table saved is well formed.                             *)
LEMMA SaveSessionsKeepsInv ==
    ASSUME Inv, NEW i \in Requests, SaveSessions(i)
    PROVE  Inv'
  <1>1. PICK result \in SaveResults :
           sessions' = Stored(result, sessions, req[i].t) /\ Finish(i, Answer(result))
    BY DEF SaveSessions
  <1>2. TableOK(sessions')
    BY <1>1 DEF Stored, Inv, SlotOK
  <1>3. Answer(result) \in Reply
    BY DEF Answer, Reply
  <1> QED
    BY <1>1, <1>2, <1>3, FinishKeepsInv DEF SaveSessions, Inv, TypeOK

(* A session asks to start or complete a mission.                          *)
LEMMA MissionRequestKeepsInv ==
    ASSUME Inv, NEW i \in Requests, NEW op \in Op, NEW pc \in {"startQueue", "completeQueue"},
           MissionRequest(i, op, pc)
    PROVE  Inv'
  <1>1. PICK t \in Loaded(sessions, EmptySessions), s \in Sessions, m \in Missions :
          IF s \in Known(t)
            THEN Goto(i, [Blank EXCEPT !.pc = pc, !.op = op, !.session = s,
                                       !.mission = m, !.t = t])
            ELSE Finish(i, "refused")
    BY DEF MissionRequest
  <1>2. CASE s \in Known(t)
    <2> DEFINE x == [Blank EXCEPT !.pc = pc, !.op = op, !.session = s,
                                  !.mission = m, !.t = t]
    <2>1. TableOK(t)
      BY LoadedOK
    <2>2. x \in Slot
      BY ZenonT(60), <2>1, BlankOK DEF Slot, Pc, TableOK
    <2>3. x.q = EmptyQueue /\ x.t = t /\ x.pc = pc /\ x.session = s /\ x.mission = m
      BY DEF Blank
    <2>4. Goto(i, x)
      BY <1>1, <1>2
    <2> HIDE DEF x
    <2>5. SlotOK(x, jobs)
      BY <2>1, <2>2, <2>3, EmptyQueueOK DEF SlotOK
    <2> QED
      BY <2>4, <2>5, QuietStepKeepsInv DEF MissionRequest, Inv, TypeOK
  <1>3. CASE s \notin Known(t)
    BY <1>1, <1>3, QuietFinishKeepsInv DEF MissionRequest, Reply
  <1> QED
    BY <1>2, <1>3

(* A start by a session binds it to the mission; no row changes.           *)
LEMMA StartLoadQueueKeepsInv ==
    ASSUME Inv, NEW i \in Requests, StartLoadQueue(i)
    PROVE  Inv'
  <1>1. /\ req[i].session \in Sessions /\ req[i].mission \in Missions
        /\ TableOK(req[i].t) /\ UNCHANGED <<store, minted, jobs>>
    BY DEF StartLoadQueue, At, Inv, SlotOK
  <1>2. \/ SaveTable(i, "start", req[i].session, SessionOn(req[i].mission, "busy"), req[i].t)
        \/ Finish(i, "refused")
    BY DEF StartLoadQueue
  <1>3. TableOK(Set(req[i].t, req[i].session, SessionOn(req[i].mission, "busy")))
    BY <1>1, SetOnOK
  <1>4. CASE SaveTable(i, "start", req[i].session, SessionOn(req[i].mission, "busy"), req[i].t)
    BY <1>1, <1>3, <1>4, SaveTableKeepsInv DEF Inv, TypeOK, Op
  <1>5. CASE Finish(i, "refused")
    BY <1>1, <1>5, QuietFinishKeepsInv DEF Reply
  <1> QED
    BY <1>2, <1>4, <1>5

(* The first row of the mission is validated; all of them are completed.   *)
LEMMA CompleteLoadQueueKeepsInv ==
    ASSUME Inv, NEW i \in Requests, CompleteLoadQueue(i)
    PROVE  Inv'
  <1> DEFINE m == req[i].mission
             s == req[i].session
             n(q) == MissionCompleted(q, m, SessionAgent[s])
             t == Set(req[i].t, s, FreeSession)
  <1>1. /\ req[i] \in Slot /\ m \in Missions /\ s \in Sessions /\ TableOK(req[i].t)
        /\ UNCHANGED <<store, minted, jobs>>
    BY DEF CompleteLoadQueue, At, Inv, SlotOK
  <1>2. PICK q \in Loaded(queue, EmptyQueue) :
          \/ Finish(i, "refused")
          \/ \E first \in RowsOf(q, m) :
                /\ q[first].status = "in_progress"
                /\ Goto(i, [req[i] EXCEPT !.pc = "completeSave", !.q = n(q), !.t = t])
    BY DEF CompleteLoadQueue, ValidTransition
  <1>3. CASE Finish(i, "refused")
    BY <1>1, <1>3, QuietFinishKeepsInv DEF Reply
  <1>4. ASSUME NEW first \in RowsOf(q, m), q[first].status = "in_progress",
               Goto(i, [req[i] EXCEPT !.pc = "completeSave", !.q = n(q), !.t = t])
        PROVE  Inv'
    <2>1. QueueOK(n(q), jobs)
      <3>1. jobs \in SUBSET (Rows \X Jobs) /\ SessionAgent[s] \in Agents
        BY <1>1, SessionAssumption DEF Inv, TypeOK
      <3>2. QueueOK(q, jobs)
        BY LoadedOK
      <3> QED
        BY <1>4, <3>1, <3>2, MissionCompletedOK
    <2>2. TableOK(t)
      BY <1>1, SetFreeOK
    <2> DEFINE w == n(q)
    <2>3. QueueOK(w, jobs) /\ Goto(i, [req[i] EXCEPT !.pc = "completeSave", !.q = w, !.t = t])
      BY <1>4, <2>1
    <2> HIDE DEF w, t
    <2> DEFINE x == [req[i] EXCEPT !.pc = "completeSave", !.q = w, !.t = t]
    <2>4. x \in Slot
      BY ZenonT(60), <1>1, <2>2, <2>3 DEF Slot, Pc, QueueOK, TableOK
    <2>5. x.pc = "completeSave" /\ x.q = w /\ x.t = t /\ x.mission \in Missions
      BY <1>1 DEF Slot
    <2> HIDE DEF x
    <2>6. SlotOK(x, jobs)
      BY <2>2, <2>3, <2>4, <2>5 DEF SlotOK
    <2>7. Goto(i, x)
      BY <2>3 DEF x
    <2> QED
      BY <1>1, <2>6, <2>7, QuietStepKeepsInv DEF Inv, TypeOK
  <1> QED
    BY <1>2, <1>3, <1>4

(* The completed rows are saved,                                           *)
LEMMA CompleteSaveQueueKeepsInv ==
    ASSUME Inv, NEW i \in Requests, CompleteSaveQueue(i)
    PROVE  Inv'
  <1> DEFINE x == [req[i] EXCEPT !.pc = "completeBoardLoad", !.q = EmptyQueue]
  <1>1. SlotOK(req[i], jobs) /\ req[i] \in Slot /\ req[i].mission \in Missions
    BY DEF CompleteSaveQueue, At, Inv, SlotOK
  <1>2. x \in Slot
    BY ZenonT(60), <1>1, EmptyQueueOK DEF Slot, Pc, QueueOK
  <1>3. /\ x.pc = "completeBoardLoad" /\ x.q = EmptyQueue /\ x.t = req[i].t
        /\ x.mission \in Missions
    BY <1>1 DEF Slot
  <1>4. Goto(i, x)
    BY DEF CompleteSaveQueue
  <1> HIDE DEF x
  <1>5. SlotOK(x, jobs)
    BY <1>1, <1>2, <1>3, EmptyQueueOK DEF SlotOK
  <1>6. QueueOK(queue', jobs)
    BY <1>1 DEF CompleteSaveQueue, Stored, SlotOK, Inv
  <1> QED
    BY <1>4, <1>5, <1>6, StepKeepsInv DEF CompleteSaveQueue, Inv, TypeOK

(* the board is loaded,                                                    *)
LEMMA CompleteLoadBoardKeepsInv ==
    ASSUME Inv, NEW i \in Requests, CompleteLoadBoard(i)
    PROVE  Inv'
  <1>1. PICK b \in Loaded(board, {}) :
           Goto(i, [req[i] EXCEPT !.pc = "completeBoardSave",
                                  !.b = b \cup {req[i].mission}])
    BY DEF CompleteLoadBoard
  <1> DEFINE x == [req[i] EXCEPT !.pc = "completeBoardSave", !.b = b \cup {req[i].mission}]
  <1>2. SlotOK(req[i], jobs) /\ req[i] \in Slot /\ req[i].mission \in Missions
    BY DEF CompleteLoadBoard, At, Inv, SlotOK
  <1>3. x \in Slot
    BY ZenonT(60), <1>2, LoadedOK DEF Slot, Pc
  <1>4. x.pc = "completeBoardSave" /\ x.q = req[i].q /\ x.t = req[i].t
    BY <1>2 DEF Slot
  <1> HIDE DEF x
  <1>5. SlotOK(x, jobs)
    BY <1>2, <1>3, <1>4 DEF SlotOK
  <1>6. Goto(i, x)
    BY <1>1 DEF x
  <1> QED
    BY <1>5, <1>6, QuietStepKeepsInv DEF CompleteLoadBoard, Inv, TypeOK

(* and saved; the table follows, the session freed.                        *)
LEMMA CompleteSaveBoardKeepsInv ==
    ASSUME Inv, NEW i \in Requests, CompleteSaveBoard(i)
    PROVE  Inv'
  <1> DEFINE x == [req[i] EXCEPT !.pc = "sessionsSave", !.b = {}]
  <1>1. SlotOK(req[i], jobs) /\ req[i] \in Slot
    BY DEF Inv, SlotOK
  <1>2. x \in Slot
    BY ZenonT(60), <1>1 DEF Slot, Pc
  <1>3. x.pc = "sessionsSave" /\ x.q = req[i].q /\ x.t = req[i].t
    BY <1>1 DEF Slot
  <1>4. Goto(i, x)
    BY DEF CompleteSaveBoard
  <1> HIDE DEF x
  <1>5. SlotOK(x, jobs)
    BY <1>1, <1>2, <1>3 DEF SlotOK
  <1>6. board' \subseteq Missions
    BY <1>1 DEF CompleteSaveBoard, Stored, Inv, TypeOK, Slot
  <1> QED
    BY <1>4, <1>5, <1>6, StepKeepsInv DEF CompleteSaveBoard, Inv, TypeOK

(* All steps of the sessions and events routes together.                   *)
LEMMA SessionRoutesKeepInv ==
    ASSUME Inv, NEW i \in Requests, SessionNext(i)
    PROVE  Inv'
  <1>1. CASE StartMission(i)
    BY <1>1, MissionRequestKeepsInv DEF StartMission, Op
  <1>2. CASE CompleteMission(i)
    BY <1>2, MissionRequestKeepsInv DEF CompleteMission, Op
  <1> QED
    BY <1>1, <1>2, RegisterSessionKeepsInv, HeartbeatSessionKeepsInv,
       ReleaseSessionKeepsInv, ExecutionEventKeepsInv, SaveSessionsKeepsInv,
       StartLoadQueueKeepsInv, CompleteLoadQueueKeepsInv, CompleteSaveQueueKeepsInv,
       CompleteLoadBoardKeepsInv, CompleteSaveBoardKeepsInv
    DEF SessionNext

-----------------------------------------------------------------------------
(* The routes of agents and of the watchdog. *)

LEMMA ReportAgentKeepsInv ==
    ASSUME Inv, NEW i \in Requests, ReportAgent(i)
    PROVE  Inv'
  <1>1. PICK g \in Loaded(agents, EmptyRegistry), a \in Agents :
        \E load \in Loads \cup {IF g[a] = None THEN 0 ELSE g[a]} :
          Goto(i, [Blank EXCEPT !.pc = "agentsSave", !.op = "agent",
                                !.g = [g EXCEPT ![a] = load]])
    BY DEF ReportAgent
  <1>2. PICK load \in Loads \cup {IF g[a] = None THEN 0 ELSE g[a]} :
          Goto(i, [Blank EXCEPT !.pc = "agentsSave", !.op = "agent",
                                !.g = [g EXCEPT ![a] = load]])
    BY <1>1
  <1> DEFINE n == [g EXCEPT ![a] = load]
  <1>3. g \in Registry
    BY LoadedOK
  <1>4. load \in 0..MaxLoad
    BY <1>3, LoadsAssumption, RegistryAssumption DEF Registry
  <1>5. n \in Registry
    BY <1>3, <1>4 DEF Registry
  <1>6. Goto(i, [Blank EXCEPT !.pc = "agentsSave", !.op = "agent", !.g = n])
    BY <1>2
  <1> HIDE DEF n
  <1> DEFINE x == [Blank EXCEPT !.pc = "agentsSave", !.op = "agent", !.g = n]
  <1>7. x \in Slot
    BY ZenonT(60), <1>5, BlankOK DEF Slot, Pc, Op
  <1>8. x.pc = "agentsSave" /\ x.q = EmptyQueue /\ x.t = EmptySessions
    BY DEF Blank
  <1> HIDE DEF x
  <1>9. SlotOK(x, jobs)
    BY <1>7, <1>8, EmptyQueueOK, EmptySessionsOK DEF SlotOK
  <1>10. Goto(i, x)
    BY <1>6 DEF x
  <1> QED
    BY <1>9, <1>10, QuietStepKeepsInv DEF ReportAgent, Inv, TypeOK

(* A reported load is a load.                                              *)
LEMMA SaveAgentsKeepsInv ==
    ASSUME Inv, NEW i \in Requests, SaveAgents(i)
    PROVE  Inv'
  <1>1. PICK result \in SaveResults :
           agents' = Stored(result, agents, req[i].g) /\ Finish(i, Answer(result))
    BY DEF SaveAgents
  <1>2. agents' \in Registry
    BY <1>1 DEF Stored, Inv, TypeOK, Slot
  <1>3. Answer(result) \in Reply
    BY DEF Answer, Reply
  <1> QED
    BY <1>1, <1>2, <1>3, FinishKeepsInv DEF SaveAgents, Inv, TypeOK

(* The watchdog only stops rows. *)
LEMMA WatchedQueueOK ==
    ASSUME NEW J, NEW q, QueueOK(q, J), NEW off \in SUBSET Live(q), NEW stuck \in SUBSET Live(q),
           NEW to \in [stuck -> {"open", "paused_waiting_owner"}]
    PROVE  QueueOK(Watched(q, off, stuck, to), J)
  <1> DEFINE n == Watched(q, off, stuck, to)
  <1>1. n = [r \in Rows |-> n[r]]
    BY DEF Watched
  <1>2. ASSUME NEW r \in Rows
        PROVE  n[r] = None \/ (n[r] \in Row /\ RowOK(r, n[r], J))
    <2>1. CASE r \in off
      <3>1. n[r] = WatchedRow(q[r], "paused_waiting_owner")
        BY <2>1 DEF Watched
      <3> QED
        BY <2>1, <3>1, LiveRow, WatchedRowOK
    <2>2. CASE r \notin off /\ r \in stuck
      <3>1. n[r] = WatchedRow(q[r], to[r])
        BY <2>2 DEF Watched
      <3>2. to[r] \in {"open", "paused_waiting_owner"}
        BY <2>2
      <3>3. q[r] \in Row /\ RowOK(r, q[r], J)
        BY <2>2, LiveRow
      <3> QED
        BY <3>1, <3>2, <3>3, WatchedRowOK
    <2>3. CASE r \notin off /\ r \notin stuck
      <3>1. n[r] = q[r]
        BY <2>3 DEF Watched
      <3> QED
        BY <3>1 DEF QueueOK, Queue, Live
    <2> QED
      BY <2>1, <2>2, <2>3
  <1> SUFFICES QueueOK(n, J)
    OBVIOUS
  <1> HIDE DEF n
  <1> QED
    BY <1>1, <1>2, QueueOfRows

(* The watchdog loads the queue or the registry first,                     *)
LEMMA RunWatchdogKeepsInv ==
    ASSUME Inv, NEW i \in Requests, RunWatchdog(i)
    PROVE  Inv'
  <1>1. UNCHANGED <<store, minted, jobs>>
    BY DEF RunWatchdog
  <1>2. CASE \E q \in Loaded(queue, EmptyQueue) :
                Goto(i, [Blank EXCEPT !.pc = "watchAgents", !.op = "watchdog", !.q = q])
    <2>1. PICK q \in Loaded(queue, EmptyQueue) :
             Goto(i, [Blank EXCEPT !.pc = "watchAgents", !.op = "watchdog", !.q = q])
      BY <1>2
    <2> DEFINE x == [Blank EXCEPT !.pc = "watchAgents", !.op = "watchdog", !.q = q]
    <2>6. q \in Queue
      BY LoadedOK DEF QueueOK
    <2>2. x \in Slot
      BY ZenonT(60), <2>6, BlankOK DEF Slot, Pc, Op
    <2>3. x.pc = "watchAgents" /\ x.q = q /\ x.t = EmptySessions
      BY DEF Blank
    <2>4. Goto(i, x)
      BY <2>1
    <2> HIDE DEF x
    <2>5. SlotOK(x, jobs)
      BY <2>2, <2>3, LoadedOK, EmptySessionsOK DEF SlotOK
    <2> QED
      BY <1>1, <2>4, <2>5, QuietStepKeepsInv DEF Inv, TypeOK
  <1>3. CASE \E g \in Loaded(agents, EmptyRegistry) :
                Goto(i, [Blank EXCEPT !.pc = "watchQueue", !.op = "watchdog", !.g = g])
    <2>1. PICK g \in Loaded(agents, EmptyRegistry) :
             Goto(i, [Blank EXCEPT !.pc = "watchQueue", !.op = "watchdog", !.g = g])
      BY <1>3
    <2> DEFINE x == [Blank EXCEPT !.pc = "watchQueue", !.op = "watchdog", !.g = g]
    <2>6. g \in Registry
      BY LoadedOK
    <2>2. x \in Slot
      BY ZenonT(60), <2>6, BlankOK DEF Slot, Pc, Op
    <2>3. x.pc = "watchQueue" /\ x.q = EmptyQueue /\ x.t = EmptySessions
      BY DEF Blank
    <2>4. Goto(i, x)
      BY <2>1
    <2> HIDE DEF x
    <2>5. SlotOK(x, jobs)
      BY <2>2, <2>3, EmptyQueueOK, EmptySessionsOK DEF SlotOK
    <2> QED
      BY <1>1, <2>4, <2>5, QuietStepKeepsInv DEF Inv, TypeOK
  <1> QED
    BY <1>2, <1>3 DEF RunWatchdog

(* pauses or reopens rows of its copy,                                     *)
LEMMA WatchKeepsInv ==
    ASSUME Inv, NEW i \in Requests, NEW q, QueueOK(q, jobs), NEW g, Watch(i, q, g),
           UNCHANGED <<store, minted, jobs>>
    PROVE  Inv'
  <1> DEFINE off(up) == {r \in Running(q) : ~ HasHealthyAgent(up, q[r].assignee)}
  <1>1. PICK up \in SUBSET Registered(g) :
           \E stuck \in SUBSET {r \in Running(q) \ off(up) : MayBeStuck(g, up, q[r])} :
           \E to \in [stuck -> {"open", "paused_waiting_owner"}] :
              \/ Finish(i, "ok")
              \/ Goto(i, [Blank EXCEPT !.pc = "queueSave", !.op = "watchdog",
                                       !.q = Watched(q, off(up), stuck, to)])
    BY DEF Watch
  <1>2. /\ off(up) \in SUBSET Live(q)
        /\ \A stuck \in SUBSET {r \in Running(q) \ off(up) : MayBeStuck(g, up, q[r])} :
              stuck \in SUBSET Live(q)
    BY DEF Running
  <1> HIDE DEF off
  <1>3. PICK stuck \in SUBSET Live(q) :
        \E to \in [stuck -> {"open", "paused_waiting_owner"}] :
           \/ Finish(i, "ok")
           \/ Goto(i, [Blank EXCEPT !.pc = "queueSave", !.op = "watchdog",
                                    !.q = Watched(q, off(up), stuck, to)])
    BY <1>1, <1>2
  <1>4. PICK to \in [stuck -> {"open", "paused_waiting_owner"}] :
           \/ Finish(i, "ok")
           \/ Goto(i, [Blank EXCEPT !.pc = "queueSave", !.op = "watchdog",
                                    !.q = Watched(q, off(up), stuck, to)])
    BY <1>3
  <1>5. CASE Finish(i, "ok")
    BY <1>5, QuietFinishKeepsInv DEF Reply
  <1>6. CASE Goto(i, [Blank EXCEPT !.pc = "queueSave", !.op = "watchdog",
                                   !.q = Watched(q, off(up), stuck, to)])
    <2>1. QueueOK(Watched(q, off(up), stuck, to), jobs)
      BY <1>2, WatchedQueueOK
    <2>2. SlotOK([Blank EXCEPT !.pc = "queueSave", !.op = "watchdog",
                               !.q = Watched(q, off(up), stuck, to)], jobs)
      BY <2>1, QueueSaveOK DEF Op
    <2> QED
      BY <1>6, <2>2, QuietStepKeepsInv DEF Inv, TypeOK
  <1> QED
    BY <1>4, <1>5, <1>6

(* with the other one loaded.                                              *)
LEMMA WatchRowsKeepsInv ==
    ASSUME Inv, NEW i \in Requests, WatchRows(i)
    PROVE  Inv'
  <1>1. QueueOK(req[i].q, jobs)
    BY DEF Inv, SlotOK
  <1>2. PICK q, g : QueueOK(q, jobs) /\ Watch(i, q, g)
    BY <1>1, LoadedOK DEF WatchRows
  <1> QED
    BY <1>2, WatchKeepsInv DEF WatchRows

(* A crash frees the slot and changes nothing stored.                      *)
LEMMA CrashKeepsInv ==
    ASSUME Inv, NEW i \in Requests, Crash(i)
    PROVE  Inv'
  BY QuietFinishKeepsInv DEF Crash, Reply

-----------------------------------------------------------------------------
(* Inv is inductive. *)

LEMMA InitInv == Init => Inv
  <1> SUFFICES ASSUME Init PROVE Inv
    OBVIOUS
  <1>1. QueueOK(queue, jobs) /\ TableOK(sessions)
    BY EmptyQueueOK, EmptySessionsOK DEF Init
  <1>2. Blank = [Blank EXCEPT !.reply = "none"]
    BY DEF Blank
  <1>3. SlotOK(Blank, jobs)
    BY <1>2, FinishedOK DEF Reply
  <1>4. TypeOK
    BY <1>1, BlankOK, EmptyRegistryOK DEF Init, TypeOK, QueueOK, TableOK
  <1> QED
    BY <1>1, <1>3, <1>4 DEF Init, Inv

(* Every step keeps the invariant.                                         *)
LEMMA NextInv == Inv /\ [Next]_vars => Inv'
  <1> SUFFICES ASSUME Inv, [Next]_vars
               PROVE  Inv'
    OBVIOUS
  <1>1. CASE UNCHANGED vars
    BY <1>1 DEF vars, Inv, TypeOK
  <1>2. CASE Next
    <2>1. PICK i \in Requests :
             QueueNext(i) \/ RelayNext(i) \/ SessionNext(i)
             \/ FleetNext(i) \/ MissionNext(i) \/ Crash(i)
      BY <1>2 DEF Next
    <2> QED
      BY <2>1, QueueRouteKeepsInv, RelayRouteKeepsInv, SessionRoutesKeepInv,
         ReportAgentKeepsInv, SaveAgentsKeepsInv, RunWatchdogKeepsInv,
         WatchRowsKeepsInv, MissionRoutesKeepInv, CrashKeepsInv
      DEF FleetNext
  <1> QED
    BY <1>1, <1>2

(* Whatever requests overlap, fail or die, every snapshot and every copy   *)
(* of one a handler may still save is well formed in the sense of Inv.     *)
THEOREM Invariance == Spec => []Inv
  BY InitInv, NextInv, PTL DEF Spec

(* The snapshots and the copies of all routes keep their types. *)
THEOREM TypeCorrectness == Spec => []TypeOK
  <1>1. Inv => TypeOK
    BY DEF Inv
  <1> QED
    BY <1>1, Invariance, PTL

(* No interleaving of the modelled routes leaves a running row without a   *)
(* session, an executing agent and a job issued for it (queue/route.ts:    *)
(* 781-975, queue/relay/route.ts:179-192, watchdog/route.ts:286-288).      *)
THEOREM RunningIsBound == Spec => []RunningRowsAreBound
  <1>1. Inv => RunningRowsAreBound
    BY DEF Inv, QueueOK, RowOK, RunningRowsAreBound, Running
  <1> QED
    BY <1>1, Invariance, PTL

(* A session offers itself for a claim exactly when it has no mission      *)
(* (execution-sessions.ts:228-234).                                        *)
THEOREM FreeIsIdle == Spec => []FreeSessionsCarryNoMission
  <1>1. Inv => FreeSessionsCarryNoMission
    BY DEF Inv, TableOK, FreeSessionsCarryNoMission
  <1> QED
    BY <1>1, Invariance, PTL

(* Only what the MPB closure may close is done without having been         *)
(* executed (queue/route.ts:164-233).                                      *)
THEOREM DoneIsExecuted == Spec => []DoneRowsWereExecuted
  <1>1. Inv => DoneRowsWereExecuted
    BY DEF Inv, QueueOK, RowOK, DoneRowsWereExecuted
  <1> QED
    BY <1>1, Invariance, PTL

(* The MPB closure aside, no row is done unless a start of its mission was *)
(* accepted (transition-validator.ts:44-75).                               *)
THEOREM DoneIsStarted == Spec => []DoneMissionsWereStarted
  <1>1. Inv => DoneMissionsWereStarted
    BY DEF Inv, QueueOK, RowOK, DoneMissionsWereStarted, StartedMission
  <1> QED
    BY <1>1, Invariance, PTL
=============================================================================
