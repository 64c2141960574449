------------------------- MODULE MissionRoutesProofs -------------------------
(***************************************************************************)
(* The routes of MissionRoutes keep Inv: what they save is a copy with     *)
(* rows added that do not run, or with rows stopped.                       *)
(***************************************************************************)
EXTENDS InvariantLemmas

-----------------------------------------------------------------------------
(* Slots: a handler that has just loaded something, or goes on with what   *)
(* it has.                                                                 *)

(* It holds a queue, *)
LEMMA FreshQueueOK ==
    ASSUME NEW J, NEW pc \in Copying, NEW op \in Op,
           NEW q, QueueOK(q, J)
    PROVE  SlotOK([Blank EXCEPT !.pc = pc, !.op = op, !.q = q], J)
  <1> DEFINE x == [Blank EXCEPT !.pc = pc, !.op = op, !.q = q]
  <1>1. pc \in Pc /\ q \in Queue
    BY DEF Copying, Pc, QueueOK
  <1>2. x \in Slot
    BY ZenonT(60), <1>1, BlankOK DEF Slot
  <1>3. x.pc = pc /\ x.q = q /\ x.t = EmptySessions
    BY DEF Blank
  <1> HIDE DEF x
  <1>4. SlotOK(x, J)
    BY <1>2, <1>3, EmptySessionsOK, CopyingOK
  <1> QED
    BY <1>4 DEF x

(* a board, *)
LEMMA FreshBoardOK ==
    ASSUME NEW J, NEW pc \in Copying, NEW op \in Op,
           NEW b \in SUBSET Missions
    PROVE  SlotOK([Blank EXCEPT !.pc = pc, !.op = op, !.b = b], J)
  <1> DEFINE x == [Blank EXCEPT !.pc = pc, !.op = op, !.b = b]
  <1>1. pc \in Pc
    BY DEF Copying, Pc
  <1>2. x \in Slot
    BY ZenonT(60), <1>1, BlankOK DEF Slot
  <1>3. x.pc = pc /\ x.q = EmptyQueue /\ x.t = EmptySessions
    BY DEF Blank
  <1> HIDE DEF x
  <1>4. SlotOK(x, J)
    BY <1>2, <1>3, EmptyQueueOK, EmptySessionsOK, CopyingOK
  <1> QED
    BY <1>4 DEF x

(* both, *)
LEMMA FreshBothOK ==
    ASSUME NEW J, NEW pc \in Copying, NEW op \in Op,
           NEW q, QueueOK(q, J), NEW b \in SUBSET Missions
    PROVE  SlotOK([Blank EXCEPT !.pc = pc, !.op = op, !.q = q, !.b = b], J)
  <1> DEFINE x == [Blank EXCEPT !.pc = pc, !.op = op, !.q = q, !.b = b]
  <1>1. pc \in Pc /\ q \in Queue
    BY DEF Copying, Pc, QueueOK
  <1>2. x \in Slot
    BY ZenonT(60), <1>1, BlankOK DEF Slot
  <1>3. x.pc = pc /\ x.q = q /\ x.t = EmptySessions
    BY DEF Blank
  <1> HIDE DEF x
  <1>4. SlotOK(x, J)
    BY <1>2, <1>3, EmptySessionsOK, CopyingOK
  <1> QED
    BY <1>4 DEF x

(* or a registry. *)
LEMMA FreshRegistryOK ==
    ASSUME NEW J, NEW pc \in Copying, NEW op \in Op,
           NEW g \in Registry
    PROVE  SlotOK([Blank EXCEPT !.pc = pc, !.op = op, !.g = g], J)
  <1> DEFINE x == [Blank EXCEPT !.pc = pc, !.op = op, !.g = g]
  <1>1. pc \in Pc
    BY DEF Copying, Pc
  <1>2. x \in Slot
    BY ZenonT(60), <1>1, BlankOK DEF Slot
  <1>3. x.pc = pc /\ x.q = EmptyQueue /\ x.t = EmptySessions
    BY DEF Blank
  <1> HIDE DEF x
  <1>4. SlotOK(x, J)
    BY <1>2, <1>3, EmptyQueueOK, EmptySessionsOK, CopyingOK
  <1> QED
    BY <1>4 DEF x

(* It goes on with copies that are good. *)
LEMMA MovedOK ==
    ASSUME NEW J, NEW y, SlotOK(y, J), NEW pc \in Copying, NEW q, QueueOK(q, J),
           NEW g \in Registry, NEW b \in SUBSET Missions, NEW reply \in Reply
    PROVE  SlotOK([y EXCEPT !.pc = pc, !.q = q, !.g = g, !.b = b, !.reply = reply], J)
  <1> DEFINE x == [y EXCEPT !.pc = pc, !.q = q, !.g = g, !.b = b, !.reply = reply]
  <1>1. pc \in Pc /\ q \in Queue
    BY DEF Copying, Pc, QueueOK
  <1>2. y \in Slot /\ TableOK(y.t)
    BY DEF SlotOK
  <1>3. x \in Slot
    BY ZenonT(60), <1>1, <1>2 DEF Slot
  <1>4. x.pc = pc /\ x.q = q /\ x.t = y.t
    BY <1>2 DEF Slot
  <1> HIDE DEF x
  <1>5. SlotOK(x, J)
    BY <1>2, <1>3, <1>4, CopyingOK
  <1> QED
    BY <1>5 DEF x

(* A request goes on with a changed queue,                                 *)
LEMMA MovedQueueOK ==
    ASSUME NEW J, NEW y, SlotOK(y, J), NEW pc \in Copying,
           NEW q, QueueOK(q, J)
    PROVE  SlotOK([y EXCEPT !.pc = pc, !.q = q], J)
  <1>1. y \in Slot /\ QueueOK(y.q, J)
    BY DEF SlotOK
  <1>2. y.g \in Registry /\ y.b \in SUBSET Missions /\ y.reply \in Reply
    BY <1>1 DEF Slot
  <1>3. SlotOK([y EXCEPT !.pc = pc, !.q = q, !.g = y.g, !.b = y.b, !.reply = y.reply], J)
    BY <1>1, <1>2, MovedOK
  <1>4. [y EXCEPT !.pc = pc, !.q = q] =
        [y EXCEPT !.pc = pc, !.q = q, !.g = y.g, !.b = y.b, !.reply = y.reply]
    BY <1>1 DEF Slot
  <1> QED
    BY <1>3, <1>4

(* with a changed board,                                                   *)
LEMMA MovedBoardOK ==
    ASSUME NEW J, NEW y, SlotOK(y, J), NEW pc \in Copying,
           NEW b \in SUBSET Missions
    PROVE  SlotOK([y EXCEPT !.pc = pc, !.b = b], J)
  <1>1. y \in Slot /\ QueueOK(y.q, J)
    BY DEF SlotOK
  <1>2. y.g \in Registry /\ y.b \in SUBSET Missions /\ y.reply \in Reply
    BY <1>1 DEF Slot
  <1>3. SlotOK([y EXCEPT !.pc = pc, !.q = y.q, !.g = y.g, !.b = b, !.reply = y.reply], J)
    BY <1>1, <1>2, MovedOK
  <1>4. [y EXCEPT !.pc = pc, !.b = b] =
        [y EXCEPT !.pc = pc, !.q = y.q, !.g = y.g, !.b = b, !.reply = y.reply]
    BY <1>1 DEF Slot
  <1> QED
    BY <1>3, <1>4

(* with a changed registry,                                                *)
LEMMA MovedRegistryOK ==
    ASSUME NEW J, NEW y, SlotOK(y, J), NEW pc \in Copying,
           NEW g \in Registry
    PROVE  SlotOK([y EXCEPT !.pc = pc, !.g = g], J)
  <1>1. y \in Slot /\ QueueOK(y.q, J)
    BY DEF SlotOK
  <1>2. y.g \in Registry /\ y.b \in SUBSET Missions /\ y.reply \in Reply
    BY <1>1 DEF Slot
  <1>3. SlotOK([y EXCEPT !.pc = pc, !.q = y.q, !.g = g, !.b = y.b, !.reply = y.reply], J)
    BY <1>1, <1>2, MovedOK
  <1>4. [y EXCEPT !.pc = pc, !.g = g] =
        [y EXCEPT !.pc = pc, !.q = y.q, !.g = g, !.b = y.b, !.reply = y.reply]
    BY <1>1 DEF Slot
  <1> QED
    BY <1>3, <1>4

(* with a board and the answer it will give,                               *)
LEMMA MovedAnswerOK ==
    ASSUME NEW J, NEW y, SlotOK(y, J), NEW pc \in Copying,
           NEW b \in SUBSET Missions, NEW reply \in Reply
    PROVE  SlotOK([y EXCEPT !.pc = pc, !.b = b, !.reply = reply], J)
  <1>1. y \in Slot /\ QueueOK(y.q, J)
    BY DEF SlotOK
  <1>2. y.g \in Registry /\ y.b \in SUBSET Missions /\ y.reply \in Reply
    BY <1>1 DEF Slot
  <1>3. SlotOK([y EXCEPT !.pc = pc, !.q = y.q, !.g = y.g, !.b = b, !.reply = reply], J)
    BY <1>1, <1>2, MovedOK
  <1>4. [y EXCEPT !.pc = pc, !.b = b, !.reply = reply] =
        [y EXCEPT !.pc = pc, !.q = y.q, !.g = y.g, !.b = b, !.reply = reply]
    BY <1>1 DEF Slot
  <1> QED
    BY <1>3, <1>4

(* with a queue and that answer,                                           *)
LEMMA MovedQueueAnswerOK ==
    ASSUME NEW J, NEW y, SlotOK(y, J), NEW pc \in Copying,
           NEW q, QueueOK(q, J), NEW reply \in Reply
    PROVE  SlotOK([y EXCEPT !.pc = pc, !.q = q, !.reply = reply], J)
  <1>1. y \in Slot /\ QueueOK(y.q, J)
    BY DEF SlotOK
  <1>2. y.g \in Registry /\ y.b \in SUBSET Missions /\ y.reply \in Reply
    BY <1>1 DEF Slot
  <1>3. SlotOK([y EXCEPT !.pc = pc, !.q = q, !.g = y.g, !.b = y.b, !.reply = reply], J)
    BY <1>1, <1>2, MovedOK
  <1>4. [y EXCEPT !.pc = pc, !.q = q, !.reply = reply] =
        [y EXCEPT !.pc = pc, !.q = q, !.g = y.g, !.b = y.b, !.reply = reply]
    BY <1>1 DEF Slot
  <1> QED
    BY <1>3, <1>4

(* or with a queue and a registry.                                         *)
LEMMA MovedBothOK ==
    ASSUME NEW J, NEW y, SlotOK(y, J), NEW pc \in Copying,
           NEW q, QueueOK(q, J), NEW g \in Registry
    PROVE  SlotOK([y EXCEPT !.pc = pc, !.q = q, !.g = g], J)
  <1>1. y \in Slot /\ QueueOK(y.q, J)
    BY DEF SlotOK
  <1>2. y.g \in Registry /\ y.b \in SUBSET Missions /\ y.reply \in Reply
    BY <1>1 DEF Slot
  <1>3. SlotOK([y EXCEPT !.pc = pc, !.q = q, !.g = g, !.b = y.b, !.reply = y.reply], J)
    BY <1>1, <1>2, MovedOK
  <1>4. [y EXCEPT !.pc = pc, !.q = q, !.g = g] =
        [y EXCEPT !.pc = pc, !.q = q, !.g = g, !.b = y.b, !.reply = y.reply]
    BY <1>1 DEF Slot
  <1> QED
    BY <1>3, <1>4

(* What the request at i holds. *)
LEMMA HeldOK ==
    ASSUME Inv, NEW i \in Requests
    PROVE  /\ req[i] \in Slot /\ SlotOK(req[i], jobs) /\ QueueOK(req[i].q, jobs)
           /\ req[i].g \in Registry /\ req[i].b \in SUBSET Missions
           /\ req[i].reply \in Reply
  BY DEF Inv, SlotOK, Slot

-----------------------------------------------------------------------------
(* missions/manage *)

LEMMA ManageKeepsInv ==
    ASSUME Inv, NEW i \in Requests, Manage(i)
    PROVE  Inv'
  <1>1. UNCHANGED <<store, jobs>> /\ minted' \subseteq Rows \cup Sessions
    BY DEF Manage, Inv, TypeOK
  <1>2. CASE \E q \in Loaded(queue, EmptyQueue) :
                Goto(i, [Blank EXCEPT !.pc = "manageBoard", !.op = "manage", !.q = q])
    <2>1. PICK q \in Loaded(queue, EmptyQueue) :
             Goto(i, [Blank EXCEPT !.pc = "manageBoard", !.op = "manage", !.q = q])
      BY <1>2
    <2>2. QueueOK(q, jobs)
      BY LoadedOK
    <2>3. SlotOK([Blank EXCEPT !.pc = "manageBoard", !.op = "manage", !.q = q], jobs)
      BY <2>2, FreshQueueOK DEF Copying, Op
    <2> QED
      BY <1>1, <2>1, <2>3, QuietStepKeepsInv
  <1>3. CASE \E b \in Loaded(board, {}) :
                Goto(i, [Blank EXCEPT !.pc = "manageQueue", !.op = "manage", !.b = b])
    <2>1. PICK b \in Loaded(board, {}) :
             Goto(i, [Blank EXCEPT !.pc = "manageQueue", !.op = "manage", !.b = b])
      BY <1>3
    <2>2. b \in SUBSET Missions
      BY LoadedOK
    <2>3. SlotOK([Blank EXCEPT !.pc = "manageQueue", !.op = "manage", !.b = b], jobs)
      <3>1. "manageQueue" \in Copying /\ "manage" \in Op
        BY DEF Copying, Op
      <3> QED
        BY Zenon, <2>2, <3>1, FreshBoardOK
    <2> QED
      BY <1>1, <2>1, <2>3, QuietStepKeepsInv
  <1> QED
    BY <1>2, <1>3 DEF Manage

(* Managing loads the second of board and queue.                           *)
LEMMA ManageLoadKeepsInv ==
    ASSUME Inv, NEW i \in Requests, ManageLoad(i)
    PROVE  Inv'
  <1>1. UNCHANGED <<store, jobs>> /\ minted' \subseteq Rows \cup Sessions
    BY DEF ManageLoad, Inv, TypeOK
  <1>2. CASE \E b \in Loaded(board, {}) : Goto(i, [req[i] EXCEPT !.pc = "manage", !.b = b])
    <2>1. PICK b \in Loaded(board, {}) : Goto(i, [req[i] EXCEPT !.pc = "manage", !.b = b])
      BY <1>2
    <2>2. SlotOK([req[i] EXCEPT !.pc = "manage", !.b = b], jobs)
      BY HeldOK, LoadedOK, MovedBoardOK DEF Copying
    <2> QED
      BY <1>1, <2>1, <2>2, QuietStepKeepsInv
  <1>3. CASE \E q \in Loaded(queue, EmptyQueue) :
                Goto(i, [req[i] EXCEPT !.pc = "manage", !.q = q])
    <2>1. PICK q \in Loaded(queue, EmptyQueue) :
             Goto(i, [req[i] EXCEPT !.pc = "manage", !.q = q])
      BY <1>3
    <2>2. SlotOK([req[i] EXCEPT !.pc = "manage", !.q = q], jobs)
      BY HeldOK, LoadedOK, MovedQueueOK DEF Copying
    <2> QED
      BY <1>1, <2>1, <2>2, QuietStepKeepsInv
  <1> QED
    BY <1>2, <1>3 DEF ManageLoad

(* A refusal changes nothing.                                              *)
LEMMA RefuseManagedKeepsInv ==
    ASSUME Inv, NEW i \in Requests, RefuseManaged(i)
    PROVE  Inv'
  BY QuietFinishKeepsInv DEF RefuseManaged, Reply

(* Grouping changes the board alone,                                       *)
LEMMA GroupMissionsKeepsInv ==
    ASSUME Inv, NEW i \in Requests, GroupMissions(i)
    PROVE  Inv'
  <1>1. PICK b \in SUBSET Missions :
           Goto(i, [Blank EXCEPT !.pc = "groupSave", !.op = "manage", !.b = b])
    <2>1. PICK m \in Missions, shown \in BOOLEAN :
             Goto(i, [Blank EXCEPT !.pc = "groupSave", !.op = "manage",
                                   !.b = IF shown THEN req[i].b \cup {m} ELSE req[i].b])
      BY DEF GroupMissions
    <2>2. (IF shown THEN req[i].b \cup {m} ELSE req[i].b) \in SUBSET Missions
      BY HeldOK
    <2> QED
      BY <2>1, <2>2
  <1>2. UNCHANGED <<store, jobs>> /\ minted' \subseteq Rows \cup Sessions
    BY DEF GroupMissions, Inv, TypeOK
  <1>3. SlotOK([Blank EXCEPT !.pc = "groupSave", !.op = "manage", !.b = b], jobs)
    <2>1. "groupSave" \in Copying /\ "manage" \in Op
      BY DEF Copying, Op
    <2> QED
      BY Zenon, <2>1, FreshBoardOK
  <1> QED
    BY <1>1, <1>2, <1>3, QuietStepKeepsInv

(* and saves it.                                                           *)
LEMMA SaveGroupKeepsInv ==
    ASSUME Inv, NEW i \in Requests, SaveGroup(i)
    PROVE  Inv'
  <1>1. PICK result \in SaveResults :
           board' = Stored(result, board, req[i].b) /\ Finish(i, Answer(result))
    BY DEF SaveGroup
  <1>2. board' \subseteq Missions
    BY <1>1, HeldOK DEF Stored, Inv, TypeOK
  <1>3. Answer(result) \in Reply
    BY DEF Answer, Reply
  <1> QED
    BY <1>1, <1>2, <1>3, FinishKeepsInv DEF SaveGroup, Inv, TypeOK

(* An edit changes both copies,                                            *)
LEMMA EditMissionKeepsInv ==
    ASSUME Inv, NEW i \in Requests, EditMission(i)
    PROVE  Inv'
  <1> DEFINE n(m, who) == MissionEdited(req[i].q, m, who)
             c(m, shown) == IF shown THEN req[i].b \cup {m} ELSE req[i].b \ {m}
  <1>1. PICK m \in Missions, who \in Asked \cup {"STAFF"}, shown \in BOOLEAN :
           \/ Finish(i, "refused")
           \/ Goto(i, [Blank EXCEPT !.pc = "editBoardSave", !.op = "manage",
                                    !.q = n(m, who), !.b = c(m, shown)])
    BY DEF EditMission
  <1>2. UNCHANGED <<store, minted, jobs>>
    BY DEF EditMission
  <1>3. QueueOK(n(m, who), jobs)
    <2>1. who \in Assignee
      BY StoreAssumption DEF Assignee
    <2> QED
      BY <2>1, HeldOK, MissionEditedOK
  <1>4. c(m, shown) \in SUBSET Missions
    BY HeldOK
  <1> HIDE DEF n, c
  <1>5. CASE Finish(i, "refused")
    BY <1>2, <1>5, QuietFinishKeepsInv DEF Reply
  <1>6. CASE Goto(i, [Blank EXCEPT !.pc = "editBoardSave", !.op = "manage",
                                   !.q = n(m, who), !.b = c(m, shown)])
    <2>1. SlotOK([Blank EXCEPT !.pc = "editBoardSave", !.op = "manage",
                               !.q = n(m, who), !.b = c(m, shown)], jobs)
      <3>1. "editBoardSave" \in Copying /\ "manage" \in Op
        BY DEF Copying, Op
      <3> QED
        BY Zenon, <1>3, <1>4, <3>1, FreshBothOK
    <2> QED
      BY <1>2, <1>6, <2>1, QuietStepKeepsInv DEF Inv, TypeOK
  <1> QED
    BY <1>1, <1>5, <1>6

(* saves the board,                                                        *)
LEMMA SaveEditedBoardKeepsInv ==
    ASSUME Inv, NEW i \in Requests, SaveEditedBoard(i)
    PROVE  Inv'
  <1> DEFINE y == req[i]
  <1>1. PICK result \in SaveResults :
           /\ board' = Stored(result, board, y.b)
           /\ Goto(i, [y EXCEPT !.pc = "editQueueSave", !.b = {}, !.reply = Answer(result)])
    BY DEF SaveEditedBoard
  <1>2. board' \subseteq Missions
    BY <1>1, HeldOK DEF Stored, Inv, TypeOK
  <1>3. Answer(result) \in Reply
    BY DEF Answer, Reply
  <1>4. SlotOK([y EXCEPT !.pc = "editQueueSave", !.b = {}, !.reply = Answer(result)], jobs)
    BY <1>3, HeldOK, MovedAnswerOK DEF Copying
  <1> QED
    BY <1>1, <1>2, <1>4, StepKeepsInv DEF SaveEditedBoard, Inv, TypeOK

(* and then the queue.                                                     *)
LEMMA SaveEditedQueueKeepsInv ==
    ASSUME Inv, NEW i \in Requests, SaveEditedQueue(i)
    PROVE  Inv'
  <1>1. PICK result \in SaveResults :
           /\ queue' = Stored(result, queue, req[i].q)
           /\ Finish(i, IF req[i].reply = "ok" THEN Answer(result) ELSE "failed")
    BY DEF SaveEditedQueue
  <1>2. QueueOK(queue', jobs)
    BY <1>1, HeldOK DEF Stored, Inv
  <1>3. (IF req[i].reply = "ok" THEN Answer(result) ELSE "failed") \in Reply
    BY DEF Answer, Reply
  <1> QED
    BY <1>1, <1>2, <1>3, FinishKeepsInv DEF SaveEditedQueue, Inv, TypeOK

(* One more execution is a waiting row under a fresh id.                   *)
LEMMA AddExecutionKeepsInv ==
    ASSUME Inv, NEW i \in Requests, AddExecution(i)
    PROVE  Inv'
  <1>1. PICK m \in Missions : \E r \in Unminted(m), who \in Asked :
           /\ minted' = minted \cup {r}
           /\ Goto(i, [Blank EXCEPT !.pc = "queueSave", !.op = "manage",
                                    !.q = With(req[i].q, r, NewRow(who, None, "open"))])
    BY DEF AddExecution
  <1>2. PICK r \in Unminted(m), who \in Asked :
           /\ minted' = minted \cup {r}
           /\ Goto(i, [Blank EXCEPT !.pc = "queueSave", !.op = "manage",
                                    !.q = With(req[i].q, r, NewRow(who, None, "open"))])
    BY <1>1
  <1> DEFINE w == With(req[i].q, r, NewRow(who, None, "open"))
  <1>3. r \in Rows
    BY DEF Unminted
  <1>4. QueueOK(w, jobs)
    <2>1. who \in Assignee /\ "open" \in QueueStatus \ {"in_progress", "done"}
      BY StoreAssumption DEF QueueStatus
    <2> QED
      BY <1>3, <2>1, HeldOK, NewRowOK, WithOK
  <1> HIDE DEF w
  <1>5. SlotOK([Blank EXCEPT !.pc = "queueSave", !.op = "manage", !.q = w], jobs)
    BY <1>4, QueueSaveOK DEF Op
  <1>6. Goto(i, [Blank EXCEPT !.pc = "queueSave", !.op = "manage", !.q = w])
    BY <1>2 DEF w
  <1>7. minted' \subseteq Rows \cup Sessions
    BY <1>2, <1>3 DEF Inv, TypeOK
  <1> QED
    BY <1>5, <1>6, <1>7, QuietStepKeepsInv DEF AddExecution

-----------------------------------------------------------------------------
(* missions/register *)

LEMMA RegisterMissionKeepsInv ==
    ASSUME Inv, NEW i \in Requests, RegisterMission(i)
    PROVE  Inv'
  <1>1. PICK q \in Loaded(queue, EmptyQueue), m \in Missions :
           Goto(i, [Blank EXCEPT !.pc = "plan", !.op = "registerMission",
                                 !.mission = m, !.q = q])
    BY DEF RegisterMission
  <1> DEFINE x == [Blank EXCEPT !.pc = "plan", !.op = "registerMission",
                                !.mission = m, !.q = q]
  <1>2. QueueOK(q, jobs) /\ q \in Queue
    BY LoadedOK DEF QueueOK
  <1>3. x \in Slot
    BY ZenonT(60), <1>2, BlankOK DEF Slot, Pc, Op
  <1>4. x.pc = "plan" /\ x.q = q /\ x.t = EmptySessions
    BY DEF Blank
  <1>5. Goto(i, x)
    BY <1>1
  <1> HIDE DEF x
  <1>6. SlotOK(x, jobs)
    BY <1>2, <1>3, <1>4, EmptySessionsOK, CopyingOK DEF Copying
  <1> QED
    BY <1>5, <1>6, QuietStepKeepsInv DEF RegisterMission, Inv, TypeOK

(* A plan is made of waiting rows under fresh ids,                         *)
LEMMA PlanMissionKeepsInv ==
    ASSUME Inv, NEW i \in Requests, PlanMission(i)
    PROVE  Inv'
  <1> DEFINE m == req[i].mission
             n(S, who, agent, status) == Planned(req[i].q, S, who, agent, status)
  <1>1. UNCHANGED <<store, jobs>>
    BY DEF PlanMission
  <1>2. CASE Finish(i, "ok") /\ minted' = minted
    BY <1>1, <1>2, QuietFinishKeepsInv DEF Reply
  <1>3. ASSUME NEW S \in SUBSET Unminted(m), NEW who \in [S -> Asked],
               NEW agent \in [S -> Agents \cup {None}], NEW status \in [S -> QueueStatus],
               \A r \in S : status[r] \in PlanStatus(who[r]),
               minted' = minted \cup S,
               Goto(i, [req[i] EXCEPT !.pc = "planSave", !.q = n(S, who, agent, status)])
        PROVE  Inv'
    <2>1. S \in SUBSET Rows
      BY DEF Unminted
    <2>2. who \in [S -> Assignee]
      BY StoreAssumption
    <2>3. status \in [S -> QueueStatus \ {"in_progress", "done"}]
      BY <1>3 DEF PlanStatus, QueueStatus
    <2> DEFINE w == n(S, who, agent, status)
    <2>4. QueueOK(w, jobs)
      BY <2>1, <2>2, <2>3, HeldOK, PlannedOK
    <2>5. Goto(i, [req[i] EXCEPT !.pc = "planSave", !.q = w])
      BY <1>3
    <2> HIDE DEF w
    <2>6. SlotOK([req[i] EXCEPT !.pc = "planSave", !.q = w], jobs)
      <3>1. "planSave" \in Copying
        BY DEF Copying
      <3> QED
        BY Zenon, <2>4, <3>1, HeldOK, MovedQueueOK
    <2>7. minted' \subseteq Rows \cup Sessions
      BY <1>3, <2>1 DEF Inv, TypeOK
    <2> QED
      BY <1>1, <2>5, <2>6, <2>7, QuietStepKeepsInv
  <1>4. \/ Finish(i, "ok") /\ minted' = minted
        \/ \E S \in SUBSET Unminted(m) :
           \E who \in [S -> Asked], agent \in [S -> Agents \cup {None}],
              status \in [S -> QueueStatus] :
              /\ \A r \in S : status[r] \in PlanStatus(who[r])
              /\ minted' = minted \cup S
              /\ Goto(i, [req[i] EXCEPT !.pc = "planSave", !.q = n(S, who, agent, status)])
    BY Zenon DEF PlanMission
  <1> QED
    BY <1>2, <1>3, <1>4

(* and saved.                                                              *)
LEMMA SavePlanKeepsInv ==
    ASSUME Inv, NEW i \in Requests, SavePlan(i)
    PROVE  Inv'
  <1>1. QueueOK(queue', jobs)
    BY HeldOK DEF SavePlan, Stored, Inv
  <1>2. Finish(i, "ok") /\ "ok" \in Reply
    BY DEF SavePlan, Reply
  <1> QED
    BY <1>1, <1>2, FinishKeepsInv DEF SavePlan, Inv, TypeOK

-----------------------------------------------------------------------------
(* operations/chat *)

LEMMA NewMissionKeepsInv ==
    ASSUME Inv, NEW i \in Requests, NewMission(i)
    PROVE  Inv'
  <1>1. PICK g \in Loaded(agents, EmptyRegistry), m \in Missions :
           Goto(i, [Blank EXCEPT !.pc = "openMission", !.op = "newMission",
                                 !.mission = m, !.g = g])
    BY DEF NewMission
  <1> DEFINE x == [Blank EXCEPT !.pc = "openMission", !.op = "newMission",
                                !.mission = m, !.g = g]
  <1>2. g \in Registry
    BY LoadedOK
  <1>3. x \in Slot
    BY ZenonT(60), <1>2, BlankOK DEF Slot, Pc, Op
  <1>4. x.pc = "openMission" /\ x.q = EmptyQueue /\ x.t = EmptySessions
    BY DEF Blank
  <1>5. Goto(i, x)
    BY <1>1
  <1> HIDE DEF x
  <1>6. SlotOK(x, jobs)
    BY <1>3, <1>4, EmptyQueueOK, EmptySessionsOK, CopyingOK DEF Copying
  <1> QED
    BY <1>5, <1>6, QuietStepKeepsInv DEF NewMission, Inv, TypeOK

(* NOVA_MISSAO adds a waiting row under a fresh id,                          *)
LEMMA OpenMissionKeepsInv ==
    ASSUME Inv, NEW i \in Requests, OpenMission(i)
    PROVE  Inv'
  <1> DEFINE n(q, r, who, agent) == With(q, r, NewRow(who, agent, "open"))
  <1>1. UNCHANGED <<store, jobs>>
    BY DEF OpenMission
  <1>2. PICK q \in Loaded(queue, EmptyQueue) :
           \/ Finish(i, "ok") /\ minted' = minted
           \/ \E r \in Unminted(req[i].mission), who \in Asked, agent \in Agents \cup {None} :
                 /\ minted' = minted \cup {r}
                 /\ Goto(i, [req[i] EXCEPT !.pc = "missionSave", !.g = EmptyRegistry,
                                           !.q = n(q, r, who, agent)])
    BY Zenon DEF OpenMission
  <1>3. CASE Finish(i, "ok") /\ minted' = minted
    BY <1>1, <1>3, QuietFinishKeepsInv DEF Reply
  <1>4. ASSUME NEW r \in Unminted(req[i].mission), NEW who \in Asked,
               NEW agent \in Agents \cup {None}, minted' = minted \cup {r},
               Goto(i, [req[i] EXCEPT !.pc = "missionSave", !.g = EmptyRegistry,
                                      !.q = n(q, r, who, agent)])
        PROVE  Inv'
    <2> DEFINE w == n(q, r, who, agent)
    <2>1. r \in Rows
      BY DEF Unminted
    <2>2. QueueOK(w, jobs)
      <3>1. who \in Assignee /\ "open" \in QueueStatus \ {"in_progress", "done"}
        BY StoreAssumption DEF QueueStatus
      <3> QED
        BY <2>1, <3>1, LoadedOK, NewRowOK, WithOK
    <2>3. Goto(i, [req[i] EXCEPT !.pc = "missionSave", !.g = EmptyRegistry, !.q = w])
      BY <1>4
    <2> HIDE DEF w
    <2>4. [req[i] EXCEPT !.pc = "missionSave", !.g = EmptyRegistry, !.q = w] =
          [req[i] EXCEPT !.pc = "missionSave", !.q = w, !.g = EmptyRegistry]
      BY HeldOK DEF Slot
    <2>5. SlotOK([req[i] EXCEPT !.pc = "missionSave", !.q = w, !.g = EmptyRegistry], jobs)
      <3>1. "missionSave" \in Copying
        BY DEF Copying
      <3> QED
        BY Zenon, <2>2, <3>1, HeldOK, EmptyRegistryOK, MovedBothOK
    <2>6. minted' \subseteq Rows \cup Sessions
      BY <1>4, <2>1 DEF Inv, TypeOK
    <2> QED
      BY <1>1, <2>3, <2>4, <2>5, <2>6, QuietStepKeepsInv
  <1> QED
    BY <1>2, <1>3, <1>4

(* saves the queue,                                                        *)
LEMMA SaveNewMissionKeepsInv ==
    ASSUME Inv, NEW i \in Requests, SaveNewMission(i)
    PROVE  Inv'
  <1>1. PICK result \in SaveResults :
           /\ queue' = Stored(result, queue, req[i].q)
           /\ Goto(i, [req[i] EXCEPT !.pc = "missionBoardLoad", !.q = EmptyQueue,
                                     !.reply = Answer(result)])
    BY DEF SaveNewMission
  <1>2. QueueOK(queue', jobs)
    BY <1>1, HeldOK DEF Stored, Inv
  <1>3. "missionBoardLoad" \in Copying /\ Answer(result) \in Reply
    BY DEF Copying, Answer, Reply
  <1>4. SlotOK([req[i] EXCEPT !.pc = "missionBoardLoad", !.q = EmptyQueue,
                              !.reply = Answer(result)], jobs)
    BY Zenon, <1>3, HeldOK, EmptyQueueOK, MovedQueueAnswerOK
  <1> QED
    BY <1>1, <1>2, <1>4, StepKeepsInv DEF SaveNewMission, Inv, TypeOK

(* loads the board,                                                        *)
LEMMA LoadMissionBoardKeepsInv ==
    ASSUME Inv, NEW i \in Requests, LoadMissionBoard(i)
    PROVE  Inv'
  <1>1. PICK b \in SUBSET Missions :
           Goto(i, [req[i] EXCEPT !.pc = "missionBoardSave", !.b = b])
    <2>1. PICK b \in Loaded(board, {}) :
             Goto(i, [req[i] EXCEPT !.pc = "missionBoardSave", !.b = b \ {req[i].mission}])
      BY DEF LoadMissionBoard
    <2>2. b \ {req[i].mission} \in SUBSET Missions
      BY LoadedOK
    <2> QED
      BY <2>1, <2>2
  <1>2. "missionBoardSave" \in Copying
    BY DEF Copying
  <1>3. SlotOK([req[i] EXCEPT !.pc = "missionBoardSave", !.b = b], jobs)
    BY Zenon, <1>2, HeldOK, MovedBoardOK
  <1> QED
    BY <1>1, <1>3, QuietStepKeepsInv DEF LoadMissionBoard, Inv, TypeOK

(* and saves that.                                                         *)
LEMMA SaveMissionBoardKeepsInv ==
    ASSUME Inv, NEW i \in Requests, SaveMissionBoard(i)
    PROVE  Inv'
  <1>1. PICK result \in SaveResults :
           /\ board' = Stored(result, board, req[i].b)
           /\ Finish(i, IF req[i].reply = "ok" THEN Answer(result) ELSE "failed")
    BY DEF SaveMissionBoard
  <1>2. board' \subseteq Missions
    BY <1>1, HeldOK DEF Stored, Inv, TypeOK
  <1>3. (IF req[i].reply = "ok" THEN Answer(result) ELSE "failed") \in Reply
    BY DEF Answer, Reply
  <1> QED
    BY <1>1, <1>2, <1>3, FinishKeepsInv DEF SaveMissionBoard, Inv, TypeOK

-----------------------------------------------------------------------------
(* operations/office *)

LEMMA OnboardKeepsInv ==
    ASSUME Inv, NEW i \in Requests, Onboard(i)
    PROVE  Inv'
  <1>1. PICK g \in Loaded(agents, EmptyRegistry), a \in Agents :
           \/ Finish(i, "refused")
           \/ Goto(i, [Blank EXCEPT !.pc = "onboardSave", !.op = "onboard",
                                    !.g = [g EXCEPT ![a] = 0]])
    BY DEF Onboard
  <1>2. UNCHANGED <<store, minted, jobs>>
    BY DEF Onboard
  <1> DEFINE n == [g EXCEPT ![a] = 0]
  <1>3. n \in Registry
    <2>1. g \in Registry /\ 0 \in 0..MaxLoad
      BY LoadedOK, RegistryAssumption
    <2> QED
      BY <2>1 DEF Registry
  <1>4. \/ Finish(i, "refused")
        \/ Goto(i, [Blank EXCEPT !.pc = "onboardSave", !.op = "onboard", !.g = n])
    BY <1>1
  <1> HIDE DEF n
  <1>5. CASE Finish(i, "refused")
    BY <1>2, <1>5, QuietFinishKeepsInv DEF Reply
  <1>6. CASE Goto(i, [Blank EXCEPT !.pc = "onboardSave", !.op = "onboard", !.g = n])
    <2>1. "onboardSave" \in Copying /\ "onboard" \in Op
      BY DEF Copying, Op
    <2>2. SlotOK([Blank EXCEPT !.pc = "onboardSave", !.op = "onboard", !.g = n], jobs)
      BY Zenon, <1>3, <2>1, FreshRegistryOK
    <2> QED
      BY <1>2, <1>6, <2>2, QuietStepKeepsInv DEF Inv, TypeOK
  <1> QED
    BY <1>4, <1>5, <1>6

(* Onboarding saves the agent,                                             *)
LEMMA SaveOnboardedKeepsInv ==
    ASSUME Inv, NEW i \in Requests, SaveOnboarded(i)
    PROVE  Inv'
  <1>1. PICK result \in SaveResults :
           /\ agents' = Stored(result, agents, req[i].g)
           /\ \/ Finish(i, "failed")
              \/ Goto(i, [req[i] EXCEPT !.pc = "onboardQueue", !.g = EmptyRegistry])
    BY DEF SaveOnboarded
  <1>2. agents' \in Registry
    BY <1>1, HeldOK DEF Stored, Inv, TypeOK
  <1>3. CASE Finish(i, "failed")
    BY <1>2, <1>3, FinishKeepsInv DEF SaveOnboarded, Reply, Inv, TypeOK
  <1>4. CASE Goto(i, [req[i] EXCEPT !.pc = "onboardQueue", !.g = EmptyRegistry])
    <2>1. "onboardQueue" \in Copying
      BY DEF Copying
    <2>2. SlotOK([req[i] EXCEPT !.pc = "onboardQueue", !.g = EmptyRegistry], jobs)
      BY Zenon, <2>1, HeldOK, EmptyRegistryOK, MovedRegistryOK
    <2> QED
      BY <1>2, <1>4, <2>2, StepKeepsInv DEF SaveOnboarded, Inv, TypeOK
  <1> QED
    BY <1>1, <1>3, <1>4

(* and adds a waiting row for the staff.                                   *)
LEMMA OnboardRowKeepsInv ==
    ASSUME Inv, NEW i \in Requests, OnboardRow(i)
    PROVE  Inv'
  <1>1. PICK q \in Loaded(queue, EmptyQueue), r \in Rows \ minted,
             status \in {"open", "paused_waiting_owner"} :
           /\ minted' = minted \cup {r}
           /\ Goto(i, [req[i] EXCEPT !.pc = "queueSave",
                                     !.q = With(q, r, NewRow("STAFF", None, status))])
    BY DEF OnboardRow
  <1> DEFINE w == With(q, r, NewRow("STAFF", None, status))
  <1>2. QueueOK(w, jobs)
    <2>1. "STAFF" \in Assignee /\ status \in QueueStatus \ {"in_progress", "done"}
      BY DEF Assignee, QueueStatus
    <2> QED
      BY <2>1, LoadedOK, NewRowOK, WithOK
  <1>3. Goto(i, [req[i] EXCEPT !.pc = "queueSave", !.q = w])
    BY <1>1
  <1> HIDE DEF w
  <1>4. "queueSave" \in Copying
    BY DEF Copying
  <1>5. SlotOK([req[i] EXCEPT !.pc = "queueSave", !.q = w], jobs)
    BY Zenon, <1>2, <1>4, HeldOK, MovedQueueOK
  <1>6. minted' \subseteq Rows \cup Sessions
    BY <1>1 DEF Inv, TypeOK
  <1> QED
    BY <1>3, <1>5, <1>6, QuietStepKeepsInv DEF OnboardRow

(* All steps of the mission routes together.                               *)
LEMMA MissionRoutesKeepInv ==
    ASSUME Inv, NEW i \in Requests, MissionNext(i)
    PROVE  Inv'
  BY ManageKeepsInv, ManageLoadKeepsInv, RefuseManagedKeepsInv, GroupMissionsKeepsInv,
     SaveGroupKeepsInv, EditMissionKeepsInv, SaveEditedBoardKeepsInv,
     SaveEditedQueueKeepsInv, AddExecutionKeepsInv, RegisterMissionKeepsInv,
     PlanMissionKeepsInv, SavePlanKeepsInv, NewMissionKeepsInv, OpenMissionKeepsInv,
     SaveNewMissionKeepsInv, LoadMissionBoardKeepsInv, SaveMissionBoardKeepsInv,
     OnboardKeepsInv, SaveOnboardedKeepsInv, OnboardRowKeepsInv
  DEF MissionNext
==============================================================================
