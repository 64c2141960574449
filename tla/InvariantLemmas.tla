-------------------------- MODULE InvariantLemmas --------------------------
(***************************************************************************)
(* What the proofs of all routes rest on: each of the values a route saves *)
(* (rows, queues, session tables, registries) is good in the sense of Inv, *)
(* and a step has to be looked at only for the request that takes it.      *)
(***************************************************************************)
EXTENDS GovOperations, TLAPS

-----------------------------------------------------------------------------
(* Rows: each of the transformations of a row keeps its type and RowOK.    *)

(* A row as it is created. *)
LEMMA CreatedRowOK ==
    ASSUME NEW J, NEW r \in Rows, NEW who \in Assignee, NEW agent \in Agents \cup {None}
    PROVE  CreatedRow(who, agent) \in Row /\ RowOK(r, CreatedRow(who, agent), J)
  <1>1. CreatedRow(who, agent) \in Row
    BY DEF CreatedRow, Row, QueueStatus
  <1> QED
    BY <1>1 DEF CreatedRow, RowOK

(* A row as a mission, an office or the chat adds it: it does not run and  *)
(* is not done.                                                            *)
LEMMA NewRowOK ==
    ASSUME NEW J, NEW r \in Rows, NEW who \in Assignee, NEW agent \in Agents \cup {None},
           NEW status \in QueueStatus \ {"in_progress", "done"}
    PROVE  NewRow(who, agent, status) \in Row /\ RowOK(r, NewRow(who, agent, status), J)
  <1> DEFINE x == NewRow(who, agent, status)
  <1>1. x \in Row
    BY DEF NewRow, CreatedRow, Row, QueueStatus
  <1>2. x.status = status /\ x.session = None
    BY DEF NewRow, CreatedRow
  <1> QED
    BY <1>1, <1>2 DEF RowOK

(* An edit of a mission stops rows, and leaves done rows alone. *)
LEMMA EditedRowOK ==
    ASSUME NEW J, NEW r \in Rows, NEW x \in Row, RowOK(r, x, J), NEW who \in Assignee
    PROVE  EditedRow(x, who) \in Row /\ RowOK(r, EditedRow(x, who), J)
  BY DEF EditedRow, Row, QueueStatus, RowOK

(* Bound to an executor at the gate: open, with what it carried. *)
LEMMA BoundRowOK ==
    ASSUME NEW J, NEW r \in Rows, NEW x \in Row, RowOK(r, x, J),
           NEW who \in Assignee, NEW agent \in Agents \cup {None}
    PROVE  BoundRow(x, who, agent) \in Row /\ RowOK(r, BoundRow(x, who, agent), J)
  BY DEF BoundRow, Row, QueueStatus, RowOK

(* Handed to the staff: session and execution agent are dropped together. *)
LEMMA FallbackRowOK ==
    ASSUME NEW J, NEW r \in Rows, NEW x \in Row, RowOK(r, x, J)
    PROVE  FallbackRow(x) \in Row /\ RowOK(r, FallbackRow(x), J)
  BY DEF FallbackRow, Row, QueueStatus, Assignee, RowOK

(* Started under an issued job. *)
LEMMA StartedRowOK ==
    ASSUME NEW J, NEW r \in Rows, NEW x \in Row, NEW job \in Jobs, <<r, job>> \in J,
           NEW s \in Sessions, NEW a \in Agents
    PROVE  StartedRow(x, job, s, a) \in Row /\ RowOK(r, StartedRow(x, job, s, a), J)
  BY QueueAssumption DEF StartedRow, Row, QueueStatus, RowOK

(* The other start, and the moves of update_status. *)
LEMMA SyncedRowOK ==
    ASSUME NEW J, NEW r \in Rows, NEW x \in Row, RowOK(r, x, J)
    PROVE  SyncedRow(x) \in Row /\ RowOK(r, SyncedRow(x), J)
  BY DEF SyncedRow, Row, RowOK

(* A row that is moved to a status of rest stays well formed.              *)
LEMMA MovedRowOK ==
    ASSUME NEW J, NEW r \in Rows, NEW x \in Row, RowOK(r, x, J),
           NEW next \in QueueStatus \ {"in_progress", "done"}
    PROVE  MovedRow(x, next) \in Row /\ RowOK(r, MovedRow(x, next), J)
  BY DEF MovedRow, Row, RowOK

(* A row that runs is done: it was executed, and its mission started. *)
LEMMA DoneRowOK ==
    ASSUME NEW J \in SUBSET (Rows \X Jobs), NEW r \in Rows, NEW x \in Row, RowOK(r, x, J),
           x.status = "in_progress"
    PROVE  DoneRow(x) \in Row /\ RowOK(r, DoneRow(x), J)
  <1>1. x.exec # None /\ <<r, x.job>> \in J /\ x.job \in Jobs
    BY DEF RowOK
  <1>2. StartedMission(MissionOf[r], J)
    BY <1>1 DEF StartedMission
  <1> QED
    BY <1>1, <1>2 DEF DoneRow, Row, QueueStatus, RowOK

(* A row the MPB rule may close is done, executed or not. *)
LEMMA ClosedRowOK ==
    ASSUME NEW J, NEW r \in Rows, NEW x \in Row, RowOK(r, x, J), ClosedByRule(MissionOf[r])
    PROVE  DoneRow(x) \in Row /\ RowOK(r, DoneRow(x), J)
  BY DEF DoneRow, Row, QueueStatus, RowOK

(* Relayed: the job of a row that has a session does not change, because   *)
(* such a row has a job and the relay named that one or none.              *)
LEMMA RelayedRowOK ==
    ASSUME NEW J \in SUBSET (Rows \X Jobs), NEW r \in Rows, NEW x \in Row, RowOK(r, x, J),
           NEW next \in QueueStatus, NEW job \in Jobs \cup {None}, NEW complete \in BOOLEAN,
           RelayAllowed(x, next, job, complete)
    PROVE  RelayedRow(x, next, job) \in Row /\ RowOK(r, RelayedRow(x, next, job), J)
  <1> DEFINE y == RelayedRow(x, next, job)
  <1>1. y \in Row /\ y.session = x.session /\ y.exec = x.exec /\ y.status = next
    BY DEF RelayedRow, Row
  <1>2. ASSUME x.session # None
        PROVE  y.job = x.job
    <2>1. x.job # None
      BY <1>2, QueueAssumption DEF RowOK
    <2> QED
      BY <2>1 DEF RelayedRow, RelayAllowed, Row
  <1>3. next = "in_progress" => x.session # None
    BY DEF RelayAllowed
  <1>4. next = "done" => x.status = "in_progress"
    BY DEF RelayAllowed, ValidTransition
  <1>5. CASE next = "done"
    <2>1. x.exec # None /\ StartedMission(MissionOf[r], J)
      <3>1. x.session # None /\ x.exec # None /\ <<r, x.job>> \in J
        BY <1>4, <1>5 DEF RowOK
      <3> QED
        BY <3>1 DEF StartedMission
    <2> QED
      BY <1>1, <1>2, <1>5, <2>1 DEF RowOK
  <1>6. CASE next # "done"
    BY <1>1, <1>2, <1>3, <1>6 DEF RowOK
  <1> QED
    BY <1>5, <1>6, <1>1

(* Completed by a session, for a mission that started. *)
LEMMA CompletedRowOK ==
    ASSUME NEW J, NEW r \in Rows, NEW x \in Row, RowOK(r, x, J), NEW a \in Agents,
           StartedMission(MissionOf[r], J)
    PROVE  CompletedRow(x, a) \in Row /\ RowOK(r, CompletedRow(x, a), J)
  BY QueueAssumption DEF CompletedRow, Row, QueueStatus, RowOK

(* Stopped by the watchdog. *)
LEMMA WatchedRowOK ==
    ASSUME NEW J, NEW r \in Rows, NEW x \in Row, RowOK(r, x, J),
           NEW next \in {"open", "paused_waiting_owner"}
    PROVE  WatchedRow(x, next) \in Row /\ RowOK(r, WatchedRow(x, next), J)
  BY DEF WatchedRow, Row, QueueStatus, RowOK

-----------------------------------------------------------------------------
(* Queues: each of the operations on a queue keeps QueueOK.                *)

LEMMA EmptyQueueOK ==
    ASSUME NEW J
    PROVE  QueueOK(EmptyQueue, J)
  BY DEF EmptyQueue, Queue, QueueOK, Live

(* A live row is a row, and good. *)
LEMMA LiveRow ==
    ASSUME NEW J, NEW q, QueueOK(q, J), NEW r \in Live(q)
    PROVE  r \in Rows /\ q[r] \in Row /\ RowOK(r, q[r], J)
  BY DEF QueueOK, Queue, Live

(* A queue made of good rows, and of none. *)
LEMMA QueueOfRows ==
    ASSUME NEW J, NEW q, q = [r \in Rows |-> q[r]],
           \A r \in Rows : q[r] = None \/ (q[r] \in Row /\ RowOK(r, q[r], J))
    PROVE  QueueOK(q, J)
  BY DEF QueueOK, Queue, Live

(* So does a queue with one more, or one changed, well formed row.         *)
LEMMA WithOK ==
    ASSUME NEW J, NEW q, QueueOK(q, J), NEW r \in Rows, NEW x \in Row, RowOK(r, x, J)
    PROVE  QueueOK(With(q, r, x), J) /\ r \in Live(With(q, r, x))
  BY QueueAssumption DEF With, QueueOK, Queue, Live

(* A plan adds rows that are waiting.                                      *)
LEMMA AddedOK ==
    ASSUME NEW J, NEW q, QueueOK(q, J), NEW S \in SUBSET Rows,
           NEW who \in [S -> Assignee], NEW agent \in [S -> Agents \cup {None}]
    PROVE  QueueOK(Added(q, S, who, agent), J)
  <1> DEFINE n == Added(q, S, who, agent)
  <1>1. n = [r \in Rows |-> n[r]]
    BY DEF Added
  <1>2. ASSUME NEW r \in Rows
        PROVE  n[r] = None \/ (n[r] \in Row /\ RowOK(r, n[r], J))
    <2>1. CASE r \in S
      <3>1. n[r] = CreatedRow(who[r], agent[r])
        BY <2>1 DEF Added
      <3> QED
        BY <2>1, <3>1, CreatedRowOK
    <2>2. CASE r \notin S
      <3>1. n[r] = q[r]
        BY <2>2 DEF Added
      <3> QED
        BY <3>1 DEF QueueOK, Queue, Live
    <2> QED
      BY <2>1, <2>2
  <1> SUFFICES QueueOK(n, J)
    OBVIOUS
  <1> HIDE DEF n
  <1> QED
    BY <1>1, <1>2, QueueOfRows

(* The plan of a mission. *)
LEMMA PlannedOK ==
    ASSUME NEW J, NEW q, QueueOK(q, J), NEW S \in SUBSET Rows,
           NEW who \in [S -> Assignee], NEW agent \in [S -> Agents \cup {None}],
           NEW status \in [S -> QueueStatus \ {"in_progress", "done"}]
    PROVE  QueueOK(Planned(q, S, who, agent, status), J)
  <1> DEFINE n == Planned(q, S, who, agent, status)
  <1>1. n = [r \in Rows |-> n[r]]
    BY DEF Planned
  <1>2. ASSUME NEW r \in Rows
        PROVE  n[r] = None \/ (n[r] \in Row /\ RowOK(r, n[r], J))
    <2>1. CASE r \in S
      <3>1. n[r] = NewRow(who[r], agent[r], status[r])
        BY <2>1 DEF Planned
      <3> QED
        BY <2>1, <3>1, NewRowOK
    <2>2. CASE r \notin S
      <3>1. n[r] = q[r]
        BY <2>2 DEF Planned
      <3> QED
        BY <3>1 DEF QueueOK, Queue, Live
    <2> QED
      BY <2>1, <2>2
  <1> SUFFICES QueueOK(n, J)
    OBVIOUS
  <1> HIDE DEF n
  <1> QED
    BY <1>1, <1>2, QueueOfRows

(* An edit of a mission stops its rows and keeps their binding.            *)
LEMMA MissionEditedOK ==
    ASSUME NEW J, NEW q, QueueOK(q, J), NEW m, NEW who \in Assignee
    PROVE  QueueOK(MissionEdited(q, m, who), J)
  <1> DEFINE n == MissionEdited(q, m, who)
  <1>1. n = [r \in Rows |-> n[r]]
    BY DEF MissionEdited
  <1>2. ASSUME NEW r \in Rows
        PROVE  n[r] = None \/ (n[r] \in Row /\ RowOK(r, n[r], J))
    <2>1. CASE r \in RowsOf(q, m)
      <3>1. n[r] = EditedRow(q[r], who) /\ r \in Live(q)
        BY <2>1 DEF MissionEdited, RowsOf
      <3>2. q[r] \in Row /\ RowOK(r, q[r], J)
        BY <3>1, LiveRow
      <3> QED
        BY <3>1, <3>2, EditedRowOK
    <2>2. CASE r \notin RowsOf(q, m)
      <3>1. n[r] = q[r]
        BY <2>2 DEF MissionEdited
      <3> QED
        BY <3>1 DEF QueueOK, Queue, Live
    <2> QED
      BY <2>1, <2>2
  <1> SUFFICES QueueOK(n, J)
    OBVIOUS
  <1> HIDE DEF n
  <1> QED
    BY <1>1, <1>2, QueueOfRows

(* Rows may be removed.                                                    *)
LEMMA WithoutOK ==
    ASSUME NEW J, NEW q, QueueOK(q, J), NEW S
    PROVE  QueueOK(Without(q, S), J)
  BY DEF Without, QueueOK, Queue, Live

(* complete_mission: its first row was in progress, so the mission started. *)
LEMMA MissionCompletedOK ==
    ASSUME NEW J \in SUBSET (Rows \X Jobs), NEW q, QueueOK(q, J), NEW m,
           NEW first \in RowsOf(q, m), q[first].status = "in_progress", NEW a \in Agents
    PROVE  QueueOK(MissionCompleted(q, m, a), J)
  <1> DEFINE n == MissionCompleted(q, m, a)
  <1>1. n = [r \in Rows |-> n[r]]
    BY DEF MissionCompleted
  <1>2. StartedMission(m, J)
    <2>1. first \in Live(q) /\ MissionOf[first] = m
      BY DEF RowsOf
    <2>2. <<first, q[first].job>> \in J
      BY <2>1, LiveRow DEF RowOK
    <2> QED
      BY <2>1, <2>2 DEF StartedMission
  <1>3. ASSUME NEW r \in Rows
        PROVE  n[r] = None \/ (n[r] \in Row /\ RowOK(r, n[r], J))
    <2>1. CASE r \in RowsOf(q, m)
      <3>1. n[r] = CompletedRow(q[r], a) /\ r \in Live(q) /\ MissionOf[r] = m
        BY <2>1 DEF MissionCompleted, RowsOf
      <3>2. q[r] \in Row /\ RowOK(r, q[r], J)
        BY <3>1, LiveRow
      <3> QED
        BY <1>2, <3>1, <3>2, CompletedRowOK
    <2>2. CASE r \notin RowsOf(q, m)
      <3>1. n[r] = q[r]
        BY <2>2 DEF MissionCompleted
      <3> QED
        BY <3>1 DEF QueueOK, Queue, Live
    <2> QED
      BY <2>1, <2>2
  <1> SUFFICES QueueOK(n, J)
    OBVIOUS
  <1> HIDE DEF n
  <1> QED
    BY <1>1, <1>3, QueueOfRows

-----------------------------------------------------------------------------
(* The MPB closure. *)

(* Closing rows the rule allows to close keeps the queue good, and the     *)
(* same rows live.                                                         *)
LEMMA ClosedOK ==
    ASSUME NEW J, NEW q, QueueOK(q, J), NEW S \in SUBSET Live(q),
           \A r \in S : ClosedByRule(MissionOf[r])
    PROVE  QueueOK(Closed(q, S), J) /\ Live(Closed(q, S)) = Live(q)
  <1> DEFINE n == Closed(q, S)
  <1>1. n = [r \in Rows |-> n[r]]
    BY DEF Closed
  <1>2. ASSUME NEW r \in S
        PROVE  n[r] \in Row /\ RowOK(r, n[r], J) /\ n[r] # None
    <2>1. n[r] = DoneRow(q[r])
      BY DEF Closed, Live
    <2> QED
      BY <2>1, LiveRow, ClosedRowOK, QueueAssumption
  <1>3. ASSUME NEW r \in Rows, r \notin S
        PROVE  n[r] = q[r]
    BY <1>3 DEF Closed
  <1>4. \A r \in Rows : n[r] = None \/ (n[r] \in Row /\ RowOK(r, n[r], J))
    BY <1>2, <1>3 DEF QueueOK, Queue, Live
  <1>5. Live(n) = Live(q)
    BY <1>2, <1>3 DEF Live
  <1> SUFFICES QueueOK(n, J) /\ Live(n) = Live(q)
    OBVIOUS
  <1> HIDE DEF n
  <1> QED
    BY <1>1, <1>4, <1>5, QueueOfRows

(* A block that has a child row has parts. *)
LEMMA ParentFinalizedOK ==
    ASSUME NEW J, NEW q, QueueOK(q, J), NEW b, ChildRows(q, b) # {}
    PROVE  QueueOK(ParentFinalized(q, b), J) /\ Live(ParentFinalized(q, b)) = Live(q)
  <1> DEFINE S == {r \in ParentRows(q, b) : q[r].status # "done"}
  <1>1. HasParts(b)
    <2>1. PICK r \in ChildRows(q, b) : TRUE
      OBVIOUS
    <2>2. r \in Rows /\ Block[MissionOf[r]] = b /\ Part[MissionOf[r]] \in ChildParts
      BY DEF ChildRows, Live
    <2>3. MissionOf[r] \in Missions
      BY <2>2, QueueAssumption
    <2> QED
      BY <2>2, <2>3 DEF HasParts
  <1>2. S \in SUBSET Live(q) /\ \A r \in S : ClosedByRule(MissionOf[r])
    BY <1>1 DEF ParentRows, RowsOf, ClosedByRule
  <1>3. QueueOK(Closed(q, S), J) /\ Live(Closed(q, S)) = Live(q)
    BY <1>2, ClosedOK
  <1> QED
    BY <1>3 DEF ParentFinalized

(* The MPB closure makes rows done that the rule may close, and no others. *)
LEMMA ClosuresOK ==
    ASSUME NEW J, NEW q, QueueOK(q, J), NEW m, NEW n \in Closures(q, m)
    PROVE  QueueOK(n, J) /\ Live(n) = Live(q)
  <1> DEFINE b == Block[m]
             S == OpenReviews(q, b)
             p == Closed(q, S)
  <1>1. CASE n = q
    BY <1>1
  <1>2. CASE n = ParentFinalized(p, b) /\ FourChildren(q, b)
    <2>1. S \in SUBSET Live(q) /\ \A r \in S : ClosedByRule(MissionOf[r])
      BY DEF OpenReviews, PartRows, ChildRows, ClosedByRule
    <2>2. QueueOK(p, J) /\ Live(p) = Live(q)
      BY <2>1, ClosedOK
    <2>3. ChildRows(p, b) # {}
      BY <1>2, <2>2 DEF FourChildren, ChildRows
    <2> QED
      BY <1>2, <2>2, <2>3, ParentFinalizedOK
  <1> QED
    BY <1>1, <1>2 DEF Closures

-----------------------------------------------------------------------------
(* Session tables. *)

LEMMA EmptySessionsOK == TableOK(EmptySessions)
  BY DEF EmptySessions, SessionTable, TableOK, Known

(* A known session is a session, on a mission or free. *)
LEMMA KnownSession ==
    ASSUME NEW t, TableOK(t), NEW s \in Known(t)
    PROVE  /\ s \in Sessions /\ t[s] \in Session
           /\ t[s].mission = None <=> t[s].status \in {"registered", "online"}
  BY DEF TableOK, SessionTable, Known

(* A session may be set to any status that fits its mission.               *)
LEMMA SetOK ==
    ASSUME NEW t, TableOK(t), NEW s \in Sessions, NEW x \in Session,
           x.mission = None <=> x.status \in {"registered", "online"}
    PROVE  TableOK(Set(t, s, x))
  BY SessionAssumption DEF Set, TableOK, SessionTable, Known

(* A session may be freed.                                                 *)
LEMMA SetFreeOK ==
    ASSUME NEW t, TableOK(t), NEW s \in Sessions
    PROVE  TableOK(Set(t, s, FreeSession))
  <1>1. FreeSession \in Session
    BY DEF FreeSession, Session, SessionStatus
  <1> QED
    BY <1>1, SetOK DEF FreeSession

(* A session put to work on a mission does not offer itself. *)
LEMMA SetOnOK ==
    ASSUME NEW t, TableOK(t), NEW s \in Sessions, NEW m \in Missions,
           NEW status \in {"busy", "waiting", "stale"}
    PROVE  TableOK(Set(t, s, SessionOn(m, status)))
  <1>1. SessionOn(m, status) \in Session
    BY DEF SessionOn, Session, SessionStatus
  <1> QED
    BY <1>1, SetOK, SessionAssumption DEF SessionOn

(* A heartbeat changes no mission and leaves a status that fits.           *)
LEMMA SetBeatenOK ==
    ASSUME NEW t, TableOK(t), NEW s \in Known(t)
    PROVE  TableOK(Set(t, s, Beaten(t[s])))
  <1> DEFINE x == Beaten(t[s])
  <1>1. t[s] \in Session /\ s \in Sessions
    BY KnownSession
  <1>2. x \in Session /\ (x.mission = None <=> x.status \in {"registered", "online"})
    BY <1>1 DEF Beaten, Session, SessionStatus
  <1> QED
    BY <1>1, <1>2, SetOK

(* A session a start may end up with is a known one. *)
LEMMA StartSessionKnown ==
    ASSUME NEW t, NEW r, NEW row, NEW s \in StartSessions(t, r, row)
    PROVE  s \in Sessions
  BY DEF StartSessions, MissionBound, Claimable, Known

-----------------------------------------------------------------------------
(* Registries. *)

LEMMA EmptyRegistryOK == EmptyRegistry \in Registry
  BY DEF EmptyRegistry, Registry

(* A raised load stays below the clamp.                                    *)
LEMMA BumpedOK ==
    ASSUME NEW g \in Registry, NEW a \in Registered(g)
    PROVE  Bumped(g, a) \in Registry
  <1>1. g[a] \in 0..MaxLoad
    BY DEF Registry, Registered
  <1>2. (IF g[a] < MaxLoad THEN g[a] + 1 ELSE MaxLoad) \in 0..MaxLoad
    BY <1>1, RegistryAssumption
  <1> QED
    BY <1>2 DEF Bumped, Registry, Registered

(* A released load stays at zero or above.                                 *)
LEMMA ReleasedOK ==
    ASSUME NEW g \in Registry, NEW a \in Registered(g)
    PROVE  Released(g, a) \in Registry
  <1>1. g[a] \in 0..MaxLoad
    BY DEF Registry, Registered
  <1>2. (IF g[a] = 0 THEN 0 ELSE g[a] - 1) \in 0..MaxLoad
    BY <1>1, RegistryAssumption
  <1> QED
    BY <1>2 DEF Released, Registry, Registered

(* So do the loads of all agents a done row releases.                      *)
LEMMA ReleasesOK ==
    ASSUME NEW g \in Registry, NEW row, NEW n \in Releases(g, row)
    PROVE  n \in Registry
  <1>1. ReleaseTargets(g, row) \subseteq Registered(g)
    BY DEF ReleaseTargets
  <1> QED
    BY <1>1, ReleasedOK DEF Releases

-----------------------------------------------------------------------------
(* Slots. *)

(* More jobs issued by others break nothing. *)
LEMMA QueueMonotone ==
    ASSUME NEW J, NEW K, J \subseteq K, NEW q, QueueOK(q, J)
    PROVE  QueueOK(q, K)
  BY DEF QueueOK, RowOK, StartedMission

(* What a request knows stays true when workers take more jobs.            *)
LEMMA SlotMonotone ==
    ASSUME NEW J, NEW K, J \subseteq K, NEW x, SlotOK(x, J)
    PROVE  SlotOK(x, K)
  <1>1. QueueOK(x.q, K)
    BY QueueMonotone DEF SlotOK
  <1> QED
    BY <1>1 DEF SlotOK

(* A free slot is well formed.                                             *)
LEMMA BlankOK == Blank \in Slot
  BY ZenonT(60), EmptyQueueOK, EmptySessionsOK, EmptyRegistryOK
     DEF Blank, Slot, Pc, Reply, QueueOK, TableOK

(* A request that ends leaves a free slot with its answer.                 *)
LEMMA FinishedOK ==
    ASSUME NEW J, NEW reply \in Reply
    PROVE  SlotOK([Blank EXCEPT !.reply = reply], J)
  <1> DEFINE x == [Blank EXCEPT !.reply = reply]
  <1>1. x \in Slot
    BY BlankOK DEF Slot, Reply
  <1>2. x.q = EmptyQueue /\ x.t = EmptySessions /\ x.pc = "idle"
    BY DEF Blank
  <1>3. QueueOK(x.q, J) /\ TableOK(x.t)
    BY <1>2, EmptyQueueOK, EmptySessionsOK
  <1> HIDE DEF x
  <1> SUFFICES SlotOK(x, J)
    BY DEF x
  <1> QED
    BY <1>1, <1>2, <1>3 DEF SlotOK

-----------------------------------------------------------------------------
(* Steps: it is enough to look at the slot of the request that moves, and  *)
(* at what it stores.                                                      *)
LEMMA StepKeepsInv ==
    ASSUME Inv, NEW i \in Requests, NEW x, Goto(i, x), SlotOK(x, jobs'),
           jobs \subseteq jobs', jobs' \subseteq Rows \X Jobs,
           QueueOK(queue', jobs'), TableOK(sessions'),
           agents' \in Registry, board' \subseteq Missions,
           minted' \subseteq Rows \cup Sessions
    PROVE  Inv'
  <1>1. x \in Slot
    BY DEF SlotOK
  <1>2. req' \in [Requests -> Slot]
    BY <1>1 DEF Inv, TypeOK, Goto
  <1>3. TypeOK'
    BY <1>2 DEF TypeOK, QueueOK, TableOK
  <1>4. ASSUME NEW j \in Requests
        PROVE  SlotOK(req'[j], jobs')
    <2>1. CASE j = i
      BY <2>1 DEF Inv, TypeOK, Goto
    <2>2. CASE j # i
      <3>1. req'[j] = req[j] /\ SlotOK(req[j], jobs)
        BY <2>2 DEF Inv, TypeOK, Goto
      <3> QED
        BY <3>1, SlotMonotone
    <2> QED
      BY <2>1, <2>2
  <1> QED
    BY <1>3, <1>4 DEF Inv

(* The request moves and stores nothing. *)
LEMMA QuietStepKeepsInv ==
    ASSUME Inv, NEW i \in Requests, NEW x, Goto(i, x), SlotOK(x, jobs),
           UNCHANGED <<store, jobs>>, minted' \subseteq Rows \cup Sessions
    PROVE  Inv'
  <1>1. /\ queue' = queue /\ agents' = agents /\ sessions' = sessions
        /\ board' = board /\ jobs' = jobs
    BY DEF store
  <1> QED
    BY <1>1, StepKeepsInv DEF Inv, TypeOK

(* What is loaded is as good as what is stored. *)
LEMMA LoadedOK ==
    ASSUME Inv
    PROVE  /\ \A q \in Loaded(queue, EmptyQueue) : QueueOK(q, jobs)
           /\ \A t \in Loaded(sessions, EmptySessions) : TableOK(t)
           /\ \A g \in Loaded(agents, EmptyRegistry) : g \in Registry
           /\ \A b \in Loaded(board, {}) : b \subseteq Missions
  BY EmptyQueueOK, EmptySessionsOK, EmptyRegistryOK DEF Loaded, Inv, TypeOK

(* A request ends, whatever it saved. *)
LEMMA FinishKeepsInv ==
    ASSUME Inv, NEW i \in Requests, NEW reply \in Reply, Finish(i, reply),
           jobs \subseteq jobs', jobs' \subseteq Rows \X Jobs,
           QueueOK(queue', jobs'), TableOK(sessions'),
           agents' \in Registry, board' \subseteq Missions,
           minted' \subseteq Rows \cup Sessions
    PROVE  Inv'
  BY FinishedOK, StepKeepsInv DEF Finish

(* A request ends and stored nothing. *)
LEMMA QuietFinishKeepsInv ==
    ASSUME Inv, NEW i \in Requests, NEW reply \in Reply, Finish(i, reply),
           UNCHANGED <<store, minted, jobs>>
    PROVE  Inv'
  BY FinishedOK, QuietStepKeepsInv DEF Finish, Inv, TypeOK

-----------------------------------------------------------------------------
(* Slots that wait for a save at the end of their handler. *)

LEMMA QueueSaveOK ==
    ASSUME NEW J, NEW q, QueueOK(q, J), NEW op \in Op
    PROVE  SlotOK([Blank EXCEPT !.pc = "queueSave", !.op = op, !.q = q], J)
  <1> DEFINE x == [Blank EXCEPT !.pc = "queueSave", !.op = op, !.q = q]
  <1>1. x \in Slot
    BY ZenonT(60), BlankOK DEF Slot, Pc, QueueOK
  <1>2. x.q = q /\ x.t = EmptySessions /\ x.pc = "queueSave"
    BY DEF Blank
  <1> HIDE DEF x
  <1> SUFFICES SlotOK(x, J)
    BY DEF x
  <1> QED
    BY <1>1, <1>2, EmptySessionsOK DEF SlotOK

(* A request may save any well formed session table.                       *)
LEMMA SaveTableOK ==
    ASSUME NEW J, NEW t, TableOK(t), NEW op \in Op, NEW s \in Sessions
    PROVE  SlotOK([Blank EXCEPT !.pc = "sessionsSave", !.op = op, !.session = s, !.t = t], J)
  <1> DEFINE x == [Blank EXCEPT !.pc = "sessionsSave", !.op = op, !.session = s, !.t = t]
  <1>1. x \in Slot
    BY ZenonT(60), BlankOK DEF Slot, Pc, TableOK
  <1>2. x.t = t /\ x.q = EmptyQueue /\ x.pc = "sessionsSave"
    BY DEF Blank
  <1> HIDE DEF x
  <1> SUFFICES SlotOK(x, J)
    BY DEF x
  <1> QED
    BY <1>1, <1>2, EmptyQueueOK DEF SlotOK
(* A handler that knows no more than its copies. *)
Copying == {"queueSave", "manageBoard", "manageQueue", "manage", "groupSave",
            "editBoardSave", "editQueueSave", "plan", "planSave", "openMission",
            "missionSave", "missionBoardLoad", "missionBoardSave",
            "onboardSave", "onboardQueue"}

(* A request that only carries copies needs them well formed, no more.     *)
LEMMA CopyingOK ==
    ASSUME NEW J, NEW x \in Slot, x.pc \in Copying, QueueOK(x.q, J), TableOK(x.t)
    PROVE  SlotOK(x, J)
  BY DEF SlotOK, Copying

=============================================================================
