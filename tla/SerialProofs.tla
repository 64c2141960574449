---------------------------- MODULE SerialProofs ----------------------------
(***************************************************************************)
(* The action properties of GovOperations, for any number of rows,         *)
(* missions, sessions, agents and jobs, with all failures and crashes.     *)
(* Two of them hold however requests overlap; the others as long as they   *)
(* do not (Alone), of which DoneIsEarned also needs that no block is a     *)
(* part of another one.                                                    *)
(*                                                                         *)
(* Argument.  What a step stores was decided some awaits earlier, on       *)
(* copies.  SerialInv says of each request, at each await, what it is      *)
(* about to store, compared with what is stored now: its queue may be      *)
(* saved over the stored one (SavesOver), its session table takes no       *)
(* session (TakesNone), and so on.  A request establishes this from a      *)
(* fresh or an empty copy, one lemma per operator on queues; it keeps it   *)
(* through its own awaits, one lemma per action; and no other request      *)
(* stores anything between.  What a request says of its own copies only    *)
(* (OwnOK) needs no such proviso.  A save then is a step of the kind the   *)
(* property asks for (StepWrites, StepOf).                                 *)
(***************************************************************************)
EXTENDS GovOperationsProofs, DirectRoute

-----------------------------------------------------------------------------
(* What may be saved over a queue. *)

LEMMA EmptyHasNoRows == Live(EmptyQueue) = {} /\ Running(EmptyQueue) = {}
  BY DEF Live, EmptyQueue, Running

(* Row r of n waits, runs with the work it had in base, where n comes      *)
(* from, or did not run in the stored queue q, or is done with a reason.   *)
RowSaves(q, base, n, r) ==
    \/ n[r].status \notin {"in_progress", "done"}
    \/ /\ n[r].status = "in_progress" /\ r \in Live(base)
       /\ base[r].status = "in_progress" => SameWork(base[r], n[r])
    \/ n[r].status = "in_progress" /\ r \notin Running(q)
    \/ n[r].status = "done" /\ r \in Live(base) /\ base[r].status = "done"
    \/ n[r].status = "done" /\ (BlocksAreFlat => Earned(base, n, r))

(* A queue of such rows, made from what was loaded, may be saved.          *)
LEMMA RowsSave ==
    ASSUME NEW q, NEW base \in {q, EmptyQueue}, NEW n,
           \A r \in Live(n) : RowSaves(q, base, n, r)
    PROVE  SavesOver(q, n)
  <1>1. CASE base = q
    BY <1>1 DEF RowSaves, SavesOver, Running
  <1>2. CASE base = EmptyQueue
    <2>1. \A r : r \notin Live(base) /\ r \notin Running(base)
      BY <1>2, EmptyHasNoRows
    <2>2. \A r : Earned(base, n, r) => Earned(q, n, r)
      BY <2>1 DEF Earned
    <2> QED
      BY <2>1, <2>2 DEF RowSaves, SavesOver, Running
  <1> QED
    BY <1>1, <1>2

(* Nothing is wrong with a queue whose rows wait or are as they were.      *)
LEMMA WaitingRowsSave ==
    ASSUME NEW q, NEW base \in {q, EmptyQueue}, NEW n,
           \A r \in Live(n) : \/ n[r].status \notin {"in_progress", "done"}
                              \/ r \in Live(base) /\ n[r] = base[r]
    PROVE  SavesOver(q, n)
  <1>1. \A r \in Live(n) : RowSaves(q, base, n, r)
    BY DEF RowSaves, SameWork
  <1> QED
    BY <1>1, RowsSave

(* New rows. *)
LEMMA AddedSaves ==
    ASSUME NEW q, NEW base \in {q, EmptyQueue}, NEW S, NEW who, NEW agent
    PROVE  SavesOver(q, Added(base, S, who, agent))
  <1> DEFINE n == Added(base, S, who, agent)
  <1>1. ASSUME NEW r \in Live(n)
        PROVE  \/ n[r].status \notin {"in_progress", "done"}
               \/ r \in Live(base) /\ n[r] = base[r]
    <2>1. CASE r \in S
      <3>1. n[r] = CreatedRow(who[r], agent[r])
        BY <2>1 DEF Added, Live
      <3> QED
        BY <3>1 DEF CreatedRow
    <2>2. CASE r \notin S
      BY <2>2 DEF Added, Live
    <2> QED
      BY <2>1, <2>2
  <1> SUFFICES SavesOver(q, n)
    OBVIOUS
  <1> HIDE DEF n
  <1> QED
    BY <1>1, WaitingRowsSave

LEMMA PlannedSaves ==
    ASSUME NEW q, NEW base \in {q, EmptyQueue}, NEW S, NEW who, NEW agent, NEW status,
           \A r \in S : status[r] \notin {"in_progress", "done"}
    PROVE  SavesOver(q, Planned(base, S, who, agent, status))
  <1> DEFINE n == Planned(base, S, who, agent, status)
  <1>1. ASSUME NEW r \in Live(n)
        PROVE  \/ n[r].status \notin {"in_progress", "done"}
               \/ r \in Live(base) /\ n[r] = base[r]
    <2>1. CASE r \in S
      <3>1. n[r] = NewRow(who[r], agent[r], status[r])
        BY <2>1 DEF Planned, Live
      <3> QED
        BY <2>1, <3>1 DEF NewRow, CreatedRow
    <2>2. CASE r \notin S
      BY <2>2 DEF Planned, Live
    <2> QED
      BY <2>1, <2>2
  <1> SUFFICES SavesOver(q, n)
    OBVIOUS
  <1> HIDE DEF n
  <1> QED
    BY <1>1, WaitingRowsSave

LEMMA WithoutSaves ==
    ASSUME NEW q, NEW base \in {q, EmptyQueue}, NEW S
    PROVE  SavesOver(q, Without(base, S))
  <1> DEFINE n == Without(base, S)
  <1>1. \A r \in Live(n) : r \in Live(base) /\ n[r] = base[r]
    BY DEF Without, Live
  <1> SUFFICES SavesOver(q, n)
    OBVIOUS
  <1> HIDE DEF n
  <1> QED
    BY <1>1, WaitingRowsSave

(* One more row, or a row that is stopped. *)
LEMMA WithSaves ==
    ASSUME NEW q \in Queue, NEW base \in {q, EmptyQueue}, NEW r \in Rows, NEW x,
           x.status \notin {"in_progress", "done"}
    PROVE  SavesOver(q, With(base, r, x))
  <1> DEFINE n == With(base, r, x)
  <1>1. base \in Queue
    BY DEF EmptyQueue, Queue
  <1>2. ASSUME NEW y \in Live(n)
        PROVE  \/ n[y].status \notin {"in_progress", "done"}
               \/ y \in Live(base) /\ n[y] = base[y]
    BY <1>1 DEF With, Live, Queue
  <1> SUFFICES SavesOver(q, n)
    OBVIOUS
  <1> HIDE DEF n
  <1> QED
    BY <1>2, WaitingRowsSave

(* An edit stops the rows it takes from their assignee. *)
LEMMA MissionEditedSaves ==
    ASSUME NEW q \in Queue, NEW base \in {q, EmptyQueue}, NEW m, NEW who
    PROVE  SavesOver(q, MissionEdited(base, m, who))
  <1> DEFINE n == MissionEdited(base, m, who)
  <1>1. ASSUME NEW r \in Live(n)
        PROVE  \/ n[r].status \notin {"in_progress", "done"}
               \/ r \in Live(base) /\ n[r] = base[r]
    <2>1. CASE r \in RowsOf(base, m)
      <3>1. n[r] = EditedRow(base[r], who) /\ r \in Live(base)
        BY <2>1 DEF MissionEdited, RowsOf, Live
      <3>2. base[r] \in Row
        BY <3>1 DEF Live, Queue, EmptyQueue
      <3>3. EditedRow(base[r], who) = base[r]
            \/ EditedRow(base[r], who).status \notin {"in_progress", "done"}
        BY <3>2 DEF EditedRow, Row
      <3> QED
        BY <3>1, <3>3
    <2>2. CASE r \notin RowsOf(base, m)
      BY <2>2 DEF MissionEdited, Live
    <2> QED
      BY <2>1, <2>2
  <1> SUFFICES SavesOver(q, n)
    OBVIOUS
  <1> HIDE DEF n
  <1> QED
    BY <1>1, WaitingRowsSave

(* The watchdog stops rows, and touches no other. *)
LEMMA WatchedSaves ==
    ASSUME NEW q \in Queue, NEW base \in {q, EmptyQueue},
           NEW off \in SUBSET Live(base), NEW stuck \in SUBSET Live(base),
           NEW to \in [stuck -> {"open", "paused_waiting_owner"}]
    PROVE  SavesOver(q, Watched(base, off, stuck, to))
  <1> DEFINE n == Watched(base, off, stuck, to)
  <1>0. \A r \in Live(base) : base[r] \in Row
    BY DEF Live, Queue, EmptyQueue
  <1>1. ASSUME NEW r \in Live(n)
        PROVE  \/ n[r].status \notin {"in_progress", "done"}
               \/ r \in Live(base) /\ n[r] = base[r]
    <2>1. CASE r \in off
      <3>1. n[r] = WatchedRow(base[r], "paused_waiting_owner")
        BY <2>1 DEF Watched, Live
      <3> QED
        BY <1>0, <2>1, <3>1 DEF WatchedRow, Row
    <2>2. CASE r \notin off /\ r \in stuck
      <3>1. n[r] = WatchedRow(base[r], to[r])
        BY <2>2 DEF Watched, Live
      <3>2. to[r] \in {"open", "paused_waiting_owner"}
        BY <2>2
      <3> QED
        BY <1>0, <2>2, <3>1, <3>2 DEF WatchedRow, Row
    <2>3. CASE r \notin off /\ r \notin stuck
      BY <2>3 DEF Watched, Live
    <2> QED
      BY <2>1, <2>2, <2>3
  <1> SUFFICES SavesOver(q, n)
    OBVIOUS
  <1> HIDE DEF n
  <1> QED
    BY <1>1, WaitingRowsSave

(* complete_mission: every row it closes is of the mission of one that     *)
(* runs.                                                                   *)
LEMMA MissionCompletedSaves ==
    ASSUME NEW q \in Queue, NEW base \in {q, EmptyQueue}, NEW m, NEW a,
           NEW first \in RowsOf(base, m), base[first].status = "in_progress"
    PROVE  SavesOver(q, MissionCompleted(base, m, a))
  <1> DEFINE n == MissionCompleted(base, m, a)
  <1>1. first \in Running(base) /\ MissionOf[first] = m
    BY DEF RowsOf, Running
  <1>2. ASSUME NEW r \in Live(n)
        PROVE  RowSaves(q, base, n, r)
    <2>1. CASE r \in RowsOf(base, m)
      <3>1. n[r] = CompletedRow(base[r], a) /\ r \in Live(base) /\ MissionOf[r] = m
        BY <2>1 DEF MissionCompleted, RowsOf, Live
      <3>2. base[r] \in Row
        BY <3>1 DEF Live, Queue, EmptyQueue
      <3>3. n[r].status = "done"
        BY <3>1, <3>2 DEF CompletedRow, Row
      <3> HIDE DEF n
      <3> QED
        BY <1>1, <3>1, <3>3 DEF RowSaves, Earned
    <2>2. CASE r \notin RowsOf(base, m)
      <3>1. n[r] = base[r] /\ r \in Live(base)
        BY <2>2 DEF MissionCompleted, Live
      <3> HIDE DEF n
      <3> QED
        BY <3>1 DEF RowSaves, SameWork
    <2> QED
      BY <2>1, <2>2
  <1> SUFFICES SavesOver(q, n)
    OBVIOUS
  <1> HIDE DEF n
  <1> QED
    BY <1>2, RowsSave

-----------------------------------------------------------------------------
(* The MPB closure. *)

LEMMA ClosedRows ==
    ASSUME NEW q \in Queue, NEW S \in SUBSET Live(q)
    PROVE  /\ Closed(q, S) \in Queue /\ Live(Closed(q, S)) = Live(q)
           /\ \A r \in S : Closed(q, S)[r].status = "done"
           /\ \A r \in Rows \ S : Closed(q, S)[r] = q[r]
  <1> DEFINE n == Closed(q, S)
  <1>1. ASSUME NEW r \in S
        PROVE  n[r] \in Row /\ n[r].status = "done" /\ n[r] # None
    <2>1. n[r] = DoneRow(q[r]) /\ q[r] \in Row
      BY DEF Closed, Live, Queue
    <2> QED
      BY <2>1, QueueAssumption DEF DoneRow, Row, QueueStatus
  <1>2. \A r \in Rows \ S : n[r] = q[r]
    BY DEF Closed
  <1>3. n = [r \in Rows |-> n[r]]
    BY DEF Closed
  <1> SUFFICES /\ n \in Queue /\ Live(n) = Live(q)
               /\ \A r \in S : n[r].status = "done"
               /\ \A r \in Rows \ S : n[r] = q[r]
    OBVIOUS
  <1> HIDE DEF n
  <1> QED
    BY <1>1, <1>2, <1>3 DEF Queue, Live

(* The rows of a block depend on which rows there are, and nothing else.   *)
LEMMA SameRows ==
    ASSUME NEW q, NEW n, Live(n) = Live(q), NEW b
    PROVE  /\ ChildRows(n, b) = ChildRows(q, b)
           /\ \A part : PartRows(n, b, part) = PartRows(q, b, part)
           /\ ParentRows(n, b) = ParentRows(q, b)
           /\ FourChildren(n, b) <=> FourChildren(q, b)
  <1>1. ChildRows(n, b) = ChildRows(q, b)
    BY DEF ChildRows
  <1> QED
    BY <1>1 DEF PartRows, ParentRows, RowsOf, FourChildren

(* What the closure of block b made of q, after both CPP parts were done.  *)
LEMMA ClosureShape ==
    ASSUME NEW q \in Queue, NEW m \in Missions, NEW n \in Closures(q, m)
    PROVE  LET b == Block[m]
               p == Closed(q, OpenReviews(q, b))
           IN  \/ /\ n = q
                  /\ \/ ~ FourChildren(q, b)
                     \/ \E part \in {"CPP1", "CPP2"} :
                          \/ PartRows(q, b, part) = {}
                          \/ \E c \in PartRows(q, b, part) : q[c].status # "done"
               \/ /\ n = ParentFinalized(p, b)
                  /\ \A part \in {"CPP1", "CPP2"} :
                        \E c \in PartRows(q, b, part) : q[c].status = "done"
  BY DEF Closures

(* Closing reviews and finalizing the parent.                              *)
LEMMA FinalizedRows ==
    ASSUME NEW q \in Queue, NEW b
    PROVE  LET p == Closed(q, OpenReviews(q, b))
               n == ParentFinalized(p, b)
               whole == \A c \in ChildRows(q, b) : p[c].status = "done"
           IN  /\ n \in Queue /\ Live(n) = Live(q) /\ Live(p) = Live(q)
               /\ \A r \in Live(q) :
                     \/ n[r] = q[r] /\ p[r] = q[r] /\ r \notin OpenReviews(q, b)
                     \/ r \in OpenReviews(q, b) /\ n[r].status = "done"
                     \/ r \in ParentRows(q, b) /\ whole /\ n[r].status = "done"
               /\ \A r \in Live(q) : p[r].status = "done" => n[r].status = "done"
               /\ whole => \A r \in ParentRows(q, b) : n[r].status = "done"
               /\ ~ whole => n = p
  <1> DEFINE p == Closed(q, OpenReviews(q, b))
             n == ParentFinalized(p, b)
             whole == \A c \in ChildRows(q, b) : p[c].status = "done"
             S == {r \in ParentRows(q, b) : p[r].status # "done"}
  <1>1. OpenReviews(q, b) \in SUBSET Live(q)
    BY DEF OpenReviews, PartRows, ChildRows
  <1>2. /\ p \in Queue /\ Live(p) = Live(q)
        /\ \A r \in OpenReviews(q, b) : p[r].status = "done"
        /\ \A r \in Rows \ OpenReviews(q, b) : p[r] = q[r]
    BY <1>1, ClosedRows
  <1> HIDE DEF p
  <1>3. ChildRows(p, b) = ChildRows(q, b) /\ ParentRows(p, b) = ParentRows(q, b)
    BY <1>2, SameRows
  <1>4. S \in SUBSET Live(p)
    BY <1>2 DEF ParentRows, RowsOf
  <1>5. /\ Closed(p, S) \in Queue /\ Live(Closed(p, S)) = Live(p)
        /\ \A r \in S : Closed(p, S)[r].status = "done"
        /\ \A r \in Rows \ S : Closed(p, S)[r] = p[r]
    BY <1>2, <1>4, ClosedRows
  <1>6. n = IF whole THEN Closed(p, S) ELSE p
    BY <1>3 DEF ParentFinalized
  <1>7. Live(q) \subseteq Rows /\ ParentRows(q, b) \subseteq Rows
    BY DEF Live, ParentRows, RowsOf
  <1> SUFFICES /\ n \in Queue /\ Live(n) = Live(q) /\ Live(p) = Live(q)
               /\ \A r \in Live(q) :
                     \/ n[r] = q[r] /\ p[r] = q[r] /\ r \notin OpenReviews(q, b)
                     \/ r \in OpenReviews(q, b) /\ n[r].status = "done"
                     \/ r \in ParentRows(q, b) /\ whole /\ n[r].status = "done"
               /\ \A r \in Live(q) : p[r].status = "done" => n[r].status = "done"
               /\ whole => \A r \in ParentRows(q, b) : n[r].status = "done"
               /\ ~ whole => n = p
    BY DEF p
  <1> HIDE DEF n, whole
  <1>8. CASE whole
    <2>1. n = Closed(p, S)
      BY <1>6, <1>8
    <2>2. \A r \in Rows : r \in S <=> r \in ParentRows(q, b) /\ p[r].status # "done"
      OBVIOUS
    <2> HIDE DEF S
    <2> QED
      BY <1>2, <1>5, <1>7, <1>8, <2>1, <2>2
  <1>9. CASE ~ whole
    BY <1>2, <1>6, <1>7, <1>9
  <1> QED
    BY <1>8, <1>9

(* Every row the closure made done, the rule closed, and closed whole.     *)
LEMMA ClosureRows ==
    ASSUME NEW q \in Queue, NEW m \in Missions, NEW n \in Closures(q, m)
    PROVE  /\ n \in Queue /\ Live(n) = Live(q)
           /\ \A r \in Live(q) : \/ n[r] = q[r]
                               \/ /\ n[r].status = "done"
                                  /\ BlocksAreFlat => ClosedWhole(n, r)
  <1> DEFINE b == Block[m]
             p == Closed(q, OpenReviews(q, b))
             whole == \A c \in ChildRows(q, b) : p[c].status = "done"
  <1>1. CASE n = q
    BY <1>1
  <1>2. ASSUME n = ParentFinalized(p, b),
               \A part \in {"CPP1", "CPP2"} :
                  \E c \in PartRows(q, b, part) : q[c].status = "done"
        PROVE  /\ n \in Queue /\ Live(n) = Live(q)
               /\ \A r \in Live(q) : \/ n[r] = q[r]
                                   \/ /\ n[r].status = "done"
                                      /\ BlocksAreFlat => ClosedWhole(n, r)
    <2>1. /\ n \in Queue /\ Live(n) = Live(q) /\ Live(p) = Live(q)
          /\ \A r \in Live(q) :
                \/ n[r] = q[r] /\ p[r] = q[r] /\ r \notin OpenReviews(q, b)
                \/ r \in OpenReviews(q, b) /\ n[r].status = "done"
                \/ r \in ParentRows(q, b) /\ whole /\ n[r].status = "done"
          /\ \A r \in Live(q) : p[r].status = "done" => n[r].status = "done"
      BY <1>2, FinalizedRows
    <2> HIDE DEF p
    <2>2. /\ ChildRows(n, b) = ChildRows(q, b)
          /\ \A part : PartRows(n, b, part) = PartRows(q, b, part)
      BY <2>1, SameRows
    <2>3. whole => \A c \in ChildRows(n, b) : n[c].status = "done"
      BY <2>1, <2>2 DEF ChildRows
    <2> HIDE DEF whole
    <2>4. \A part \in {"CPP1", "CPP2"} :
             \E c \in PartRows(n, b, part) : n[c].status = "done"
      <3> SUFFICES ASSUME NEW part \in {"CPP1", "CPP2"}
                   PROVE  \E c \in PartRows(n, b, part) : n[c].status = "done"
        OBVIOUS
      <3>1. PICK c \in PartRows(q, b, part) : q[c].status = "done"
        BY <1>2
      <3>2. c \in Live(q)
        BY DEF PartRows, ChildRows
      <3>3. n[c].status = "done"
        BY <2>1, <3>1, <3>2
      <3> QED
        BY <2>2, <3>3
    <2>5. PICK c \in ChildRows(n, b) : TRUE
      BY <2>4 DEF PartRows
    <2>6. HasParts(b)
      <3>1. MissionOf[c] \in Missions /\ Block[MissionOf[c]] = b
            /\ Part[MissionOf[c]] \in ChildParts
        BY <2>5, QueueAssumption DEF ChildRows, Live
      <3> QED
        BY <3>1 DEF HasParts
    <2>7. b \in Missions
      BY QueueAssumption
    <2> HIDE DEF b
    <2>8. ASSUME NEW r \in Live(q), r \in OpenReviews(q, b), BlocksAreFlat
          PROVE  ClosedWhole(n, r)
      <3>1. Block[MissionOf[r]] = b /\ Part[MissionOf[r]] \in {"STAFF", "PA"}
        BY <2>8 DEF OpenReviews, PartRows, ChildRows
      <3>2. \A x \in Missions : Block[x] # MissionOf[r]
        BY <2>8, <3>1 DEF BlocksAreFlat
      <3>3. ~ HasParts(MissionOf[r])
        BY <3>2 DEF HasParts
      <3>4. ClosedByMpb(n, r)
        BY <2>4, <3>1 DEF ClosedByMpb, ClosedByRule
      <3> QED
        BY <3>3, <3>4 DEF ClosedWhole
    <2>9. ASSUME NEW r \in Live(q), r \in ParentRows(q, b), whole, BlocksAreFlat
          PROVE  ClosedWhole(n, r)
      <3>1. MissionOf[r] = b
        BY <2>9 DEF ParentRows, RowsOf
      <3>2. Block[b] = b
        BY <2>7, <2>9, QueueAssumption DEF BlocksAreFlat, b
      <3>3. ClosedByMpb(n, r)
        BY <2>4, <2>6, <3>1, <3>2 DEF ClosedByMpb, ClosedByRule
      <3> QED
        BY <2>3, <2>9, <3>1, <3>3 DEF ClosedWhole
    <2> QED
      BY <2>1, <2>8, <2>9
  <1>3. \/ n = q
        \/ /\ n = ParentFinalized(p, b)
           /\ \A part \in {"CPP1", "CPP2"} :
                 \E c \in PartRows(q, b, part) : q[c].status = "done"
    BY ClosureShape
  <1> QED
    BY <1>1, <1>2, <1>3

(* Whatever a closure returns, it has closed all the rule closes.          *)
LEMMA ClosuresClose ==
    ASSUME NEW q \in Queue, NEW m \in Missions, NEW n \in Closures(q, m)
    PROVE  MpbClosed(n, Block[m])
  <1> DEFINE b == Block[m]
             p == Closed(q, OpenReviews(q, b))
             whole == \A c \in ChildRows(q, b) : p[c].status = "done"
  <1>1. CASE /\ n = q
             /\ \/ ~ FourChildren(q, b)
                \/ \E part \in {"CPP1", "CPP2"} :
                     \/ PartRows(q, b, part) = {}
                     \/ \E c \in PartRows(q, b, part) : q[c].status # "done"
    BY <1>1 DEF MpbClosed
  <1>2. CASE n = ParentFinalized(p, b)
    <2>1. /\ n \in Queue /\ Live(n) = Live(q) /\ Live(p) = Live(q)
          /\ \A r \in Live(q) :
                \/ n[r] = q[r] /\ p[r] = q[r] /\ r \notin OpenReviews(q, b)
                \/ r \in OpenReviews(q, b) /\ n[r].status = "done"
                \/ r \in ParentRows(q, b) /\ whole /\ n[r].status = "done"
          /\ whole => \A r \in ParentRows(q, b) : n[r].status = "done"
          /\ ~ whole => n = p
      BY <1>2, FinalizedRows
    <2> HIDE DEF p
    <2>2. /\ ChildRows(n, b) = ChildRows(q, b) /\ ParentRows(n, b) = ParentRows(q, b)
          /\ \A part : PartRows(n, b, part) = PartRows(q, b, part)
      BY <2>1, SameRows
    <2>3. OpenReviews(n, b) = {}
      <3> SUFFICES ASSUME NEW r \in OpenReviews(n, b) PROVE FALSE
        OBVIOUS
      <3>1. /\ r \in PartRows(q, b, "STAFF") \cup PartRows(q, b, "PA")
            /\ n[r].status = "open" /\ r \in Live(q)
        BY <2>2 DEF OpenReviews, PartRows, ChildRows
      <3>2. n[r] = q[r] /\ r \notin OpenReviews(q, b)
        BY <2>1, <3>1
      <3> QED
        BY <3>1, <3>2 DEF OpenReviews
    <2>4. ASSUME \A c \in ChildRows(n, b) : n[c].status = "done"
          PROVE  \A r \in ParentRows(n, b) : n[r].status = "done"
      BY <2>1, <2>2, <2>4 DEF whole
    <2> QED
      BY <2>3, <2>4 DEF MpbClosed
  <1> QED
    BY <1>1, <1>2, ClosureShape

-----------------------------------------------------------------------------
(* The direct route's copy of the rule. *)

(* Closing a row that is done changes nothing. *)
LEMMA ClosedOnce ==
    ASSUME NEW q \in Queue, NEW S \in SUBSET Live(q)
    PROVE  Closed(q, S) = Closed(q, {r \in S : q[r].status # "done"})
  <1> DEFINE T == {r \in S : q[r].status # "done"}
             DR(r) == DoneRow(q[r])
  <1>1. ASSUME NEW r \in S \ T
        PROVE  DR(r) = q[r]
    <2>1. q[r] \in Row /\ q[r].status = "done"
      BY DEF Live, Queue
    <2> QED
      BY <2>1 DEF DoneRow, Row
  <1>2. Closed(q, S) = [r \in Rows |-> IF r \in S THEN DR(r) ELSE q[r]]
    BY DEF Closed
  <1>3. Closed(q, T) = [r \in Rows |-> IF r \in T THEN DR(r) ELSE q[r]]
    BY DEF Closed
  <1>4. T \subseteq S
    OBVIOUS
  <1> HIDE DEF T, DR
  <1>5. Closed(q, S) = Closed(q, T)
    BY <1>1, <1>2, <1>3, <1>4
  <1> QED
    BY <1>5 DEF T

(* Closing nothing changes nothing. *)
LEMMA NothingClosed ==
    ASSUME NEW q \in Queue
    PROVE  Closed(q, {}) = q
  BY DEF Closed, Queue

(* With one parent row at most, the two copies agree. *)
LEMMA ClosuresAgree ==
    ASSUME NEW q \in Queue, NEW m \in Missions, Part[m] = "CPP1",
           \A r, x \in ParentRows(q, Block[m]) : r = x
    PROVE  DirectClosures(q, m) = Closures(q, m)
  <1> DEFINE b == Block[m]
             C1 == PartRows(q, b, "CPP1")
             C2 == PartRows(q, b, "CPP2")
             p == Closed(q, OpenReviews(q, b))
             both(c) == q[c[1]].status = "done" /\ q[c[2]].status = "done"
             whole == \A r \in ChildRows(q, b) : p[r].status = "done"
             parents == IF whole THEN ParentRows(q, b) ELSE {}
             S == {r \in ParentRows(q, b) : p[r].status # "done"}
             D == IF parents = {} THEN {p} ELSE {Closed(p, {r}) : r \in parents}
             f == ParentFinalized(p, b)
  <1>1. OpenReviews(q, b) \in SUBSET Live(q)
    BY DEF OpenReviews, PartRows, ChildRows
  <1>2. p \in Queue /\ Live(p) = Live(q)
    BY <1>1, ClosedRows
  <1>3. Part[m] \in ChildParts
    BY DEF ChildParts
  <1>4. Closures(q, m) = IF FourChildren(q, b) /\ C1 # {} /\ C2 # {}
                           THEN {IF both(c) THEN f ELSE q : c \in C1 \X C2}
                           ELSE {q}
    BY DEF Closures
  <1>5. DirectClosures(q, m) =
           IF ~ FourChildren(q, b) \/ C1 \X C2 = {} THEN {q}
           ELSE UNION {IF ~ both(c) THEN {q} ELSE D : c \in C1 \X C2}
    BY <1>3 DEF DirectClosures
  <1>6. C1 \X C2 = {} <=> C1 = {} \/ C2 = {}
    <2>1. ASSUME NEW x \in C1, NEW y \in C2
          PROVE  <<x, y>> \in C1 \X C2
      OBVIOUS
    <2>2. ASSUME NEW c \in C1 \X C2
          PROVE  c[1] \in C1 /\ c[2] \in C2
      OBVIOUS
    <2> HIDE DEF C1, C2
    <2> QED
      BY <2>1, <2>2
  <1>7. f = IF whole THEN Closed(p, S) ELSE p
    <2>1. ChildRows(p, b) = ChildRows(q, b) /\ ParentRows(p, b) = ParentRows(q, b)
      BY <1>2, SameRows
    <2> HIDE DEF p
    <2> QED
      BY <2>1 DEF ParentFinalized
  <1>8. ParentRows(q, b) \in SUBSET Live(p)
    BY <1>2 DEF ParentRows, RowsOf
  <1> HIDE DEF p
  <1>9. Closed(p, ParentRows(q, b)) = Closed(p, S)
    BY <1>2, <1>8, ClosedOnce
  <1>10. D = {f}
    <2>1. CASE parents = {}
      <3>1. whole => Closed(p, ParentRows(q, b)) = p
        BY <1>2, <2>1, NothingClosed
      <3> QED
        BY <1>7, <1>9, <2>1, <3>1
    <2>2. CASE parents # {}
      <3>1. whole /\ parents = ParentRows(q, b)
        BY <2>2
      <3>2. PICK r \in ParentRows(q, b) : TRUE
        BY <2>2, <3>1
      <3>3. ParentRows(q, b) = {r}
        BY <3>2
      <3>4. D = {Closed(p, {r})}
        BY <2>2, <3>1, <3>3
      <3> QED
        BY <1>7, <1>9, <3>1, <3>3, <3>4
    <2> QED
      BY <2>1, <2>2
  <1> HIDE DEF D, f, C1, C2, both
  <1>11. UNION {IF ~ both(c) THEN {q} ELSE D : c \in C1 \X C2}
            = {IF both(c) THEN f ELSE q : c \in C1 \X C2}
    BY <1>10
  <1> QED
    BY <1>4, <1>5, <1>6, <1>11

-----------------------------------------------------------------------------
(* Slots. *)

(* A step is looked at for the request that takes it; what is stored       *)
(* matters only if there is no other.                                      *)
LEMMA StepKeepsSerial ==
    ASSUME Inv, SerialInv, NEW i \in Requests, NEW x, Goto(i, x), OwnOK(x),
           Alone => StoreOK(x, queue', sessions', board')
    PROVE  SerialInv'
  <1>1. req' = [req EXCEPT ![i] = x] /\ req \in [Requests -> Slot]
    BY DEF Goto, Inv, TypeOK
  <1>2. ASSUME NEW j \in Requests
        PROVE  OwnOK(req'[j]) /\ (Alone => StoreOK(req'[j], queue', sessions', board'))
    <2>1. CASE j = i
      BY <1>1, <2>1
    <2>2. CASE j # i
      <3>1. req'[j] = req[j] /\ ~ Alone
        BY <1>1, <2>2 DEF Alone
      <3> QED
        BY <3>1 DEF SerialInv
    <2> QED
      BY <2>1, <2>2
  <1> QED
    BY <1>2 DEF SerialInv

(* A free slot promises nothing. *)
LEMMA FinishKeepsSerial ==
    ASSUME Inv, SerialInv, NEW i \in Requests, NEW reply, Finish(i, reply)
    PROVE  SerialInv'
  <1> DEFINE x == [Blank EXCEPT !.reply = reply]
  <1>1. x.pc = "idle" /\ x.op = "none"
    BY DEF Blank
  <1>2. Goto(i, x)
    BY DEF Finish
  <1> HIDE DEF x
  <1>3. OwnOK(x)
    BY <1>1 DEF OwnOK
  <1>4. StoreOK(x, queue', sessions', board')
    BY <1>1 DEF StoreOK, QueueSavePc
  <1> QED
    BY <1>2, <1>3, <1>4, StepKeepsSerial

(* A copy, of any age, and a request that is to save it as a queue, other  *)
(* than an update or a relay, a plan or a new mission.                     *)
LEMMA QueueSaveKeepsSerial ==
    ASSUME Inv, SerialInv, NEW i \in Requests, NEW x, Goto(i, x),
           x.pc \in {"queueSave", "editBoardSave", "editQueueSave"},
           x.op \notin {"update", "relay"},
           Alone => SavesOver(queue', x.q)
    PROVE  SerialInv'
  <1>1. OwnOK(x)
    BY DEF OwnOK
  <1>2. Alone => StoreOK(x, queue', sessions', board')
    BY DEF StoreOK
  <1> QED
    BY <1>1, <1>2, StepKeepsSerial

(* What is loaded is the stored value, or the empty one. *)
LEMMA LoadedIs ==
    ASSUME NEW stored, NEW empty, NEW v \in Loaded(stored, empty)
    PROVE  v \in {stored, empty}
  BY DEF Loaded

(* The copy at hand of a request, if nobody else works. *)
LEMMA CarriedIs ==
    ASSUME SerialInv, NEW i \in Requests, Alone,
           req[i].pc \in {"decide", "unload", "dispatch", "bump", "claim", "bind",
                          "manageBoard", "manage", "plan", "watchAgents"}
    PROVE  req[i].q \in Loaded(queue, EmptyQueue) /\ req[i].q \in {queue, EmptyQueue}
  BY LoadedIs DEF SerialInv, StoreOK

-----------------------------------------------------------------------------
(* The queue route. *)

LEMMA CreateRowsSerial ==
    ASSUME Inv, SerialInv, NEW i \in Requests, CreateRows(i)
    PROVE  SerialInv'
  <1>1. PICK q \in Loaded(queue, EmptyQueue), m \in Missions :
        \E S \in SUBSET {r \in Rows \ minted : MissionOf[r] = m} :
        \E who \in [S -> Asked], agent \in [S -> Agents \cup {None}] :
           Goto(i, [Blank EXCEPT !.pc = "queueSave", !.op = "create",
                                 !.q = Added(q, S, who, agent)])
    BY DEF CreateRows
  <1>2. PICK S \in SUBSET {r \in Rows \ minted : MissionOf[r] = m} :
        \E who \in [S -> Asked], agent \in [S -> Agents \cup {None}] :
           Goto(i, [Blank EXCEPT !.pc = "queueSave", !.op = "create",
                                 !.q = Added(q, S, who, agent)])
    BY <1>1
  <1>3. PICK who \in [S -> Asked], agent \in [S -> Agents \cup {None}] :
           Goto(i, [Blank EXCEPT !.pc = "queueSave", !.op = "create",
                                 !.q = Added(q, S, who, agent)])
    BY <1>2
  <1> DEFINE n == Added(q, S, who, agent)
             x == [Blank EXCEPT !.pc = "queueSave", !.op = "create", !.q = n]
  <1>4. SavesOver(queue, n) /\ queue' = queue
    BY LoadedIs, AddedSaves DEF CreateRows, store
  <1>5. Goto(i, x)
    BY <1>3
  <1> HIDE DEF n
  <1>6. x.pc = "queueSave" /\ x.op = "create" /\ x.q = n
    BY DEF Blank
  <1> HIDE DEF x
  <1> QED
    BY <1>4, <1>5, <1>6, QueueSaveKeepsSerial

LEMMA RemoveRowsSerial ==
    ASSUME Inv, SerialInv, NEW i \in Requests, RemoveRows(i)
    PROVE  SerialInv'
  <1>1. PICK q \in Loaded(queue, EmptyQueue) : \E S :
           Goto(i, [Blank EXCEPT !.pc = "queueSave", !.op = "remove",
                                 !.q = Without(q, S)])
    BY DEF RemoveRows
  <1>2. PICK S :
           Goto(i, [Blank EXCEPT !.pc = "queueSave", !.op = "remove",
                                 !.q = Without(q, S)])
    BY <1>1
  <1> DEFINE n == Without(q, S)
             x == [Blank EXCEPT !.pc = "queueSave", !.op = "remove", !.q = n]
  <1>3. SavesOver(queue, n) /\ queue' = queue
    BY LoadedIs, WithoutSaves DEF RemoveRows, store
  <1>4. Goto(i, x)
    BY <1>2
  <1> HIDE DEF n
  <1>5. x.pc = "queueSave" /\ x.op = "remove" /\ x.q = n
    BY DEF Blank
  <1> HIDE DEF x
  <1> QED
    BY <1>3, <1>4, <1>5, QueueSaveKeepsSerial

LEMMA UpdateStatusSerial ==
    ASSUME Inv, SerialInv, NEW i \in Requests, UpdateStatus(i)
    PROVE  SerialInv'
  <1>1. PICK q \in Loaded(queue, EmptyQueue), r \in Rows :
          \/ Goto(i, [Blank EXCEPT !.pc = "decide", !.op = "update", !.row = r, !.q = q])
          \/ Finish(i, "refused")
    BY DEF UpdateStatus
  <1> DEFINE x == [Blank EXCEPT !.pc = "decide", !.op = "update", !.row = r, !.q = q]
  <1>2. CASE Goto(i, x)
    <2>1. x.pc = "decide" /\ x.op = "update" /\ x.q = q /\ x.reply = "none"
      BY DEF Blank
    <2>2. q \in Loaded(queue, EmptyQueue) /\ queue' = queue
      BY DEF UpdateStatus, store
    <2> HIDE DEF x
    <2>3. OwnOK(x)
      BY <2>1 DEF OwnOK, UpdatePc
    <2>4. StoreOK(x, queue', sessions', board')
      BY <2>1, <2>2 DEF StoreOK, QueueSavePc
    <2> QED
      BY <1>2, <2>3, <2>4, StepKeepsSerial
  <1>3. CASE Finish(i, "refused")
    BY <1>3, FinishKeepsSerial
  <1> QED
    BY <1>1, <1>2, <1>3

(* Committing a row that runs with the work it had, or starts in a session *)
(* bound to it, or is done out of progress.                                *)
LEMMA CommitKeepsSerial ==
    ASSUME Inv, SerialInv, NEW i \in Requests,
           req[i].pc \in {"decide", "unload", "dispatch", "bump", "claim", "bind"},
           NEW row \in Row, Commit(i, row), queue' = queue,
           row.status = "in_progress" =>
              IF Current(i).status = "in_progress"
                THEN SameWork(Current(i), row)
                ELSE Alone => BoundIn(sessions', req[i].row, row.session),
           row.status = "done" => Current(i).status = "in_progress"
    PROVE  SerialInv'
  <1> DEFINE r == req[i].row
             w == With(req[i].q, r, row)
             m == MissionOf[r]
             pc == IF row.status = "done" THEN "boardLoad" ELSE "queueSave"
  <1>1. PICK n \in Closures(w, m) :
           Goto(i, [Blank EXCEPT !.op = "update", !.row = r, !.q = n, !.pc = pc])
    BY DEF Commit
  <1> DEFINE x == [Blank EXCEPT !.op = "update", !.row = r, !.q = n, !.pc = pc]
  <1>2. /\ Goto(i, x) /\ x.op = "update" /\ x.row = r /\ x.q = n /\ x.reply = "none"
        /\ x.pc \in {"boardLoad", "queueSave"}
    BY <1>1 DEF Blank
  <1>3. /\ req[i].q \in Queue /\ r \in Rows /\ r \in Live(req[i].q)
        /\ Current(i) = req[i].q[r] /\ Current(i) \in Row
    BY CurrentOK DEF QueueOK, Current
  <1>4. m \in Missions
    BY <1>3, QueueAssumption
  <1>5. /\ w \in Queue
        /\ w[r] = row /\ \A y \in Rows \ {r} : w[y] = req[i].q[y]
    BY <1>3 DEF With, Queue
  <1> HIDE DEF x, w, m, pc
  <1>6. /\ n \in Queue /\ Live(n) = Live(w)
        /\ \A y \in Live(w) : \/ n[y] = w[y]
                              \/ /\ n[y].status = "done"
                                 /\ BlocksAreFlat => ClosedWhole(n, y)
    BY <1>1, <1>4, <1>5, ClosureRows
  <1>7. OwnOK(x)
    <2>1. MpbClosed(n, Block[m])
      BY <1>1, <1>4, <1>5, ClosuresClose
    <2> QED
      BY <1>2, <2>1 DEF OwnOK, UpdatePc, m
  <1>8. ASSUME Alone
        PROVE  StoreOK(x, queue, sessions', board')
    <2>1. req[i].q = queue
      BY <1>3, <1>8, CarriedIs, EmptyHasNoRows
    <2>2. ASSUME NEW y \in Live(n)
          PROVE  RowSaves(queue, queue, n, y)
      <3>1. CASE n[y] # w[y]
        BY <1>6, <3>1 DEF RowSaves, Earned
      <3>2. CASE n[y] = w[y] /\ y = r
        <4>1. n[y] = row /\ queue[y] = Current(i) /\ y \in Live(queue)
          BY <1>3, <1>5, <2>1, <3>2
        <4>2. CASE row.status = "in_progress"
          BY <4>1, <4>2 DEF RowSaves, Running
        <4>3. CASE row.status = "done"
          <5>1. y \in Running(queue)
            BY <4>1, <4>3 DEF Running
          <5> QED
            BY <4>1, <4>3, <5>1 DEF RowSaves, Earned
        <4>4. CASE row.status \notin {"in_progress", "done"}
          BY <4>1, <4>4 DEF RowSaves
        <4> QED
          BY <4>2, <4>3, <4>4
      <3>3. CASE n[y] = w[y] /\ y # r
        <4>1. n[y] = queue[y] /\ y \in Live(queue)
          BY <1>5, <1>6, <2>1, <3>3 DEF Live
        <4> QED
          BY <4>1 DEF RowSaves, SameWork
      <3> QED
        BY <3>1, <3>2, <3>3
    <2>3. SavesOver(queue, n)
      BY <2>2, RowsSave
    <2>4. ASSUME r \in Running(n) \ Running(queue)
          PROVE  BoundIn(sessions', r, n[r].session)
      <3>1. n[r] = row /\ row.status = "in_progress" /\ queue[r] = Current(i)
        BY <1>3, <1>5, <1>6, <2>1, <2>4 DEF Running
      <3>2. Current(i).status # "in_progress"
        BY <1>3, <2>1, <2>4, <3>1 DEF Running
      <3> QED
        BY <1>8, <3>1, <3>2
    <2> QED
      BY <1>2, <2>3, <2>4 DEF StoreOK
  <1> QED
    BY <1>2, <1>7, <1>8, StepKeepsSerial

(* Whoever loads the registry stores nothing. *)
LEMMA AgentsLoadedIs ==
    ASSUME NEW i \in Requests, NEW g, NEW up, AgentsLoaded(i, g, up)
    PROVE  /\ req[i].pc = "decide" /\ queue' = queue
           /\ sessions' = sessions /\ board' = board
  BY DEF AgentsLoaded, At, store

LEMMA DecideGateSerial ==
    ASSUME Inv, SerialInv, NEW i \in Requests, DecideGate(i)
    PROVE  SerialInv'
  <1> DEFINE row == Current(i)
  <1>1. PICK g \in Loaded(agents, EmptyRegistry) : \E up \in SUBSET Registered(g) :
           /\ AgentsLoaded(i, g, up)
           /\ \/ Commit(i, FallbackRow(row))
              \/ \E who \in Asked \ {"STAFF"}, agent \in Agents \cup {None} :
                    Commit(i, BoundRow(row, who, agent))
              \/ Finish(i, "refused")
    BY DEF DecideGate
  <1>2. req[i].pc = "decide" /\ queue' = queue
    BY <1>1, AgentsLoadedIs
  <1>3. row \in Row /\ RowOK(req[i].row, row, jobs) /\ req[i].row \in Rows
    BY <1>2, CurrentOK
  <1>4. CASE Commit(i, FallbackRow(row))
    <2>1. FallbackRow(row) \in Row
      BY <1>3, FallbackRowOK
    <2>2. FallbackRow(row).status = "open"
      BY <1>3 DEF FallbackRow, Row
    <2> QED
      BY <1>2, <1>4, <2>1, <2>2, CommitKeepsSerial
  <1>5. ASSUME NEW who \in Asked, NEW agent \in Agents \cup {None},
               Commit(i, BoundRow(row, who, agent))
        PROVE  SerialInv'
    <2>1. BoundRow(row, who, agent) \in Row
      BY <1>3, StoreAssumption, BoundRowOK
    <2>2. BoundRow(row, who, agent).status = "open"
      BY <1>3 DEF BoundRow, Row
    <2> QED
      BY <1>2, <1>5, <2>1, <2>2, CommitKeepsSerial
  <1> QED
    BY <1>1, <1>4, <1>5, FinishKeepsSerial

LEMMA DecideSyncSerial ==
    ASSUME Inv, SerialInv, NEW i \in Requests, DecideSync(i)
    PROVE  SerialInv'
  <1> DEFINE row == Current(i)
  <1>1. PICK g \in Loaded(agents, EmptyRegistry) : \E up \in SUBSET Registered(g) :
           /\ AgentsLoaded(i, g, up)
           /\ row.status = "in_progress"
           /\ Commit(i, SyncedRow(row)) \/ Finish(i, "refused")
    BY DEF DecideSync
  <1>2. req[i].pc = "decide" /\ queue' = queue /\ row.status = "in_progress"
    BY <1>1, AgentsLoadedIs
  <1>3. row \in Row /\ RowOK(req[i].row, row, jobs) /\ req[i].row \in Rows
    BY <1>2, CurrentOK
  <1>4. CASE Commit(i, SyncedRow(row))
    <2>1. SyncedRow(row) \in Row
      BY <1>3, SyncedRowOK
    <2>2. SyncedRow(row).status = "in_progress" /\ SameWork(row, SyncedRow(row))
      BY <1>2, <1>3 DEF SyncedRow, Row, SameWork
    <2> QED
      BY <1>2, <1>4, <2>1, <2>2, CommitKeepsSerial
  <1> QED
    BY <1>1, <1>4, FinishKeepsSerial

(* A start goes on with the copy it has; the row does not run in it.       *)
LEMMA DecideStartSerial ==
    ASSUME Inv, SerialInv, NEW i \in Requests, DecideStart(i)
    PROVE  SerialInv'
  <1>1. PICK g \in Loaded(agents, EmptyRegistry) : \E up \in SUBSET Registered(g) :
           /\ AgentsLoaded(i, g, up)
           /\ Current(i).status # "in_progress"
           /\ \/ \E a : Goto(i, [req[i] EXCEPT !.pc = "dispatch", !.g = g, !.agent = a])
              \/ Finish(i, "refused")
    BY DEF DecideStart
  <1>2. /\ req[i].pc = "decide" /\ queue' = queue
        /\ Current(i).status # "in_progress"
    BY <1>1, AgentsLoadedIs
  <1>3. ASSUME NEW a, Goto(i, [req[i] EXCEPT !.pc = "dispatch", !.g = g, !.agent = a])
        PROVE  SerialInv'
    <2> DEFINE x == [req[i] EXCEPT !.pc = "dispatch", !.g = g, !.agent = a]
    <2>1. req[i] \in Slot
      BY DEF Inv, SlotOK
    <2>2. /\ x.pc = "dispatch" /\ x.op = req[i].op /\ x.q = req[i].q
          /\ x.row = req[i].row /\ x.reply = req[i].reply
      BY <2>1 DEF Slot
    <2>3. Goto(i, x)
      BY <1>3
    <2> HIDE DEF x
    <2>4. OwnOK(req[i])
      BY DEF SerialInv
    <2>5. OwnOK(x)
      BY <1>2, <2>2, <2>4 DEF OwnOK, UpdatePc, RelayPc, Current
    <2>6. Alone => StoreOK(x, queue', sessions', board')
      <3>1. x.op # "relay"
        BY <1>2, <2>2, <2>4 DEF OwnOK, RelayPc
      <3> QED
        BY <1>2, <2>2, <3>1, CarriedIs DEF StoreOK, QueueSavePc, Current
    <2> QED
      BY <2>3, <2>5, <2>6, StepKeepsSerial
  <1> QED
    BY <1>1, <1>3, FinishKeepsSerial

LEMMA DecideMoveSerial ==
    ASSUME Inv, SerialInv, NEW i \in Requests, DecideMove(i)
    PROVE  SerialInv'
  <1>1. PICK g \in Loaded(agents, EmptyRegistry), next \in QueueStatus \ {"in_progress"} :
           /\ AgentsLoaded(i, g, {})
           /\ \/ \E released : Goto(i, [req[i] EXCEPT !.pc = "unload", !.g = released,
                                                      !.status = next])
              \/ next # "done" /\ Commit(i, MovedRow(Current(i), next))
              \/ Finish(i, "refused")
    BY DEF DecideMove
  <1>2. req[i].pc = "decide" /\ queue' = queue
    BY <1>1, AgentsLoadedIs
  <1>3. ASSUME NEW released,
               Goto(i, [req[i] EXCEPT !.pc = "unload", !.g = released, !.status = next])
        PROVE  SerialInv'
    <2> DEFINE x == [req[i] EXCEPT !.pc = "unload", !.g = released, !.status = next]
    <2>1. req[i] \in Slot
      BY DEF Inv, SlotOK
    <2>2. x.pc = "unload" /\ x.op = req[i].op /\ x.q = req[i].q /\ x.reply = req[i].reply
      BY <2>1 DEF Slot
    <2>3. Goto(i, x)
      BY <1>3
    <2> HIDE DEF x
    <2>4. OwnOK(req[i])
      BY DEF SerialInv
    <2>5. OwnOK(x) /\ x.op # "relay"
      BY <1>2, <2>2, <2>4 DEF OwnOK, UpdatePc, RelayPc
    <2>6. Alone => StoreOK(x, queue', sessions', board')
      BY <1>2, <2>2, <2>5, CarriedIs DEF StoreOK, QueueSavePc
    <2> QED
      BY <2>3, <2>5, <2>6, StepKeepsSerial
  <1>4. CASE next # "done" /\ Commit(i, MovedRow(Current(i), next))
    <2>1. Current(i) \in Row /\ RowOK(req[i].row, Current(i), jobs) /\ req[i].row \in Rows
      BY <1>2, CurrentOK
    <2>2. MovedRow(Current(i), next) \in Row
      BY <1>4, <2>1, MovedRowOK
    <2>3. MovedRow(Current(i), next).status = next
      BY <2>1 DEF MovedRow, Row
    <2> QED
      BY <1>2, <1>4, <2>2, <2>3, CommitKeepsSerial
  <1> QED
    BY <1>1, <1>3, <1>4, FinishKeepsSerial

LEMMA SaveUnloadSerial ==
    ASSUME Inv, SerialInv, NEW i \in Requests, SaveUnload(i)
    PROVE  SerialInv'
  <1>1. req[i].pc = "unload" /\ queue' = queue
    BY DEF SaveUnload, At
  <1>2. Current(i) \in Row /\ RowOK(req[i].row, Current(i), jobs) /\ req[i].row \in Rows
    BY <1>1, CurrentOK
  <1>3. req[i].status \in QueueStatus \ {"in_progress"}
    BY <1>1 DEF Inv, SlotOK
  <1>4. \/ req[i].status # "done" /\ Commit(i, MovedRow(Current(i), req[i].status))
        \/ Current(i).status = "in_progress" /\ Commit(i, DoneRow(Current(i)))
        \/ Finish(i, "refused")
    BY DEF SaveUnload, ValidTransition
  <1>5. CASE req[i].status # "done" /\ Commit(i, MovedRow(Current(i), req[i].status))
    <2>1. MovedRow(Current(i), req[i].status) \in Row
      BY <1>2, <1>3, <1>5, MovedRowOK
    <2>2. MovedRow(Current(i), req[i].status).status = req[i].status
      BY <1>2 DEF MovedRow, Row
    <2> QED
      BY <1>1, <1>3, <1>5, <2>1, <2>2, CommitKeepsSerial
  <1>6. CASE Current(i).status = "in_progress" /\ Commit(i, DoneRow(Current(i)))
    <2>1. DoneRow(Current(i)) \in Row
      BY <1>2 DEF DoneRow, Row, QueueStatus
    <2>2. DoneRow(Current(i)).status = "done"
      BY <1>2 DEF DoneRow, Row
    <2> QED
      BY <1>1, <1>6, <2>1, <2>2, CommitKeepsSerial
  <1> QED
    BY <1>4, <1>5, <1>6, FinishKeepsSerial

(* A done is written to the board, the queue to save goes along.           *)
LEMMA LoadBoardSerial ==
    ASSUME Inv, SerialInv, NEW i \in Requests, LoadBoard(i)
    PROVE  SerialInv'
  <1>1. PICK b : Goto(i, [req[i] EXCEPT !.pc = "boardSave", !.b = b])
    BY DEF LoadBoard
  <1>2. req[i].pc = "boardLoad" /\ queue' = queue /\ sessions' = sessions
    BY DEF LoadBoard, At, store
  <1> DEFINE x == [req[i] EXCEPT !.pc = "boardSave", !.b = b]
  <1>3. req[i] \in Slot /\ OwnOK(req[i])
    BY DEF Inv, SlotOK, SerialInv
  <1>4. /\ x.pc = "boardSave" /\ x.op = req[i].op /\ x.q = req[i].q
        /\ x.row = req[i].row /\ x.reply = req[i].reply
    BY <1>3 DEF Slot
  <1>5. Goto(i, x)
    BY <1>1
  <1> HIDE DEF x
  <1>6. OwnOK(x) /\ x.op # "relay"
    BY <1>2, <1>3, <1>4 DEF OwnOK, UpdatePc, RelayPc
  <1>7. Alone => StoreOK(req[i], queue, sessions, board)
    BY DEF SerialInv
  <1>8. Alone => StoreOK(x, queue', sessions', board')
    BY <1>2, <1>4, <1>6, <1>7 DEF StoreOK, QueueSavePc
  <1> QED
    BY <1>5, <1>6, <1>8, StepKeepsSerial

LEMMA SaveBoardSerial ==
    ASSUME Inv, SerialInv, NEW i \in Requests, SaveBoard(i)
    PROVE  SerialInv'
  <1> DEFINE x == [req[i] EXCEPT !.pc = "queueSave", !.b = {}]
  <1>2. /\ req[i].pc = "boardSave" /\ queue' = queue /\ sessions' = sessions
        /\ Goto(i, x)
    BY DEF SaveBoard, At
  <1>3. req[i] \in Slot /\ OwnOK(req[i])
    BY DEF Inv, SlotOK, SerialInv
  <1>4. /\ x.pc = "queueSave" /\ x.op = req[i].op /\ x.q = req[i].q
        /\ x.row = req[i].row /\ x.reply = req[i].reply
    BY <1>3 DEF Slot
  <1> HIDE DEF x
  <1>6. OwnOK(x) /\ x.op # "relay"
    BY <1>2, <1>3, <1>4 DEF OwnOK, UpdatePc, RelayPc
  <1>7. Alone => StoreOK(req[i], queue, sessions, board)
    BY DEF SerialInv
  <1>8. Alone => StoreOK(x, queue', sessions', board')
    BY <1>2, <1>4, <1>6, <1>7 DEF StoreOK, QueueSavePc
  <1> QED
    BY <1>2, <1>6, <1>8, StepKeepsSerial

(* From the dispatch on to the claim, the copy and the row stay. *)
LEMMA StartGoesOn ==
    ASSUME Inv, SerialInv, NEW i \in Requests, NEW x, Goto(i, x),
           req[i].pc \in {"dispatch", "bump"}, x.pc \in {"bump", "claim"},
           x.op = req[i].op, x.q = req[i].q, x.row = req[i].row, x.reply = req[i].reply,
           queue' = queue
    PROVE  SerialInv'
  <1>1. OwnOK(req[i])
    BY DEF SerialInv
  <1>2. OwnOK(x) /\ x.op # "relay"
    BY <1>1 DEF OwnOK, UpdatePc, RelayPc
  <1>3. Alone => StoreOK(req[i], queue, sessions, board)
    BY DEF SerialInv
  <1>4. Alone => StoreOK(x, queue', sessions', board')
    BY <1>2, <1>3 DEF StoreOK, QueueSavePc
  <1> QED
    BY <1>2, <1>4, StepKeepsSerial

LEMMA DispatchSerial ==
    ASSUME Inv, SerialInv, NEW i \in Requests, Dispatch(i)
    PROVE  SerialInv'
  <1>1. req[i].pc = "dispatch" /\ queue' = queue /\ req[i] \in Slot
    BY DEF Dispatch, At, store, Inv, SlotOK
  <1>2. \/ \E j : Goto(i, [req[i] EXCEPT
                              !.pc = IF req[i].agent = None THEN "claim" ELSE "bump",
                              !.job = j])
        \/ Finish(i, "refused")
    BY DEF Dispatch
  <1>3. ASSUME NEW j, Goto(i, [req[i] EXCEPT
                              !.pc = IF req[i].agent = None THEN "claim" ELSE "bump",
                              !.job = j])
        PROVE  SerialInv'
    <2> DEFINE x == [req[i] EXCEPT
                       !.pc = IF req[i].agent = None THEN "claim" ELSE "bump", !.job = j]
    <2>1. /\ x.pc \in {"bump", "claim"} /\ x.op = req[i].op /\ x.q = req[i].q
          /\ x.row = req[i].row /\ x.reply = req[i].reply
      BY <1>1 DEF Slot
    <2>2. Goto(i, x)
      BY <1>3
    <2> HIDE DEF x
    <2> QED
      BY <1>1, <2>1, <2>2, StartGoesOn
  <1> QED
    BY <1>2, <1>3, FinishKeepsSerial

LEMMA SaveBumpSerial ==
    ASSUME Inv, SerialInv, NEW i \in Requests, SaveBump(i)
    PROVE  SerialInv'
  <1> DEFINE x == [req[i] EXCEPT !.pc = "claim", !.g = EmptyRegistry, !.agent = None]
  <1>1. req[i].pc = "bump" /\ queue' = queue /\ req[i] \in Slot /\ Goto(i, x)
    BY DEF SaveBump, At, Inv, SlotOK
  <1>2. /\ x.pc = "claim" /\ x.op = req[i].op /\ x.q = req[i].q
        /\ x.row = req[i].row /\ x.reply = req[i].reply
    BY <1>1 DEF Slot
  <1> HIDE DEF x
  <1> QED
    BY <1>1, <1>2, StartGoesOn

-----------------------------------------------------------------------------
(* Tables that may be saved. *)

(* A table changed at one session, which worked on nothing, on the same    *)
(* mission, is freed, or speaks for itself.                                *)
LEMMA SetTakesNone ==
    ASSUME NEW t, TableOK(t), NEW base \in {t, EmptySessions}, NEW s \in Sessions,
           NEW x, NEW op,
           \/ x.mission = None
           \/ s \in Known(base) /\ base[s].mission \in {None, x.mission}
           \/ op \in {"start", "event"}
    PROVE  TakesNone(t, Set(base, s, x), op, s)
  <1> DEFINE u == Set(base, s, x)
  <1>1. base \in SessionTable /\ Known(EmptySessions) = {}
    BY DEF TableOK, EmptySessions, SessionTable, Known
  <1>2. u[s] = x /\ \A y \in Sessions \ {s} : u[y] = base[y]
    BY <1>1 DEF Set, SessionTable
  <1>3. ASSUME NEW y \in Known(t) \cap Known(u), t[y].mission # None,
               u[y].mission # None, u[y].mission # t[y].mission
        PROVE  op \in {"start", "event"} /\ s = y
    <2>1. CASE y = s
      <3>1. ~ (s \in Known(base) /\ base[s].mission \in {None, x.mission})
        <4>1. CASE base = t
          BY <1>2, <1>3, <2>1, <4>1
        <4>2. CASE base = EmptySessions
          BY <1>1, <4>2
        <4> QED
          BY <4>1, <4>2
      <3> QED
        BY <1>2, <1>3, <2>1, <3>1
    <2>2. CASE y # s
      <3>1. u[y] = base[y] /\ y \in Known(base)
        BY <1>2, <2>2 DEF Known
      <3>2. base = t
        BY <1>1, <3>1
      <3> QED
        BY <1>3, <3>1, <3>2
    <2> QED
      BY <2>1, <2>2
  <1> SUFFICES TakesNone(t, u, op, s)
    OBVIOUS
  <1> HIDE DEF u
  <1> QED
    BY <1>3 DEF TakesNone

(* A start claims a session that is free or works on the mission already.  *)
LEMMA ClaimSessionSerial ==
    ASSUME Inv, SerialInv, NEW i \in Requests, ClaimSession(i)
    PROVE  SerialInv'
  <1>1. PICK t \in Loaded(sessions, EmptySessions) :
           \/ Finish(i, "refused")
           \/ \E s \in StartSessions(t, req[i].row, Current(i)) :
                 Goto(i, [req[i] EXCEPT
                            !.pc = "bind", !.session = s, !.g = EmptyRegistry,
                            !.t = Set(t, s, SessionOn(MissionOf[req[i].row], "busy"))])
    BY DEF ClaimSession
  <1>2. /\ req[i].pc = "claim" /\ queue' = queue /\ sessions' = sessions
        /\ req[i] \in Slot /\ OwnOK(req[i]) /\ TableOK(sessions)
    BY DEF ClaimSession, At, store, Inv, SlotOK, SerialInv
  <1>3. ASSUME NEW s \in StartSessions(t, req[i].row, Current(i)),
               Goto(i, [req[i] EXCEPT
                          !.pc = "bind", !.session = s, !.g = EmptyRegistry,
                          !.t = Set(t, s, SessionOn(MissionOf[req[i].row], "busy"))])
        PROVE  SerialInv'
    <2> DEFINE on == SessionOn(MissionOf[req[i].row], "busy")
               u == Set(t, s, on)
               x == [req[i] EXCEPT !.pc = "bind", !.session = s, !.g = EmptyRegistry, !.t = u]
    <2>1. s \in Known(t) /\ t[s].mission \in {None, MissionOf[req[i].row]} /\ s \in Sessions
      BY DEF StartSessions, MissionBound, Claimable, Known
    <2>2. on.mission = MissionOf[req[i].row]
      BY DEF SessionOn
    <2>3. t \in {sessions, EmptySessions}
      BY LoadedIs
    <2> HIDE DEF on
    <2>4. TakesNone(sessions, u, req[i].op, s)
      BY <1>2, <2>1, <2>2, <2>3, SetTakesNone
    <2>5. BoundIn(u, req[i].row, s)
      <3>1. TableOK(t)
        BY LoadedOK
      <3>2. u[s] = on
        BY <2>1, <3>1 DEF Set, TableOK, SessionTable
      <3>3. on # None
        <4>1. req[i].row \in Rows
          BY <1>2, CurrentOK
        <4>2. on \in Session
          BY <4>1, QueueAssumption DEF on, SessionOn, Session, SessionStatus
        <4> QED
          BY <4>2, SessionAssumption
      <3> QED
        BY <2>1, <3>2, <3>3 DEF BoundIn, Known, on
    <2> HIDE DEF u
    <2>6. /\ x.pc = "bind" /\ x.op = req[i].op /\ x.q = req[i].q /\ x.t = u
          /\ x.row = req[i].row /\ x.reply = req[i].reply /\ x.session = s
      BY <1>2 DEF Slot
    <2>7. Goto(i, x)
      BY <1>3 DEF u, on
    <2> HIDE DEF x
    <2>8. OwnOK(x) /\ x.op # "relay"
      BY <1>2, <2>6 DEF OwnOK, UpdatePc, RelayPc
    <2>9. Alone => StoreOK(req[i], queue, sessions, board)
      BY DEF SerialInv
    <2>10. Alone => StoreOK(x, queue', sessions', board')
      BY <1>2, <2>4, <2>5, <2>6, <2>8, <2>9 DEF StoreOK, QueueSavePc
    <2> QED
      BY <2>7, <2>8, <2>10, StepKeepsSerial
  <1> QED
    BY <1>1, <1>3, FinishKeepsSerial

(* The row starts only once its session is stored. *)
LEMMA BindSessionSerial ==
    ASSUME Inv, SerialInv, NEW i \in Requests, BindSession(i)
    PROVE  SerialInv'
  <1> DEFINE row == StartedRow(Current(i), req[i].job, req[i].session,
                               SessionAgent[req[i].session])
  <1>1. PICK result \in SaveResults :
           /\ sessions' = Stored(result, sessions, req[i].t)
           /\ IF result = "ok" THEN Commit(i, row) ELSE Finish(i, "failed")
    BY DEF BindSession
  <1>2. req[i].pc = "bind" /\ queue' = queue
    BY DEF BindSession, At
  <1>3. CASE result = "ok"
    <2>1. sessions' = req[i].t /\ Commit(i, row)
      BY <1>1, <1>3 DEF Stored
    <2>2. Current(i) \in Row /\ req[i].row \in Rows
      BY <1>2, CurrentOK
    <2>3. req[i].session \in Sessions /\ req[i].job \in Jobs /\ <<req[i].row, req[i].job>> \in jobs
      BY <1>2 DEF Inv, SlotOK
    <2>4. SessionAgent[req[i].session] \in Agents
      BY <2>3, SessionAssumption
    <2>5. row \in Row
      BY <2>2, <2>3, <2>4, StartedRowOK
    <2>6. row.status = "in_progress" /\ row.session = req[i].session
      BY <2>2 DEF StartedRow, Row
    <2>7. /\ Current(i).status # "in_progress"
          /\ Alone => BoundIn(req[i].t, req[i].row, req[i].session)
      BY <1>2 DEF SerialInv, OwnOK, StoreOK, Current
    <2> HIDE DEF row
    <2> QED
      BY <1>2, <2>1, <2>5, <2>6, <2>7, CommitKeepsSerial
  <1>4. CASE result # "ok"
    BY <1>1, <1>4, FinishKeepsSerial
  <1> QED
    BY <1>3, <1>4

(* The steps a request ends with, whatever they save. *)
LEMMA LastStepsSerial ==
    ASSUME Inv, SerialInv, NEW i \in Requests,
           \/ SaveQueue(i)    \/ SaveSessions(i) \/ SaveAgents(i)      \/ SaveGroup(i)
           \/ SavePlan(i)     \/ RefuseManaged(i) \/ SaveEditedQueue(i)
           \/ SaveMissionBoard(i) \/ RelayAgentsSave(i) \/ Crash(i)
    PROVE  SerialInv'
  <1>1. \E reply : Finish(i, reply)
    BY DEF SaveQueue, SaveSessions, SaveAgents, SaveGroup, SavePlan, RefuseManaged,
           SaveEditedQueue, SaveMissionBoard, RelayAgentsSave, Crash
  <1> QED
    BY <1>1, FinishKeepsSerial

LEMMA QueueRouteSerial ==
    ASSUME Inv, SerialInv, NEW i \in Requests, QueueNext(i)
    PROVE  SerialInv'
  BY CreateRowsSerial, RemoveRowsSerial, LastStepsSerial, UpdateStatusSerial,
     DecideGateSerial, DecideSyncSerial, DecideStartSerial, DecideMoveSerial,
     SaveUnloadSerial, LoadBoardSerial, SaveBoardSerial, DispatchSerial,
     SaveBumpSerial, ClaimSessionSerial, BindSessionSerial
  DEF QueueNext

-----------------------------------------------------------------------------
(* The relay route. *)

(* A relay of a running row names the job the row has, or none.            *)
LEMMA RelayedSaves ==
    ASSUME NEW q, QueueOK(q, jobs), NEW base \in {q, EmptyQueue}, NEW r \in Live(base),
           NEW next \in QueueStatus, NEW job \in Jobs \cup {None}, NEW complete \in BOOLEAN,
           RelayAllowed(base[r], next, job, complete), jobs \subseteq Rows \X Jobs
    PROVE  LET n == With(base, r, RelayedRow(base[r], next, job))
           IN  /\ SavesOver(q, n)
               /\ r \in Live(n) /\ n[r].status = next
  <1> DEFINE y == RelayedRow(base[r], next, job)
             n == With(base, r, y)
  <1>1. base = q /\ r \in Rows /\ base[r] \in Row /\ RowOK(r, base[r], jobs) /\ base \in Queue
    BY EmptyHasNoRows, LiveRow DEF QueueOK
  <1>2. /\ y.status = next /\ y.session = base[r].session
        /\ y.assignee = base[r].assignee
        /\ y.job = IF job = None THEN base[r].job ELSE job
        /\ y \in Row
    BY <1>1 DEF RelayedRow, Row
  <1>3. y # None
    BY <1>2, QueueAssumption
  <1> HIDE DEF y
  <1>4. n[r] = y /\ \A z \in Rows \ {r} : n[z] = base[z]
    BY <1>1 DEF With, Queue
  <1>5. r \in Live(n)
    BY <1>1, <1>3, <1>4 DEF Live
  <1> HIDE DEF n
  <1>6. ASSUME NEW z \in Live(n)
        PROVE  RowSaves(q, base, n, z)
    <2>1. CASE z # r
      <3>1. n[z] = base[z] /\ z \in Live(base)
        BY <1>4, <2>1 DEF Live
      <3> QED
        BY <3>1 DEF RowSaves, SameWork
    <2>2. CASE z = r /\ next = "in_progress"
      <3>1. ASSUME base[r].status = "in_progress"
            PROVE  y.job = base[r].job
        <4>1. <<r, base[r].job>> \in jobs
          BY <1>1, <3>1 DEF RowOK
        <4>2. base[r].job # None
          BY <4>1, QueueAssumption
        <4> QED
          BY <1>2, <4>2 DEF RelayAllowed
      <3> QED
        BY <1>2, <1>4, <2>2, <3>1 DEF RowSaves, SameWork
    <2>3. CASE z = r /\ next = "done"
      <3>1. r \in Running(base)
        BY <2>3 DEF RelayAllowed, ValidTransition, Running
      <3> QED
        BY <1>2, <1>4, <2>3, <3>1 DEF RowSaves, Earned
    <2>4. CASE z = r /\ next \notin {"in_progress", "done"}
      BY <1>2, <1>4, <2>4 DEF RowSaves
    <2> QED
      BY <2>1, <2>2, <2>3, <2>4
  <1>7. SavesOver(q, n)
    BY <1>6, RowsSave
  <1> SUFFICES SavesOver(q, n) /\ r \in Live(n) /\ n[r].status = next
    BY DEF n, y
  <1> QED
    BY <1>2, <1>4, <1>5, <1>7

LEMMA RelaySerial ==
    ASSUME Inv, SerialInv, NEW i \in Requests, Relay(i)
    PROVE  SerialInv'
  <1>1. PICK q \in Loaded(queue, EmptyQueue), r \in Rows, next \in QueueStatus,
             job \in {None} \cup {j \in Jobs : \E x \in Rows : <<x, j>> \in jobs},
             complete, release \in BOOLEAN :
          IF r \in Live(q) /\ RelayAllowed(q[r], next, job, complete)
            THEN Goto(i, [Blank EXCEPT
                            !.pc = "relayQueue", !.op = "relay",
                            !.row = r, !.status = next,
                            !.q = With(q, r, RelayedRow(q[r], next, job)),
                            !.old = IF release /\ q[r].status = "in_progress"
                                               /\ next # "in_progress"
                                      THEN q[r] ELSE None])
            ELSE Finish(i, "refused")
    BY DEF Relay
  <1>2. CASE r \in Live(q) /\ RelayAllowed(q[r], next, job, complete)
    <2> DEFINE n == With(q, r, RelayedRow(q[r], next, job))
               old == IF release /\ q[r].status = "in_progress" /\ next # "in_progress"
                        THEN q[r] ELSE None
               x == [Blank EXCEPT !.pc = "relayQueue", !.op = "relay", !.row = r,
                                  !.status = next, !.q = n, !.old = old]
    <2>1. /\ q \in {queue, EmptyQueue} /\ QueueOK(queue, jobs)
          /\ jobs \subseteq Rows \X Jobs /\ queue' = queue
      BY LoadedIs DEF Inv, TypeOK, Relay, store
    <2>2. SavesOver(queue, n) /\ r \in Live(n) /\ n[r].status = next
      BY <1>2, <2>1, RelayedSaves
    <2>3. Goto(i, x)
      BY <1>1, <1>2
    <2> HIDE DEF n, old
    <2>4. /\ x.pc = "relayQueue" /\ x.op = "relay" /\ x.row = r /\ x.status = next
          /\ x.q = n /\ x.reply = "none"
      BY DEF Blank
    <2> HIDE DEF x
    <2>5. OwnOK(x)
      BY <2>4 DEF OwnOK, RelayPc
    <2>6. StoreOK(x, queue', sessions', board')
      BY <2>1, <2>2, <2>4 DEF StoreOK, RelayOK
    <2> QED
      BY <2>3, <2>5, <2>6, StepKeepsSerial
  <1>3. CASE ~ (r \in Live(q) /\ RelayAllowed(q[r], next, job, complete))
    BY <1>1, <1>3, FinishKeepsSerial
  <1> QED
    BY <1>2, <1>3

(* A relay goes on past its saved queue: a done is found there, and, past  *)
(* the saved board, on the board.                                          *)
LEMMA RelayGoesOn ==
    ASSUME Inv, SerialInv, NEW i \in Requests, NEW x, Goto(i, x),
           req[i].pc \in RelayPc, x.pc \in RelayPc \ {"relayQueue"},
           x.op = req[i].op, x.row = req[i].row, x.status = req[i].status,
           x.reply = req[i].reply,
           Alone /\ x.op = "relay" /\ x.status = "done" => RelayOK(x, queue', board')
    PROVE  SerialInv'
  <1>1. OwnOK(req[i])
    BY DEF SerialInv
  <1>2. OwnOK(x) /\ x.op # "update"
    BY <1>1 DEF OwnOK, UpdatePc, RelayPc
  <1>3. Alone => StoreOK(x, queue', sessions', board')
    BY <1>2 DEF StoreOK, QueueSavePc, RelayPc
  <1> QED
    BY <1>2, <1>3, StepKeepsSerial

(* What follows a saved queue, and a saved board. *)
LEMMA ReleaseOrFinishSerial ==
    ASSUME Inv, SerialInv, NEW i \in Requests, ReleaseOrFinish(i), req[i].pc \in RelayPc,
           Alone /\ req[i].op = "relay" /\ req[i].status = "done" =>
              /\ req[i].row \in Live(queue') /\ queue'[req[i].row].status = "done"
              /\ MissionOf[req[i].row] \in board'
    PROVE  SerialInv'
  <1>1. CASE Finish(i, "ok")
    BY <1>1, FinishKeepsSerial
  <1> DEFINE x == [req[i] EXCEPT !.pc = "relayAgentsLoad", !.q = EmptyQueue, !.b = {}]
  <1>2. CASE Goto(i, x)
    <2>1. req[i] \in Slot
      BY DEF Inv, SlotOK
    <2>2. /\ x.pc = "relayAgentsLoad" /\ x.op = req[i].op /\ x.row = req[i].row
          /\ x.status = req[i].status /\ x.reply = req[i].reply
      BY <2>1 DEF Slot
    <2> HIDE DEF x
    <2>3. Alone /\ x.op = "relay" /\ x.status = "done" => RelayOK(x, queue', board')
      BY <2>2 DEF RelayOK
    <2>4. x.pc \in RelayPc \ {"relayQueue"}
      BY <2>2 DEF RelayPc
    <2> QED
      BY <1>2, <2>2, <2>3, <2>4, RelayGoesOn
  <1> QED
    BY <1>1, <1>2 DEF ReleaseOrFinish

LEMMA RelayQueueSaveSerial ==
    ASSUME Inv, SerialInv, NEW i \in Requests, RelayQueueSave(i)
    PROVE  SerialInv'
  <1>1. PICK result \in SaveResults :
          /\ queue' = Stored(result, queue, req[i].q)
          /\ IF result # "ok" THEN Finish(i, "failed")
             ELSE IF req[i].status = "done"
                    THEN Goto(i, [req[i] EXCEPT !.pc = "relayBoardLoad",
                                                !.q = EmptyQueue])
                    ELSE ReleaseOrFinish(i)
    BY DEF RelayQueueSave
  <1>2. req[i].pc = "relayQueue" /\ req[i].pc \in RelayPc /\ req[i] \in Slot
    BY DEF RelayQueueSave, At, RelayPc, Inv, SlotOK
  <1>3. CASE result # "ok"
    BY <1>1, <1>3, FinishKeepsSerial
  <1>4. CASE result = "ok" /\ req[i].status # "done"
    BY <1>1, <1>2, <1>4, ReleaseOrFinishSerial
  <1>5. CASE result = "ok" /\ req[i].status = "done"
    <2> DEFINE x == [req[i] EXCEPT !.pc = "relayBoardLoad", !.q = EmptyQueue]
    <2>1. Goto(i, x) /\ queue' = req[i].q
      BY <1>1, <1>5 DEF Stored
    <2>2. /\ x.pc = "relayBoardLoad" /\ x.op = req[i].op /\ x.row = req[i].row
          /\ x.status = req[i].status /\ x.reply = req[i].reply
      BY <1>2 DEF Slot
    <2> HIDE DEF x
    <2>3. Alone /\ req[i].op = "relay" => RelayOK(req[i], queue, board)
      BY <1>5 DEF SerialInv, StoreOK
    <2>4. Alone /\ x.op = "relay" /\ x.status = "done" => RelayOK(x, queue', board')
      BY <1>2, <2>1, <2>2, <2>3 DEF RelayOK
    <2>5. x.pc \in RelayPc \ {"relayQueue"}
      BY <2>2 DEF RelayPc
    <2> QED
      BY <1>2, <2>1, <2>2, <2>4, <2>5, RelayGoesOn
  <1> QED
    BY <1>3, <1>4, <1>5

LEMMA RelayBoardLoadSerial ==
    ASSUME Inv, SerialInv, NEW i \in Requests, RelayBoardLoad(i)
    PROVE  SerialInv'
  <1>1. PICK b : Goto(i, [req[i] EXCEPT !.pc = "relayBoardSave",
                                        !.b = b \cup {MissionOf[req[i].row]}])
    BY DEF RelayBoardLoad
  <1>2. /\ req[i].pc = "relayBoardLoad" /\ req[i].pc \in RelayPc /\ req[i] \in Slot
        /\ queue' = queue /\ board' = board
    BY DEF RelayBoardLoad, At, RelayPc, Inv, SlotOK, store
  <1> DEFINE x == [req[i] EXCEPT !.pc = "relayBoardSave",
                                 !.b = b \cup {MissionOf[req[i].row]}]
  <1>3. Goto(i, x)
    BY <1>1
  <1>4. /\ x.pc = "relayBoardSave" /\ x.op = req[i].op /\ x.row = req[i].row
        /\ x.status = req[i].status /\ x.reply = req[i].reply
        /\ MissionOf[x.row] \in x.b
    BY <1>2 DEF Slot
  <1> HIDE DEF x
  <1>5. Alone /\ req[i].op = "relay" /\ req[i].status = "done" => RelayOK(req[i], queue, board)
    BY DEF SerialInv, StoreOK
  <1>6. Alone /\ x.op = "relay" /\ x.status = "done" => RelayOK(x, queue', board')
    BY <1>2, <1>4, <1>5 DEF RelayOK
  <1>7. x.pc \in RelayPc \ {"relayQueue"}
    BY <1>4 DEF RelayPc
  <1> QED
    BY <1>2, <1>3, <1>4, <1>6, <1>7, RelayGoesOn

LEMMA RelayBoardSaveSerial ==
    ASSUME Inv, SerialInv, NEW i \in Requests, RelayBoardSave(i)
    PROVE  SerialInv'
  <1>1. PICK result \in SaveResults :
          /\ board' = Stored(result, board, req[i].b)
          /\ IF result = "ok" THEN ReleaseOrFinish(i) ELSE Finish(i, "failed")
    BY DEF RelayBoardSave
  <1>2. req[i].pc = "relayBoardSave" /\ req[i].pc \in RelayPc /\ queue' = queue
    BY DEF RelayBoardSave, At, RelayPc
  <1>3. CASE result = "ok"
    <2>1. board' = req[i].b /\ ReleaseOrFinish(i)
      BY <1>1, <1>3 DEF Stored
    <2>2. Alone /\ req[i].op = "relay" /\ req[i].status = "done"
             => RelayOK(req[i], queue, board)
      BY DEF SerialInv, StoreOK
    <2> QED
      BY <1>2, <2>1, <2>2, ReleaseOrFinishSerial DEF RelayOK
  <1>4. CASE result # "ok"
    BY <1>1, <1>4, FinishKeepsSerial
  <1> QED
    BY <1>3, <1>4

LEMMA RelayAgentsLoadSerial ==
    ASSUME Inv, SerialInv, NEW i \in Requests, RelayAgentsLoad(i)
    PROVE  SerialInv'
  <1>1. \/ Finish(i, "ok")
        \/ \E g : Goto(i, [req[i] EXCEPT !.pc = "relayAgentsSave", !.g = g])
    BY DEF RelayAgentsLoad
  <1>2. /\ req[i].pc = "relayAgentsLoad" /\ req[i].pc \in RelayPc /\ req[i] \in Slot
        /\ queue' = queue /\ board' = board
    BY DEF RelayAgentsLoad, At, RelayPc, Inv, SlotOK, store
  <1>3. ASSUME NEW g, Goto(i, [req[i] EXCEPT !.pc = "relayAgentsSave", !.g = g])
        PROVE  SerialInv'
    <2> DEFINE x == [req[i] EXCEPT !.pc = "relayAgentsSave", !.g = g]
    <2>1. Goto(i, x)
      BY <1>3
    <2>2. /\ x.pc = "relayAgentsSave" /\ x.op = req[i].op /\ x.row = req[i].row
          /\ x.status = req[i].status /\ x.reply = req[i].reply
      BY <1>2 DEF Slot
    <2> HIDE DEF x
    <2>3. Alone /\ req[i].op = "relay" /\ req[i].status = "done"
             => RelayOK(req[i], queue, board)
      BY DEF SerialInv, StoreOK
    <2>4. Alone /\ x.op = "relay" /\ x.status = "done" => RelayOK(x, queue', board')
      BY <1>2, <2>2, <2>3 DEF RelayOK
    <2>5. x.pc \in RelayPc \ {"relayQueue"}
      BY <2>2 DEF RelayPc
    <2> QED
      BY <1>2, <2>1, <2>2, <2>4, <2>5, RelayGoesOn
  <1> QED
    BY <1>1, <1>3, FinishKeepsSerial

LEMMA RelayRouteSerial ==
    ASSUME Inv, SerialInv, NEW i \in Requests, RelayNext(i)
    PROVE  SerialInv'
  BY RelaySerial, RelayQueueSaveSerial, RelayBoardLoadSerial, RelayBoardSaveSerial,
     RelayAgentsLoadSerial, LastStepsSerial
  DEF RelayNext

-----------------------------------------------------------------------------
(* The routes of sessions and execution events. *)

(* A request that is to save a session table, and no queue. *)
LEMMA TableSaveKeepsSerial ==
    ASSUME Inv, SerialInv, NEW i \in Requests, NEW x, Goto(i, x),
           x.pc \in {"sessionsSave", "completeBoardLoad", "completeBoardSave"},
           x.op \notin {"update", "relay"},
           Alone => TakesNone(sessions', x.t, x.op, x.session)
    PROVE  SerialInv'
  <1>1. OwnOK(x)
    BY DEF OwnOK
  <1>2. Alone => StoreOK(x, queue', sessions', board')
    BY DEF StoreOK, QueueSavePc
  <1> QED
    BY <1>1, <1>2, StepKeepsSerial

LEMMA SaveTableSerial ==
    ASSUME Inv, SerialInv, NEW i \in Requests, NEW s \in Sessions, NEW y,
           NEW op, op \notin {"update", "relay"},
           y.mission = None \/ op = "event",
           NEW t \in Loaded(sessions, EmptySessions),
           SaveTable(i, op, s, y, t), UNCHANGED store
    PROVE  SerialInv'
  <1> DEFINE u == Set(t, s, y)
             x == [Blank EXCEPT !.pc = "sessionsSave", !.op = op, !.session = s, !.t = u]
  <1>1. TableOK(sessions) /\ sessions' = sessions /\ t \in {sessions, EmptySessions}
    BY LoadedIs DEF Inv, store
  <1>2. TakesNone(sessions, u, op, s)
    BY <1>1, SetTakesNone
  <1>3. Goto(i, x)
    BY DEF SaveTable
  <1> HIDE DEF u
  <1>4. x.pc = "sessionsSave" /\ x.op = op /\ x.session = s /\ x.t = u
    BY DEF Blank
  <1> HIDE DEF x
  <1> QED
    BY <1>1, <1>2, <1>3, <1>4, TableSaveKeepsSerial

(* A heartbeat keeps the mission of its session. *)
LEMMA BeatSerial ==
    ASSUME Inv, SerialInv, NEW i \in Requests, NEW t \in Loaded(sessions, EmptySessions),
           NEW s \in Known(t), SaveTable(i, "heartbeat", s, Beaten(t[s]), t), UNCHANGED store
    PROVE  SerialInv'
  <1> DEFINE u == Set(t, s, Beaten(t[s]))
             x == [Blank EXCEPT !.pc = "sessionsSave", !.op = "heartbeat",
                                !.session = s, !.t = u]
  <1>1. /\ TableOK(sessions) /\ sessions' = sessions /\ t \in {sessions, EmptySessions}
        /\ TableOK(t)
    BY LoadedIs, LoadedOK DEF Inv, store
  <1>2. s \in Sessions /\ t[s] \in Session
    BY <1>1, KnownSession
  <1>3. Beaten(t[s]).mission = t[s].mission
    BY <1>2 DEF Beaten, Session
  <1>4. TakesNone(sessions, u, "heartbeat", s)
    BY <1>1, <1>2, <1>3, SetTakesNone
  <1>5. Goto(i, x)
    BY DEF SaveTable
  <1> HIDE DEF u
  <1>6. x.pc = "sessionsSave" /\ x.op = "heartbeat" /\ x.session = s /\ x.t = u
    BY DEF Blank
  <1> HIDE DEF x
  <1> QED
    BY <1>1, <1>4, <1>5, <1>6, TableSaveKeepsSerial

LEMMA SimpleSessionsSerial ==
    ASSUME Inv, SerialInv, NEW i \in Requests,
           \/ RegisterSession(i) \/ HeartbeatSession(i) \/ ReleaseSession(i)
           \/ ExecutionEvent(i)
    PROVE  SerialInv'
  <1>1. FreeSession.mission = None
    BY DEF FreeSession
  <1>2. CASE RegisterSession(i)
    <2>1. PICK t \in Loaded(sessions, EmptySessions), s \in Sessions :
             SaveTable(i, "register", s, FreeSession, t)
      BY <1>2 DEF RegisterSession
    <2>2. UNCHANGED store
      BY <1>2 DEF RegisterSession
    <2> QED
      BY <1>1, <2>1, <2>2, SaveTableSerial
  <1>3. CASE HeartbeatSession(i)
    <2>1. PICK t \in Loaded(sessions, EmptySessions), s \in Sessions :
             \/ s \in Known(t) /\ SaveTable(i, "heartbeat", s, Beaten(t[s]), t)
             \/ Finish(i, "refused")
      BY <1>3 DEF HeartbeatSession
    <2>2. UNCHANGED store
      BY <1>3 DEF HeartbeatSession
    <2> QED
      BY <2>1, <2>2, BeatSerial, FinishKeepsSerial
  <1>4. CASE ReleaseSession(i)
    <2>1. PICK t \in Loaded(sessions, EmptySessions), s \in Sessions :
             SaveTable(i, "release", s, FreeSession, t) \/ Finish(i, "refused")
      BY <1>4 DEF ReleaseSession
    <2>2. UNCHANGED store
      BY <1>4 DEF ReleaseSession
    <2> QED
      BY <1>1, <2>1, <2>2, SaveTableSerial, FinishKeepsSerial
  <1>5. CASE ExecutionEvent(i)
    <2>1. PICK t \in Loaded(sessions, EmptySessions), s \in Sessions, m \in Missions,
               event \in {"blocked", "failed", "done", "progress"} :
             \/ SaveTable(i, "event", s, SessionOn(m, EventStatus(event)), t)
             \/ Finish(i, "refused")
      BY <1>5 DEF ExecutionEvent
    <2>2. UNCHANGED store
      BY <1>5 DEF ExecutionEvent
    <2> QED
      BY <2>1, <2>2, SaveTableSerial, FinishKeepsSerial
  <1> QED
    BY <1>2, <1>3, <1>4, <1>5

(* start_mission and complete_mission carry their table. *)
LEMMA MissionRequestSerial ==
    ASSUME Inv, SerialInv, NEW i \in Requests, NEW op, NEW pc, MissionRequest(i, op, pc),
           op \in {"start", "complete"}, pc \in {"startQueue", "completeQueue"}
    PROVE  SerialInv'
  <1>1. PICK t \in Loaded(sessions, EmptySessions), s \in Sessions, m \in Missions :
            \/ Goto(i, [Blank EXCEPT !.pc = pc, !.op = op, !.session = s,
                                     !.mission = m, !.t = t])
            \/ Finish(i, "refused")
    BY DEF MissionRequest
  <1> DEFINE x == [Blank EXCEPT !.pc = pc, !.op = op, !.session = s, !.mission = m, !.t = t]
  <1>2. CASE Goto(i, x)
    <2>1. t \in Loaded(sessions, EmptySessions) /\ sessions' = sessions
      BY DEF MissionRequest, store
    <2>2. x.pc = pc /\ x.op = op /\ x.t = t
      BY DEF Blank
    <2> HIDE DEF x
    <2>3. OwnOK(x)
      BY <2>2 DEF OwnOK
    <2>4. StoreOK(x, queue', sessions', board')
      BY <2>1, <2>2 DEF StoreOK, QueueSavePc
    <2> QED
      BY <1>2, <2>3, <2>4, StepKeepsSerial
  <1> QED
    BY <1>1, <1>2, FinishKeepsSerial

LEMMA StartLoadQueueSerial ==
    ASSUME Inv, SerialInv, NEW i \in Requests, StartLoadQueue(i)
    PROVE  SerialInv'
  <1> DEFINE s == req[i].session
             u == Set(req[i].t, s, SessionOn(req[i].mission, "busy"))
             x == [Blank EXCEPT !.pc = "sessionsSave", !.op = "start", !.session = s, !.t = u]
  <1>1. Goto(i, x) \/ Finish(i, "refused")
    BY DEF StartLoadQueue, SaveTable
  <1>2. CASE Goto(i, x)
    <2>1. /\ req[i].pc = "startQueue" /\ sessions' = sessions /\ TableOK(sessions)
          /\ s \in Sessions
      BY DEF StartLoadQueue, At, store, Inv, SlotOK
    <2>2. ASSUME Alone
          PROVE  TakesNone(sessions, u, "start", s)
      <3>1. req[i].t \in {sessions, EmptySessions}
        BY <2>1, <2>2, LoadedIs DEF SerialInv, StoreOK
      <3> QED
        BY <2>1, <3>1, SetTakesNone
    <2> HIDE DEF u, s
    <2>3. x.pc = "sessionsSave" /\ x.op = "start" /\ x.session = s /\ x.t = u
      BY DEF Blank
    <2> HIDE DEF x
    <2> QED
      BY <1>2, <2>1, <2>2, <2>3, TableSaveKeepsSerial
  <1> QED
    BY <1>1, <1>2, FinishKeepsSerial

(* complete_mission: queue, board and table are saved one after the other. *)
LEMMA CompleteLoadQueueSerial ==
    ASSUME Inv, SerialInv, NEW i \in Requests, CompleteLoadQueue(i)
    PROVE  SerialInv'
  <1> DEFINE m == req[i].mission
             s == req[i].session
             a == SessionAgent[s]
             u == Set(req[i].t, s, FreeSession)
  <1>1. PICK q \in Loaded(queue, EmptyQueue) :
           \/ Finish(i, "refused")
           \/ \E first \in RowsOf(q, m) :
                 /\ q[first].status = "in_progress"
                 /\ Goto(i, [req[i] EXCEPT !.pc = "completeSave", !.t = u,
                                           !.q = MissionCompleted(q, m, a)])
    BY DEF CompleteLoadQueue, ValidTransition
  <1>2. ASSUME NEW first \in RowsOf(q, m), q[first].status = "in_progress",
               Goto(i, [req[i] EXCEPT !.pc = "completeSave", !.t = u,
                                      !.q = MissionCompleted(q, m, a)])
        PROVE  SerialInv'
    <2> DEFINE n == MissionCompleted(q, m, a)
               x == [req[i] EXCEPT !.pc = "completeSave", !.t = u, !.q = n]
    <2>1. /\ req[i].pc = "completeQueue" /\ sessions' = sessions /\ queue' = queue
          /\ TableOK(sessions) /\ s \in Sessions /\ req[i] \in Slot /\ OwnOK(req[i])
          /\ queue \in Queue
      BY DEF CompleteLoadQueue, At, store, Inv, SlotOK, SerialInv, TypeOK
    <2>2. FreeSession.mission = None
      BY DEF FreeSession
    <2>3. ASSUME Alone
          PROVE  TakesNone(sessions, u, req[i].op, s)
      <3>1. req[i].t \in {sessions, EmptySessions}
        BY <2>1, <2>3, LoadedIs DEF SerialInv, StoreOK
      <3> QED
        BY <2>1, <2>2, <3>1, SetTakesNone
    <2>4. SavesOver(queue, n)
      BY <1>2, <2>1, LoadedIs, MissionCompletedSaves
    <2>5. Goto(i, x)
      BY <1>2
    <2> HIDE DEF u, n
    <2>6. /\ x.pc = "completeSave" /\ x.op = req[i].op /\ x.session = s /\ x.t = u
          /\ x.q = n
      BY <2>1 DEF Slot
    <2> HIDE DEF x, s
    <2>7. x.op \notin {"update", "relay"}
      BY <2>1, <2>6 DEF OwnOK, UpdatePc, RelayPc
    <2>8. OwnOK(x)
      BY <2>6, <2>7 DEF OwnOK
    <2>9. Alone => StoreOK(x, queue', sessions', board')
      BY <2>1, <2>3, <2>4, <2>6, <2>7 DEF StoreOK
    <2> QED
      BY <2>5, <2>8, <2>9, StepKeepsSerial
  <1> QED
    BY <1>1, <1>2, FinishKeepsSerial

(* Past the queue, the table to save goes along. *)
LEMMA CompletionGoesOn ==
    ASSUME Inv, SerialInv, NEW i \in Requests, NEW x, Goto(i, x),
           req[i].pc \in {"completeSave", "completeBoardLoad", "completeBoardSave"},
           x.pc \in {"completeBoardLoad", "completeBoardSave", "sessionsSave"},
           x.op = req[i].op, x.session = req[i].session, x.t = req[i].t,
           sessions' = sessions
    PROVE  SerialInv'
  <1>1. OwnOK(req[i])
    BY DEF SerialInv
  <1>2. x.op \notin {"update", "relay"}
    BY <1>1 DEF OwnOK, UpdatePc, RelayPc
  <1>3. Alone => TakesNone(sessions', x.t, x.op, x.session)
    BY DEF SerialInv, StoreOK
  <1> QED
    BY <1>2, <1>3, TableSaveKeepsSerial

LEMMA CompleteSavesSerial ==
    ASSUME Inv, SerialInv, NEW i \in Requests,
           CompleteSaveQueue(i) \/ CompleteLoadBoard(i) \/ CompleteSaveBoard(i)
    PROVE  SerialInv'
  <1>1. req[i] \in Slot
    BY DEF Inv, SlotOK
  <1>2. CASE CompleteSaveQueue(i)
    <2> DEFINE x == [req[i] EXCEPT !.pc = "completeBoardLoad", !.q = EmptyQueue]
    <2>1. req[i].pc = "completeSave" /\ sessions' = sessions /\ Goto(i, x)
      BY <1>2 DEF CompleteSaveQueue, At
    <2>2. /\ x.pc = "completeBoardLoad" /\ x.op = req[i].op
          /\ x.session = req[i].session /\ x.t = req[i].t
      BY <1>1 DEF Slot
    <2> HIDE DEF x
    <2> QED
      BY <2>1, <2>2, CompletionGoesOn
  <1>3. CASE CompleteLoadBoard(i)
    <2>1. PICK b : Goto(i, [req[i] EXCEPT !.pc = "completeBoardSave", !.b = b])
      BY <1>3 DEF CompleteLoadBoard
    <2> DEFINE x == [req[i] EXCEPT !.pc = "completeBoardSave", !.b = b]
    <2>2. req[i].pc = "completeBoardLoad" /\ sessions' = sessions /\ Goto(i, x)
      BY <1>3, <2>1 DEF CompleteLoadBoard, At, store
    <2>3. /\ x.pc = "completeBoardSave" /\ x.op = req[i].op
          /\ x.session = req[i].session /\ x.t = req[i].t
      BY <1>1 DEF Slot
    <2> HIDE DEF x
    <2> QED
      BY <2>2, <2>3, CompletionGoesOn
  <1>4. CASE CompleteSaveBoard(i)
    <2> DEFINE x == [req[i] EXCEPT !.pc = "sessionsSave", !.b = {}]
    <2>1. req[i].pc = "completeBoardSave" /\ sessions' = sessions /\ Goto(i, x)
      BY <1>4 DEF CompleteSaveBoard, At
    <2>2. /\ x.pc = "sessionsSave" /\ x.op = req[i].op
          /\ x.session = req[i].session /\ x.t = req[i].t
      BY <1>1 DEF Slot
    <2> HIDE DEF x
    <2> QED
      BY <2>1, <2>2, CompletionGoesOn
  <1> QED
    BY <1>2, <1>3, <1>4

LEMMA SessionRoutesSerial ==
    ASSUME Inv, SerialInv, NEW i \in Requests, SessionNext(i)
    PROVE  SerialInv'
  BY SimpleSessionsSerial, MissionRequestSerial, StartLoadQueueSerial,
     CompleteLoadQueueSerial, CompleteSavesSerial, LastStepsSerial
  DEF SessionNext, StartMission, CompleteMission

-----------------------------------------------------------------------------
(* The routes of agents and of the watchdog. *)

(* A slot of which the invariant asks nothing. *)
LEMMA IndifferentSerial ==
    ASSUME Inv, SerialInv, NEW i \in Requests, NEW x, Goto(i, x),
           x.pc \in {"agentsSave", "watchQueue", "manageQueue", "groupSave", "openMission",
                     "onboardSave", "onboardQueue"},
           x.op \notin {"update", "relay"}
    PROVE  SerialInv'
  <1>1. OwnOK(x)
    BY DEF OwnOK
  <1>2. StoreOK(x, queue', sessions', board')
    BY DEF StoreOK, QueueSavePc
  <1> QED
    BY <1>1, <1>2, StepKeepsSerial

(* A slot with the queue just loaded, or loaded before. *)
LEMMA CopySerial ==
    ASSUME Inv, SerialInv, NEW i \in Requests, NEW x, Goto(i, x),
           x.pc \in {"manageBoard", "manage", "plan", "watchAgents"},
           x.op \notin {"update", "relay"},
           Alone => x.q \in Loaded(queue, EmptyQueue), queue' = queue
    PROVE  SerialInv'
  <1>1. OwnOK(x)
    BY DEF OwnOK
  <1>2. Alone => StoreOK(x, queue', sessions', board')
    BY DEF StoreOK, QueueSavePc
  <1> QED
    BY <1>1, <1>2, StepKeepsSerial

LEMMA ReportAgentSerial ==
    ASSUME Inv, SerialInv, NEW i \in Requests, ReportAgent(i)
    PROVE  SerialInv'
  <1>1. PICK n : Goto(i, [Blank EXCEPT !.pc = "agentsSave", !.op = "agent", !.g = n])
    BY DEF ReportAgent
  <1> DEFINE x == [Blank EXCEPT !.pc = "agentsSave", !.op = "agent", !.g = n]
  <1>2. Goto(i, x)
    BY <1>1
  <1>3. x.pc = "agentsSave" /\ x.op = "agent"
    BY DEF Blank
  <1> HIDE DEF x
  <1> QED
    BY <1>2, <1>3, IndifferentSerial

LEMMA RunWatchdogSerial ==
    ASSUME Inv, SerialInv, NEW i \in Requests, RunWatchdog(i)
    PROVE  SerialInv'
  <1>1. queue' = queue
    BY DEF RunWatchdog, store
  <1>2. ASSUME NEW q \in Loaded(queue, EmptyQueue),
               Goto(i, [Blank EXCEPT !.pc = "watchAgents", !.op = "watchdog", !.q = q])
        PROVE  SerialInv'
    <2> DEFINE x == [Blank EXCEPT !.pc = "watchAgents", !.op = "watchdog", !.q = q]
    <2>1. x.pc = "watchAgents" /\ x.op = "watchdog" /\ x.q = q
      BY DEF Blank
    <2>2. Goto(i, x)
      BY <1>2
    <2> HIDE DEF x
    <2> QED
      BY <1>1, <2>1, <2>2, CopySerial
  <1>3. ASSUME NEW g,
               Goto(i, [Blank EXCEPT !.pc = "watchQueue", !.op = "watchdog", !.g = g])
        PROVE  SerialInv'
    <2> DEFINE x == [Blank EXCEPT !.pc = "watchQueue", !.op = "watchdog", !.g = g]
    <2>1. x.pc = "watchQueue" /\ x.op = "watchdog"
      BY DEF Blank
    <2>2. Goto(i, x)
      BY <1>3
    <2> HIDE DEF x
    <2> QED
      BY <2>1, <2>2, IndifferentSerial
  <1> QED
    BY <1>2, <1>3 DEF RunWatchdog

LEMMA WatchSerial ==
    ASSUME Inv, SerialInv, NEW i \in Requests, NEW q, Alone => q \in {queue, EmptyQueue},
           NEW g, Watch(i, q, g), queue' = queue
    PROVE  SerialInv'
  <1> DEFINE off(up) == {r \in Running(q) : ~ HasHealthyAgent(up, q[r].assignee)}
  <1>1. PICK up \in SUBSET Registered(g) :
           \E stuck \in SUBSET {r \in Running(q) \ off(up) : MayBeStuck(g, up, q[r])} :
           \E to \in [stuck -> {"open", "paused_waiting_owner"}] :
              \/ Finish(i, "ok")
              \/ Goto(i, [Blank EXCEPT !.pc = "queueSave", !.op = "watchdog",
                                       !.q = Watched(q, off(up), stuck, to)])
    BY DEF Watch
  <1>2. /\ off(up) \in SUBSET Live(q)
        /\ \A stuck \in SUBSET {r \in Running(q) \ off(up) : MayBeStuck(g, up, q[r])} :
              stuck \in SUBSET Live(q)
    BY DEF Running
  <1> HIDE DEF off
  <1>3. PICK stuck \in SUBSET Live(q) :
        \E to \in [stuck -> {"open", "paused_waiting_owner"}] :
           \/ Finish(i, "ok")
           \/ Goto(i, [Blank EXCEPT !.pc = "queueSave", !.op = "watchdog",
                                    !.q = Watched(q, off(up), stuck, to)])
    BY <1>1, <1>2
  <1>4. PICK to \in [stuck -> {"open", "paused_waiting_owner"}] :
           \/ Finish(i, "ok")
           \/ Goto(i, [Blank EXCEPT !.pc = "queueSave", !.op = "watchdog",
                                    !.q = Watched(q, off(up), stuck, to)])
    BY <1>3
  <1> DEFINE n == Watched(q, off(up), stuck, to)
             x == [Blank EXCEPT !.pc = "queueSave", !.op = "watchdog", !.q = n]
  <1>5. CASE Goto(i, x)
    <2>1. queue \in Queue
      BY DEF Inv, TypeOK
    <2>2. Alone => SavesOver(queue, n)
      BY <1>2, <2>1, WatchedSaves
    <2> HIDE DEF n
    <2>3. x.pc = "queueSave" /\ x.op = "watchdog" /\ x.q = n
      BY DEF Blank
    <2> HIDE DEF x
    <2> QED
      BY <1>5, <2>2, <2>3, QueueSaveKeepsSerial
  <1> QED
    BY <1>4, <1>5, FinishKeepsSerial

LEMMA FleetRoutesSerial ==
    ASSUME Inv, SerialInv, NEW i \in Requests, FleetNext(i)
    PROVE  SerialInv'
  <1>1. ASSUME WatchRows(i)
        PROVE  SerialInv'
    <2>1. queue' = queue
      BY <1>1 DEF WatchRows, store
    <2>2. PICK q, g : Watch(i, q, g) /\ (Alone => q \in {queue, EmptyQueue})
      BY <1>1, CarriedIs, LoadedIs DEF WatchRows, At
    <2> QED
      BY <2>1, <2>2, WatchSerial
  <1> QED
    BY <1>1, ReportAgentSerial, RunWatchdogSerial, LastStepsSerial DEF FleetNext

-----------------------------------------------------------------------------
(* The routes of missions. *)

(* Outside the steps of updates and relays no request is one. *)
LEMMA OtherOp ==
    ASSUME SerialInv, NEW i \in Requests, req[i].pc \notin UpdatePc \cup RelayPc
    PROVE  req[i].op \notin {"update", "relay"}
  BY DEF SerialInv, OwnOK

LEMMA ManageSerial ==
    ASSUME Inv, SerialInv, NEW i \in Requests, Manage(i)
    PROVE  SerialInv'
  <1>1. queue' = queue
    BY DEF Manage, store
  <1>2. ASSUME NEW q \in Loaded(queue, EmptyQueue),
               Goto(i, [Blank EXCEPT !.pc = "manageBoard", !.op = "manage", !.q = q])
        PROVE  SerialInv'
    <2> DEFINE x == [Blank EXCEPT !.pc = "manageBoard", !.op = "manage", !.q = q]
    <2>1. x.pc = "manageBoard" /\ x.op = "manage" /\ x.q = q
      BY DEF Blank
    <2>2. Goto(i, x)
      BY <1>2
    <2> HIDE DEF x
    <2> QED
      BY <1>1, <2>1, <2>2, CopySerial
  <1>3. ASSUME NEW b,
               Goto(i, [Blank EXCEPT !.pc = "manageQueue", !.op = "manage", !.b = b])
        PROVE  SerialInv'
    <2> DEFINE x == [Blank EXCEPT !.pc = "manageQueue", !.op = "manage", !.b = b]
    <2>1. x.pc = "manageQueue" /\ x.op = "manage"
      BY DEF Blank
    <2>2. Goto(i, x)
      BY <1>3
    <2> HIDE DEF x
    <2> QED
      BY <2>1, <2>2, IndifferentSerial
  <1> QED
    BY <1>2, <1>3 DEF Manage

LEMMA ManageLoadSerial ==
    ASSUME Inv, SerialInv, NEW i \in Requests, ManageLoad(i)
    PROVE  SerialInv'
  <1>1. queue' = queue /\ req[i] \in Slot /\ req[i].pc \in {"manageBoard", "manageQueue"}
    BY DEF ManageLoad, At, store, Inv, SlotOK
  <1>2. req[i].op \notin {"update", "relay"}
    BY <1>1, OtherOp DEF UpdatePc, RelayPc
  <1>3. ASSUME NEW b, Goto(i, [req[i] EXCEPT !.pc = "manage", !.b = b]),
               req[i].pc = "manageBoard"
        PROVE  SerialInv'
    <2> DEFINE x == [req[i] EXCEPT !.pc = "manage", !.b = b]
    <2>1. x.pc = "manage" /\ x.op = req[i].op /\ x.q = req[i].q
      BY <1>1 DEF Slot
    <2>2. Goto(i, x)
      BY <1>3
    <2> HIDE DEF x
    <2>3. Alone => x.q \in Loaded(queue, EmptyQueue)
      BY <1>3, <2>1, CarriedIs
    <2> QED
      BY <1>1, <1>2, <2>1, <2>2, <2>3, CopySerial
  <1>4. ASSUME NEW q \in Loaded(queue, EmptyQueue),
               Goto(i, [req[i] EXCEPT !.pc = "manage", !.q = q])
        PROVE  SerialInv'
    <2> DEFINE x == [req[i] EXCEPT !.pc = "manage", !.q = q]
    <2>1. x.pc = "manage" /\ x.op = req[i].op /\ x.q = q
      BY <1>1 DEF Slot
    <2>2. Goto(i, x)
      BY <1>4
    <2> HIDE DEF x
    <2> QED
      BY <1>1, <1>2, <2>1, <2>2, CopySerial
  <1> QED
    BY <1>3, <1>4 DEF ManageLoad, At

LEMMA GroupMissionsSerial ==
    ASSUME Inv, SerialInv, NEW i \in Requests, GroupMissions(i)
    PROVE  SerialInv'
  <1>1. PICK b : Goto(i, [Blank EXCEPT !.pc = "groupSave", !.op = "manage", !.b = b])
    BY DEF GroupMissions
  <1> DEFINE x == [Blank EXCEPT !.pc = "groupSave", !.op = "manage", !.b = b]
  <1>2. Goto(i, x)
    BY <1>1
  <1>3. x.pc = "groupSave" /\ x.op = "manage"
    BY DEF Blank
  <1> HIDE DEF x
  <1> QED
    BY <1>2, <1>3, IndifferentSerial

LEMMA EditMissionSerial ==
    ASSUME Inv, SerialInv, NEW i \in Requests, EditMission(i)
    PROVE  SerialInv'
  <1>1. PICK m \in Missions, who \in Asked \cup {"STAFF"} :
           \/ \E b : Goto(i, [Blank EXCEPT !.pc = "editBoardSave", !.op = "manage",
                                           !.q = MissionEdited(req[i].q, m, who), !.b = b])
           \/ Finish(i, "refused")
    BY DEF EditMission
  <1>2. req[i].pc = "manage" /\ queue' = queue /\ queue \in Queue
    BY DEF EditMission, At, store, Inv, TypeOK
  <1>3. ASSUME NEW b, Goto(i, [Blank EXCEPT !.pc = "editBoardSave", !.op = "manage",
                                     !.q = MissionEdited(req[i].q, m, who), !.b = b])
        PROVE  SerialInv'
    <2> DEFINE n == MissionEdited(req[i].q, m, who)
               x == [Blank EXCEPT !.pc = "editBoardSave", !.op = "manage", !.q = n, !.b = b]
    <2>1. Alone => SavesOver(queue, n)
      BY <1>2, CarriedIs, MissionEditedSaves
    <2>2. Goto(i, x)
      BY <1>3
    <2> HIDE DEF n
    <2>3. x.pc = "editBoardSave" /\ x.op = "manage" /\ x.q = n
      BY DEF Blank
    <2> HIDE DEF x
    <2> QED
      BY <1>2, <2>1, <2>2, <2>3, QueueSaveKeepsSerial
  <1> QED
    BY <1>1, <1>3, FinishKeepsSerial

LEMMA SaveEditedBoardSerial ==
    ASSUME Inv, SerialInv, NEW i \in Requests, SaveEditedBoard(i)
    PROVE  SerialInv'
  <1>1. PICK reply : Goto(i, [req[i] EXCEPT !.pc = "editQueueSave", !.b = {},
                                            !.reply = reply])
    BY DEF SaveEditedBoard
  <1>2. req[i].pc = "editBoardSave" /\ queue' = queue /\ req[i] \in Slot
    BY DEF SaveEditedBoard, At, Inv, SlotOK
  <1>3. req[i].op \notin {"update", "relay"}
    BY <1>2, OtherOp DEF UpdatePc, RelayPc
  <1> DEFINE x == [req[i] EXCEPT !.pc = "editQueueSave", !.b = {}, !.reply = reply]
  <1>4. x.pc = "editQueueSave" /\ x.op = req[i].op /\ x.q = req[i].q
    BY <1>2 DEF Slot
  <1>5. Goto(i, x)
    BY <1>1
  <1> HIDE DEF x
  <1>6. Alone => SavesOver(queue', x.q)
    BY <1>2, <1>4 DEF SerialInv, StoreOK, QueueSavePc
  <1> QED
    BY <1>3, <1>4, <1>5, <1>6, QueueSaveKeepsSerial

(* A row as it is added: it waits. *)
LEMMA NewRowWaits ==
    ASSUME NEW who, NEW agent, NEW status, status \notin {"in_progress", "done"}
    PROVE  NewRow(who, agent, status).status \notin {"in_progress", "done"}
  BY DEF NewRow, CreatedRow

LEMMA AddExecutionSerial ==
    ASSUME Inv, SerialInv, NEW i \in Requests, AddExecution(i)
    PROVE  SerialInv'
  <1>1. PICK m \in Missions : \E r \in Unminted(m), who \in Asked :
           Goto(i, [Blank EXCEPT !.pc = "queueSave", !.op = "manage",
                                 !.q = With(req[i].q, r, NewRow(who, None, "open"))])
    BY DEF AddExecution
  <1>2. PICK r \in Unminted(m), who \in Asked :
           Goto(i, [Blank EXCEPT !.pc = "queueSave", !.op = "manage",
                                 !.q = With(req[i].q, r, NewRow(who, None, "open"))])
    BY <1>1
  <1>3. req[i].pc = "manage" /\ queue' = queue /\ queue \in Queue /\ r \in Rows
    BY DEF AddExecution, At, store, Inv, TypeOK, Unminted
  <1> DEFINE y == NewRow(who, None, "open")
             n == With(req[i].q, r, y)
             x == [Blank EXCEPT !.pc = "queueSave", !.op = "manage", !.q = n]
  <1>4. y.status \notin {"in_progress", "done"}
    BY NewRowWaits
  <1>5. Goto(i, x)
    BY <1>2
  <1> HIDE DEF y
  <1>6. Alone => SavesOver(queue, n)
    BY <1>3, <1>4, CarriedIs, WithSaves
  <1> HIDE DEF n
  <1>7. x.pc = "queueSave" /\ x.op = "manage" /\ x.q = n
    BY DEF Blank
  <1> HIDE DEF x
  <1> QED
    BY <1>3, <1>5, <1>6, <1>7, QueueSaveKeepsSerial

LEMMA RegisterMissionSerial ==
    ASSUME Inv, SerialInv, NEW i \in Requests, RegisterMission(i)
    PROVE  SerialInv'
  <1>1. PICK q \in Loaded(queue, EmptyQueue), m \in Missions :
           Goto(i, [Blank EXCEPT !.pc = "plan", !.op = "registerMission",
                                 !.mission = m, !.q = q])
    BY DEF RegisterMission
  <1> DEFINE x == [Blank EXCEPT !.pc = "plan", !.op = "registerMission",
                                !.mission = m, !.q = q]
  <1>2. Goto(i, x) /\ queue' = queue
    BY <1>1 DEF RegisterMission, store
  <1>3. x.pc = "plan" /\ x.op = "registerMission" /\ x.q = q
    BY DEF Blank
  <1> HIDE DEF x
  <1> QED
    BY <1>2, <1>3, CopySerial

LEMMA PlanMissionSerial ==
    ASSUME Inv, SerialInv, NEW i \in Requests, PlanMission(i)
    PROVE  SerialInv'
  <1> DEFINE m == req[i].mission
  <1>1. \/ Finish(i, "ok")
        \/ \E S \in SUBSET Unminted(m) :
              \E who \in [S -> Asked], agent \in [S -> Agents \cup {None}],
                 status \in [S -> QueueStatus] :
                 /\ \A r \in S : status[r] \in PlanStatus(who[r])
                 /\ Goto(i, [req[i] EXCEPT !.pc = "planSave",
                                           !.q = Planned(req[i].q, S, who, agent, status)])
    BY DEF PlanMission
  <1>2. /\ req[i].pc = "plan" /\ queue' = queue /\ req[i] \in Slot
    BY DEF PlanMission, At, store, Inv, SlotOK
  <1>3. req[i].op \notin {"update", "relay"}
    BY <1>2, OtherOp DEF UpdatePc, RelayPc
  <1>4. ASSUME NEW S \in SUBSET Unminted(m),
               NEW who \in [S -> Asked], NEW agent \in [S -> Agents \cup {None}],
               NEW status \in [S -> QueueStatus],
               \A r \in S : status[r] \in PlanStatus(who[r]),
               Goto(i, [req[i] EXCEPT !.pc = "planSave",
                                      !.q = Planned(req[i].q, S, who, agent, status)])
        PROVE  SerialInv'
    <2> DEFINE n == Planned(req[i].q, S, who, agent, status)
               x == [req[i] EXCEPT !.pc = "planSave", !.q = n]
    <2>1. \A r \in S : status[r] \notin {"in_progress", "done"}
      BY <1>4 DEF PlanStatus
    <2>2. Alone => SavesOver(queue, n)
      BY <1>2, <2>1, CarriedIs, PlannedSaves
    <2>3. Goto(i, x)
      BY <1>4
    <2> HIDE DEF n
    <2>4. x.pc = "planSave" /\ x.op = req[i].op /\ x.q = n
      BY <1>2 DEF Slot
    <2> HIDE DEF x
    <2>5. OwnOK(x)
      BY <1>3, <2>4 DEF OwnOK
    <2>6. Alone => StoreOK(x, queue', sessions', board')
      BY <1>2, <1>3, <2>2, <2>4 DEF StoreOK
    <2> QED
      BY <2>3, <2>5, <2>6, StepKeepsSerial
  <1> QED
    BY <1>1, <1>4, FinishKeepsSerial

LEMMA NewMissionSerial ==
    ASSUME Inv, SerialInv, NEW i \in Requests, NewMission(i)
    PROVE  SerialInv'
  <1>1. PICK g, m : Goto(i, [Blank EXCEPT !.pc = "openMission", !.op = "newMission",
                                          !.mission = m, !.g = g])
    BY DEF NewMission
  <1> DEFINE x == [Blank EXCEPT !.pc = "openMission", !.op = "newMission",
                                !.mission = m, !.g = g]
  <1>2. Goto(i, x)
    BY <1>1
  <1>3. x.pc = "openMission" /\ x.op = "newMission"
    BY DEF Blank
  <1> HIDE DEF x
  <1> QED
    BY <1>2, <1>3, IndifferentSerial

(* The chat opens a row of its mission. *)
LEMMA OpenMissionSerial ==
    ASSUME Inv, SerialInv, NEW i \in Requests, OpenMission(i)
    PROVE  SerialInv'
  <1> DEFINE m == req[i].mission
  <1>1. PICK q \in Loaded(queue, EmptyQueue) :
           \/ Finish(i, "ok")
           \/ \E r \in Unminted(m), who \in Asked, agent \in Agents \cup {None} :
                 Goto(i, [req[i] EXCEPT !.pc = "missionSave", !.g = EmptyRegistry,
                                        !.q = With(q, r, NewRow(who, agent, "open"))])
    BY DEF OpenMission
  <1>2. /\ req[i].pc = "openMission" /\ queue' = queue /\ req[i] \in Slot
        /\ queue \in Queue
    BY DEF OpenMission, At, store, Inv, SlotOK, TypeOK
  <1>3. req[i].op \notin {"update", "relay"}
    BY <1>2, OtherOp DEF UpdatePc, RelayPc
  <1>4. ASSUME NEW r \in Unminted(m), NEW who \in Asked, NEW agent \in Agents \cup {None},
               Goto(i, [req[i] EXCEPT !.pc = "missionSave", !.g = EmptyRegistry,
                                      !.q = With(q, r, NewRow(who, agent, "open"))])
        PROVE  SerialInv'
    <2> DEFINE y == NewRow(who, agent, "open")
               n == With(q, r, y)
               x == [req[i] EXCEPT !.pc = "missionSave", !.g = EmptyRegistry, !.q = n]
    <2>1. r \in Rows /\ MissionOf[r] = m /\ q \in {queue, EmptyQueue}
      BY LoadedIs DEF Unminted
    <2>2. y \in Row /\ y.status = "open"
      BY StoreAssumption DEF NewRow, CreatedRow, Row, QueueStatus
    <2>3. Goto(i, x)
      BY <1>4
    <2> HIDE DEF y
    <2>4. SavesOver(queue, n)
      BY <1>2, <2>1, <2>2, WithSaves
    <2>5. r \in RowsOf(n, m) /\ n[r].status = "open"
      <3>1. n[r] = y
        BY <1>2, <2>1 DEF With, Queue, EmptyQueue
      <3> HIDE DEF n
      <3> QED
        BY <2>1, <2>2, <3>1, QueueAssumption DEF RowsOf, Live
    <2> HIDE DEF n
    <2>6. x.pc = "missionSave" /\ x.op = req[i].op /\ x.q = n /\ x.mission = m
      BY <1>2 DEF Slot
    <2> HIDE DEF x
    <2>7. OwnOK(x)
      BY <1>3, <2>6 DEF OwnOK
    <2>8. StoreOK(x, queue', sessions', board')
      BY <1>2, <1>3, <2>4, <2>5, <2>6 DEF StoreOK
    <2> QED
      BY <2>3, <2>7, <2>8, StepKeepsSerial
  <1> QED
    BY <1>1, <1>4, FinishKeepsSerial

(* The row is in the queue if its save was answered ok. *)
LEMMA SaveNewMissionSerial ==
    ASSUME Inv, SerialInv, NEW i \in Requests, SaveNewMission(i)
    PROVE  SerialInv'
  <1>1. PICK result \in SaveResults :
          /\ queue' = Stored(result, queue, req[i].q)
          /\ Goto(i, [req[i] EXCEPT !.pc = "missionBoardLoad", !.q = EmptyQueue,
                                    !.reply = Answer(result)])
    BY DEF SaveNewMission
  <1>2. req[i].pc = "missionSave" /\ req[i] \in Slot
    BY DEF SaveNewMission, At, Inv, SlotOK
  <1>3. req[i].op \notin {"update", "relay"}
    BY <1>2, OtherOp DEF UpdatePc, RelayPc
  <1> DEFINE x == [req[i] EXCEPT !.pc = "missionBoardLoad", !.q = EmptyQueue,
                                 !.reply = Answer(result)]
  <1>4. /\ x.pc = "missionBoardLoad" /\ x.op = req[i].op /\ x.mission = req[i].mission
        /\ x.reply = Answer(result)
    BY <1>2 DEF Slot
  <1>5. Goto(i, x)
    BY <1>1
  <1> HIDE DEF x
  <1>6. OwnOK(x)
    BY <1>3, <1>4 DEF OwnOK
  <1>7. x.reply = "ok" => queue' = req[i].q
    BY <1>1, <1>4 DEF Answer, Stored
  <1>8. Alone => \E r \in RowsOf(req[i].q, req[i].mission) : req[i].q[r].status = "open"
    BY <1>2 DEF SerialInv, StoreOK
  <1>9. Alone => StoreOK(x, queue', sessions', board')
    BY <1>3, <1>4, <1>7, <1>8 DEF StoreOK, QueueSavePc
  <1> QED
    BY <1>5, <1>6, <1>9, StepKeepsSerial

LEMMA LoadMissionBoardSerial ==
    ASSUME Inv, SerialInv, NEW i \in Requests, LoadMissionBoard(i)
    PROVE  SerialInv'
  <1>1. PICK b : Goto(i, [req[i] EXCEPT !.pc = "missionBoardSave",
                                        !.b = b \ {req[i].mission}])
    BY DEF LoadMissionBoard
  <1>2. req[i].pc = "missionBoardLoad" /\ req[i] \in Slot /\ queue' = queue
    BY DEF LoadMissionBoard, At, Inv, SlotOK, store
  <1>3. req[i].op \notin {"update", "relay"}
    BY <1>2, OtherOp DEF UpdatePc, RelayPc
  <1> DEFINE x == [req[i] EXCEPT !.pc = "missionBoardSave", !.b = b \ {req[i].mission}]
  <1>4. /\ x.pc = "missionBoardSave" /\ x.op = req[i].op /\ x.mission = req[i].mission
        /\ x.reply = req[i].reply /\ x.mission \notin x.b
    BY <1>2 DEF Slot
  <1>5. Goto(i, x)
    BY <1>1
  <1> HIDE DEF x
  <1>6. OwnOK(x)
    BY <1>3, <1>4 DEF OwnOK
  <1>7. Alone /\ x.reply = "ok"
           => \E r \in RowsOf(queue, x.mission) : queue[r].status = "open"
    BY <1>2, <1>4 DEF SerialInv, StoreOK
  <1>8. Alone => StoreOK(x, queue', sessions', board')
    BY <1>2, <1>3, <1>4, <1>7 DEF StoreOK, QueueSavePc
  <1> QED
    BY <1>5, <1>6, <1>8, StepKeepsSerial

LEMMA OnboardSerial ==
    ASSUME Inv, SerialInv, NEW i \in Requests,
           Onboard(i) \/ SaveOnboarded(i) \/ OnboardRow(i)
    PROVE  SerialInv'
  <1>1. ASSUME NEW g, Goto(i, [Blank EXCEPT !.pc = "onboardSave", !.op = "onboard", !.g = g])
        PROVE  SerialInv'
    <2> DEFINE x == [Blank EXCEPT !.pc = "onboardSave", !.op = "onboard", !.g = g]
    <2>1. x.pc = "onboardSave" /\ x.op = "onboard"
      BY DEF Blank
    <2>2. Goto(i, x)
      BY <1>1
    <2> HIDE DEF x
    <2> QED
      BY <2>1, <2>2, IndifferentSerial
  <1>2. CASE Onboard(i)
    BY <1>1, <1>2, FinishKeepsSerial DEF Onboard
  <1>3. req[i] \in Slot
    BY DEF Inv, SlotOK
  <1>4. CASE SaveOnboarded(i)
    <2> DEFINE x == [req[i] EXCEPT !.pc = "onboardQueue", !.g = EmptyRegistry]
    <2>1. req[i].pc = "onboardSave" /\ (Finish(i, "failed") \/ Goto(i, x))
      BY <1>4 DEF SaveOnboarded, At
    <2>2. x.pc = "onboardQueue" /\ x.op = req[i].op
      BY <1>3 DEF Slot
    <2> HIDE DEF x
    <2>3. req[i].op \notin {"update", "relay"}
      BY <2>1, OtherOp DEF UpdatePc, RelayPc
    <2> QED
      BY <2>1, <2>2, <2>3, IndifferentSerial, FinishKeepsSerial
  <1>5. CASE OnboardRow(i)
    <2>1. PICK q \in Loaded(queue, EmptyQueue), r \in Rows,
               status \in {"open", "paused_waiting_owner"} :
             Goto(i, [req[i] EXCEPT !.pc = "queueSave",
                                    !.q = With(q, r, NewRow("STAFF", None, status))])
      BY <1>5 DEF OnboardRow
    <2>2. req[i].pc = "onboardQueue" /\ queue' = queue /\ queue \in Queue
      BY <1>5 DEF OnboardRow, At, store, Inv, TypeOK
    <2>3. req[i].op \notin {"update", "relay"}
      BY <2>2, OtherOp DEF UpdatePc, RelayPc
    <2> DEFINE y == NewRow("STAFF", None, status)
               n == With(q, r, y)
               x == [req[i] EXCEPT !.pc = "queueSave", !.q = n]
    <2>4. y.status \notin {"in_progress", "done"}
      BY NewRowWaits
    <2>5. Goto(i, x)
      BY <2>1
    <2> HIDE DEF y
    <2>6. SavesOver(queue, n)
      BY <2>2, <2>4, LoadedIs, WithSaves
    <2> HIDE DEF n
    <2>7. x.pc = "queueSave" /\ x.op = req[i].op /\ x.q = n
      BY <1>3 DEF Slot
    <2> HIDE DEF x
    <2> QED
      BY <2>2, <2>3, <2>5, <2>6, <2>7, QueueSaveKeepsSerial
  <1> QED
    BY <1>2, <1>4, <1>5

LEMMA MissionRoutesSerial ==
    ASSUME Inv, SerialInv, NEW i \in Requests, MissionNext(i)
    PROVE  SerialInv'
  BY ManageSerial, ManageLoadSerial, GroupMissionsSerial, EditMissionSerial,
     SaveEditedBoardSerial, AddExecutionSerial, RegisterMissionSerial, PlanMissionSerial,
     NewMissionSerial, OpenMissionSerial, SaveNewMissionSerial, LoadMissionBoardSerial,
     OnboardSerial, LastStepsSerial
  DEF MissionNext

-----------------------------------------------------------------------------
(* SerialInv is inductive, relative to Inv. *)

LEMMA InitSerial == Init => SerialInv
  <1> SUFFICES ASSUME Init, NEW i \in Requests
               PROVE  OwnOK(req[i]) /\ StoreOK(req[i], queue, sessions, board)
    BY DEF SerialInv
  <1>1. req[i].pc = "idle" /\ req[i].op = "none"
    BY DEF Init, Blank
  <1> QED
    BY <1>1 DEF OwnOK, StoreOK, QueueSavePc

LEMMA NextSerial == Inv /\ SerialInv /\ [Next]_vars => SerialInv'
  <1> SUFFICES ASSUME Inv, SerialInv, [Next]_vars
               PROVE  SerialInv'
    OBVIOUS
  <1>1. CASE UNCHANGED vars
    BY <1>1 DEF vars, SerialInv
  <1>2. CASE Next
    <2>1. PICK i \in Requests :
             QueueNext(i) \/ RelayNext(i) \/ SessionNext(i)
             \/ FleetNext(i) \/ MissionNext(i) \/ Crash(i)
      BY <1>2 DEF Next
    <2> QED
      BY <2>1, QueueRouteSerial, RelayRouteSerial, SessionRoutesSerial,
         FleetRoutesSerial, MissionRoutesSerial, LastStepsSerial
  <1> QED
    BY <1>1, <1>2

LEMMA SerialInvariance == Spec => [](Inv /\ SerialInv)
  <1>1. Init => Inv /\ SerialInv
    BY InitInv, InitSerial
  <1>2. (Inv /\ SerialInv) /\ [Next]_vars => (Inv /\ SerialInv)'
    BY NextInv, NextSerial
  <1> QED
    BY <1>1, <1>2, PTL DEF Spec

-----------------------------------------------------------------------------
(* What a step stores, and what it answers. *)

Step(i) ==
    \/ QueueNext(i) \/ RelayNext(i) \/ SessionNext(i)
    \/ FleetNext(i) \/ MissionNext(i) \/ Crash(i)

(* A step of request i stores nothing in the queue and in the session      *)
(* table but the copies i announced, and never both.                       *)
Writes(i) ==
    /\ \/ queue' = queue
       \/ req[i].pc \in QueueSavePc /\ queue' = req[i].q /\ sessions' = sessions
    /\ \/ sessions' = sessions
       \/ req[i].pc \in {"bind", "sessionsSave"} /\ sessions' = req[i].t

LEMMA StepWrites ==
    ASSUME NEW i \in Requests, Step(i)
    PROVE  Writes(i)
  <1>1. CASE QueueNext(i)
    <2>1. CASE SaveQueue(i) \/ BindSession(i)
      BY <2>1 DEF SaveQueue, BindSession, At, QueueSavePc, Stored, Writes
    <2>2. CASE CreateRows(i) \/ RemoveRows(i) \/ UpdateStatus(i)
      BY <2>2 DEF CreateRows, RemoveRows, UpdateStatus, store, Writes
    <2>3. CASE DecideGate(i) \/ DecideSync(i) \/ DecideStart(i) \/ DecideMove(i)
      BY <2>3 DEF DecideGate, DecideSync, DecideStart, DecideMove, AgentsLoaded, store, Writes
    <2>4. CASE SaveUnload(i) \/ LoadBoard(i) \/ SaveBoard(i)
      BY <2>4 DEF SaveUnload, LoadBoard, SaveBoard, store, Writes
    <2>5. CASE Dispatch(i) \/ SaveBump(i) \/ ClaimSession(i)
      BY <2>5 DEF Dispatch, SaveBump, ClaimSession, store, Writes
    <2> QED
      BY <1>1, <2>1, <2>2, <2>3, <2>4, <2>5 DEF QueueNext
  <1>2. CASE RelayNext(i)
    <2>1. CASE RelayQueueSave(i)
      BY <2>1 DEF RelayQueueSave, At, QueueSavePc, Stored, Writes
    <2>2. CASE Relay(i) \/ RelayBoardLoad(i) \/ RelayBoardSave(i)
      BY <2>2 DEF Relay, RelayBoardLoad, RelayBoardSave, store, Writes
    <2>3. CASE RelayAgentsLoad(i) \/ RelayAgentsSave(i)
      BY <2>3 DEF RelayAgentsLoad, RelayAgentsSave, store, Writes
    <2> QED
      BY <1>2, <2>1, <2>2, <2>3 DEF RelayNext
  <1>3. CASE SessionNext(i)
    <2>1. CASE CompleteSaveQueue(i) \/ SaveSessions(i)
      BY <2>1 DEF CompleteSaveQueue, SaveSessions, At, QueueSavePc, Stored, Writes
    <2>2. CASE RegisterSession(i) \/ HeartbeatSession(i) \/ ReleaseSession(i) \/ ExecutionEvent(i)
      BY <2>2 DEF RegisterSession, HeartbeatSession, ReleaseSession, ExecutionEvent, store, Writes
    <2>3. CASE StartMission(i) \/ StartLoadQueue(i) \/ CompleteMission(i)
      BY <2>3 DEF StartMission, StartLoadQueue, CompleteMission, MissionRequest, store, Writes
    <2>4. CASE CompleteLoadQueue(i) \/ CompleteLoadBoard(i) \/ CompleteSaveBoard(i)
      BY <2>4 DEF CompleteLoadQueue, CompleteLoadBoard, CompleteSaveBoard, store, Writes
    <2> QED
      BY <1>3, <2>1, <2>2, <2>3, <2>4 DEF SessionNext
  <1>4. CASE FleetNext(i)
    BY <1>4 DEF FleetNext, ReportAgent, SaveAgents, RunWatchdog, WatchRows, store, Writes
  <1>5. CASE MissionNext(i)
    <2>1. CASE SaveEditedQueue(i) \/ SavePlan(i) \/ SaveNewMission(i)
      BY <2>1 DEF SaveEditedQueue, SavePlan, SaveNewMission, At, QueueSavePc, Stored, Writes
    <2>2. CASE Manage(i) \/ ManageLoad(i) \/ RefuseManaged(i) \/ GroupMissions(i) \/ SaveGroup(i)
      BY <2>2 DEF Manage, ManageLoad, RefuseManaged, GroupMissions, SaveGroup, store, Writes
    <2>3. CASE EditMission(i) \/ SaveEditedBoard(i) \/ AddExecution(i)
      BY <2>3 DEF EditMission, SaveEditedBoard, AddExecution, store, Writes
    <2>4. CASE RegisterMission(i) \/ PlanMission(i) \/ NewMission(i) \/ OpenMission(i)
      BY <2>4 DEF RegisterMission, PlanMission, NewMission, OpenMission, store, Writes
    <2>5. CASE LoadMissionBoard(i) \/ SaveMissionBoard(i)
      BY <2>5 DEF LoadMissionBoard, SaveMissionBoard, store, Writes
    <2>6. CASE Onboard(i) \/ SaveOnboarded(i) \/ OnboardRow(i)
      BY <2>6 DEF Onboard, SaveOnboarded, OnboardRow, store, Writes
    <2> QED
      BY <1>5, <2>1, <2>2, <2>3, <2>4, <2>5, <2>6 DEF MissionNext
  <1>6. CASE Crash(i)
    BY <1>6 DEF Crash, store, Writes
  <1> QED
    BY <1>1, <1>2, <1>3, <1>4, <1>5, <1>6 DEF Step


(* Which action goes on from where a request is. *)
LEMMA StepOf ==
    ASSUME NEW i \in Requests, Step(i)
    PROVE  /\ req[i].pc = "queueSave" => SaveQueue(i) \/ Crash(i)
           /\ req[i].pc = "missionBoardSave" => SaveMissionBoard(i) \/ Crash(i)
           /\ req[i].pc \in RelayPc => RelayNext(i) \/ Crash(i)
  <1>1. CASE QueueNext(i)
    <2>1. CASE CreateRows(i) \/ RemoveRows(i) \/ UpdateStatus(i) \/ SaveQueue(i)
      BY <2>1 DEF CreateRows, RemoveRows, UpdateStatus, SaveQueue, Begins, At, RelayPc
    <2>2. CASE DecideGate(i) \/ DecideSync(i) \/ DecideStart(i) \/ DecideMove(i)
      BY <2>2 DEF DecideGate, DecideSync, DecideStart, DecideMove, AgentsLoaded, At, RelayPc
    <2>3. CASE SaveUnload(i) \/ LoadBoard(i) \/ SaveBoard(i)
      BY <2>3 DEF SaveUnload, LoadBoard, SaveBoard, At, RelayPc
    <2>4. CASE Dispatch(i) \/ SaveBump(i) \/ ClaimSession(i) \/ BindSession(i)
      BY <2>4 DEF Dispatch, SaveBump, ClaimSession, BindSession, At, RelayPc
    <2> QED
      BY <1>1, <2>1, <2>2, <2>3, <2>4 DEF QueueNext
  <1>2. CASE RelayNext(i)
    BY <1>2 DEF RelayNext, Relay, RelayQueueSave, RelayBoardLoad, RelayBoardSave,
                RelayAgentsLoad, RelayAgentsSave, Begins, At, RelayPc
  <1>3. CASE SessionNext(i)
    BY <1>3 DEF SessionNext, RegisterSession, HeartbeatSession, ReleaseSession,
                ExecutionEvent, SaveSessions, StartMission, StartLoadQueue,
                CompleteMission, MissionRequest, CompleteLoadQueue, CompleteSaveQueue,
                CompleteLoadBoard, CompleteSaveBoard, Begins, At, RelayPc
  <1>4. CASE FleetNext(i)
    BY <1>4 DEF FleetNext, ReportAgent, SaveAgents, RunWatchdog, WatchRows, Begins, At,
                RelayPc
  <1>5. CASE MissionNext(i)
    <2>1. CASE SavePlan(i) \/ SaveMissionBoard(i)
      BY <2>1 DEF SavePlan, SaveMissionBoard, At, RelayPc
    <2>2. CASE Manage(i) \/ ManageLoad(i) \/ RefuseManaged(i) \/ GroupMissions(i) \/ SaveGroup(i)
      BY <2>2 DEF Manage, ManageLoad, RefuseManaged, GroupMissions, SaveGroup, Begins, At, RelayPc
    <2>3. CASE EditMission(i) \/ SaveEditedBoard(i) \/ SaveEditedQueue(i) \/ AddExecution(i)
      BY <2>3 DEF EditMission, SaveEditedBoard, SaveEditedQueue, AddExecution, At, RelayPc
    <2>4. CASE RegisterMission(i) \/ PlanMission(i) \/ NewMission(i) \/ OpenMission(i)
      BY <2>4 DEF RegisterMission, PlanMission, NewMission, OpenMission, Begins, At, RelayPc
    <2>5. CASE SaveNewMission(i) \/ LoadMissionBoard(i)
      BY <2>5 DEF SaveNewMission, LoadMissionBoard, At, RelayPc
    <2>6. CASE Onboard(i) \/ SaveOnboarded(i) \/ OnboardRow(i)
      BY <2>6 DEF Onboard, SaveOnboarded, OnboardRow, Begins, At, RelayPc
    <2> QED
      BY <1>5, <2>1, <2>2, <2>3, <2>4, <2>5, <2>6 DEF MissionNext
  <1>6. CASE Crash(i)
    BY <1>6
  <1> QED
    BY <1>1, <1>2, <1>3, <1>4, <1>5, <1>6 DEF Step

(* Alone, a step is a step of any request. *)
LEMMA AloneSteps ==
    ASSUME Alone, Next, NEW i \in Requests
    PROVE  Step(i)
  BY DEF Alone, Next, Step

(* Alone, a queue is only ever saved over one it may be saved over. *)
LEMMA AloneSavesOver ==
    ASSUME Alone, SerialInv, [Next]_vars
    PROVE  queue' = queue \/ SavesOver(queue, queue')
  <1>1. CASE UNCHANGED vars
    BY <1>1 DEF vars
  <1>2. CASE Next
    <2>1. PICK i \in Requests : Step(i)
      BY <1>2 DEF Next, Step
    <2>2. Writes(i)
      BY <2>1, StepWrites
    <2> QED
      BY <2>2 DEF Writes, SerialInv, StoreOK
  <1> QED
    BY <1>1, <1>2

-----------------------------------------------------------------------------
(* Theorems.  Alone: as long as requests do not overlap. *)

(* A row that runs keeps its job and its session: the routes start, stop   *)
(* and relay rows without taking one from under a running executor.        *)
THEOREM WorkKeepsItsJob ==
    ASSUME Alone
    PROVE  Spec => RunningRowsKeepTheirJob
  <1> DEFINE Kept == \A r \in Rows : RunsBeforeAndAfter(r) =>
                        queue'[r].job = queue[r].job /\ queue'[r].session = queue[r].session
  <1>1. SerialInv /\ [Next]_vars => [Kept]_vars
    BY AloneSavesOver DEF SavesOver, SameWork, RunsBeforeAndAfter, Running
  <1> QED
    BY <1>1, SerialInvariance, PTL DEF Spec, RunningRowsKeepTheirJob

(* A row that runs keeps its assignee, edits of its mission included.      *)
THEOREM WorkKeepsItsAssignee ==
    ASSUME Alone
    PROVE  Spec => RunningRowsKeepTheirAssignee
  <1> DEFINE Kept == \A r \in Rows : RunsBeforeAndAfter(r) =>
                        queue'[r].assignee = queue[r].assignee
  <1>1. SerialInv /\ [Next]_vars => [Kept]_vars
    BY AloneSavesOver DEF SavesOver, SameWork, RunsBeforeAndAfter, Running
  <1> QED
    BY <1>1, SerialInvariance, PTL DEF Spec, RunningRowsKeepTheirAssignee

(* A row becomes done only while a row of its mission runs, or by the MPB  *)
(* closure.                                                                *)
THEOREM DoneIsAlwaysEarned ==
    ASSUME Alone, BlocksAreFlat
    PROVE  Spec => DoneIsEarned
  <1> DEFINE Kept == \A r \in Live(queue) \cap Live(queue') :
                        queue[r].status # "done" /\ queue'[r].status = "done"
                           => Earned(queue, queue', r)
  <1>1. SerialInv /\ [Next]_vars => [Kept]_vars
    BY AloneSavesOver DEF SavesOver
  <1> QED
    BY <1>1, SerialInvariance, PTL DEF Spec, DoneIsEarned

(* A row that update_status has started names a session that is stored     *)
(* busy with the row's mission.                                            *)
THEOREM StartedRowsAreBound ==
    ASSUME Alone
    PROVE  Spec => StartsAreBound
  <1> DEFINE Bound(r) == /\ queue'[r].session \in Known(sessions)
                         /\ sessions[queue'[r].session] = SessionOn(MissionOf[r], "busy")
             Kept == \A r \in Live(queue') \ Running(queue) :
                        /\ queue'[r].status = "in_progress"
                        /\ \E i \in Requests : req[i].op = "update" /\ req[i].row = r
                        => Bound(r)
  <1>1. SerialInv /\ [Next]_vars => [Kept]_vars
    <2> SUFFICES ASSUME SerialInv, Next, NEW r \in Live(queue') \ Running(queue),
                        queue'[r].status = "in_progress",
                        NEW i \in Requests, req[i].op = "update", req[i].row = r
                 PROVE  Bound(r)
      OBVIOUS
    <2>1. r \in Running(queue')
      BY DEF Running
    <2>2. req[i].pc \in QueueSavePc /\ queue' = req[i].q
      BY <2>1, AloneSteps, StepWrites DEF Writes
    <2>3. BoundIn(sessions, r, req[i].q[r].session)
      BY <2>1, <2>2 DEF SerialInv, StoreOK
    <2> QED
      BY <2>2, <2>3 DEF BoundIn
  <1> QED
    BY <1>1, SerialInvariance, PTL DEF Spec, StartsAreBound

(* A session leaves a mission for another only when its own executor says  *)
(* so.                                                                     *)
THEOREM SessionsAreNotTaken ==
    ASSUME Alone
    PROVE  Spec => NoSessionIsTaken
  <1> DEFINE Kept == \A s \in Known(sessions) \cap Known(sessions') :
                        /\ sessions[s].mission # None /\ sessions'[s].mission # None
                        /\ sessions'[s].mission # sessions[s].mission
                        => \E i \in Requests :
                              req[i].op \in {"start", "event"} /\ req[i].session = s
  <1>1. SerialInv /\ [Next]_vars => [Kept]_vars
    <2> SUFFICES ASSUME SerialInv, Next PROVE Kept
      OBVIOUS
    <2>1. PICK i \in Requests : Step(i)
      BY DEF Next, Step
    <2>2. Writes(i)
      BY <2>1, StepWrites
    <2>3. sessions' = sessions \/ TakesNone(sessions, sessions', req[i].op, req[i].session)
      BY <2>2 DEF Writes, SerialInv, StoreOK
    <2> QED
      BY <2>3 DEF TakesNone
  <1> QED
    BY <1>1, SerialInvariance, PTL DEF Spec, NoSessionIsTaken

(* What a slot holds after a step. *)
LEMMA SlotSays ==
    ASSUME Inv, NEW i \in Requests
    PROVE  /\ \A x : Goto(i, x) => req'[i] = x
           /\ \A reply : Finish(i, reply) => req'[i].reply = reply
           /\ req[i] \in Slot
  BY DEF Inv, TypeOK, Goto, Finish, Blank

(* A relay of a done does not answer ok before its board is stored.        *)
LEMMA RelayAnswers ==
    ASSUME Inv, SerialInv, NEW i \in Requests, RelayNext(i), req[i].pc \in RelayPc,
           req[i].op = "relay", req[i].status = "done", req'[i].reply = "ok"
    PROVE  /\ queue' = queue
           /\ \/ RelayBoardSave(i) /\ board' = req[i].b
              \/ req[i].pc \in {"relayAgentsLoad", "relayAgentsSave"} /\ board' = board
  <1>1. req[i].reply = "none" /\ req[i] \in Slot
    BY SlotSays DEF SerialInv, OwnOK
  <1>2. CASE Relay(i)
    BY <1>2 DEF Relay, Begins, At, RelayPc
  <1>3. CASE RelayQueueSave(i)
    <2>1. Finish(i, "failed") \/ Goto(i, [req[i] EXCEPT !.pc = "relayBoardLoad", !.q = EmptyQueue])
      BY <1>3 DEF RelayQueueSave
    <2>2. [req[i] EXCEPT !.pc = "relayBoardLoad", !.q = EmptyQueue].reply = "none"
      BY <1>1 DEF Slot
    <2> QED
      BY <2>1, <2>2, SlotSays
  <1>4. CASE RelayBoardLoad(i)
    <2>1. PICK b : Goto(i, [req[i] EXCEPT !.pc = "relayBoardSave", !.b = b])
      BY <1>4 DEF RelayBoardLoad
    <2>2. [req[i] EXCEPT !.pc = "relayBoardSave", !.b = b].reply = "none"
      BY <1>1 DEF Slot
    <2> QED
      BY <2>1, <2>2, SlotSays
  <1>5. CASE RelayBoardSave(i)
    <2>1. PICK result \in SaveResults :
             /\ board' = Stored(result, board, req[i].b)
             /\ IF result = "ok" THEN ReleaseOrFinish(i) ELSE Finish(i, "failed")
      BY <1>5 DEF RelayBoardSave
    <2>2. result = "ok"
      BY <2>1, SlotSays
    <2> QED
      BY <1>5, <2>1, <2>2 DEF Stored, RelayBoardSave
  <1>6. CASE RelayAgentsLoad(i) \/ RelayAgentsSave(i)
    BY <1>6 DEF RelayAgentsLoad, RelayAgentsSave, At, store
  <1> QED
    BY <1>2, <1>3, <1>4, <1>5, <1>6 DEF RelayNext

(* A done that was relayed with success is stored, row and mission.        *)
THEOREM RelayedDoneIsKept ==
    ASSUME Alone
    PROVE  Spec => RelayedDoneIsStored
  <1> DEFINE Kept == \A i \in Requests :
                        req[i].op = "relay" /\ req[i].status = "done" /\ req'[i].reply = "ok" =>
                           /\ MissionOf[req[i].row] \in board'
                           /\ req[i].row \in Live(queue') /\ queue'[req[i].row].status = "done"
  <1>1. Inv /\ SerialInv /\ [Next]_vars => [Kept]_vars
    <2> SUFFICES ASSUME Inv, SerialInv, Next, NEW i \in Requests,
                        req[i].op = "relay", req[i].status = "done", req'[i].reply = "ok"
                 PROVE  /\ MissionOf[req[i].row] \in board'
                        /\ req[i].row \in Live(queue') /\ queue'[req[i].row].status = "done"
      OBVIOUS
    <2>1. req[i].pc \in RelayPc /\ RelayOK(req[i], queue, board)
      BY DEF SerialInv, OwnOK, StoreOK
    <2>2. RelayNext(i) \/ Crash(i)
      BY <2>1, AloneSteps, StepOf
    <2>3. ~ Crash(i)
      BY SlotSays DEF Crash
    <2>4. /\ queue' = queue
          /\ \/ RelayBoardSave(i) /\ board' = req[i].b
             \/ req[i].pc \in {"relayAgentsLoad", "relayAgentsSave"} /\ board' = board
      BY <2>1, <2>2, <2>3, RelayAnswers
    <2>5. RelayBoardSave(i) => req[i].pc = "relayBoardSave"
      BY DEF RelayBoardSave, At
    <2> QED
      BY <2>1, <2>4, <2>5 DEF RelayOK
  <1> QED
    BY <1>1, SerialInvariance, PTL DEF Spec, RelayedDoneIsStored

(* A mission opened with success has an open row and is not shown as done. *)
THEOREM OpenedMissionsAreOpen ==
    ASSUME Alone
    PROVE  Spec => CreatedMissionsAreOpen
  <1> DEFINE Kept == \A i \in Requests :
                        At(i, "missionBoardSave") /\ req'[i].reply = "ok" =>
                           /\ req[i].mission \notin board'
                           /\ \E r \in RowsOf(queue', req[i].mission) : queue'[r].status = "open"
  <1>1. Inv /\ SerialInv /\ [Next]_vars => [Kept]_vars
    <2> SUFFICES ASSUME Inv, SerialInv, Next, NEW i \in Requests,
                        req[i].pc = "missionBoardSave", req'[i].reply = "ok"
                 PROVE  /\ req[i].mission \notin board'
                        /\ \E r \in RowsOf(queue', req[i].mission) : queue'[r].status = "open"
      BY DEF At
    <2>1. SaveMissionBoard(i)
      <3>1. ~ Crash(i)
        BY SlotSays DEF Crash
      <3> QED
        BY <3>1, AloneSteps, StepOf
    <2>2. PICK result \in SaveResults :
             /\ board' = Stored(result, board, req[i].b)
             /\ Finish(i, IF req[i].reply = "ok" THEN Answer(result) ELSE "failed")
      BY <2>1 DEF SaveMissionBoard
    <2>3. req[i].reply = "ok" /\ result = "ok"
      BY <2>2, SlotSays DEF Answer
    <2>4. board' = req[i].b /\ queue' = queue
      BY <2>1, <2>2, <2>3 DEF Stored, SaveMissionBoard
    <2> QED
      BY <2>3, <2>4 DEF SerialInv, StoreOK
  <1> QED
    BY <1>1, SerialInvariance, PTL DEF Spec, CreatedMissionsAreOpen

-----------------------------------------------------------------------------
(* Theorems of any number of requests. *)

(* A step of request i changes no other slot. *)
LEMMA StepGoes ==
    ASSUME NEW i \in Requests, Step(i)
    PROVE  \E x : Goto(i, x)
  <1>1. CASE QueueNext(i)
    <2>1. CASE CreateRows(i) \/ RemoveRows(i) \/ UpdateStatus(i) \/ SaveQueue(i)
      BY <2>1 DEF CreateRows, RemoveRows, UpdateStatus, SaveQueue, Finish
    <2>2. CASE DecideGate(i) \/ DecideSync(i) \/ DecideStart(i) \/ DecideMove(i)
      BY <2>2 DEF DecideGate, DecideSync, DecideStart, DecideMove, Commit, Finish
    <2>3. CASE SaveUnload(i) \/ LoadBoard(i) \/ SaveBoard(i)
      BY <2>3 DEF SaveUnload, LoadBoard, SaveBoard, Commit, Finish
    <2>4. CASE Dispatch(i) \/ SaveBump(i)
      BY <2>4 DEF Dispatch, SaveBump, Finish
    <2>5. CASE ClaimSession(i) \/ BindSession(i)
      BY <2>5 DEF ClaimSession, BindSession, Commit, Finish
    <2> QED
      BY <1>1, <2>1, <2>2, <2>3, <2>4, <2>5 DEF QueueNext
  <1>2. CASE RelayNext(i)
    <2>1. CASE RelayQueueSave(i) \/ RelayBoardLoad(i)
      BY <2>1 DEF RelayQueueSave, RelayBoardLoad, ReleaseOrFinish, Finish
    <2>2. CASE RelayBoardSave(i) \/ RelayAgentsLoad(i) \/ RelayAgentsSave(i)
      BY <2>2 DEF RelayBoardSave, RelayAgentsLoad, RelayAgentsSave, ReleaseOrFinish, Finish
    <2>3. CASE Relay(i)
      <3>1. PICK q \in Loaded(queue, EmptyQueue), r \in Rows, next \in QueueStatus,
                 job \in {None} \cup {j \in Jobs : \E x \in Rows : <<x, j>> \in jobs},
                 complete, release \in BOOLEAN :
              IF r \in Live(q) /\ RelayAllowed(q[r], next, job, complete)
                THEN Goto(i, [Blank EXCEPT
                                !.pc = "relayQueue", !.op = "relay",
                                !.row = r, !.status = next,
                                !.q = With(q, r, RelayedRow(q[r], next, job)),
                                !.old = IF release /\ q[r].status = "in_progress"
                                                   /\ next # "in_progress"
                                          THEN q[r] ELSE None])
                ELSE Finish(i, "refused")
        BY <2>3 DEF Relay
      <3> QED
        BY <3>1 DEF Finish
    <2> QED
      BY <1>2, <2>1, <2>2, <2>3 DEF RelayNext
  <1>3. CASE SessionNext(i)
    <2>1. CASE RegisterSession(i) \/ HeartbeatSession(i) \/ ReleaseSession(i)
      BY <2>1 DEF RegisterSession, HeartbeatSession, ReleaseSession, SaveTable, Finish
    <2>2. CASE ExecutionEvent(i) \/ SaveSessions(i) \/ StartMission(i) \/ CompleteMission(i)
      BY <2>2 DEF ExecutionEvent, SaveSessions, StartMission, CompleteMission,
                  MissionRequest, SaveTable, Finish
    <2>3. CASE StartLoadQueue(i) \/ CompleteLoadQueue(i) \/ CompleteSaveQueue(i)
      BY <2>3 DEF StartLoadQueue, CompleteLoadQueue, CompleteSaveQueue, SaveTable, Finish
    <2>4. CASE CompleteLoadBoard(i) \/ CompleteSaveBoard(i)
      BY <2>4 DEF CompleteLoadBoard, CompleteSaveBoard
    <2> QED
      BY <1>3, <2>1, <2>2, <2>3, <2>4 DEF SessionNext
  <1>4. CASE FleetNext(i)
    BY <1>4 DEF FleetNext, ReportAgent, SaveAgents, RunWatchdog, WatchRows, Watch, Finish
  <1>5. CASE MissionNext(i)
    <2>1. CASE Manage(i) \/ ManageLoad(i) \/ RefuseManaged(i) \/ GroupMissions(i) \/ SaveGroup(i)
      BY <2>1 DEF Manage, ManageLoad, RefuseManaged, GroupMissions, SaveGroup, Finish
    <2>2. CASE EditMission(i) \/ SaveEditedBoard(i) \/ SaveEditedQueue(i) \/ AddExecution(i)
      BY <2>2 DEF EditMission, SaveEditedBoard, SaveEditedQueue, AddExecution, Finish
    <2>3. CASE RegisterMission(i) \/ PlanMission(i) \/ SavePlan(i)
      BY <2>3 DEF RegisterMission, PlanMission, SavePlan, Finish
    <2>4. CASE NewMission(i) \/ OpenMission(i) \/ SaveNewMission(i)
      BY <2>4 DEF NewMission, OpenMission, SaveNewMission, Finish
    <2>5. CASE LoadMissionBoard(i) \/ SaveMissionBoard(i)
      BY <2>5 DEF LoadMissionBoard, SaveMissionBoard, Finish
    <2>6. CASE Onboard(i) \/ SaveOnboarded(i) \/ OnboardRow(i)
      BY <2>6 DEF Onboard, SaveOnboarded, OnboardRow, Finish
    <2> QED
      BY <1>5, <2>1, <2>2, <2>3, <2>4, <2>5, <2>6 DEF MissionNext
  <1>6. CASE Crash(i)
    BY <1>6 DEF Crash, Finish
  <1> QED
    BY <1>1, <1>2, <1>3, <1>4, <1>5, <1>6 DEF Step

(* A stored update has closed all that the MPB rule closes.                *)
THEOREM MpbClosesWholly == Spec => MpbClosureIsComplete
  <1> DEFINE Kept == \A i \in Requests :
                        req[i].op = "update" /\ At(i, "queueSave") /\ req'[i].reply = "ok" =>
                           MpbClosed(queue', Block[MissionOf[req[i].row]])
  <1>1. Inv /\ SerialInv /\ [Next]_vars => [Kept]_vars
    <2> SUFFICES ASSUME Inv, SerialInv, Next, NEW i \in Requests,
                        req[i].op = "update", req[i].pc = "queueSave", req'[i].reply = "ok"
                 PROVE  MpbClosed(queue', Block[MissionOf[req[i].row]])
      BY DEF At
    <2>1. OwnOK(req[i])
      BY DEF SerialInv
    <2>2. PICK j \in Requests : Step(j)
      BY DEF Next, Step
    <2>3. j = i
      <3>1. \E x : Goto(j, x)
        BY <2>2, StepGoes
      <3> QED
        BY <2>1, <3>1 DEF OwnOK, Goto, Inv, TypeOK
    <2>4. SaveQueue(i)
      BY <2>2, <2>3, StepOf, SlotSays DEF Crash
    <2>5. PICK result \in SaveResults :
             queue' = Stored(result, queue, req[i].q) /\ Finish(i, Answer(result))
      BY <2>4 DEF SaveQueue
    <2>6. queue' = req[i].q
      BY <2>5, SlotSays DEF Answer, Stored
    <2> QED
      BY <2>1, <2>6 DEF OwnOK
  <1> QED
    BY <1>1, SerialInvariance, PTL DEF Spec, MpbClosureIsComplete

(* Both routes that carry a copy of the MPB rule close a block alike.      *)
THEOREM ClosuresNeverDiffer == Spec => BothClosuresAgree
  <1> DEFINE Agree == \A m \in {c \in Missions : queue' # queue /\ Part[c] = "CPP1"} :
                         (\A r, x \in ParentRows(queue', Block[m]) : r = x)
                            => DirectClosures(queue', m) = Closures(queue', m)
  <1>1. Inv' => [Agree]_queue
    BY ClosuresAgree DEF Inv, TypeOK
  <1> QED
    BY <1>1, Invariance, PTL DEF BothClosuresAgree
=============================================================================
