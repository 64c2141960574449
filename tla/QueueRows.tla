----------------------------- MODULE QueueRows -----------------------------
(***************************************************************************)
(* The execution queue ("esteira") as a value: what a row is, and what     *)
(* each handler turns a row, or the whole queue, into.  No state lives     *)
(* here; the routes load a queue, apply these operators and save it.       *)
(*                                                                         *)
(* Abstraction: titles, notes, progress, ETA, priorities, transition       *)
(* reasons and time stamps are left out.  Where the code takes the FIRST   *)
(* row of a mission in the order (priority, newest), the model takes any   *)
(* row of that mission: the order depends on data the model does not keep. *)
(***************************************************************************)

CONSTANTS
    Rows,        \* identities a queue row can take (queue_id)
    Missions,    \* mission ids
    MissionOf,   \* the mission a row belongs to
    Block,       \* the MPB block of a mission: itself, or its parent mission
    Part,        \* "BLOCK", or the nominal part: "STAFF" | "PA" | "CPP1" | "CPP2"
    Agents,      \* agent ids
    Sessions,    \* execution session ids
    Jobs,        \* execution job ids a start may be answered with
    None         \* an absent field, row, session or agent

QueueStatus == {"staff_validation_gate", "open", "in_progress", "done",
                "paused_waiting_owner"}

Assignee == {"STAFF", "CPP", "CPP-IA"}

ChildParts == {"STAFF", "PA", "CPP1", "CPP2"}

Row == [status   : QueueStatus,
        assignee : Assignee,
        agent    : Agents \cup {None},
        session  : Sessions \cup {None},
        exec     : Agents \cup {None},
        job      : Jobs \cup {None}]

Queue == [Rows -> Row \cup {None}]

ASSUME QueueAssumption ==
    /\ MissionOf \in [Rows -> Missions]
    /\ Block \in [Missions -> Missions]
    /\ Part \in [Missions -> ChildParts \cup {"BLOCK"}]
    /\ \A m \in Missions : Part[m] = "BLOCK" => Block[m] = m
    /\ None \notin Row
    /\ None \notin Sessions
    /\ None \notin Agents
    /\ None \notin Jobs

EmptyQueue == [r \in Rows |-> None]

Live(q) == {r \in Rows : q[r] # None}

RowsOf(q, m) == {r \in Live(q) : MissionOf[r] = m}

-----------------------------------------------------------------------------
(* The done contract.  complete: ack, proof, delivery, validation and      *)
(* request id were all given.                                              *)
ValidTransitionOfAnyRow(current, next, complete) ==      \* mutated
    next = "done" => complete

ValidTransitionOfPausedRow(current, next, complete) ==   \* mutated
    next = "done" => current \in {"in_progress", "paused_waiting_owner"} /\ complete

ValidTransition(current, next, complete) ==
    next = "done" => current = "in_progress" /\ complete

-----------------------------------------------------------------------------
CreatedRow(who, agent) ==
    [status   |-> IF who = "STAFF" THEN "open" ELSE "staff_validation_gate",
     assignee |-> who, agent |-> agent,
     session  |-> None, exec |-> None, job |-> None]

(* A row added by way of a mission, an office or the chat. *)
NewRow(who, agent, status) == [CreatedRow(who, agent) EXCEPT !.status = status]

EditedRowInPlace(row, who) ==   \* mutated
    IF row.status = "done" THEN row ELSE [row EXCEPT !.assignee = who]

(* edit_mission: a row whose assignee changes while it runs is open again, *)
(* and keeps its session, its execution agent and its job.                 *)
EditedRow(row, who) ==
    IF row.status = "done" \/ (row.status = "in_progress" /\ row.assignee = who)
      THEN row
      ELSE [row EXCEPT !.status = IF row.status = "in_progress" THEN "open" ELSE row.status,
                       !.assignee = who, !.agent = None]

(* bind_cpp, reassign_cpp and the automatic bind *)
BoundRow(row, who, agent) ==
    [row EXCEPT !.status = "open", !.assignee = who,
                !.agent = IF agent = None THEN row.agent ELSE agent]

FallbackRowKeepingSession(row) ==   \* mutated
    [row EXCEPT !.status = "open", !.assignee = "STAFF",
                !.agent = None, !.exec = None]

FallbackRow(row) ==
    [row EXCEPT !.status = "open", !.assignee = "STAFF",
                !.agent = None, !.session = None, !.exec = None]

StartedRowOfNobody(row, job, session, agent) ==   \* mutated
    [row EXCEPT !.status = "in_progress", !.job = job,
                !.session = session, !.agent = agent]

StartedRow(row, job, session, agent) ==
    [row EXCEPT !.status = "in_progress", !.job = job,
                !.session = session, !.agent = agent, !.exec = agent]

(* start of a row that already runs: the bound agent is restored, and the  *)
(* job and the session are kept                                            *)
SyncedRow(row) ==
    [row EXCEPT !.agent = IF row.exec = None THEN row.agent ELSE row.exec]

DoneRow(row) == [row EXCEPT !.status = "done"]

(* reopen, pause, or back to the gate *)
MovedRow(row, status) == [row EXCEPT !.status = status, !.agent = None]

RelayedRow(row, status, job) ==
    [row EXCEPT !.status = status,
                !.agent = IF status = "in_progress" THEN row.agent ELSE None,
                !.job = IF job = None THEN row.job ELSE job]

CompletedRow(row, agent) ==
    [row EXCEPT !.status = "done", !.agent = agent, !.exec = agent]

WatchedRow(row, status) == [row EXCEPT !.status = status]

-----------------------------------------------------------------------------
With(q, r, row) == [q EXCEPT ![r] = row]

(* create_item and create_plan *)
Added(q, S, who, agent) ==
    [r \in Rows |-> IF r \in S THEN CreatedRow(who[r], agent[r]) ELSE q[r]]

(* The plan of a mission: one new row per part. *)
Planned(q, S, who, agent, status) ==
    [r \in Rows |-> IF r \in S THEN NewRow(who[r], agent[r], status[r]) ELSE q[r]]

MissionEdited(q, m, who) ==
    [r \in Rows |-> IF r \in RowsOf(q, m) THEN EditedRow(q[r], who) ELSE q[r]]

Without(q, S) == [r \in Rows |-> IF r \in S THEN None ELSE q[r]]

MissionCompletedEverywhere(q, m, agent) ==   \* mutated
    [r \in Rows |-> IF r \in Live(q) THEN CompletedRow(q[r], agent) ELSE q[r]]

(* complete_mission closes every row of the mission *)
MissionCompleted(q, m, agent) ==
    [r \in Rows |-> IF r \in RowsOf(q, m) THEN CompletedRow(q[r], agent) ELSE q[r]]

(* The watchdog pauses the rows of off and moves those of stuck. *)
Watched(q, off, stuck, to) ==
    [r \in Rows |-> CASE r \in off           -> WatchedRow(q[r], "paused_waiting_owner")
                      [] r \in stuck \ off   -> WatchedRow(q[r], to[r])
                      [] OTHER               -> q[r]]

-----------------------------------------------------------------------------
(* MPB blocks: a parent mission with four nominal children.                *)

ChildRows(q, b) ==
    {r \in Live(q) : Block[MissionOf[r]] = b /\ Part[MissionOf[r]] \in ChildParts}

PartRows(q, b, p) == {r \in ChildRows(q, b) : Part[MissionOf[r]] = p}

ParentRows(q, b) == RowsOf(q, b)

(* There are at least four child rows. *)
FourChildren(q, b) ==
    \E r1, r2, r3, r4 \in ChildRows(q, b) :
        r1 # r2 /\ r1 # r3 /\ r1 # r4 /\ r2 # r3 /\ r2 # r4 /\ r3 # r4

Closed(q, S) ==
    [r \in Rows |-> IF r \in S THEN DoneRow(q[r]) ELSE q[r]]

OpenReviews(q, b) ==
    {r \in PartRows(q, b, "STAFF") \cup PartRows(q, b, "PA") : q[r].status = "open"}

ParentFinalizedEarly(q, b) ==   \* mutated
    IF \E r \in ChildRows(q, b) : q[r].status = "done"
      THEN Closed(q, {r \in ParentRows(q, b) : q[r].status # "done"})
      ELSE q

ParentFinalized(q, b) ==
    IF \A r \in ChildRows(q, b) : q[r].status = "done"
      THEN Closed(q, {r \in ParentRows(q, b) : q[r].status # "done"})
      ELSE q

ClosuresWithoutParent(q, m) ==   \* mutated
    LET b == Block[m]
        C1 == PartRows(q, b, "CPP1")
        C2 == PartRows(q, b, "CPP2")
    IN  IF FourChildren(q, b) /\ C1 # {} /\ C2 # {}
          THEN {IF q[c[1]].status = "done" /\ q[c[2]].status = "done"
                  THEN Closed(q, OpenReviews(q, b))
                  ELSE q : c \in C1 \X C2}
          ELSE {q}

(* The queues the canonical closure may produce after a row of mission m   *)
(* changed: c1 and c2 are the rows `find' meets first.                     *)
Closures(q, m) ==
    LET b == Block[m]
        C1 == PartRows(q, b, "CPP1")
        C2 == PartRows(q, b, "CPP2")
    IN  IF FourChildren(q, b) /\ C1 # {} /\ C2 # {}
          THEN {IF q[c[1]].status = "done" /\ q[c[2]].status = "done"
                  THEN ParentFinalized(Closed(q, OpenReviews(q, b)), b)
                  ELSE q : c \in C1 \X C2}
          ELSE {q}
=============================================================================
