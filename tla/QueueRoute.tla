----------------------------- MODULE QueueRoute -----------------------------
(***************************************************************************)
(* POST /api/govhub/operations/queue.  Every action loads the queue first  *)
(* and saves all of it last; update_status also dispatches a start to the  *)
(* worker, raises or releases the agent's load, binds a session and        *)
(* updates the mission board on the way, each with a load and a save of    *)
(* its own and no way back.                                                *)
(***************************************************************************)
EXTENDS GovStore

(* create_item and create_plan: one mission, one or more new rows. *)
CreateRows(i) ==
    /\ Begins(i, "create") /\ Engineer(i)
    /\ \E q \in Loaded(queue, EmptyQueue), m \in Missions :
       \E S \in SUBSET {r \in Rows \ minted : MissionOf[r] = m} :
       \E who \in [S -> Asked], agent \in [S -> Agents \cup {None}] :
          /\ S # {}
          /\ minted' = minted \cup S
          /\ Goto(i, [Blank EXCEPT !.pc = "queueSave", !.op = "create",
                                   !.q = Added(q, S, who, agent)])
    /\ UNCHANGED <<store, jobs>>

(* remove_item, clear_done, clear_open and clear_paused. *)
RemoveRows(i) ==
    /\ Begins(i, "remove") /\ Engineer(i)
    /\ \E q \in Loaded(queue, EmptyQueue) :
       \E S \in {{r} : r \in Rows}
                \cup {{r \in Live(q) : q[r].status = status} :
                          status \in {"done", "open", "paused_waiting_owner"}} :
          Goto(i, [Blank EXCEPT !.pc = "queueSave", !.op = "remove",
                                !.q = Without(q, S)])
    /\ UNCHANGED <<store, minted, jobs>>

(* The last step of every action of the route, and of the watchdog's run. *)
SaveQueue(i) ==
    /\ At(i, "queueSave")
    /\ \E result \in SaveResults :
          /\ queue' = Stored(result, queue, req[i].q)
          /\ Finish(i, Answer(result))
    /\ UNCHANGED <<agents, sessions, board, minted, jobs>>

-----------------------------------------------------------------------------
(* update_status *)

UpdateStatus(i) ==
    /\ Begins(i, "update") /\ Engineer(i)
    /\ \E q \in Loaded(queue, EmptyQueue), r \in Rows :
          IF r \in Live(q)
            THEN Goto(i, [Blank EXCEPT !.pc = "decide", !.op = "update",
                                       !.row = r, !.q = q])
            ELSE Finish(i, "refused")
    /\ UNCHANGED <<store, minted, jobs>>

Current(i) == req[i].q[req[i].row]

(* nextRow replaces the row, the MPB closure runs, and the queue goes to   *)
(* its save, for a done by way of the mission board.                       *)
Commit(i, nextRow) ==
    \E q \in Closures(With(req[i].q, req[i].row, nextRow), MissionOf[req[i].row]) :
       Goto(i, [Blank EXCEPT !.op = "update", !.row = req[i].row, !.q = q,
                             !.pc = IF nextRow.status = "done" THEN "boardLoad"
                                                               ELSE "queueSave"])

(* The agent registry is loaded; whether its agents are usable depends on  *)
(* their last heartbeats.                                                  *)
AgentsLoaded(i, g, up) ==
    /\ At(i, "decide")
    /\ g \in Loaded(agents, EmptyRegistry)
    /\ up \subseteq Registered(g)
    /\ UNCHANGED <<store, minted, jobs>>

(* open or in_progress asked of a row at the staff gate: bind it to an     *)
(* executor, hand it to the staff, or refuse; it is never started at once. *)
DecideGate(i) ==
    \E g \in Loaded(agents, EmptyRegistry) : \E up \in SUBSET Registered(g) :
       /\ AgentsLoaded(i, g, up)
       /\ Current(i).status = "staff_validation_gate"
       /\ \/ Commit(i, FallbackRow(Current(i)))
          \/ \E who \in Asked \ {"STAFF"}, agent \in Agents \cup {None} :
                /\ HasHealthyAgent(up, who)
                /\ Commit(i, BoundRow(Current(i), who, agent))
          \/ Finish(i, "refused")

(* in_progress asked of a row that runs already. *)
DecideSync(i) ==
    \E g \in Loaded(agents, EmptyRegistry) : \E up \in SUBSET Registered(g) :
       /\ AgentsLoaded(i, g, up)
       /\ Current(i).status = "in_progress"
       /\ IF HasHealthyAgent(up, Current(i).assignee) /\ Current(i).session # None
            THEN Commit(i, SyncedRow(Current(i)))
            ELSE Finish(i, "refused")

(* The job ids an accepted start may be answered with: a new one, or, from *)
(* a worker, the id it already gave this row (x-idempotency-key is fixed   *)
(* per row).                                                               *)
JobsFor(r, who) ==
    {j \in Jobs : \/ \A x \in Rows : <<x, j>> \notin jobs
                 \/ (who # "STAFF" /\ <<r, j>> \in jobs)}

(* in_progress asked of an open, paused or done row.  (Bound: a start is   *)
(* asked for only while a job id is left to answer it with.)               *)
DecideStart(i) ==
    \E g \in Loaded(agents, EmptyRegistry) : \E up \in SUBSET Registered(g) :
       /\ AgentsLoaded(i, g, up)
       /\ Current(i).status \notin {"staff_validation_gate", "in_progress"}
       /\ JobsFor(req[i].row, Current(i).assignee) # {}
       /\ IF HasHealthyAgent(up, Current(i).assignee)
            THEN \E a \in StartAgents(g, up, Current(i).assignee) :
                    Goto(i, [req[i] EXCEPT !.pc = "dispatch", !.g = g, !.agent = a])
            ELSE Finish(i, "refused")

(* Any other status.  A running row's load is released before anything     *)
(* else is looked at.                                                      *)
DecideMove(i) ==
    \E g \in Loaded(agents, EmptyRegistry), next \in QueueStatus \ {"in_progress"} :
       /\ AgentsLoaded(i, g, {})
       /\ ~ (Current(i).status = "staff_validation_gate" /\ next = "open")
       /\ IF Current(i).status = "in_progress"
            THEN \E released \in Releases(g, Current(i)) :
                    Goto(i, [req[i] EXCEPT !.pc = "unload", !.g = released,
                                           !.status = next])
            ELSE IF next = "done"
                   THEN Finish(i, "refused")
                   ELSE Commit(i, MovedRow(Current(i), next))

(* The released load is saved, whatever comes of it; then done is          *)
(* validated, or the row moves.                                            *)
SaveUnload(i) ==
    /\ At(i, "unload")
    /\ \E result \in SaveResults : agents' = Stored(result, agents, req[i].g)
    /\ IF req[i].status = "done"
         THEN \E complete \in BOOLEAN :
                 IF ValidTransition(Current(i).status, "done", complete)
                   THEN Commit(i, DoneRow(Current(i)))
                   ELSE Finish(i, "refused")
         ELSE Commit(i, MovedRow(Current(i), req[i].status))
    /\ UNCHANGED <<queue, sessions, board, minted, jobs>>

LoadBoard(i) ==
    /\ At(i, "boardLoad")
    /\ \E b \in Loaded(board, {}) :
          Goto(i, [req[i] EXCEPT !.pc = "boardSave",
                                 !.b = b \cup {MissionOf[req[i].row]}])
    /\ UNCHANGED <<store, minted, jobs>>

SaveBoard(i) ==
    /\ At(i, "boardSave")
    /\ \E result \in SaveResults : board' = Stored(result, board, req[i].b)
    /\ Goto(i, [req[i] EXCEPT !.pc = "queueSave", !.b = {}])
    /\ UNCHANGED <<queue, agents, sessions, minted, jobs>>

-----------------------------------------------------------------------------
(* The start of a row: dispatch, load, session, row. *)

(* requestQueueStartAck.  STAFF rows are acknowledged locally.  A worker   *)
(* may acknowledge, not take the start, or take it while the answer is     *)
(* late, lost or not understood.                                           *)
Dispatch(i) ==
    /\ At(i, "dispatch")
    /\ \/ \E j \in JobsFor(req[i].row, Current(i).assignee) :
             /\ jobs' = jobs \cup {<<req[i].row, j>>}
             /\ \/ Goto(i, [req[i] EXCEPT
                              !.pc = IF req[i].agent = None THEN "claim" ELSE "bump",
                              !.job = j])
                \/ Current(i).assignee # "STAFF" /\ Finish(i, "refused")
       \/ /\ Current(i).assignee # "STAFF"
          /\ Finish(i, "refused")
          /\ jobs' = jobs
    /\ UNCHANGED <<store, minted>>

SaveBump(i) ==
    /\ At(i, "bump")
    /\ \E result \in SaveResults :
          agents' = Stored(result, agents, Bumped(req[i].g, req[i].agent))
    /\ Goto(i, [req[i] EXCEPT !.pc = "claim", !.g = EmptyRegistry, !.agent = None])
    /\ UNCHANGED <<queue, sessions, board, minted, jobs>>

ClaimSession(i) ==
    /\ At(i, "claim")
    /\ \E t \in Loaded(sessions, EmptySessions) :
       LET able == StartSessions(t, req[i].row, Current(i))
       IN  \/ able = {} /\ Finish(i, "refused")
           \/ \E s \in able :
                 Goto(i, [req[i] EXCEPT
                            !.pc = "bind", !.session = s, !.g = EmptyRegistry,
                            !.t = Set(t, s, SessionOn(MissionOf[req[i].row], "busy"))])
    /\ UNCHANGED <<store, minted, jobs>>

BindSessionUnchecked(i) ==   \* mutated
    /\ At(i, "bind")
    /\ \E result \in SaveResults : sessions' = Stored(result, sessions, req[i].t)
    /\ Commit(i, StartedRow(Current(i), req[i].job, req[i].session,
                            SessionAgent[req[i].session]))
    /\ UNCHANGED <<queue, agents, board, minted, jobs>>

BindSession(i) ==
    /\ At(i, "bind")
    /\ \E result \in SaveResults :
          /\ sessions' = Stored(result, sessions, req[i].t)
          /\ IF result = "ok"
               THEN Commit(i, StartedRow(Current(i), req[i].job, req[i].session,
                                         SessionAgent[req[i].session]))
               ELSE Finish(i, "failed")
    /\ UNCHANGED <<queue, agents, board, minted, jobs>>

QueueNext(i) ==
    \/ CreateRows(i)   \/ RemoveRows(i)  \/ SaveQueue(i)    \/ UpdateStatus(i)
    \/ DecideGate(i)   \/ DecideSync(i)  \/ DecideStart(i)  \/ DecideMove(i)
    \/ SaveUnload(i)   \/ LoadBoard(i)   \/ SaveBoard(i)
    \/ Dispatch(i)     \/ SaveBump(i)    \/ ClaimSession(i) \/ BindSession(i)
=============================================================================
