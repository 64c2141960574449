---------------------------- MODULE SessionRoutes ----------------------------
(***************************************************************************)
(* POST /api/govhub/operations/sessions and                                *)
(* POST /api/govhub/operations/execution-events: an executor registers a   *)
(* session, keeps it alive, takes a mission, reports on it and completes   *)
(* it.  Every action loads the session table first and saves all of it     *)
(* last.  The session's token is taken to be right.                        *)
(***************************************************************************)
EXTENDS GovStore

SaveTable(i, op, s, x, t) ==
    Goto(i, [Blank EXCEPT !.pc = "sessionsSave", !.op = op, !.session = s,
                          !.t = Set(t, s, x)])

RegisterSession(i) ==
    /\ Begins(i, "register") /\ Engineer(i)
    /\ \E t \in Loaded(sessions, EmptySessions), s \in Sessions \ minted :
          /\ SaveTable(i, "register", s, FreeSession, t)
          /\ minted' = minted \cup {s}
    /\ UNCHANGED <<store, jobs>>

HeartbeatSession(i) ==
    /\ Begins(i, "heartbeat") /\ Engineer(i)
    /\ \E t \in Loaded(sessions, EmptySessions), s \in Sessions :
          IF s \in Known(t) THEN SaveTable(i, "heartbeat", s, Beaten(t[s]), t)
                            ELSE Finish(i, "refused")
    /\ UNCHANGED <<store, minted, jobs>>

ReleaseSession(i) ==
    /\ Begins(i, "release") /\ Engineer(i)
    /\ \E t \in Loaded(sessions, EmptySessions), s \in Sessions :
          IF s \in Known(t) THEN SaveTable(i, "release", s, FreeSession, t)
                            ELSE Finish(i, "refused")
    /\ UNCHANGED <<store, minted, jobs>>

(* An execution event puts the session on the mission it names, done and   *)
(* failed included: the release that follows the save is never saved.      *)
ExecutionEvent(i) ==
    /\ Begins(i, "event") /\ Engineer(i)
    /\ \E t \in Loaded(sessions, EmptySessions), s \in Sessions, m \in Missions,
          event \in {"blocked", "failed", "done", "progress"} :
          IF s \in Known(t)
            THEN SaveTable(i, "event", s, SessionOn(m, EventStatus(event)), t)
            ELSE Finish(i, "refused")
    /\ UNCHANGED <<store, minted, jobs>>

SaveSessions(i) ==
    /\ At(i, "sessionsSave")
    /\ \E result \in SaveResults :
          /\ sessions' = Stored(result, sessions, req[i].t)
          /\ Finish(i, Answer(result))
    /\ UNCHANGED <<queue, agents, board, minted, jobs>>

-----------------------------------------------------------------------------
(* start_mission and complete_mission: the session table, then the queue.  *)

MissionRequest(i, op, pc) ==
    /\ Begins(i, op) /\ Engineer(i)
    /\ \E t \in Loaded(sessions, EmptySessions), s \in Sessions, m \in Missions :
          IF s \in Known(t)
            THEN Goto(i, [Blank EXCEPT !.pc = pc, !.op = op, !.session = s,
                                       !.mission = m, !.t = t])
            ELSE Finish(i, "refused")
    /\ UNCHANGED <<store, minted, jobs>>

StartMission(i) == MissionRequest(i, "start", "startQueue")

CompleteMission(i) == MissionRequest(i, "complete", "completeQueue")

(* The mission must be in the queue; what state its rows are in, and       *)
(* whether the session has another mission, is not looked at.              *)
StartLoadQueue(i) ==
    /\ At(i, "startQueue")
    /\ \E q \in Loaded(queue, EmptyQueue) :
          IF RowsOf(q, req[i].mission) # {}
            THEN SaveTable(i, "start", req[i].session,
                           SessionOn(req[i].mission, "busy"), req[i].t)
            ELSE Finish(i, "refused")
    /\ UNCHANGED <<store, minted, jobs>>

(* Only the first row of the mission is validated. *)
CompleteLoadQueue(i) ==
    /\ At(i, "completeQueue")
    /\ \E q \in Loaded(queue, EmptyQueue) :
          \/ /\ RowsOf(q, req[i].mission) = {}
             /\ Finish(i, "refused")
          \/ \E first \in RowsOf(q, req[i].mission), complete \in BOOLEAN :
                IF ValidTransition(q[first].status, "done", complete)
                  THEN Goto(i, [req[i] EXCEPT
                                  !.pc = "completeSave",
                                  !.q = MissionCompleted(q, req[i].mission,
                                                   SessionAgent[req[i].session]),
                                  !.t = Set(req[i].t, req[i].session, FreeSession)])
                  ELSE Finish(i, "refused")
    /\ UNCHANGED <<store, minted, jobs>>

(* What the saves of the queue and of the board answer is not looked at. *)
CompleteSaveQueue(i) ==
    /\ At(i, "completeSave")
    /\ \E result \in SaveResults : queue' = Stored(result, queue, req[i].q)
    /\ Goto(i, [req[i] EXCEPT !.pc = "completeBoardLoad", !.q = EmptyQueue])
    /\ UNCHANGED <<agents, sessions, board, minted, jobs>>

CompleteLoadBoard(i) ==
    /\ At(i, "completeBoardLoad")
    /\ \E b \in Loaded(board, {}) :
          Goto(i, [req[i] EXCEPT !.pc = "completeBoardSave",
                                 !.b = b \cup {req[i].mission}])
    /\ UNCHANGED <<store, minted, jobs>>

CompleteSaveBoard(i) ==
    /\ At(i, "completeBoardSave")
    /\ \E result \in SaveResults : board' = Stored(result, board, req[i].b)
    /\ Goto(i, [req[i] EXCEPT !.pc = "sessionsSave", !.b = {}])
    /\ UNCHANGED <<queue, agents, sessions, minted, jobs>>

SessionNext(i) ==
    \/ RegisterSession(i) \/ HeartbeatSession(i)  \/ ReleaseSession(i)
    \/ ExecutionEvent(i)  \/ SaveSessions(i)      \/ StartMission(i)
    \/ StartLoadQueue(i)  \/ CompleteMission(i)   \/ CompleteLoadQueue(i)
    \/ CompleteSaveQueue(i) \/ CompleteLoadBoard(i) \/ CompleteSaveBoard(i)
=============================================================================
