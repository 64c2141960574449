----------------------------- MODULE DirectRoute -----------------------------
(***************************************************************************)
(* POST /api/cpp/direct: a mission is handed to a worker without a start   *)
(* of its row.  The route takes a session, puts the mission on it, calls   *)
(* the worker and writes what comes back over the row, all from the copies *)
(* it loaded first; what its saves answer is not looked at.                *)
(***************************************************************************)
EXTENDS GovStore

(* Sessions and queue are asked for together; either may have been read    *)
(* first.  What is asked is looked at after that.                          *)
DirectCall(i) ==
    /\ Begins(i, "direct") /\ Engineer(i)
    /\ \/ \E q \in Loaded(queue, EmptyQueue) :
             Goto(i, [Blank EXCEPT !.pc = "directSessions", !.op = "direct", !.q = q])
       \/ \E t \in Loaded(sessions, EmptySessions) :
             Goto(i, [Blank EXCEPT !.pc = "directQueue", !.op = "direct", !.t = t])
    /\ UNCHANGED <<store, minted, jobs>>

DirectLoad(i) ==
    /\ \/ /\ At(i, "directSessions")
          /\ \E t \in Loaded(sessions, EmptySessions) :
                Goto(i, [req[i] EXCEPT !.pc = "direct", !.t = t])
       \/ /\ At(i, "directQueue")
          /\ \E q \in Loaded(queue, EmptyQueue) :
                Goto(i, [req[i] EXCEPT !.pc = "direct", !.q = q])
    /\ UNCHANGED <<store, minted, jobs>>

(* Sessions of the role that belong to the agent asked for. *)
SessionsOfAgent(t, who, agent) ==
    {s \in Known(t) : SessionRole[s] = who /\ SessionAgent[s] = agent}

WorksElsewhere(x, m) == x.mission \notin {None, m}

(* resolveClaimableSession for the agent asked for. *)
ClaimableFor(t, who, agent) ==
    LET free == {s \in Known(t) : /\ SessionRole[s] = who
                                  /\ t[s].status \in {"online", "registered"}
                                  /\ t[s].mission = None}
        own == {s \in free : SessionAgent[s] = agent}
    IN  IF own = {} THEN free ELSE own

(* The sessions a call may take.  exact: the session of the agent the      *)
(* caller asked for, None when there is none or nobody was asked for.      *)
DirectSessions(t, who, agent, exact) ==
    IF exact # None /\ t[exact].status \in {"online", "registered", "busy"}
      THEN {exact}
      ELSE ClaimableFor(t, who, agent)

AssignedKeepingMission(t, s, m, final) ==   \* mutated
    Set(t, s, IF final = "done" THEN [t[s] EXCEPT !.status = "online"]
                                ELSE SessionOn(m, "busy"))

(* The session takes the mission, or, on DONE, is free of any. *)
Assigned(t, s, m, final) ==
    Set(t, s, IF final = "done" THEN FreeSession ELSE SessionOn(m, "busy"))

(* The call takes a session, has to see first whether a busy one's mission *)
(* is done, or is refused.                                                 *)
DirectResolve(i) ==
    /\ At(i, "direct")
    /\ \E m \in Missions, who \in Asked \ {"STAFF"}, agent \in Agents \cup {None},
          final \in {"done", None} :
       LET t     == req[i].t
           found == SessionsOfAgent(t, who, agent)
           call  == [req[i] EXCEPT !.mission = m, !.agent = agent, !.status = final]
       IN  \E exact \in IF found = {} THEN {None} ELSE found :
             \/ /\ exact # None /\ WorksElsewhere(t[exact], m)
                /\ Goto(i, [call EXCEPT !.pc = "directReconcile", !.session = exact])
             \/ /\ exact # None => ~ WorksElsewhere(t[exact], m)
                /\ \/ /\ DirectSessions(t, who, agent, exact) = {}
                      /\ Finish(i, "refused")
                   \/ \E s \in DirectSessions(t, who, agent, exact) :
                        Goto(i, [call EXCEPT !.pc = "directSave", !.session = s,
                                             !.t = Assigned(t, s, m, final)])
    /\ UNCHANGED <<store, minted, jobs>>

(* reconcileBusySessionIfQueueDone: the queue is loaded anew, but only to  *)
(* see whether the first row of the session's mission is done.             *)
DirectReconcile(i) ==
    /\ At(i, "directReconcile")
    /\ \E q \in Loaded(queue, EmptyQueue) :
       LET rows == RowsOf(q, req[i].t[req[i].session].mission)
       IN  \/ /\ rows = {} \/ \E r \in rows : q[r].status # "done"
              /\ Finish(i, "refused")
           \/ /\ \E r \in rows : q[r].status = "done"
              /\ Goto(i, [req[i] EXCEPT !.pc = "directReconciled",
                                        !.t = Set(@, req[i].session, FreeSession)])
    /\ UNCHANGED <<store, minted, jobs>>

SaveReconciled(i) ==
    /\ At(i, "directReconciled")
    /\ \E result \in SaveResults : sessions' = Stored(result, sessions, req[i].t)
    /\ Goto(i, [req[i] EXCEPT !.pc = "directSave",
                              !.t = Assigned(@, req[i].session, req[i].mission,
                                             req[i].status)])
    /\ UNCHANGED <<queue, agents, board, minted, jobs>>

SaveAssigned(i) ==
    /\ At(i, "directSave")
    /\ \E result \in SaveResults : sessions' = Stored(result, sessions, req[i].t)
    /\ Goto(i, [req[i] EXCEPT !.pc = "directDispatch"])
    /\ UNCHANGED <<queue, agents, board, minted, jobs>>

-----------------------------------------------------------------------------
(* What the answer of the worker is written over: the row as it was when   *)
(* the call arrived.                                                       *)

NamedRow(x, s, agent) ==
    [x EXCEPT !.assignee = SessionRole[s],
              !.agent    = IF agent = None THEN x.agent ELSE agent,
              !.exec     = SessionAgent[s],
              !.session  = s]

DirectDoneRowOfNobody(x, s, agent) == [x EXCEPT !.status = "done"]   \* mutated

DirectDoneRow(x, s, agent) == [NamedRow(x, s, agent) EXCEPT !.status = "done"]

DirectClosuresOfAllOpen(q, m) ==   \* mutated
    LET b == Block[m]
        C == PartRows(q, b, "CPP1") \X PartRows(q, b, "CPP2")
        reviews == PartRows(q, b, "STAFF") \cup PartRows(q, b, "PA")
    IN  IF FourChildren(q, b) /\ C # {}
          THEN {IF q[c[1]].status # "done" \/ q[c[2]].status # "done" THEN q
                ELSE Closed(q, reviews \cup ParentRows(q, b)) : c \in C}
          ELSE {q}

(* maybeReconcileMpbCanonicalClosure: only a part closes anything, and of  *)
(* the parent's rows only the first.                                       *)
DirectClosures(q, m) ==
    LET b == Block[m]
        C == PartRows(q, b, "CPP1") \X PartRows(q, b, "CPP2")
        reviewed == Closed(q, OpenReviews(q, b))
        parents == IF \A r \in ChildRows(q, b) : reviewed[r].status = "done"
                     THEN ParentRows(q, b) ELSE {}
    IN  IF Part[m] \notin ChildParts \/ ~ FourChildren(q, b) \/ C = {}
          THEN {q}
          ELSE UNION {IF q[c[1]].status # "done" \/ q[c[2]].status # "done" THEN {q}
                      ELSE IF parents = {} THEN {reviewed}
                      ELSE {Closed(reviewed, {r}) : r \in parents} : c \in C}

(* The queues that may be saved after an answer of which `finished' says   *)
(* whether it counts as the end of the mission (shouldAutoRelease...).     *)
Answered(x, finished) ==
    UNION {IF finished
             THEN DirectClosures(With(x.q, r, DirectDoneRow(x.q[r], x.session, x.agent)),
                                 x.mission)
             ELSE {With(x.q, r, NamedRow(x.q[r], x.session, x.agent))}
           : r \in RowsOf(x.q, x.mission)}

RecordAnswer(i, finished) ==
    \/ /\ RowsOf(req[i].q, req[i].mission) = {}
       /\ Finish(i, "ok")
    \/ \E q \in Answered(req[i], finished) :
          Goto(i, [req[i] EXCEPT !.pc = "directQueueSave", !.q = q])

(* The worker cannot be reached, answers an error, or answers.  Whatever   *)
(* goes wrong, the session stays on the mission.                           *)
DirectDispatch(i) ==
    /\ At(i, "directDispatch")
    /\ \/ Finish(i, "failed")
       \/ RecordAnswer(i, req[i].status = "done")
       \/ /\ req[i].status # "done"
          /\ Goto(i, [req[i] EXCEPT !.pc = "directRelease",
                                    !.t = Set(@, req[i].session, FreeSession)])
    /\ UNCHANGED <<store, minted, jobs>>

SaveDirectRelease(i) ==
    /\ At(i, "directRelease")
    /\ \E result \in SaveResults : sessions' = Stored(result, sessions, req[i].t)
    /\ RecordAnswer(i, TRUE)
    /\ UNCHANGED <<queue, agents, board, minted, jobs>>

SaveDirectQueue(i) ==
    /\ At(i, "directQueueSave")
    /\ \E result \in SaveResults : queue' = Stored(result, queue, req[i].q)
    /\ Finish(i, "ok")
    /\ UNCHANGED <<agents, sessions, board, minted, jobs>>

DirectNext(i) ==
    \/ DirectCall(i)       \/ DirectLoad(i)     \/ DirectResolve(i)
    \/ DirectReconcile(i)  \/ SaveReconciled(i) \/ SaveAssigned(i)
    \/ DirectDispatch(i)   \/ SaveDirectRelease(i) \/ SaveDirectQueue(i)
-----------------------------------------------------------------------------
(* The route closes a block by a copy of the rule of its own: after a part *)
(* changed, whatever queue has been stored, both copies make the same of  *)
(* it (cpp/direct/route.ts:122-197, queue/route.ts:164-233), provided the  *)
(* block mission has one row.                                              *)
BothClosuresAgree ==
    [][\A m \in {c \in Missions : queue' # queue /\ Part[c] = "CPP1"} :
          (\A r, x \in ParentRows(queue', Block[m]) : r = x)
             => DirectClosures(queue', m) = Closures(queue', m)]_queue
=============================================================================
