------------------------- MODULE ExecutionSessions -------------------------
(***************************************************************************)
(* The execution sessions as a value: which executor session is working on *)
(* which mission.                                                          *)
(*                                                                         *)
(* Abstraction: trace and run ids come and go with the mission; the event  *)
(* log only ranks candidates by their last heartbeat, so any candidate may *)
(* come first.                                                             *)
(***************************************************************************)
EXTENDS QueueRows

CONSTANTS
    SessionAgent,   \* the agent a session was registered for
    SessionRole,    \* its role
    Preferred       \* the agent an assignee's missions go to first, or None

SessionStatus == {"registered", "online", "busy", "waiting", "stale", "offline"}

Session == [status : SessionStatus, mission : Missions \cup {None}]

SessionTable == [Sessions -> Session \cup {None}]

ASSUME SessionAssumption ==
    /\ SessionAgent \in [Sessions -> Agents]
    /\ SessionRole \in [Sessions -> Assignee]
    /\ Preferred \in [Assignee -> Agents \cup {None}]
    /\ None \notin Session
    /\ None \notin Missions

EmptySessions == [s \in Sessions |-> None]

Known(t) == {s \in Sessions : t[s] # None}

FreeSession == [status |-> "online", mission |-> None]

SessionOn(m, status) == [status |-> status, mission |-> m]

BeatenOnline(x) == [x EXCEPT !.status = "online"]   \* mutated

(* heartbeat_session *)
Beaten(x) == [x EXCEPT !.status = IF x.mission = None THEN "online" ELSE "busy"]

EventStatusIdle(event) ==   \* mutated
    CASE event = "blocked" -> "waiting"
      [] event = "failed"  -> "stale"
      [] event = "done"    -> "online"
      [] OTHER             -> "busy"

(* The status an execution event leaves the session in. *)
EventStatus(event) ==
    CASE event = "blocked" -> "waiting"
      [] event = "failed"  -> "stale"
      [] OTHER             -> "busy"

Set(t, s, x) == [t EXCEPT ![s] = x]

(* Sessions that already work on the row's mission. *)
MissionBound(t, r, row) ==
    {s \in Known(t) : /\ SessionRole[s] = row.assignee
                      /\ t[s].mission = MissionOf[r]
                      /\ Preferred[row.assignee] \in {None, SessionAgent[s]}}

ClaimableAnyway(t, who) ==   \* mutated
    {s \in Known(t) : SessionRole[s] = who}

(* Free sessions of the role; those of the preferred agent come first. *)
Claimable(t, who) ==
    LET free == {s \in Known(t) : /\ SessionRole[s] = who
                                  /\ t[s].status \in {"online", "registered"}
                                  /\ t[s].mission = None}
        first == {s \in free : SessionAgent[s] = Preferred[who]}
    IN  IF first = {} THEN free ELSE first

(* The sessions a start may end up with. *)
StartSessions(t, r, row) ==
    LET bound == MissionBound(t, r, row)
    IN  IF bound = {} THEN Claimable(t, row.assignee) ELSE bound
=============================================================================
