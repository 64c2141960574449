------------------------------ MODULE Presence ------------------------------
(***************************************************************************)
(* Presence: what the queue, the registry and the offices say of every     *)
(* assignee and office, computed anew by whoever asks and stored when it   *)
(* differs from what was stored before.  A handler that changed the queue  *)
(* computes it from the queue it meant to save, saved or not; the console  *)
(* polls it from what is stored.                                           *)
(*                                                                         *)
(* Of the ages only what they lead to is kept: an agent whose heartbeats   *)
(* are old is stale and then down, an assignee whose last activity is old  *)
(* is quiet.                                                               *)
(***************************************************************************)
EXTENDS Offices

CONSTANTS
    Work,            \* rows of the queue
    WorkAssignee,
    WorkStatus,      \* bound: the statuses rows are given
    Poll,            \* the console's poll
    Handlers,        \* bound: handlers at work at the same time
    Changes          \* bound: how often anything changes or fails

VARIABLES
    work,       \* stored: the status of every row, None for a row not there
    presence,   \* stored
    pres,       \* the computations in flight
    quiet,      \* the assignees whose last activity is old
    changes

presenceVars == <<offices, roster, work, presence, pres, quiet, changes>>

Source == {"work", "roster", "offices", "presence"}

Healthy(g, who) ==
    who = "STAFF" \/ \E a \in Agents : /\ g[a] # None /\ HomeRole[a] = who
                                       /\ g[a].state \in {"idle", "running"}

(* computeAssigneeRows *)
AssigneeState(w, g, who) ==
    LET has == {w[r] : r \in {n \in Work : WorkAssignee[n] = who}}
        served(state) == IF Healthy(g, who) THEN state ELSE "DEGRADED"
    IN  IF "in_progress" \in has THEN served("EXECUTING")
        ELSE IF "staff_validation_gate" \in has THEN "AWAITING_OWNER"
        ELSE IF "open" \in has THEN served("READY")
        ELSE IF "paused_waiting_owner" \in has THEN "AWAITING_OWNER"
        ELSE IF "done" \in has THEN IF who \in quiet THEN "STANDBY" ELSE "AWAITING_NEXT"
        ELSE IF Healthy(g, who) /\ who \notin quiet THEN "IDLE"
        ELSE "STANDBY"

Urgency == <<"DEGRADED", "EXECUTING", "READY", "AWAITING_OWNER", "AWAITING_NEXT",
             "IDLE", "STANDBY">>

(* roleFromIdentity, assigneeFromRole *)
AssigneeOf(g, x) ==
    IF RoleIn(g, x) \in {"CPP", "CPP-IA"} THEN RoleIn(g, x) ELSE "STAFF"

MostUrgent(states) ==
    Urgency[CHOOSE k \in DOMAIN Urgency :
              Urgency[k] \in states /\ \A n \in 1..(k - 1) : Urgency[n] \notin states]

NoPresence ==
    [assignee |-> [who \in WorkerRole |-> None], office |-> [f \in OfficeIds |-> None]]

(* computeOfficePresenceState: an office is as its most urgent member *)
PresenceOf(w, g, o) ==
    LET state == [who \in WorkerRole |-> AssigneeState(w, g, who)]
    IN  [assignee |-> state,
         office   |-> [f \in OfficeIds |->
                         IF o[f] = None THEN None
                         ELSE MostUrgent({state[AssigneeOf(g, x)] : x \in PeopleOf(o, f)})]]

SameAssignees(p, q) == p.assignee = q.assignee   \* mutated

(* materialHash *)
Same(p, q) == p = q

-----------------------------------------------------------------------------
(* recomputeAndPersistOfficePresence *)

NoCopies ==
    [pc |-> "idle", asked |-> {}, forced |-> FALSE, work |-> [r \in Work |-> None],
     roster |-> [a \in Agents |-> None], offices |-> DefaultOffices,
     presence |-> NoPresence]

PresTo(i, x) == pres' = [pres EXCEPT ![i] = x]

Read == [work |-> work, roster |-> roster, offices |-> offices, presence |-> presence]

(* All is computed when the last load is through; what is the same as      *)
(* before is stored when it is asked for or 30 seconds old.                *)
Computed(i, x) ==
    IF x.asked # {} THEN PresTo(i, x)
    ELSE LET next == PresenceOf(x.work, x.roster, x.offices)
         IN  \/ PresTo(i, [NoCopies EXCEPT !.pc = "save", !.presence = next])
             \/ Same(x.presence, next) /\ ~ x.forced /\ PresTo(i, NoCopies)

LoadForPresence(i) ==
    /\ pres[i].pc = "load"
    /\ \E what \in pres[i].asked :
         \/ /\ Computed(i, [pres[i] EXCEPT !.asked = @ \ {what}, ![what] = Read[what]])
            /\ UNCHANGED changes
         \/ /\ LoadFaults /\ changes < Changes
            /\ changes' = changes + 1
            /\ Computed(i, [pres[i] EXCEPT !.asked = @ \ {what}, ![what] = NoCopies[what]])
    /\ UNCHANGED <<offices, roster, work, presence, quiet>>

SavePresence(i) ==
    /\ pres[i].pc = "save"
    /\ \/ presence' = pres[i].presence /\ UNCHANGED changes
       \/ /\ SaveFaults /\ changes < Changes
          /\ changes' = changes + 1
          /\ UNCHANGED presence
    /\ PresTo(i, NoCopies)
    /\ UNCHANGED <<offices, roster, work, quiet>>

(* GET /operations/presence, and POST run, which stores what it computes   *)
AskPresence ==
    /\ pres[Poll].pc = "idle"
    /\ \E forced \in BOOLEAN :
          /\ forced => changes < Changes
          /\ changes' = IF forced THEN changes + 1 ELSE changes
          /\ PresTo(Poll, [NoCopies EXCEPT !.pc = "load", !.asked = Source,
                                           !.forced = forced])
    /\ UNCHANGED <<offices, roster, work, presence, quiet>>

(* A handler saves the queue, or fails to; the watchdog passes on the      *)
(* agents it knows as well.                                                *)
ChangeWork(i) ==
    /\ pres[i].pc = "idle" /\ changes < Changes
    /\ changes' = changes + 1
    /\ \E r \in Work, status \in WorkStatus, watchdog \in BOOLEAN, result \in SaveResults :
          LET next == [work EXCEPT ![r] = status]
          IN  /\ work' = Stored(result, work, next)
              /\ PresTo(i, [NoCopies EXCEPT !.pc = "load", !.work = next,
                              !.roster = IF watchdog THEN roster ELSE @,
                              !.asked = IF watchdog THEN {"offices", "presence"}
                                                    ELSE Source \ {"work"}])
              /\ quiet' = quiet \ {WorkAssignee[r]}
    /\ UNCHANGED <<offices, roster, presence>>

-----------------------------------------------------------------------------
(* What else changes. *)

AgentAges ==
    /\ changes < Changes /\ changes' = changes + 1
    /\ \E a \in Agents :
          roster' = [roster EXCEPT ![a].state =
                        IF @ \in {"idle", "running"} THEN "stale" ELSE "down"]
    /\ UNCHANGED <<offices, work, presence, pres, quiet>>

AgentMoves ==
    /\ changes < Changes /\ changes' = changes + 1
    /\ \E a \in Agents, f \in OfficeIds : offices' = Moved(offices, a, f)
    /\ UNCHANGED <<roster, work, presence, pres, quiet>>

FallsQuiet ==
    /\ changes < Changes /\ changes' = changes + 1
    /\ \E who \in WorkerRole \ quiet : quiet' = quiet \cup {who}
    /\ UNCHANGED <<offices, roster, work, presence, pres>>

PresenceInit ==
    /\ offices = DefaultOffices
    /\ roster = [a \in Agents |-> [state |-> "idle", load |-> 0]]
    /\ work = [r \in Work |-> None]
    /\ presence = NoPresence
    /\ pres = [i \in Handlers \cup {Poll} |-> NoCopies]
    /\ quiet = {} /\ changes = 0

PresenceRequest ==
    \/ AskPresence
    \/ \E i \in Handlers \cup {Poll} : LoadForPresence(i) \/ SavePresence(i)

PresenceNext ==
    \/ PresenceRequest
    \/ \E i \in Handlers : ChangeWork(i)
    \/ AgentAges \/ AgentMoves \/ FallsQuiet
-----------------------------------------------------------------------------
(* When nothing changes and fails any more, the stored presence is, after  *)
(* a while and for good, what the stored queue, agents and offices say,    *)
(* although handlers computed theirs from queues that were never stored    *)
(* and stored it late (office-presence.ts:619-698).                        *)
PresenceSettles ==
    <>[](scene = "presence" => presence = PresenceOf(work, roster, offices))
=============================================================================
