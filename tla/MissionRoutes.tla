--------------------------- MODULE MissionRoutes ---------------------------
(***************************************************************************)
(* The routes by which missions enter the queue and are changed there:     *)
(*   POST /api/govhub/missions/manage      group, edit, add execution      *)
(*   POST /api/govhub/missions/register    the plan of a new mission       *)
(*   POST /api/govhub/operations/chat      the command NOVA_MISSAO         *)
(*   POST /api/govhub/operations/office    request_onboarding              *)
(*                                                                         *)
(* None of them starts a row.  Most go on after a save that failed.        *)
(*                                                                         *)
(* Bound: a request that is to add rows arrives only while row ids of its  *)
(* mission are left.                                                       *)
(***************************************************************************)
EXTENDS GovStore

Unminted(m) == {r \in Rows \ minted : MissionOf[r] = m}

(* The agents a new row of role who may name. *)
PlanAgents(g, who) ==
    LET able == {a \in Registered(g) : AgentRole[a] = who}
    IN  IF who = "STAFF" THEN {None}
        ELSE IF who = "CPP" /\ Preferred["CPP"] \in Registered(g) THEN {Preferred["CPP"]}
        ELSE IF able = {} THEN {None} ELSE able

-----------------------------------------------------------------------------
(* missions/manage.  Board and queue are asked for together; either may    *)
(* have been read first.  What is asked is looked at after that.           *)

Manage(i) ==
    /\ Begins(i, "manage") /\ Engineer(i)
    /\ \/ \E q \in Loaded(queue, EmptyQueue) :
             Goto(i, [Blank EXCEPT !.pc = "manageBoard", !.op = "manage", !.q = q])
       \/ \E b \in Loaded(board, {}) :
             Goto(i, [Blank EXCEPT !.pc = "manageQueue", !.op = "manage", !.b = b])
    /\ UNCHANGED <<store, minted, jobs>>

ManageLoad(i) ==
    /\ \/ /\ At(i, "manageBoard")
          /\ \E b \in Loaded(board, {}) : Goto(i, [req[i] EXCEPT !.pc = "manage", !.b = b])
       \/ /\ At(i, "manageQueue")
          /\ \E q \in Loaded(queue, EmptyQueue) :
                Goto(i, [req[i] EXCEPT !.pc = "manage", !.q = q])
    /\ UNCHANGED <<store, minted, jobs>>

(* A name or a role that may not, a field left out, or                     *)
(* start_all_non_paused, which is refused to everyone.                     *)
RefuseManaged(i) ==
    /\ At(i, "manage")
    /\ Finish(i, "refused")
    /\ UNCHANGED <<store, minted, jobs>>

(* group_missions.  A matrix mission not yet on the board is put there     *)
(* with the status of its first row, which may be done.                    *)
GroupMissions(i) ==
    /\ At(i, "manage")
    /\ \E m \in Missions, shown \in BOOLEAN :
          /\ shown => \E r \in RowsOf(req[i].q, m) : req[i].q[r].status = "done"
          /\ Goto(i, [Blank EXCEPT !.pc = "groupSave", !.op = "manage",
                                   !.b = IF shown THEN req[i].b \cup {m} ELSE req[i].b])
    /\ UNCHANGED <<store, minted, jobs>>

SaveGroup(i) ==
    /\ At(i, "groupSave")
    /\ \E result \in SaveResults :
          /\ board' = Stored(result, board, req[i].b)
          /\ Finish(i, Answer(result))
    /\ UNCHANGED <<queue, agents, sessions, minted, jobs>>

Editable(q, m) == \E r \in RowsOf(q, m) : q[r].status # "staff_validation_gate"

(* The new assignee has to have a usable agent only for a mission with     *)
(* rows that are open or run.                                              *)
NeedsAgent(q, m, who) ==
    /\ \E r \in RowsOf(q, m) : q[r].status \in {"open", "in_progress"}
    /\ \E r \in RowsOf(q, m) : q[r].status # "done" /\ q[r].assignee # who

(* edit_mission.  The caller sets the mission's assignee (STAFF, when      *)
(* neither the caller nor the board names one) and the status the board    *)
(* shows.                                                                  *)
EditMission(i) ==
    /\ At(i, "manage")
    /\ \E m \in Missions, who \in Asked \cup {"STAFF"}, shown \in BOOLEAN,
          g \in Loaded(agents, EmptyRegistry) : \E up \in SUBSET Registered(g) :
          IF /\ Editable(req[i].q, m)
             /\ NeedsAgent(req[i].q, m, who) => HasHealthyAgent(up, who)
            THEN Goto(i, [Blank EXCEPT
                            !.pc = "editBoardSave", !.op = "manage",
                            !.q = MissionEdited(req[i].q, m, who),
                            !.b = IF shown THEN req[i].b \cup {m} ELSE req[i].b \ {m}])
            ELSE Finish(i, "refused")
    /\ UNCHANGED <<store, minted, jobs>>

(* The queue is saved whatever became of the board. *)
SaveEditedBoard(i) ==
    /\ At(i, "editBoardSave")
    /\ \E result \in SaveResults :
          /\ board' = Stored(result, board, req[i].b)
          /\ Goto(i, [req[i] EXCEPT !.pc = "editQueueSave", !.b = {},
                                    !.reply = Answer(result)])
    /\ UNCHANGED <<queue, agents, sessions, minted, jobs>>

SaveEditedQueue(i) ==
    /\ At(i, "editQueueSave")
    /\ \E result \in SaveResults :
          /\ queue' = Stored(result, queue, req[i].q)
          /\ Finish(i, IF req[i].reply = "ok" THEN Answer(result) ELSE "failed")
    /\ UNCHANGED <<agents, sessions, board, minted, jobs>>

(* add_execution: one more row for a mission that runs, past the gate. *)
AddExecution(i) ==
    /\ At(i, "manage")
    /\ \E m \in Missions : \E r \in Unminted(m), who \in Asked,
          g \in Loaded(agents, EmptyRegistry) : \E up \in SUBSET Registered(g) :
          /\ \E x \in RowsOf(req[i].q, m) : req[i].q[x].status = "in_progress"
          /\ HasHealthyAgent(up, who)
          /\ minted' = minted \cup {r}
          /\ Goto(i, [Blank EXCEPT !.pc = "queueSave", !.op = "manage",
                                   !.q = With(req[i].q, r, NewRow(who, None, "open"))])
    /\ UNCHANGED <<store, jobs>>

-----------------------------------------------------------------------------
(* missions/register.  Anyone with a session cookie may register; GovHub   *)
(* has taken the mission when the queue is loaded.                         *)

RegisterMission(i) ==
    /\ Begins(i, "registerMission")
    /\ \E q \in Loaded(queue, EmptyQueue), m \in Missions :
          /\ Unminted(m) # {}
          /\ Goto(i, [Blank EXCEPT !.pc = "plan", !.op = "registerMission",
                                   !.mission = m, !.q = q])
    /\ UNCHANGED <<store, minted, jobs>>

Pending(q, m) == \E r \in RowsOf(q, m) : q[r].status \in {"open", "in_progress"}

(* resolveInitialQueueStatus *)
PlanStatus(who) ==
    IF who = "STAFF" THEN {"open", "paused_waiting_owner"} ELSE {"staff_validation_gate"}

(* The registry is loaded, and the plan made of one row per part, unless   *)
(* the mission has rows to work on.                                        *)
PlanMission(i) ==
    /\ At(i, "plan")
    /\ IF Pending(req[i].q, req[i].mission)
         THEN Finish(i, "ok") /\ minted' = minted
         ELSE \E g \in Loaded(agents, EmptyRegistry),
                 S \in SUBSET Unminted(req[i].mission) \ {{}} :
              \E who \in [S -> Asked], agent \in [S -> Agents \cup {None}],
                 status \in [S -> QueueStatus] :
                 /\ \A r \in S : /\ agent[r] \in PlanAgents(g, who[r])
                                 /\ status[r] \in PlanStatus(who[r])
                 /\ minted' = minted \cup S
                 /\ Goto(i, [req[i] EXCEPT !.pc = "planSave",
                                           !.q = Planned(req[i].q, S, who, agent, status)])
    /\ UNCHANGED <<store, jobs>>

(* The mission is registered, whatever becomes of its rows. *)
SavePlan(i) ==
    /\ At(i, "planSave")
    /\ \E result \in SaveResults : queue' = Stored(result, queue, req[i].q)
    /\ Finish(i, "ok")
    /\ UNCHANGED <<agents, sessions, board, minted, jobs>>

-----------------------------------------------------------------------------
(* operations/chat, NOVA_MISSAO: an open row for a mission that has        *)
(* nothing but done rows, past the gate whoever is to execute it.          *)

NewMission(i) ==
    /\ Begins(i, "newMission") /\ Admin(i)
    /\ \E g \in Loaded(agents, EmptyRegistry), m \in Missions :
          /\ Unminted(m) # {}
          /\ Goto(i, [Blank EXCEPT !.pc = "openMission", !.op = "newMission",
                                   !.mission = m, !.g = g])
    /\ UNCHANGED <<store, minted, jobs>>

(* A role, an agent by its name, or a name nobody has. *)
Target(g, who, agent) ==
    \/ agent \in PlanAgents(g, who)
    \/ agent \in Registered(g) /\ AgentRole[agent] = who /\ who # "STAFF"
    \/ agent = None /\ who = "CPP"

OpenMission(i) ==
    /\ At(i, "openMission")
    /\ \E q \in Loaded(queue, EmptyQueue) :
          IF \E r \in RowsOf(q, req[i].mission) : q[r].status # "done"
            THEN Finish(i, "ok") /\ minted' = minted
            ELSE \E r \in Unminted(req[i].mission), who \in Asked, agent \in Agents \cup {None} :
                    /\ Target(req[i].g, who, agent)
                    /\ minted' = minted \cup {r}
                    /\ Goto(i, [req[i] EXCEPT !.pc = "missionSave", !.g = EmptyRegistry,
                                              !.q = With(q, r, NewRow(who, agent, "open"))])
    /\ UNCHANGED <<store, jobs>>

(* The board is written even when the row was not. *)
SaveNewMission(i) ==
    /\ At(i, "missionSave")
    /\ \E result \in SaveResults :
          /\ queue' = Stored(result, queue, req[i].q)
          /\ Goto(i, [req[i] EXCEPT !.pc = "missionBoardLoad", !.q = EmptyQueue,
                                    !.reply = Answer(result)])
    /\ UNCHANGED <<agents, sessions, board, minted, jobs>>

LoadMissionBoard(i) ==
    /\ At(i, "missionBoardLoad")
    /\ \E b \in Loaded(board, {}) :
          Goto(i, [req[i] EXCEPT !.pc = "missionBoardSave", !.b = b \ {req[i].mission}])
    /\ UNCHANGED <<store, minted, jobs>>

SaveMissionBoardUnchecked(i) ==   \* mutated
    /\ At(i, "missionBoardSave")
    /\ \E result \in SaveResults :
          /\ board' = Stored(result, board, req[i].b)
          /\ Finish(i, Answer(result))
    /\ UNCHANGED <<queue, agents, sessions, minted, jobs>>

SaveMissionBoard(i) ==
    /\ At(i, "missionBoardSave")
    /\ \E result \in SaveResults :
          /\ board' = Stored(result, board, req[i].b)
          /\ Finish(i, IF req[i].reply = "ok" THEN Answer(result) ELSE "failed")
    /\ UNCHANGED <<queue, agents, sessions, minted, jobs>>

-----------------------------------------------------------------------------
(* operations/office, request_onboarding: a new agent, not usable yet, and *)
(* a row for the staff to bring it in.  The office it joins is not kept.   *)

Onboard(i) ==
    /\ Begins(i, "onboard") /\ Admin(i)
    /\ Rows \ minted # {}
    /\ \E g \in Loaded(agents, EmptyRegistry), a \in Agents :
          IF a \in Registered(g)
            THEN Finish(i, "refused")
            ELSE Goto(i, [Blank EXCEPT !.pc = "onboardSave", !.op = "onboard",
                                       !.g = [g EXCEPT ![a] = 0]])
    /\ UNCHANGED <<store, minted, jobs>>

(* Joining the office may fail after the agent is registered. *)
SaveOnboarded(i) ==
    /\ At(i, "onboardSave")
    /\ \E result \in SaveResults :
          /\ agents' = Stored(result, agents, req[i].g)
          /\ \/ Finish(i, "failed")
             \/ /\ result = "ok"
                /\ Goto(i, [req[i] EXCEPT !.pc = "onboardQueue", !.g = EmptyRegistry])
    /\ UNCHANGED <<queue, sessions, board, minted, jobs>>

OnboardRow(i) ==
    /\ At(i, "onboardQueue")
    /\ \E q \in Loaded(queue, EmptyQueue), r \in Rows \ minted,
          status \in {"open", "paused_waiting_owner"} :
          /\ minted' = minted \cup {r}
          /\ Goto(i, [req[i] EXCEPT !.pc = "queueSave",
                                    !.q = With(q, r, NewRow("STAFF", None, status))])
    /\ UNCHANGED <<store, jobs>>

MissionNext(i) ==
    \/ Manage(i)          \/ ManageLoad(i)      \/ RefuseManaged(i)
    \/ GroupMissions(i)   \/ SaveGroup(i)
    \/ EditMission(i)     \/ SaveEditedBoard(i) \/ SaveEditedQueue(i)
    \/ AddExecution(i)
    \/ RegisterMission(i) \/ PlanMission(i)     \/ SavePlan(i)
    \/ NewMission(i)      \/ OpenMission(i)     \/ SaveNewMission(i)
    \/ LoadMissionBoard(i) \/ SaveMissionBoard(i)
    \/ Onboard(i)         \/ SaveOnboarded(i)   \/ OnboardRow(i)
=============================================================================
