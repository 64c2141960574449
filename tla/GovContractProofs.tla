------------------------- MODULE GovContractProofs -------------------------
(***************************************************************************)
(* The operations API implements MissionContract, for any number of rows,  *)
(* missions, sessions, agents and overlapping requests.  What backs a      *)
(* record is RowOK of the inductive invariant; what is left to show is     *)
(* that a job is taken in a step that stores no queue.                     *)
(***************************************************************************)
EXTENDS GovContract, GovOperationsProofs

(* A step either takes a job and leaves the queue, or leaves the jobs. *)
JobStep ==
    \/ jobs' = jobs
    \/ /\ UNCHANGED queue
       /\ \E r \in Rows, j \in Jobs : jobs' = jobs \cup {<<r, j>>}

(* A dispatch records the job the worker took, and changes no row.         *)
LEMMA DispatchJobStep ==
    ASSUME Inv, NEW i \in Requests, Dispatch(i)
    PROVE  JobStep
  <1>1. req[i].row \in Rows
    BY DEF Inv, SlotOK, Dispatch, At, Live
  <1>2. JobsFor(req[i].row, Current(i).assignee) \subseteq Jobs
    BY DEF JobsFor
  <1> QED
    BY <1>1, <1>2 DEF Dispatch, JobStep, store

(* The decisions load the registry and move nothing but the request. *)
LEMMA DecisionKeepsJobs ==
    ASSUME NEW i \in Requests,
           DecideGate(i) \/ DecideSync(i) \/ DecideStart(i) \/ DecideMove(i)
    PROVE  jobs' = jobs
  <1>1. ASSUME NEW g, NEW up, AgentsLoaded(i, g, up)  PROVE jobs' = jobs
    BY <1>1 DEF AgentsLoaded
  <1>2. CASE DecideGate(i)
    BY Zenon, <1>1, <1>2 DEF DecideGate
  <1>3. CASE DecideSync(i)
    BY Zenon, <1>1, <1>3 DEF DecideSync
  <1>4. CASE DecideStart(i)
    BY Zenon, <1>1, <1>4 DEF DecideStart
  <1>5. CASE DecideMove(i)
    BY Zenon, <1>1, <1>5 DEF DecideMove
  <1> QED
    BY <1>2, <1>3, <1>4, <1>5

(* Every step of the queue route records jobs or changes rows, not both.   *)
LEMMA QueueJobStep ==
    ASSUME Inv, NEW i \in Requests, QueueNext(i)
    PROVE  JobStep
  <1>1. CASE Dispatch(i)
    BY <1>1, DispatchJobStep
  <1>2. CASE DecideGate(i) \/ DecideSync(i) \/ DecideStart(i) \/ DecideMove(i)
    BY <1>2, DecisionKeepsJobs DEF JobStep
  <1>3. CASE CreateRows(i) \/ RemoveRows(i) \/ SaveQueue(i) \/ UpdateStatus(i)
    BY Zenon, <1>3 DEF JobStep, CreateRows, RemoveRows, SaveQueue, UpdateStatus
  <1>4. CASE SaveUnload(i) \/ LoadBoard(i) \/ SaveBoard(i)
    BY Zenon, <1>4 DEF JobStep, SaveUnload, LoadBoard, SaveBoard
  <1>5. CASE SaveBump(i) \/ ClaimSession(i) \/ BindSession(i)
    BY Zenon, <1>5 DEF JobStep, SaveBump, ClaimSession, BindSession
  <1> QED
    BY Zenon, <1>1, <1>2, <1>3, <1>4, <1>5 DEF QueueNext

(* So does the relay,                                                      *)
LEMMA RelayJobStep ==
    ASSUME NEW i \in Requests, RelayNext(i)
    PROVE  JobStep
  BY Zenon DEF JobStep, RelayNext, Relay, RelayQueueSave, RelayBoardLoad,
       RelayBoardSave, RelayAgentsLoad, RelayAgentsSave

(* the sessions and events routes,                                         *)
LEMMA SessionJobStep ==
    ASSUME NEW i \in Requests, SessionNext(i)
    PROVE  JobStep
  <1>1. CASE StartMission(i) \/ CompleteMission(i)
    BY Zenon, <1>1 DEF JobStep, StartMission, CompleteMission, MissionRequest
  <1>2. CASE RegisterSession(i) \/ HeartbeatSession(i) \/ ReleaseSession(i)
             \/ ExecutionEvent(i) \/ SaveSessions(i)
    BY Zenon, <1>2 DEF JobStep, RegisterSession, HeartbeatSession, ReleaseSession,
         ExecutionEvent, SaveSessions
  <1>3. CASE StartLoadQueue(i) \/ CompleteLoadQueue(i) \/ CompleteSaveQueue(i)
             \/ CompleteLoadBoard(i) \/ CompleteSaveBoard(i)
    BY Zenon, <1>3 DEF JobStep, StartLoadQueue, CompleteLoadQueue, CompleteSaveQueue,
         CompleteLoadBoard, CompleteSaveBoard
  <1> QED
    BY Zenon, <1>1, <1>2, <1>3 DEF SessionNext

(* the agents route and the watchdog,                                      *)
LEMMA FleetJobStep ==
    ASSUME NEW i \in Requests, FleetNext(i)
    PROVE  JobStep
  BY Zenon DEF JobStep, FleetNext, ReportAgent, SaveAgents, RunWatchdog, WatchRows

(* the mission routes,                                                     *)
LEMMA MissionJobStep ==
    ASSUME NEW i \in Requests, MissionNext(i)
    PROVE  JobStep
  <1>1. CASE Manage(i) \/ ManageLoad(i) \/ RefuseManaged(i) \/ GroupMissions(i)
             \/ SaveGroup(i) \/ EditMission(i) \/ SaveEditedBoard(i)
             \/ SaveEditedQueue(i) \/ AddExecution(i)
    BY Zenon, <1>1 DEF JobStep, Manage, ManageLoad, RefuseManaged, GroupMissions,
         SaveGroup, EditMission, SaveEditedBoard, SaveEditedQueue, AddExecution
  <1>2. CASE RegisterMission(i) \/ PlanMission(i) \/ SavePlan(i)
    BY Zenon, <1>2 DEF JobStep, RegisterMission, PlanMission, SavePlan
  <1>3. CASE NewMission(i) \/ OpenMission(i) \/ SaveNewMission(i)
             \/ LoadMissionBoard(i) \/ SaveMissionBoard(i)
    BY Zenon, <1>3 DEF JobStep, NewMission, OpenMission, SaveNewMission,
         LoadMissionBoard, SaveMissionBoard
  <1>4. CASE Onboard(i) \/ SaveOnboarded(i) \/ OnboardRow(i)
    BY Zenon, <1>4 DEF JobStep, Onboard, SaveOnboarded, OnboardRow
  <1> QED
    BY Zenon, <1>1, <1>2, <1>3, <1>4 DEF MissionNext

(* and so every step.                                                      *)
LEMMA NextJobStep ==
    ASSUME Inv, Next
    PROVE  JobStep
  <1>1. PICK i \in Requests :
           \/ QueueNext(i) \/ RelayNext(i) \/ SessionNext(i)
           \/ FleetNext(i) \/ MissionNext(i) \/ Crash(i)
    BY Zenon DEF Next
  <1>2. Crash(i) => JobStep
    BY Zenon DEF Crash, JobStep
  <1> QED
    BY Zenon, <1>1, <1>2, QueueJobStep, RelayJobStep, SessionJobStep, FleetJobStep,
       MissionJobStep

-----------------------------------------------------------------------------
(* What the inductive invariant says of the stored queue is that every     *)
(* record is backed.                                                       *)
ReadsBacked ==
    /\ Contract!Backed
    /\ [r \in Rows |-> PhaseOf(queue[r])] \in [Rows -> Contract!Phase]
    /\ [r \in Rows |-> LeaseOf(queue[r])] \in [Rows -> Jobs \cup {None}]

(* Under the invariant what is stored is backed, and reads as the contract wants. *)
LEMMA InvBacked == Inv => ReadsBacked
  <1> SUFFICES ASSUME Inv PROVE ReadsBacked
    OBVIOUS
  <1>1. \A r \in Rows : PhaseOf(queue[r]) \in Contract!Phase
    BY DEF PhaseOf, Contract!Phase
  <1>2. \A r \in Rows : LeaseOf(queue[r]) \in Jobs \cup {None}
    BY DEF LeaseOf, Inv, TypeOK, Queue, Row
  <1>3. ASSUME NEW r \in Rows, PhaseOf(queue[r]) = "running"
        PROVE  <<r, LeaseOf(queue[r])>> \in jobs
    <2>1. queue[r] # None /\ queue[r].status = "in_progress"
      BY <1>3 DEF PhaseOf
    <2>2. RowOK(r, queue[r], jobs)
      BY <2>1 DEF Inv, QueueOK, Live
    <2> QED
      BY <2>1, <2>2 DEF RowOK, LeaseOf
  <1>4. ASSUME NEW r \in Rows, PhaseOf(queue[r]) = "done"
        PROVE  MissionOf[r] \in {m \in Missions : ClosedByRule(m)}
               \/ Contract!Earned(MissionOf[r])
    <2>1. queue[r] # None /\ queue[r].status = "done"
      BY <1>4 DEF PhaseOf
    <2>2. RowOK(r, queue[r], jobs)
      BY <2>1 DEF Inv, QueueOK, Live
    <2>3. MissionOf[r] \in Missions
      BY QueueAssumption
    <2> QED
      BY <2>1, <2>2, <2>3 DEF RowOK, StartedMission, Contract!Earned
  <1>5. Contract!Backed
    BY <1>3, <1>4 DEF Contract!Backed
  <1> QED
    BY <1>1, <1>2, <1>5 DEF ReadsBacked

(* The empty queue is the contract's start.                                *)
LEMMA ContractInit ==
    ASSUME Init
    PROVE  Contract!Init
  BY DEF Init, Contract!Init, EmptyQueue, PhaseOf, LeaseOf

(* Every step is a step of the contract, or none it shows.                 *)
LEMMA ContractStep ==
    ASSUME Inv, Inv', [Next]_vars
    PROVE  [Contract!Next]_(Contract!contract)
  <1>1. CASE UNCHANGED <<queue, jobs>>
    BY <1>1 DEF Contract!contract
  <1>2. CASE JobStep /\ jobs' = jobs
    <2>1. Inv' => ReadsBacked'
      BY InvBacked, PTL
    <2>2. Contract!Record
      BY <1>2, <2>1 DEF ReadsBacked, Contract!Record
    <2> QED
      BY <2>2 DEF Contract!Next
  <1>3. CASE JobStep /\ jobs' # jobs
    <2>1. Contract!Take
      BY <1>3 DEF JobStep, Contract!Take
    <2> QED
      BY <2>1 DEF Contract!Next
  <1> QED
    BY <1>1, <1>2, <1>3, NextJobStep DEF vars

(* The handlers, however many of them overlap, fail or die, implement the  *)
(* contract: no save runs a row under a job taken for another row or makes *)
(* one done that nobody worked on (queue/route.ts:781-1071, queue/relay/   *)
(* route.ts:179-252, sessions/route.ts:325-401, watchdog/route.ts:         *)
(* 206-290).                                                               *)
THEOREM ContractIsKept == Spec => KeepsContract
  <1>1. Spec => []Inv
    BY Invariance
  <1> QED
    BY <1>1, ContractInit, ContractStep, PTL DEF Spec, KeepsContract, Contract!Spec
=============================================================================
