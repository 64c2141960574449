---------------------------- MODULE SessionBridge ----------------------------
(***************************************************************************)
(* gov-codex-session-bridge.mjs: the process beside an executor's terminal *)
(* that keeps its session alive and reports for it.  Every few seconds one *)
(* tick reads the session, beats for the agent and the session, and then   *)
(* reports what the executor left in the files done, blocked and resume,   *)
(* or has the adapter command run.  Everything it reports is about the     *)
(* mission it read when the tick began.                                    *)
(*                                                                         *)
(* Its calls are requests of the routes, made one after the other from a   *)
(* slot of its own.                                                        *)
(*                                                                         *)
(* The session stays registered, its token is right, and no load fails.    *)
(*                                                                         *)
(* Bounds: the bridge loses at most Losses answers and lives; a bridge     *)
(* killed and started again calls only when the handler of its last        *)
(* request is through.  The executor leaves one file at a time, or has the *)
(* adapter work.  A mission that was away from the session comes     *)
(* back under a new run id.                                                *)
(***************************************************************************)
EXTENDS SessionRoutes, FleetRoutes

CONSTANTS
    BridgeSlot,      \* the request slot of the bridge
    BridgeSession,   \* GOV_EXEC_SESSION_ID
    Losses           \* how many answers are lost or bridges killed

VARIABLE bridge

ASSUME BridgeAssumption ==
    /\ BridgeSlot \in Requests
    /\ BridgeSession \in Sessions
    /\ Losses \in Nat

BridgeAgent == SessionAgent[BridgeSession]

Bridge ==
    [pc      : {"asleep", "awake", "agentBeat", "sessionBeat", "blockedSent",
                "resumeSent", "completeSent", "commandStarted", "commandDone",
                "failureSent", "aliveSent"},
     seen    : Missions \cup {None},   \* the mission this tick is about
     done    : Missions \cup {None},   \* doneFile, by the mission it was written for
     blocked : BOOLEAN,                \* blockedFile
     resume  : BOOLEAN,                \* resumeFile
     adapter : BOOLEAN,                \* GOV_EXEC_ADAPTER_ENABLED
     run     : {"none", "running", "done", "blocked"},   \* adapterStateFile, of this run
     losses  : 0..Losses]

BridgeInit ==
    \E adapter \in BOOLEAN :
       bridge = [pc |-> "asleep", seen |-> None, done |-> None, blocked |-> FALSE,
                 resume |-> FALSE, adapter |-> adapter, run |-> "none", losses |-> 0]

Idle == At(BridgeSlot, "idle")

Answered200 == Idle /\ req[BridgeSlot].reply = "ok"

Refused == Idle /\ req[BridgeSlot].reply # "ok"

(* The resume file is removed once its event is through. *)
ResumeTold == bridge.pc = "resumeSent" /\ Answered200

Left(pc) == [bridge EXCEPT !.pc = pc, !.resume = @ /\ ~ ResumeTold]

To(pc) == bridge' = Left(pc)

(* post("execution-events", ...) for the mission of this tick *)
Post(event, pc) ==
    /\ Idle
    /\ ExecutionEvent(BridgeSlot)
    /\ req'[BridgeSlot].t = Set(sessions, BridgeSession,
                                SessionOn(bridge.seen, EventStatus(event)))
    /\ req'[BridgeSlot].session = BridgeSession
    /\ To(pc)

(* post("sessions", complete_mission) *)
Complete(pc) ==
    /\ Idle
    /\ CompleteMission(BridgeSlot)
    /\ req'[BridgeSlot].session = BridgeSession
    /\ req'[BridgeSlot].mission = bridge.seen
    /\ To(pc)

-----------------------------------------------------------------------------
(* The tick. *)

NewRun(m) == IF m = bridge.seen THEN bridge.run ELSE "none"

WakeOnce ==   \* mutated
    /\ bridge.pc = "asleep" /\ Idle
    /\ bridge' = [bridge EXCEPT !.pc = "awake",
                    !.seen = IF @ = None THEN sessions[BridgeSession].mission ELSE @]
    /\ UNCHANGED vars

Wake ==
    /\ bridge.pc = "asleep" /\ Idle
    /\ LET m == IF BridgeSession \in Known(sessions)
                  THEN sessions[BridgeSession].mission ELSE None
       IN  bridge' = [bridge EXCEPT !.pc = "awake", !.seen = m, !.run = NewRun(m)]
    /\ UNCHANGED vars

BeatAgentAtWork ==   \* mutated
    /\ bridge.pc = "awake"
    /\ ReportAgent(BridgeSlot)
    /\ req'[BridgeSlot].g = [agents EXCEPT ![BridgeAgent] =
                                IF bridge.seen = None THEN @ ELSE 1]
    /\ To("agentBeat")

BeatAgent ==
    /\ bridge.pc = "awake"
    /\ ReportAgent(BridgeSlot)
    /\ req'[BridgeSlot].g = [agents EXCEPT ![BridgeAgent] =
                                IF bridge.seen = None THEN 0 ELSE 1]
    /\ To("agentBeat")

BeatSession ==
    /\ bridge.pc = "agentBeat" /\ Answered200
    /\ HeartbeatSession(BridgeSlot)
    /\ req'[BridgeSlot].session = BridgeSession
    /\ To("sessionBeat")

(* The heartbeat of the agent or of the session failed, the session has no *)
(* mission, or the tick's last post is through: main() waits for the next  *)
(* tick.                                                                   *)
Rest ==
    /\ \/ bridge.pc \in {"agentBeat", "sessionBeat"} /\ Refused
       \/ bridge.pc = "sessionBeat" /\ Answered200 /\ bridge.seen = None
       \/ bridge.pc = "blockedSent" /\ Answered200
       \/ bridge.pc = "aliveSent" /\ Idle
    /\ To("asleep")
    /\ UNCHANGED vars

LooksAtFiles == bridge.pc = "sessionBeat" /\ Answered200 /\ bridge.seen # None

PostBlocked == LooksAtFiles /\ bridge.blocked /\ Post("blocked", "blockedSent")

PostResume ==
    /\ LooksAtFiles /\ ~ bridge.blocked /\ bridge.resume
    /\ Post("progress", "resumeSent")

(* There is no blocked file and no resume file, or none any more. *)
LooksForDone ==
    \/ LooksAtFiles /\ ~ bridge.blocked /\ ~ bridge.resume
    \/ ResumeTold

PostDone ==
    /\ LooksForDone /\ bridge.done # None
    /\ Complete("completeSent")

CompletedKeepingFile ==   \* mutated
    /\ bridge.pc = "completeSent" /\ Answered200
    /\ bridge' = Left("asleep")
    /\ UNCHANGED vars

(* The done file is removed only when the mission was completed. *)
Completed ==
    /\ bridge.pc = "completeSent" /\ Answered200
    /\ bridge' = [Left("asleep") EXCEPT !.done = None]
    /\ UNCHANGED vars

-----------------------------------------------------------------------------
(* runAdapterIfNeeded *)

AdapterDue == bridge.adapter /\ bridge.run \in {"none", "running"}

StartCommand ==
    /\ LooksForDone /\ bridge.done = None /\ AdapterDue
    /\ Idle
    /\ ExecutionEvent(BridgeSlot)
    /\ req'[BridgeSlot].t = Set(sessions, BridgeSession, SessionOn(bridge.seen, "busy"))
    /\ bridge' = [Left("commandStarted") EXCEPT !.run = "running"]

(* The command has ended with success. *)
CompleteCommand ==
    /\ bridge.pc = "commandStarted" /\ Answered200
    /\ Complete("commandDone")

CommandCompleted ==
    /\ bridge.pc = "commandDone" /\ Answered200
    /\ bridge' = [Left("asleep") EXCEPT !.run = "done"]
    /\ UNCHANGED vars

(* The command has failed, its time is up, or its mission was not          *)
(* completed.                                                              *)
PostFailure ==
    /\ \/ bridge.pc = "commandStarted" /\ Answered200
       \/ bridge.pc = "commandDone" /\ Refused
    /\ Post("blocked", "failureSent")

(* The state is written after the event: when that fails the command is    *)
(* run again at the next tick.                                             *)
FailureTold ==
    /\ bridge.pc = "failureSent" /\ Answered200
    /\ bridge' = [Left("asleep") EXCEPT !.run = "blocked"]
    /\ UNCHANGED vars

-----------------------------------------------------------------------------
(* Nothing to report, or reporting it failed (catch {}): the session is    *)
(* put on the mission this tick is about, whatever became of both.         *)
PostAlive ==
    /\ \/ LooksForDone /\ bridge.done = None /\ ~ AdapterDue
       \/ /\ bridge.pc \in {"blockedSent", "resumeSent", "completeSent",
                            "commandStarted", "failureSent"}
          /\ Refused
    /\ Post("heartbeat", "aliveSent")

-----------------------------------------------------------------------------
(* What happens to a bridge. *)

Waits == bridge.pc \in {"agentBeat", "sessionBeat", "blockedSent", "resumeSent",
                         "completeSent", "commandStarted", "commandDone", "failureSent"}

(* An answer is lost on the way: the hub did what it was asked to. *)
LoseAnswer ==
    /\ bridge.losses < Losses
    /\ Waits /\ Answered200
    /\ Finish(BridgeSlot, "lost")
    /\ bridge' = [bridge EXCEPT !.losses = @ + 1]
    /\ UNCHANGED <<store, minted, jobs>>

KillBridge ==
    /\ bridge.losses < Losses
    /\ bridge.pc # "asleep"
    /\ bridge' = [bridge EXCEPT !.pc = "asleep", !.losses = @ + 1]
    /\ UNCHANGED vars

(* The executor at work on the session's mission leaves a file, one at a   *)
(* time, unless the adapter does its work.                                 *)
WriteFile ==
    /\ BridgeSession \in Known(sessions)
    /\ ~ bridge.adapter /\ bridge.done = None /\ ~ bridge.resume
    /\ \E m \in Missions : sessions[BridgeSession].mission = m
         /\ \/ /\ ~ bridge.blocked
               /\ \E r \in RowsOf(queue, m) : queue[r].status = "in_progress"
               /\ bridge' = [bridge EXCEPT !.done = m]
            \/ ~ bridge.blocked /\ bridge' = [bridge EXCEPT !.blocked = TRUE]
            \/ /\ bridge.blocked
               /\ bridge' = [bridge EXCEPT !.blocked = FALSE, !.resume = TRUE]
    /\ UNCHANGED vars

BridgeStep ==
    \/ Wake         \/ BeatAgent       \/ BeatSession      \/ Rest
    \/ PostBlocked  \/ PostResume      \/ PostDone         \/ Completed
    \/ StartCommand \/ CompleteCommand \/ CommandCompleted
    \/ PostFailure  \/ FailureTold     \/ PostAlive

(* A request of the bridge on its way through the hub.  What it says of a  *)
(* mission it completes satisfies the done contract.                       *)
BridgeRequest ==
    /\ ~ Idle
    /\ SessionNext(BridgeSlot) \/ SaveAgents(BridgeSlot)
    /\ At(BridgeSlot, "completeQueue")
          /\ (\A r \in RowsOf(queue, req[BridgeSlot].mission) : queue[r].status = "in_progress")
          /\ RowsOf(queue, req[BridgeSlot].mission) # {}
          => req'[BridgeSlot].pc = "completeSave"
    /\ UNCHANGED bridge

BridgeNext == BridgeStep \/ BridgeRequest \/ LoseAnswer \/ KillBridge \/ WriteFile
=============================================================================
