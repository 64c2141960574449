# Gov Manager operations: TLA+ models, checks and proofs

The repository holds the Gov Manager (`apps/gov-manager`), a Next.js
application that governs the missions a staff and a fleet of executors (CPP,
CPP-IA) work on, and around it public web sites, design packages, documents and
the exported configuration of the hub it stores its data in. The program's own
core logic is in the API routes under `apps/gov-manager/src/app/api`, the value
modules under `apps/gov-manager/src/core`, the processes beside the executors
(session bridge, chat loop, worker) and the state the console keeps in the browser.
This directory models those: the queue and all that writes it in depth, as one
system of overlapping requests, and the other records and clients as smaller
systems of their own.

## 1. Inventory

| Component | State | Operations | Hard part |
|---|---|---|---|
| Execution queue (`operations/queue`, `core/execution-queue`, `core/transition-validator`) | rows: status, assignee, agent, session, executing agent, job | `create_item`, `create_plan`, `remove_item`, `clear_*`, `update_status` | a start makes up to eight awaits and four saves, from one copy of the queue loaded first |
| Start dispatch (`core/queue-start-ack`, CPP workers) | jobs the workers took | POST to the worker, parse the acknowledgement | timeouts: the worker may have taken a start that counts as refused |
| Queue relay (`operations/queue/relay`) | queue, board, registry | one handler | reports come late, twice, out of order, under old jobs |
| Execution sessions (`operations/sessions`, `operations/execution-events`, `core/execution-sessions`) | sessions: status, mission | register, heartbeat, start, release, complete, events | several writers of one table; a claim by a start and the executor's own calls |
| Agent registry (`operations/agents`, `core/agent-registry`) | load, role, health of each agent | register, heartbeat, set_job, set_health | loads raised by starts, lowered by releases, overwritten by heartbeats |
| Watchdog (`operations/watchdog`, `core/watchdog-state`) | attempts, alerts | one run | decides on two snapshots read at different times, saves an old queue |
| Missions (`missions/register`, `missions/manage`, the chat's `NOVA_MISSAO`, `core/mission-board-relay`) | queue, board | plan of a new mission, group, edit, add execution, open | queue and board saved apart, the second also after the first failed; an edit takes running rows from their executor |
| Office (`operations/office`, `core/office-hierarchy`) | hierarchy, registry, queue | upsert, normalize, move, onboard | the hierarchy is loaded before anything else and saved last; onboarding makes three saves, each of which may be the last |
| Token governance (`core/token-governance`, `token/policy`, `missions/register`) | policies, reservations | check, reserve, replace the policy | checked before the hub is asked, stored after it answered |
| Presence (`operations/presence`, `core/office-presence`) | what every assignee and office is at | computed by pollers and by handlers that changed the queue | computed from a queue that may not have been saved, stored late |
| Operations chat (`operations/chat`, `chat/reply`, `ops-chat-cpp-loop.sh`) | one log | message, answer, delete; the loop answers | an answer is stored by one request and overwritten by another |
| Direct execution (`cpp/direct`) | queue, sessions | dispatch and done in one request | the same unlocked load and save, without the done contract |
| Session bridge (`scripts/gov-codex-session-bridge.mjs`) | its tick, files, adapter run | a client of agents, sessions and events | stale ticks, lost answers, kills |
| CPP worker (`cpp-ia-worker/app.py`) | a git tree, its branches | fetch, checkout, add, commit, push | every run resets its branch; commands time out with or without effect |
| Snapshot client (`core/govhub-snapshots`) | none | load and save a whole snapshot | no lock, no version, no timeout; a failed load reads as "not found" |
| Console (`app/page.tsx`) | feeds, counters, the mission form | poll, switch section, type, validate, register | dropped answers, locks, hidden tabs; a form that moves on while its registration is under way |
| Alerts, audit, memory, bots status | logs | append | lost updates only; not modelled |
| Web sites, packages, n8n exports, SQL, infrastructure | – | – | not modelled |

Components interact through the snapshots only: each route loads the snapshots
it needs, changes its copies and saves them as wholes. Nothing is locked and
no save is conditional. What makes the system correct is therefore that a save
of a copy however old leaves *well-formed* data, and that the guards decided
on a copy still mean something when it is stored. `PROJECT.json` lists every
component with what is modelled of it, and every hazard at its line.

## 2. Modules

| Module | Models |
|---|---|
| `QueueRows` | the queue as a value: rows, the done contract, what each handler makes of a row, the MPB closure |
| `AgentRegistry` | the registry as a value: choice of an agent, load raised and released |
| `ExecutionSessions` | the session table as a value: claims, heartbeats, events |
| `Snapshots` | the snapshot client: what a load returns and a save stores |
| `GovStore` | the stored snapshots of the queue's world, the requests in flight and their private copies, crashes |
| `QueueRoute` | `POST operations/queue` |
| `RelayRoute` | `POST operations/queue/relay` |
| `SessionRoutes` | `POST operations/sessions`, `POST operations/execution-events` |
| `FleetRoutes` | `POST operations/agents`, `POST operations/watchdog` |
| `MissionRoutes` | `POST missions/manage`, `missions/register`, `operations/chat` (`NOVA_MISSAO`), `operations/office` (`request_onboarding`) |
| `GovOperations` | the composition, its invariants, the two inductive invariants and the action properties |
| `MissionContract`, `GovContract` | what the operations promise the owner of a mission's rows, abstractly, and `GovOperations` as its implementation |
| `DirectRoute`, `SessionBridge` | `POST cpp/direct`; the bridge's tick, one step per call |
| `Executors` | queue, sessions, direct route and a bridge together, with fairness |
| `RecordStore` | constants the records beside the queue share, and the `scene` of a behaviour |
| `TokenBudget`, `Offices`, `WorkerGit` | token governance; the office hierarchy and its route; the worker's git operations |
| `Records` | the three, composed |
| `Presence`, `ChatLog` | presence and who computes it; the operations chat, its reply route and its loop |
| `ConsolePolls`, `ConsoleDraft` | the console's feeds; its mission form |
| `Console` | the four, composed, with fairness |
| `InvariantLemmas` | lemmas about rows, queues, session tables, registries and slots |
| `MissionRoutesProofs` | the steps of `MissionRoutes` keep the invariant |
| `GovOperationsProofs` | the steps of the other routes, and the theorems |
| `GovContractProofs` | `GovOperations` implements `MissionContract` |
| `SerialProofs` | the action properties of `GovOperations`, most of them for requests that do not overlap |
| `RecordsProofs` | the inductive invariants and theorems of `TokenBudget`, `Offices` and `WorkerGit` |
| `ConsoleProofs` | those of `ConsoleDraft`, `ConsolePolls` and `ChatLog` |
| `ExecutorsProofs` | those of `Executors`: the hub beside the direct route, and the bridge's file |
| `MCRow`, `MCExecutor`, `MCBlock`, `MCMission`, `MCExecutors`, `MCRecords`, `MCConsole` | instances for TLC |

The value modules hold no state; the five route modules extend `GovStore` and
share its variables; `GovOperations` extends the five.

**Why two more compositions.** `DirectRoute` is not part of `GovOperations.Next`. The
code of `cpp/direct` binds no job and marks rows done without the contract, so that
`RunningRowsAreBound`, `DoneMissionsWereStarted` and `DoneIsEarned` are false of
a system that has it; `Executors` composes it with the queue and session routes
and asks what still holds. `Records` and `Console` compose modules that do not read
each other's variables. Steps of two such modules commute, so nothing is gained by
interleaving them: a behaviour picks one module at its start, its `scene`, and
has the steps of that one. The scene is a bound on behaviours, not on any one module.

**Requests.** A handler is a request slot, `req[i]`. Its `pc` names the await
it stands at; all code between two awaits is one action, as in Node's event
loop. `q`, `t`, `g`, `b` are its copies of queue, session table, registry and
board. A first action (`CreateRows`, `UpdateStatus`, `Relay`, ...) loads and
checks; the following ones each perform one save or load; `Finish` frees the
slot and remembers the answer. Any number of requests may be in flight.

**update_status** is: `UpdateStatus` (load the queue, find the row) -> one of
`DecideGate`, `DecideSync`, `DecideStart`, `DecideMove` (load the registry,
decide by the row's status and the one asked for) -> for a start `Dispatch`,
`SaveBump`, `ClaimSession`, `BindSession`; for a row that stops running
`SaveUnload` -> for a done `LoadBoard`, `SaveBoard` -> `SaveQueue`. `Commit`
puts the new row into the copy and runs the MPB closure.

**Missions.** `missions/manage` loads board and queue together (`Manage`,
`ManageLoad`: either may be read first), then acts: `GroupMissions`,
`EditMission` (board, then queue: `SaveEditedBoard`, `SaveEditedQueue`, the second
also when the first failed), `AddExecution`, or a refusal. `missions/register` is
modelled from the point where the hub has taken the mission: `RegisterMission`
(load the queue), `PlanMission` (load the registry, make the rows), `SavePlan`, whose
result changes nothing in the answer. The chat goes `NewMission`, `OpenMission`,
`SaveNewMission`, `LoadMissionBoard`, `SaveMissionBoard`; onboarding `Onboard`,
`SaveOnboarded`, `OnboardRow`. The last save of `AddExecution` and `OnboardRow` is
`SaveQueue`, as in the queue route.

**Failures** (switched on by `SaveFaults`, `LoadFaults`, `Crashes`). A load that
fails counts as "not found" and gives the empty default
(`core/govhub-snapshots.ts:52`), which a later save stores over everything. A
save fails, or is stored while its answer is lost. A crash loses the slot
and keeps what was saved. A worker takes a start, refuses it, or takes it while
the answer is late.

**Jobs.** `jobs` records which row's start a worker took as which job. A worker
answers a repeated start of the same row with the id it already gave
(`docs/governance/hub/agents/cpp-ia-worker/app.py` derives it from mission and
task); staff rows are acknowledged locally with a fresh id. A relay may name
any job ever issued, for any row, or none.

**Direct route** (`DirectRoute`): `DirectCall`, `DirectLoad` (sessions and queue, in
either order), `DirectResolve` and its reconciliation of a busy session, the session's
save, the call of the worker, and the row written from the first copy. **Bridge**
(`SessionBridge`): the tick goes `Wake`, `BeatAgent`, `BeatSession`, then the files
(`PostBlocked`, `PostResume`, `PostDone`) or the adapter command (`StartCommand` ...
`FailureTold`), then `PostAlive`; each is a request of the routes above, made from a
slot of its own. Its answers may be lost (`LoseAnswer`) and it may be killed.

**Token budgets** (`TokenBudget`): `BeginRegistration`, then `LoadPolicy` and
`LoadUsage` in either order, of which the second decides (`Decided`);
`UpstreamTakes` or `UpstreamFails`, and `SaveUsage` of the copy loaded first with the
new reservation. `PutPolicy` and `DayPasses` happen at any time. **Offices** (`Offices`):
`OfficeRequest` loads the hierarchy; `UpsertNode`, `NormalizeIdentities`,
`MoveMember`, `RequestOnboarding` load the agents and decide; `SaveNewAgent`,
`SaveOffices` save. **Worker** (`WorkerGit`): `AskRun`, one action per git command,
`Round`, `ReportDone`; executors edit the tree (`EditTree`) and others push and merge.

**Presence** (`Presence`): `AskPresence` or a handler's `ChangeWork`, one
`LoadForPresence` per snapshot in any order, `SavePresence` if it differs. **Chat**
(`ChatLog`): `PostMessage`, `Dispatched`, `PublishReply` (a request to the reply
route: `LoadForReply`, `SaveReply`), `Published`, `SaveChat`; `DeleteMessage`,
`SaveDeletion`; the loop's `LoopPolls`, `LoopReplies`, `LoopGoesOn`, `LoopEnds`.
**Console** (`ConsolePolls`): per feed `Pull`, `Served`, `AnswerComes` or `Fails`;
`Refresh` and `GoToSection` set effects up anew, whose late answers are dropped
(the queue's and the memory's are taken); only the memory is polled by a hidden tab.
**Form** (`ConsoleDraft`): `EditForm`, `CompileUdn`, `ValidateMission`,
`RegisterMission`, and its answer, taken, refused or lost; the feeds' ids move the
form's own id on (`Settled`). The status that locks the register button is one for the
whole page: every other request of it (`OtherRequest`) writes over it.

**What is abstracted.** Texts, notes, progress, ETA, priorities, time stamps,
trace and run ids. Where the code takes the *first* row of a mission in the order
(priority, newest), or the first agent or session, the model takes any. An
agent is usable or not by the age of its heartbeat: every load of the registry
lets any subset be usable. An agent's role is fixed per agent. Loads are clamped at
`MaxLoad` (999 in the code) when raised. The queue's truncation to 1000 rows is
not modelled. Row and session ids carry a time stamp and are never reused
(`minted`). Tokens and dollars of a budget are one number. Of ages, only what they
lead to is kept (an agent is stale or down, an assignee quiet). The canonical agent
of a role is any of those in the best state; the code breaks ties by health, load
and time. A branch is a sequence of commits, a commit a set of edits. A feed's
rows are ids. Users of the hub beside the two built in are left out.

## 3. Properties

**Of the queue and those who write it** (`GovOperations`). Invariants, all proved for every instance (section 5):

- `RunningRowsAreBound`: a running row has a session, an executing agent, and
  a job a worker took for this very row.
- `FreeSessionsCarryNoMission`: a session is online or registered exactly when
  it has no mission.
- `DoneRowsWereExecuted`: a done row names who executed it, unless the MPB
  closure may close it.
- `DoneMissionsWereStarted`: the closure aside, a row is done only if a start
  of a row of its mission was accepted.
- `TypeOK`, and `Inv`, the inductive invariant.

What a step may never do. All are proved for every instance (section 5); those
marked *serial* only for requests that do not overlap, and are broken by ones that do:

- `RunningRowsKeepTheirJob` (serial): a row that runs keeps job and session. Overlapping
  starts break it (section 4).
- `DoneIsEarned` (serial): a row becomes done while a row of its mission runs, or by the
  closure after both CPP parts, and a parent only with all its parts. Overlapping, an
  old copy can make a row done after another request stopped the run it was decided on.
- `MpbClosureIsComplete`: an update of a row of a block leaves nothing open
  that the closure should have closed.
- `NoSessionIsTaken` (serial): a session changes from one mission to another only when its
  own executor says so.
- `StartsAreBound` (serial): a started row's session is stored busy with its mission.
- `RunningRowsKeepTheirAssignee` (serial): a row given to another assignee stops in the
  same save.
- `CreatedMissionsAreOpen` (serial): the chat answers that a mission was created only if it
  has an open row and the board does not show it done.
- `RelayedDoneIsStored` (serial): a relay that answers ok to a done left the row and the
  board done, whichever of its saves failed before.
- `BothClosuresAgree`: the direct route's copy of the MPB closure would close what
  the queue route's does, in every queue an update leaves.
- `KeepsContract`: the system implements `MissionContract`: a row is recorded as
  running only under a job taken for this very row, and as done only if work on
  its mission was taken at some time or the closure may close it. Rows may be lost, put
  back and repeated; a record nobody earned never appears. Proved.

**Of an executor and its bridge** (`Executors`):

- `FreeSessionsCarryNoMission`, `DoneRowsWereExecuted` also beside the direct route.
  Proved.
- `DoneFilesCloseTheirMission`: a done file completes the mission it was written
  for, although the session may be given another one as soon as the hub has
  stored the completion. It takes a lost answer, a killed bridge, a save that is
  stored but fails, or two requests of others to close a mission by the file of
  another. Proved where no load and no save fails.
- `LoadSettles` (liveness): the agent's load comes to be what its session says.
- `ReportedWorkIsClosed` (liveness): once only the bridge is at work, work reported by
  file is done in the queue and its session free. It does not speak of a session whose row
  ended by an update or a relay, with no report of its executor: the code never frees it.

**Of the records** (`Records`):

- `StoredUsageWithinLimit`: however registrations overlap and whatever fails, what
  is *stored* as reserved for an owner, on a day and in a month, is within limits that
  were in force: every save stores a copy that was checked. Proved.
- `TakenWithinLimit`: what is *taken on* is within the limits too, if no load or save
  fails and no row is cut off, also when midnight or another policy comes between the
  check and the reservation. Two registrations that overlap may lose each other's
  reservations, in the code as in the model, so the missions so taken are not counted
  (`excused`); all others are, as two that overlap lose nothing of a third. Proved.
- `MovesLeaveOnePlace`: a stored move or onboarding leaves its agent in no office but the one
  asked for, although an upsert may have put it into several, and in that one unless it is
  full: a list is cut to its first 200 names (`MaxMembers`) after the agent was appended,
  so an agent moved into a full office is in none, and the route answers ok. Proved.
- `NormalizingKeepsTheKnown`: normalizing takes nobody the hub knows out of an office,
  and done twice it changes nothing more. Proved.
- `DoneWorkStaysPublished`: what the worker answered as pushed stays on its branch,
  although each run resets it first. Proved.

**Of the console** (`Console`):

- `ShownSettles` (liveness): when nothing changes any more, a tab in front shows what the
  hub has, although answers are dropped and requests held back.
- `CountedOnce`: a chat row is counted as new at most once, and never the user's own,
  as long as no row is removed (the row seen last may then be gone, and all count again).
  Proved.
- `SentOnce`: what the hub was said to have taken is not sent again unless validated anew;
  and while a registration is under way a second one is sent only after a new validation, a
  failure, or another request of the page. The last is a flaw of the code: a plan or an
  estimate, whose buttons stay enabled (`page.tsx:3209`, `:3852`), writes over the status
  and leaves the validation, so the same draft may be sent a second time. Proved.
- `PresenceSettles` (liveness): the stored presence comes to agree with the stored queue,
  agents and offices, although it is computed from unsaved queues and stored late.
- `AnsweredOnce`: while users' requests do not overlap and no connection breaks, hub and
  loop, which do overlap, leave at most one answer to a message. Proved. Once the log has
  outgrown what the loop sees (120 rows), this speaks of answers newer than their message
  only: a worker's answer may carry an older id than the message it answers,
  and drop out of the loop's view while the message is still in it; the loop answers again.
- `LoopCatchesUp` (liveness): no message among the rows the loop asks for waits for ever,
  unless the loop ended.

## 4. Runs

| Run | Instance | Result |
|---|---|---|
| `one_row` | 1 row, 2 agents and 1 session of one role, 2 jobs, 1 request at a time, all operations, all failures, crashes | holds |
| `races` | 1 row, 1 agent, 1 session, 1 job, 2 requests at a time, from the state "row at the gate, worker and session registered"; updates, relays, completions, watchdog | holds |
| `executor` | 2 missions, one with two rows, 2 sessions, 2 jobs, 1 request at a time | holds |
| `block` | an MPB block, one row for each of its five missions, updates by 1 request at a time, from the block at work | holds |
| `missions` | 1 mission, 2 rows, a CPP and a CPP-IA worker, 1 session, 1 request at a time, from the state "row running"; mission routes, updates and relays, failing saves, crashes | holds |
| `executors` | 1 row, 2 missions, 1 agent and session with its bridge, 1 caller beside it, 2 requests of callers or losses | holds |
| `records` | budgets: 2 owners, 2 missions, 2 registrations at a time, 3 taken, 3 days of two months, 2 usage rows; offices: 3 offices, 1 agent, 1 old name, 2 requests at a time, 3 in all; git: 2 branches, 2 edits, 2 runs; failing loads and saves | holds |
| `console` | feeds: the chat and the memory's, 3 sections, 3 turns; form: ids up to 2, 1 goal, 3 turns; presence: 1 row, 1 agent, 2 offices, 1 handler beside the poll, 2 changes; chat: 2 users and the loop, log of 5 rows of which the loop sees 3, 2 turns | holds |
| `double_start` | as `races` with 2 jobs and updates only | violates `RunningRowsKeepTheirJob` |
| `sibling_done` | as `executor`, 2 rows of one mission | violates `DoneOnlyFromRunning` |
| `engineer_matrix` | as `executor`, create, remove, update | violates `EngineersStayInMatrix` |
| `requeue` | as `missions` with 1 row, manage and relay only | violates `RequeuedRowsNeedAStart` |

*Why the bounds are enough.* The invariants speak of one row or one session, and a
request touches one row (a mission's rows in `complete_mission` and the closure,
for which `executor` and `block` have several). Two overlapping requests are
the smallest case in which a copy is old when it is saved. Two jobs let a row be
restarted under another job; one suffices in `races`, where no property tells jobs apart.
`MaxLoad = 1` reaches both the clamp and the floor. The proofs then lift the
invariants to every instance. `races` starts from a prepared state that the
program reaches by `create_item`, one agent heartbeat and one session registration; `block` from
one reached by staff taking on three parts in turn, with the session released between them; `missions`
from one reached by creating, binding and starting its row. The second row lets a mission get
one more execution while one runs, and be opened again after the first is done.
`executors` has a caller and a loss budget of two, the least that frees the
session behind the bridge's back and gives it away again. In `records` two
registrations are the smallest overlap; three taken missions fill two usage rows, so
that one is cut off; of three days, two of one month, one tells day from month and one
month from month. Two office requests
overlap, and the third meets what they left; with `MaxMembers = 1` one agent fills an office. Two git runs are the least for one to
reset a branch the other pushed. In `console` a turn is anything the user, the hub or a
failure does; three are enough for a row, a dropped answer and a change of section in any
order, and for the chat two (a message and an answer lost, or two messages) beside a log
that starts with one answered message and has room for two rows more than the loop sees. Rounds of polling are not bounded.

Deadlock is checked in all runs of `GovOperations`, where a free slot can always take a
request. `executors`, `records` and `console` may come to rest when their turns
are used up, and do not check it.

**Fairness.** `Executors` assumes weak fairness of the bridge's steps and of the requests
it has made: `main()` of the bridge loops for ever with a pause, its commands are ended by a
timeout (`gov-codex-session-bridge.mjs:114-192`, `:308-317`), and the hub answers. Callers
may stop anywhere. `Console` assumes, per feed, weak fairness of polling, serving and
taking the answer (`setInterval` in each effect of `page.tsx:1217-1578`), and of
what is asked of the hub for presence and chat together with the loop's rounds
(`while true; do ... sleep`, `ops-chat-cpp-loop.sh:419-519`). No fairness is
given to users, failures, restarts or other writers. Weak fairness of the hub's work says
that a request once begun ends: the code's fetches have no timeout of their own, so
this is an assumption about the hub, and without it nothing can be said to happen.
`GovOperations` has no fairness and no liveness: nothing in its routes
makes an executor ask for anything.

*The four violations* are disagreements between the code and the repository's
own texts; `PROJECT.json` quotes them.

1. `double_start`: the start is documented as idempotent, but it is decided on
   a copy loaded before the dispatch. Two overlapping starts both dispatch, both
   raise the load, and the second replaces the job of the running row.
2. `sibling_done`: a test says done is rejected unless a row is in progress;
   `complete_mission` checks the first row of the mission and closes all.
3. `engineer_matrix`: the documented authority matrix of the queue is not
   enforced; an engineer may do whatever an admin may.
4. `requeue`: an edit that gives a running mission to another executor stores on the
   row that a new acknowledged start is required, but leaves session and job, and
   the relay of the former executor runs the row again.

Met while reading, without a run of their own: the documented reviewer guard for
done (`GOV-MANAGER-QUEUE-GOVERNANCA-V1.md:12-21`) and the rollback alert of a failed
start (`:124-125`) have no code; a refused done has already released the agent's
load (`queue/route.ts:977-1007`); the release after a done or failed event is never
saved (`execution-events/route.ts:120-136`); a running row sent back to the gate
or to open by a relay or an update skips the gate's decision the next time.

*Mutants.* For every property of every passing run the module next to a mapped
definition holds a variant with a plausible mistake (marked `mutated`): a relay
that does not ask for a session, a fallback that keeps the old session, a
completion that closes other missions' rows, and so on. Under it TLC finds the
property violated.

## 5. Proofs

**The queue.** `GovOperationsProofs`, on `InvariantLemmas` and `MissionRoutesProofs`,
proves for every value of the constants, that is any number of rows, missions,
sessions, agents, jobs and overlapping requests, with all failures and crashes or
without: `Spec => []TypeOK`,
`[]RunningRowsAreBound`, `[]FreeSessionsCarryNoMission`,
`[]DoneRowsWereExecuted` and `[]DoneMissionsWereStarted`.

*The argument.* None of these is inductive: a handler stores its copy, so
whatever is promised of the stored queue has to hold in every copy, at every
await, and a row that stopped running may be run again by a relay on the strength of the
fields it kept. `Inv` says of every row of the stored queue and of every copy
(`RowOK`): a row that names a session also names an executing agent and a job
issued for it, also when it does not run; a running row names a session; a
done row was executed or may be closed by the rule, and its mission was
started or may be closed by the rule. `RowOK` speaks of `jobs`, which only grows, and of
nothing else that changes: that is why an old copy may be saved at any later time (`QueueMonotone`). Further
parts say what a request knows at each await (`SlotOK`) and the same of session tables
(`TableOK`). The lemmas go bottom up: each row operator keeps `RowOK`, each
queue operator `QueueOK`, each step of a request keeps `Inv` (one lemma per
action), and `NextInv` collects them. The assumptions are those on the
constants (`QueueAssumption`, `RegistryAssumption`, `SessionAssumption`,
`StoreAssumption`, `LoadsAssumption`), which TLC evaluates in every run.

**The contract.** `GovContractProofs` proves `Spec => KeepsContract`. The refinement
mapping reads phase and lease of a row off the stored queue and what was taken off
`jobs`. The empty queue is the contract's start; under `Inv` the stored queue is always
backed (`InvBacked`), and a step of any route either records a job and leaves the
queue alone or leaves the jobs alone (`NextJobStep`), so that it is `Take`, `Record`
or a stutter.

**What a step may never do.** `SerialProofs` proves the nine action properties of the queue, for
any number of rows, missions, sessions, agents and jobs, with all failures and crashes.

*The argument.* What a step stores was decided some awaits earlier, on copies. An action
property compares the stored queue before and after the step, so it needs to be known of
each copy how it differs from what is stored *now*. `SerialInv` says this of every
request, at every await: its queue may be saved over the stored one (`SavesOver`: a row
that runs in both does the same work, and a row done in the copy only is earned), its
session table takes no session from a mission (`TakesNone`), the row it is about to start names a
session its table has busy with its mission, and so on (`StoreOK`). A
request establishes this from a fresh or an empty copy (a load that fails gives the empty
one), one lemma per operator on queues; it keeps it through its own awaits, one lemma per
action; and if no other request stores anything between, the save is a step of the kind the property
asks for. What a request says of its own copies only (`OwnOK`: the closure is complete in the
copy of an update) needs no such proviso, and the structure of the step lemmas is shared:
`SerialInvariance` is one theorem, in which `StoreOK` is conditional on `Alone`.

*The hypotheses.* `Alone` (at most one request) is what the properties marked *serial* are
about; `double_start` shows what happens without it. `MpbClosesWholly` and `ClosuresNeverDiffer` have no
hypothesis. `DoneIsAlwaysEarned` also assumes `BlocksAreFlat`: the block of a mission is found by
cutting a suffix off its id (`queue/route.ts:164-233`), so a block could itself be named
like a part of another block, and the closure of the inner one would finalize a row that in
the outer one is a part; the proof does not go through without it, the `block` run's instance meets it.

**An executor and its bridge.** `ExecutorsProofs` proves `ExecutorsSpec =>
[]FreeSessionsCarryNoMission` and `[]DoneRowsWereExecuted`, with failing loads and saves, lost
answers and a bridge that is killed, and `[]DoneFilesCloseTheirMission` where no load and no save fails, for any number of
callers, rows, missions, sessions and agents.

*The argument.* The first two are about the hub alone, and `HubInv` is of the kind of `Inv` above: what
is asked of a stored snapshot is asked of every copy, row by row and session by session. It
asks less of a row, since the direct route binds no job and does not heed the contract.

The third relates five places that change at different times: the file, the mission the bridge
read with its heartbeat, the stored session, every copy of the session table that a request may
still save, and the mission a direct call set out to reconcile. It is not inductive: a
mission that is only in some caller's copy can be in the bridge's heartbeat two saves later. `BridgeInv`
says that as long as nothing of the bridge is lost and others made one request at most, either
all five are about one mission (`Single`), or the completion of the file's mission is through and
only the others' copies, and in the end the stored session, name the next mission (`Handover`).
The passage from one to the other is the caller taking the session. It can do so only where it
read a session that is free or a row that is done, and while it has not yet done so
(`Unspent`) these are to be seen only when the file is as good as gone (`Over`, `Watchful`).
`CallerEffect` sums up what a step of a caller does to what is known of the session, with one
lemma per action of a caller; `Opens` and `Proceeds` do so for the bridge's own
requests; then there is one case per step of the bridge.

*The hypothesis* `NoFaults`: a save that is stored but answered as failed leaves the file where it was
and the session free, as a lost answer does. With `SaveFaults` set TRUE in `executors.cfg`
TLC finds the behaviour: another request gives the session away, and the file of the first
mission completes the second. With `LoadFaults` alone TLC finds none on that instance; the
proof does not cover it.

**Token budgets.** `RecordsProofs` proves `RecordsSpec => []StoredUsageWithinLimit` and
`[]TakenWithinLimit`, for any policies, contracts, days, months and number of overlapping
registrations. What an owner has spent is the cardinality of a set of tokens, so the lemmas are about
unions of finite sets: a reservation adds its cost, dropping rows only lowers it. `TokenInv` says
that every copy a registration may store keeps within the highest limits ever in force
(`GoodUsage`), counted for the days from now on as well: the check is made for the day and month it is
made in, the reservation is stored for the day and month that have come by then, in which nothing
can have been reserved before. For what is taken it says (`UsageIsTaken`), as long as nothing
disturbed it, that what was registered apart is in the stored usage, or its own registration
is about to store it and still the only one; so whoever has loaded the usage knows of it, and what
was taken is part of a copy that keeps within the limits.

**The worker's branches.** The same module proves `RecordsSpec =>
[]DoneWorkStaysPublished` for any branches, edits and number of runs. It is not inductive
by itself: between the push and the answer the commit has to be known to be on the remote.
`RunIsOnTheWay` says at which command what a run has committed is where: on its local branch
after the commit, on the remote after the push. A push is taken only if it extends the remote's branch
(`PushExtends`), which is why no reset can take anything off it. Assumes that `None` is no sequence
of commits (`GitAssumption`).

**The offices.** It also proves `[]NormalizingKeepsTheKnown` and
`MovesLeaveOnePlace`. The invariant is that every stored hierarchy and every copy a request
may save is well typed, and that a request that carries a moved agent has it in the one place of its
copy, or in none where that is full (`Placed`, `OfficesInv`); that every stale copy may be saved at any time is why it must
hold of all of them. `RenamedOnce` is the heart of the first: a name becomes that of
somebody known, or stays for good. Assumes that agents, older names and people are different names
and that `MaxMembers` has room for the older ones (`OfficesAssumption`).

**The form.** `ConsoleProofs` proves `ConsoleSpec => SentOnce`: unless the form may send
again, it is still sending, or nothing is validated, and nothing is validated once the hub was said
to have taken it (`SentInv`); a registration is sent from none of these states.

**The feeds.** It proves `ConsoleSpec => []CountedOnce` for any feeds, sections and number of
rows. `CountInv` says that the row seen last is among the hub's rows and, since rows are only
added, among those of every answer on its way; that nothing counted is newer; and that
what entering the chat's section takes for seen is the newest row shown.

**The chat.** It proves `ConsoleSpec => []AnsweredOnce`, for logs and views of any length and
any number of messages. Up to three copies of the log may be stored over it at any time, the
user's request's, that of the answer it publishes, and the loop's. `ChatInv` asks of
each that it answers no message twice, that what is answered in the user's copies is so in the
log, and what is answered in the log is so in the loop's copy, as far as they have the message; so
what the loop takes for open in the log is open in all of them until it is answered. While the
log fits the loop's view this is so of all answers; afterwards only of those newer than their message
(`KindInv`), because rows are cut off by age. `FirstLogAssumption` asks the initial log to be short
enough to be seen, with each message answered at most once.

**Assumptions on constants** are named in the modules that declare them and evaluated by TLC
in every run that extends them; none bounds the size of an instance.

*Only model-checked:* the five liveness properties (`LoadSettles` and `ReportedWorkIsClosed`
of `Executors` among them), which are out of the prover's reach, as is ENABLED. Every invariant
and every action property of the passing runs is stated by a theorem, under the hypotheses given
above. Where the argument for a property takes the largest or the least of a set of
numbers, that it exists is proved by well-founded descent (`WFMin`); what a
recursive function computes for every input is not proved anywhere, and no theorem needs it.

*Scope of the theorems.* Those of `GovOperationsProofs`, `GovContractProofs` and `SerialProofs`
speak of all routes that write the queue except `cpp/direct` (section 2). Those of
`ExecutorsProofs` speak of `cpp/direct` beside the queue route, releases of sessions and the bridge's
heartbeats, events and completions, as `ExecutorsNext` composes them; relays, missions and
crashes of the hub are not among its steps.

## 6. Not modelled

- *Attempts and alerts of the watchdog.* How often a row was retried is left open, so that
  the model has every decision the counters could lead to; the counters are not kept.
- *Order and truncation of the queue* (1000 rows): the order depends on priorities and ages,
  and no instance TLC can check reaches the limit. Where it picks the first row, the model picks any.
- *Contract validation, prompts, UDN texts, cost estimates*: functions of a request that change no state.
- *Alerts, audit, context memory, bots status*: logs with the load, change and save of the other
  records, on which nothing decides, and of which no text promises that an entry survives.
- *Cookies, passwords, users*: roles are guards (`Engineer`, `Admin`).
- *The other pages and forms of the console*: each sends one request that the routes' models
  already let anybody send at any time; what they do to the mission form is `OtherRequest`.
- *What a repeated registration should leave* of a mission that has rows: the guard
  (`missions/register/route.ts:527`) counts open and running rows only, no text says what it is for,
  and overlapping registrations plan twice. The step is modelled, no property is about it.
- *Sites, packages, SQL, n8n exports, infrastructure*: no logic of their own; the hub behind the
  snapshots is known here by its loads and saves only.
