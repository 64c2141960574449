----------------------------- MODULE RelayRoute -----------------------------
(***************************************************************************)
(* POST /api/govhub/operations/queue/relay: a worker, or n8n for it,       *)
(* reports on a row.  The queue is saved first; a done is then written to  *)
(* the mission board, and the load of a row that stopped running is        *)
(* released last.  The caller shows the GovHub token, not a role.          *)
(***************************************************************************)
EXTENDS GovStore

RelayAllowedUnbound(x, next, job, complete) ==   \* mutated
    /\ job # None /\ x.job # None => job = x.job
    /\ ValidTransition(x.status, next, complete)

RelayAllowedForAnyJob(x, next, job, complete) ==   \* mutated
    /\ next = "in_progress" => x.session # None
    /\ ValidTransition(x.status, next, complete)

(* Guards on what the relay asks of row x: status next, under job id job.  *)
RelayAllowed(x, next, job, complete) ==
    /\ next = "in_progress" => x.session # None
    /\ job # None /\ x.job # None => job = x.job
    /\ ValidTransition(x.status, next, complete)

(* Any job a worker was ever given, or none, may be named: relays arrive   *)
(* late, twice and out of order.  release: the release_load flag.          *)
Relay(i) ==
    /\ Begins(i, "relay")
    /\ \E q \in Loaded(queue, EmptyQueue), r \in Rows, next \in QueueStatus,
          job \in {None} \cup {j \in Jobs : \E x \in Rows : <<x, j>> \in jobs},
          complete, release \in BOOLEAN :
          IF r \in Live(q) /\ RelayAllowed(q[r], next, job, complete)
            THEN Goto(i, [Blank EXCEPT
                            !.pc = "relayQueue", !.op = "relay",
                            !.row = r, !.status = next,
                            !.q = With(q, r, RelayedRow(q[r], next, job)),
                            !.old = IF release /\ q[r].status = "in_progress"
                                               /\ next # "in_progress"
                                      THEN q[r] ELSE None])
            ELSE Finish(i, "refused")
    /\ UNCHANGED <<store, minted, jobs>>

(* What follows a saved queue and board. *)
ReleaseOrFinish(i) ==
    IF req[i].old = None
      THEN Finish(i, "ok")
      ELSE Goto(i, [req[i] EXCEPT !.pc = "relayAgentsLoad", !.q = EmptyQueue,
                                  !.b = {}])

RelayQueueSaveUnchecked(i) ==   \* mutated
    /\ At(i, "relayQueue")
    /\ \E result \in SaveResults : queue' = Stored(result, queue, req[i].q)
    /\ IF req[i].status = "done"
         THEN Goto(i, [req[i] EXCEPT !.pc = "relayBoardLoad", !.q = EmptyQueue])
         ELSE ReleaseOrFinish(i)
    /\ UNCHANGED <<agents, sessions, board, minted, jobs>>

RelayQueueSave(i) ==
    /\ At(i, "relayQueue")
    /\ \E result \in SaveResults :
          /\ queue' = Stored(result, queue, req[i].q)
          /\ IF result # "ok" THEN Finish(i, "failed")
             ELSE IF req[i].status = "done"
                    THEN Goto(i, [req[i] EXCEPT !.pc = "relayBoardLoad",
                                                !.q = EmptyQueue])
                    ELSE ReleaseOrFinish(i)
    /\ UNCHANGED <<agents, sessions, board, minted, jobs>>

RelayBoardLoad(i) ==
    /\ At(i, "relayBoardLoad")
    /\ \E b \in Loaded(board, {}) :
          Goto(i, [req[i] EXCEPT !.pc = "relayBoardSave",
                                 !.b = b \cup {MissionOf[req[i].row]}])
    /\ UNCHANGED <<store, minted, jobs>>

RelayBoardSave(i) ==
    /\ At(i, "relayBoardSave")
    /\ \E result \in SaveResults :
          /\ board' = Stored(result, board, req[i].b)
          /\ IF result = "ok" THEN ReleaseOrFinish(i) ELSE Finish(i, "failed")
    /\ UNCHANGED <<queue, agents, sessions, minted, jobs>>

(* The registry is saved only when an agent was found. *)
RelayAgentsLoad(i) ==
    /\ At(i, "relayAgentsLoad")
    /\ \E g \in Loaded(agents, EmptyRegistry) :
          \/ /\ ReleaseTargets(g, req[i].old) = {}
             /\ Finish(i, "ok")
          \/ \E a \in ReleaseTargets(g, req[i].old) :
                Goto(i, [req[i] EXCEPT !.pc = "relayAgentsSave",
                                       !.g = Released(g, a)])
    /\ UNCHANGED <<store, minted, jobs>>

RelayAgentsSave(i) ==
    /\ At(i, "relayAgentsSave")
    /\ \E result \in SaveResults : agents' = Stored(result, agents, req[i].g)
    /\ Finish(i, "ok")
    /\ UNCHANGED <<queue, sessions, board, minted, jobs>>

RelayNext(i) ==
    \/ Relay(i)          \/ RelayQueueSave(i)  \/ RelayBoardLoad(i)
    \/ RelayBoardSave(i) \/ RelayAgentsLoad(i) \/ RelayAgentsSave(i)
=============================================================================
