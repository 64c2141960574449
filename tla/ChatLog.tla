------------------------------ MODULE ChatLog ------------------------------
(***************************************************************************)
(* The operations chat: one log, kept as a snapshot, of rows ordered by    *)
(* the time they were made out, which their ids stand for.                 *)
(*                                                                         *)
(*   POST   operations/chat        a message; a worker or the architect    *)
(*                                 may answer it before it is stored       *)
(*   POST   operations/chat/reply  an answer                               *)
(*   DELETE operations/chat        a message with its answers, or all      *)
(*   ops-chat-cpp-loop.sh          answers what is addressed to it         *)
(*                                                                         *)
(* A message with an answer publishes the answer through the reply route,  *)
(* which stores it, and then stores message and answer over it, in the log *)
(* as it was loaded first.                                                 *)
(***************************************************************************)
EXTENDS RecordStore, Naturals, FiniteSets

CONSTANTS
    Messages,    \* what is said: an action and a target
    FirstLog,    \* bound: what is in the log at first
    Posts,       \* bound: requests of users in flight
    Loop,        \* the loop, also the slot of its requests
    LogRows,     \* a log keeps its newest LogRows rows (500)
    ViewRows,    \* the loop asks for the newest ViewRows rows (120)
    ChatTurns    \* bound: messages, answers, deletions and faults

ASSUME ChatAssumption ==
    /\ LogRows \in Nat /\ ViewRows \in 1..LogRows
    /\ Loop \notin Posts

VARIABLES
    log,         \* stored: a set of rows
    chat,        \* the messages and deletions in flight
    rep,         \* the answers in flight
    loop,        \* where the loop is, and the message it answers
    clock,       \* row ids tell when they were made
    chatTurns,
    outgrown,    \* the log had more rows than the loop asks for
    chatDisturbed    \* requests of users overlapped, or a connection broke with
                 \* an answer still in flight

chatVars == <<log, chat, rep, loop, clock, chatTurns, outgrown, chatDisturbed>>

Row(id, re, what) == [id |-> id, re |-> re, what |-> what]

Answer == [action |-> "MSG", target |-> "STAFF"]   \* to whoever asked

Inbound(r) == r.re # 0

Newer(rows, r) == {x \in rows : x.id > r.id}

Newest(rows, n) == {r \in rows : Cardinality(Newer(rows, r)) < n}

Ids(rows) == {r.id : r \in rows}

(* An old log: the rows are numbered, and no message is answered twice.    *)
ASSUME FirstLogAssumption ==
    /\ IsFiniteSet(FirstLog) /\ Cardinality(FirstLog) <= ViewRows
    /\ FirstLog \subseteq [id : 1..Cardinality(FirstLog), re : 0..Cardinality(FirstLog),
                           what : Messages \cup {Answer}]
    /\ \A r, x \in FirstLog : r.id = x.id \/ (Inbound(r) /\ r.re = x.re) => r = x

(* targetWorkerRoute *)
AsksWorker(what) == what.target \in {"CPP", "CPP-IA"} /\ what.action \in {"MSG", "STATUS"}

AsksArchitect(what) == what.target = "PRINCIPAL_ARCHITECT" /\ what.action = "MSG"

-----------------------------------------------------------------------------
(* Loads and saves. *)

Faulty(faults) == faults /\ chatTurns < ChatTurns

ReadLog(then(_)) ==
    \/ then(log) /\ UNCHANGED chatTurns
    \/ Faulty(LoadFaults) /\ chatTurns' = chatTurns + 1 /\ then({})

SaveLog(rows) ==
    \/ /\ log' = Newest(rows, LogRows)
       /\ outgrown' = (outgrown \/ Cardinality(rows) > ViewRows)
       /\ UNCHANGED chatTurns
    \/ /\ Faulty(SaveFaults) /\ chatTurns' = chatTurns + 1
       /\ UNCHANGED <<log, outgrown>>

-----------------------------------------------------------------------------
(* POST operations/chat *)

NoChat == [pc |-> "idle", what |-> None, own |-> {}, rows |-> {}]

ChatTo(p, x) == chat' = [chat EXCEPT ![p] = x]

Turn == chatTurns < ChatTurns /\ chatTurns' = chatTurns + 1

Idle(p) == chat[p].pc = "idle" /\ rep[p].pc = "idle"

Overlapping(p) == \E o \in Posts \ {p} : ~ Idle(o)

(* A command, or a message for somebody else, is only stored. *)
PostMessage(p) ==
    /\ Idle(p) /\ Turn
    /\ \E what \in Messages, rows \in Loaded(log, {}) :
          IF AsksWorker(what) \/ AsksArchitect(what)
          THEN /\ ChatTo(p, [NoChat EXCEPT !.pc = "dispatch", !.what = what, !.rows = rows])
               /\ UNCHANGED clock
          ELSE /\ ChatTo(p, [NoChat EXCEPT !.pc = "save", !.own = {Row(clock + 1, 0, what)},
                                           !.rows = rows])
               /\ clock' = clock + 1
    /\ chatDisturbed' = (chatDisturbed \/ Overlapping(p))
    /\ UNCHANGED <<log, rep, loop, outgrown>>

(* The worker answers or does not; for the architect there is always an    *)
(* answer, a local one at last.  A worker's answer is made out before the  *)
(* message's row: it is the older of the two, unless both have one time.   *)
Dispatched(p) ==
    /\ chat[p].pc = "dispatch"
    /\ LET what == chat[p].what
           Own(pc, rows) == ChatTo(p, [chat[p] EXCEPT !.pc = pc, !.own = rows])
       IN \/ /\ ~ AsksArchitect(what)
             /\ clock' = clock + 1
             /\ Own("save", {Row(clock + 1, 0, what)})
          \/ /\ clock' = clock + 2
             /\ \/ Own("publish", {Row(clock + 1, 0, what), Row(clock + 2, clock + 1, Answer)})
                \/ /\ ~ AsksArchitect(what)
                   /\ Own("publish", {Row(clock + 2, 0, what), Row(clock + 1, clock + 2, Answer)})
    /\ UNCHANGED <<log, rep, loop, chatTurns, outgrown, chatDisturbed>>

NoReply == [pc |-> "idle", re |-> 0, rows |-> {}]

RepTo(s, x) == rep' = [rep EXCEPT ![s] = x]

AskReply(s, re) == rep[s].pc = "idle" /\ RepTo(s, [NoReply EXCEPT !.pc = "load", !.re = re])

PublishReply(p) ==
    /\ chat[p].pc = "publish"
    /\ \E r \in chat[p].own : Inbound(r) /\ AskReply(p, r.re)
    /\ ChatTo(p, [chat[p] EXCEPT !.pc = "published"])
    /\ UNCHANGED <<log, loop, clock, chatTurns, outgrown, chatDisturbed>>

(* The answer's own failure is ignored, and so is a broken connection,     *)
(* which leaves the reply route at work.                                   *)
Published(p) ==
    /\ chat[p].pc = "published"
    /\ \/ rep[p].pc = "idle" /\ UNCHANGED <<chatTurns, chatDisturbed>>
       \/ rep[p].pc # "idle" /\ Turn /\ chatDisturbed' = TRUE
    /\ ChatTo(p, [chat[p] EXCEPT !.pc = "save"])
    /\ UNCHANGED <<log, rep, loop, clock, outgrown>>

KeptRowsReloaded(p) == chat[p].own \cup log   \* mutated

KeptRows(p) == chat[p].own \cup chat[p].rows

SaveChat(p) ==
    /\ chat[p].pc = "save"
    /\ SaveLog(KeptRows(p))
    /\ ChatTo(p, NoChat)
    /\ UNCHANGED <<rep, loop, clock, chatDisturbed>>

-----------------------------------------------------------------------------
(* POST operations/chat/reply, by the two above and by whoever has access, *)
(* of whom only the answers to answers are followed.                       *)

ReplyTo(p) ==
    /\ Idle(p) /\ Turn
    /\ \E r \in log : Inbound(r) /\ AskReply(p, r.id)
    /\ chatDisturbed' = (chatDisturbed \/ Overlapping(p))
    /\ UNCHANGED <<log, chat, loop, clock, outgrown>>

LoadForReply(s) ==
    /\ rep[s].pc = "load"
    /\ ReadLog(LAMBDA rows : RepTo(s, [rep[s] EXCEPT !.pc = "save", !.rows = rows]))
    /\ UNCHANGED <<log, chat, loop, clock, outgrown, chatDisturbed>>

SaveReply(s) ==
    /\ rep[s].pc = "save"
    /\ clock' = clock + 1
    /\ SaveLog({Row(clock + 1, rep[s].re, Answer)} \cup rep[s].rows)
    /\ RepTo(s, NoReply)
    /\ UNCHANGED <<chat, loop, chatDisturbed>>

-----------------------------------------------------------------------------
(* DELETE operations/chat: the answers of what is deleted go as well. *)

AnswersTo(rows, ids) == {r.id : r \in {x \in rows : x.re \in ids}}

WithAnswers(rows, id) ==
    LET Closure[n \in Nat] ==
          IF n = 0 THEN {id} ELSE Closure[n - 1] \cup AnswersTo(rows, Closure[n - 1])
    IN  Closure[Cardinality(rows)]

Without(rows, ids) == {r \in rows : r.id \notin ids}

DeleteMessage(p) ==
    /\ Idle(p) /\ Turn
    /\ \E rows \in Loaded(log, {}) : \E id \in Ids(rows) :
       \E gone \in {WithAnswers(rows, id), Ids(rows)} :
          ChatTo(p, [NoChat EXCEPT !.pc = "delete", !.rows = Without(rows, gone)])
    /\ chatDisturbed' = (chatDisturbed \/ Overlapping(p))
    /\ UNCHANGED <<log, rep, loop, clock, outgrown>>

SaveDeletion(p) ==
    /\ chat[p].pc = "delete"
    /\ SaveLog(chat[p].rows)
    /\ ChatTo(p, NoChat)
    /\ UNCHANGED <<rep, loop, clock, chatDisturbed>>

-----------------------------------------------------------------------------
(* The loop; a lock keeps a second one from running. *)

ForLoop(r) == /\ ~ Inbound(r)
              /\ r.what.target = "CPP" /\ r.what.action \in {"MSG", "NOVA_MISSAO"}

Answered(rows, id) == \E r \in rows : Inbound(r) /\ r.re = id

Unanswered(rows) == {r \in rows : ForLoop(r) /\ ~ Answered(rows, r.id)}

TopId(rows) == IF rows = {} THEN 0 ELSE CHOOSE id \in Ids(rows) : \A k \in Ids(rows) : k <= id

(* The newest for the loop, if it is not answered. *)
FirstOnly(rows) ==   \* mutated
    LET id == TopId({r \in rows : ForLoop(r)})
    IN  IF Answered(rows, id) THEN 0 ELSE id

FirstUnread(rows) == TopId(Unanswered(rows))

LoopAt(pc, re) == [pc |-> pc, re |-> re]

LoopPolls ==
    /\ loop.pc = "poll"
    /\ ReadLog(LAMBDA rows : LET re == FirstUnread(Newest(rows, ViewRows))
                             IN  loop' = LoopAt(IF re = 0 THEN "poll" ELSE "reply", re))
    /\ UNCHANGED <<log, chat, rep, clock, outgrown, chatDisturbed>>

(* What the loop asks of the queue, the sessions and the registry decides  *)
(* only the words of the answer.                                           *)
LoopReplies ==
    /\ loop.pc = "reply"
    /\ AskReply(Loop, loop.re)
    /\ loop' = LoopAt("waiting", 0)
    /\ UNCHANGED <<log, chat, clock, chatTurns, outgrown, chatDisturbed>>

LoopGoesOn ==
    /\ loop.pc = "waiting" /\ rep[Loop].pc = "idle"
    /\ loop' = LoopAt("poll", 0)
    /\ UNCHANGED <<log, chat, rep, clock, chatTurns, outgrown, chatDisturbed>>

(* set -e: a connection that breaks ends the loop, not the reply route. *)
LoopEnds ==
    /\ loop.pc # "ended" /\ Turn
    /\ loop' = LoopAt("ended", 0)
    /\ chatDisturbed' = (chatDisturbed \/ rep[Loop].pc # "idle")
    /\ UNCHANGED <<log, chat, rep, clock, outgrown>>

LoopStarts ==
    /\ loop.pc = "ended" /\ Turn
    /\ loop' = LoopAt("poll", 0)
    /\ UNCHANGED <<log, chat, rep, clock, outgrown, chatDisturbed>>

-----------------------------------------------------------------------------
ChatInit ==
    /\ log = FirstLog
    /\ chat = [p \in Posts |-> NoChat]
    /\ rep = [s \in Posts \cup {Loop} |-> NoReply]
    /\ loop = LoopAt("poll", 0)
    /\ clock = Cardinality(FirstLog) /\ chatTurns = 0
    /\ outgrown = FALSE /\ chatDisturbed = FALSE

(* What is at work goes on. *)
ChatWork ==
    \/ \E p \in Posts : \/ Dispatched(p) \/ PublishReply(p) \/ Published(p)
                        \/ SaveChat(p)   \/ SaveDeletion(p)
    \/ \E s \in Posts \cup {Loop} : LoadForReply(s) \/ SaveReply(s)
    \/ LoopPolls \/ LoopReplies \/ LoopGoesOn

ChatNext ==
    \/ ChatWork
    \/ \E p \in Posts : PostMessage(p) \/ ReplyTo(p) \/ DeleteMessage(p)
    \/ LoopEnds \/ LoopStarts
-----------------------------------------------------------------------------
(* As long as the requests of users do not overlap and no connection       *)
(* breaks, the hub and its loop, which may overlap with one of them,       *)
(* answer a message of the log at most once: the published answer is gone  *)
(* when the same answer is stored with its message                         *)
(* (chat/route.ts:540-586, ops-chat-cpp-loop.sh:423-444).  Once the log    *)
(* was longer than what the loop asks for, this is only so of answers      *)
(* newer than their message: an older one is out of the loop's sight       *)
(* while its message is the last in it, and the loop answers again.        *)
AnsweredOnce ==
    chatDisturbed \/
    \A m \in log, a \in log, b \in log :
       /\ ~ Inbound(m) /\ a.re = m.id /\ b.re = m.id
       /\ outgrown => a.id > m.id /\ b.id > m.id
       => a = b

(* When nothing is said and fails any more, nothing among the rows the     *)
(* loop asks for waits for its answer, unless the loop ended: it answers   *)
(* one message a round, also while answers are overwritten                 *)
(* (ops-chat-cpp-loop.sh:419-519).                                         *)
LoopCatchesUp ==
    <>[](scene = "chat" => \/ Unanswered(Newest(log, ViewRows)) = {}
                           \/ loop.pc = "ended")
=============================================================================
