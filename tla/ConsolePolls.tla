---------------------------- MODULE ConsolePolls ----------------------------
(***************************************************************************)
(* The console's feeds.  Every feed is polled by a timer and once more     *)
(* whenever its effect is set up anew; a lock keeps one request of a feed  *)
(* in flight.  The answer to a request of an effect that was set up anew   *)
(* is dropped, except the queue's and the memory's.  An answer's rows are  *)
(* what was stored when the request was served.                            *)
(***************************************************************************)
EXTENDS RecordStore, Naturals

CONSTANTS
    Feeds,          \* "chat", and other feeds
    Checked,        \* the feeds whose effects drop late answers
    Sectional,      \* the feeds of a section, polled only while it is shown (memory)
    Sections,       \* "chat", "visao", and other sections
    ConsoleTurns    \* bound: what changes, fails, or the user does

ASSUME FeedsAssumption ==
    /\ "chat" \in Feeds \cap Checked /\ {"chat", "visao"} \subseteq Sections
    /\ Sectional \subseteq Feeds \cap Sections

VARIABLES
    stored,      \* what the hub has for every feed, a set of rows
    shown,       \* what the console shows, None before an answer or after a failure
    flight,      \* the request of every feed: its lock, whether it is wanted, its answer
    visible,     \* the tab is in front
    section,
    seen,        \* the newest chat row the console took note of, 0 for none
    counted,     \* the chat rows it counted as new
    recounted,   \* one of them was counted again
    removed,     \* chat rows were removed
    did

pollVars ==
    <<stored, shown, flight, visible, section, seen, counted, recounted, removed, did>>

Act == did < ConsoleTurns /\ did' = did + 1

(* A row has an id, higher for a newer one; of chat rows some are the      *)
(* user's own.                                                             *)
FeedRow(id, mine) == [id |-> id, mine |-> mine]

NewestId(rows) ==
    IF rows = {} THEN 0 ELSE (CHOOSE r \in rows : \A x \in rows : x.id <= r.id).id

NoFlight == [pc |-> "free", active |-> TRUE, rows |-> {}]

FlightTo(f, x) == flight' = [flight EXCEPT ![f] = x]

Mounted(f) == f \in Sectional => section = f

-----------------------------------------------------------------------------
(* Polling. *)

(* No request is made while one is in flight, and by a hidden tab only for *)
(* the feed of a section.                                                  *)
Pull(f) ==
    /\ Mounted(f) /\ (visible \/ f \in Sectional) /\ flight[f].pc = "free"
    /\ FlightTo(f, [NoFlight EXCEPT !.pc = "asked"])
    /\ UNCHANGED <<stored, shown, visible, section, seen, counted, recounted, removed, did>>

Served(f) ==
    /\ flight[f].pc = "asked"
    /\ FlightTo(f, [flight[f] EXCEPT !.pc = "served", !.rows = stored[f]])
    /\ UNCHANGED <<stored, shown, visible, section, seen, counted, recounted, removed, did>>

Wanted(f) == flight[f].active \/ f \notin Checked

AllRows(rows) == rows   \* mutated

(* The rows newer than the one seen last: all of them when it is gone.     *)
Unseen(rows) ==
    {r \in rows : (\E x \in rows : x.id = seen) => r.id > seen}

(* The first answer of the chat only tells where to start.                 *)
Notice(rows) ==
    IF rows = {} THEN UNCHANGED <<seen, counted, recounted>>
    ELSE LET new == IF seen \in {0, NewestId(rows)} THEN {}
                    ELSE {r \in Unseen(rows) : ~ r.mine}
         IN  /\ seen' = NewestId(rows)
             /\ counted' = counted \cup new
             /\ recounted' = (recounted \/ new \cap counted # {})

AnswerComes(f) ==
    /\ flight[f].pc = "served"
    /\ shown' = IF Wanted(f) THEN [shown EXCEPT ![f] = flight[f].rows] ELSE shown
    /\ IF Wanted(f) /\ f = "chat" THEN Notice(flight[f].rows)
                               ELSE UNCHANGED <<seen, counted, recounted>>
    /\ FlightTo(f, NoFlight)
    /\ UNCHANGED <<stored, visible, section, removed, did>>

Locked(f) == [flight EXCEPT ![f].pc = "locked"]   \* mutated

(* finally: the lock is given back *)
Unlocked(f) == [flight EXCEPT ![f] = NoFlight]

Fails(f) ==
    /\ flight[f].pc # "free" /\ Act
    /\ shown' = IF Wanted(f) THEN [shown EXCEPT ![f] = None] ELSE shown
    /\ flight' = Unlocked(f)
    /\ UNCHANGED <<stored, visible, section, seen, counted, recounted, removed>>

-----------------------------------------------------------------------------
(* What sets an effect up anew: its refresh button, a change of its        *)
(* interval, for the chat also a change of the section or of the mission.  *)

Deactivated(fs) ==
    [f \in Feeds |-> IF f \in fs THEN [flight[f] EXCEPT !.active = flight[f].pc = "free"]
                     ELSE flight[f]]

Refresh ==
    /\ Act
    /\ \E f \in Feeds : Mounted(f) /\ flight' = Deactivated({f})
    /\ UNCHANGED <<stored, shown, visible, section, seen, counted, recounted, removed>>

(* In the chat's section what is shown counts as seen.                     *)
GoToSection ==
    /\ Act
    /\ \E s \in Sections \ {section} :
          /\ section' = s
          /\ seen' = IF s = "chat" /\ shown["chat"] \notin {None, {}}
                       THEN NewestId(shown["chat"]) ELSE seen
    /\ flight' = Deactivated({"chat"} \cup Sectional)
    /\ UNCHANGED <<stored, shown, visible, counted, recounted, removed>>

ToggleTab ==
    /\ Act
    /\ visible' = ~ visible
    /\ UNCHANGED <<stored, shown, flight, section, seen, counted, recounted, removed>>

-----------------------------------------------------------------------------
(* The hub. *)

AddRow ==
    /\ Act
    /\ \E f \in Feeds, mine \in BOOLEAN :
          /\ mine => f = "chat"
          /\ stored' = [stored EXCEPT ![f] = @ \cup {FeedRow(did', mine)}]
    /\ UNCHANGED <<shown, flight, visible, section, seen, counted, recounted, removed>>

RemoveRow ==
    /\ Act
    /\ \E f \in Feeds : \E r \in stored[f] :
          /\ stored' = [stored EXCEPT ![f] = @ \ {r}]
          /\ removed' = (removed \/ f = "chat")
    /\ UNCHANGED <<shown, flight, visible, section, seen, counted, recounted>>

PollInit ==
    /\ stored = [f \in Feeds |-> {}]
    /\ shown = [f \in Feeds |-> None]
    /\ flight = [f \in Feeds |-> NoFlight]
    /\ visible = TRUE
    /\ section = "visao"
    /\ seen = 0 /\ counted = {} /\ recounted = FALSE /\ removed = FALSE
    /\ did = 0

FeedWork(f) == Pull(f) \/ Served(f) \/ AnswerComes(f)

PollNext ==
    \/ \E f \in Feeds : FeedWork(f) \/ Fails(f)
    \/ Refresh \/ GoToSection \/ ToggleTab
    \/ AddRow \/ RemoveRow
-----------------------------------------------------------------------------
(* When nothing changes and fails any more, a tab in front shows, after a  *)
(* while and for good, what the hub has, although answers are dropped and  *)
(* a refresh asks for nothing while a request is in flight                 *)
(* (page.tsx:1217-1578).                                                   *)
ShownSettles ==
    <>[](scene = "polls" /\ visible =>
           \A f \in Feeds : Mounted(f) => shown[f] = stored[f])

(* As long as no chat row is removed, a row is counted as new at most once *)
(* and only if it is somebody else's, whichever answers are dropped and    *)
(* whichever sections are entered (page.tsx:1528-1553, :1586-1596).        *)
CountedOnce ==
    removed \/ (~ recounted /\ \A r \in counted : ~ r.mine)
=============================================================================
