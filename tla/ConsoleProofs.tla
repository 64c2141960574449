---------------------------- MODULE ConsoleProofs ----------------------------
(***************************************************************************)
(* The console, for any number of turns, missions, rows, feeds and other   *)
(* users of the hub: a registration is sent once unless it was validated   *)
(* again, failed or lost the page's status, and never again once it was    *)
(* answered, no row of the chat is counted twice, and no message of the    *)
(* chat is answered twice while the requests of users do not overlap, for  *)
(* logs and views of any length, any number of messages, answers and       *)
(* deletions, and failing loads and saves.                                 *)
(*                                                                         *)
(* Argument for the chat.  Several copies of the log are at work at once,  *)
(* each of which may be stored over it: the ones of the user's request, of *)
(* the answer it publishes, and of the loop's answer.  ChatInv asks of     *)
(* each copy that it answers no message twice, and that what is answered   *)
(* in the user's copies is so in the log, and what is answered in the log  *)
(* is so in the loop's copy, as far as they have the message.  So what the *)
(* loop takes for open in the log is open in all of them until it is       *)
(* answered.                                                               *)
(***************************************************************************)
EXTENDS Console, Integers, WellFoundedInduction, FiniteSetTheorems, TLAPS

-----------------------------------------------------------------------------
(* The mission form. *)

(* Until something may be sent again, the last registration is on its way  *)
(* or its validation is forgotten; and the validation of what the hub was  *)
(* said to have taken is forgotten.                                        *)
SentInv ==
    /\ mayResend \/ status = "sending" \/ validated = None
    /\ toldTaken => validated = None

(* Every step of the form keeps this.                                      *)
LEMMA SentStepInv == SentInv /\ [DraftNext]_draftVars => SentInv'
<1> SUFFICES ASSUME SentInv, [DraftNext]_draftVars PROVE SentInv'
  OBVIOUS
<1>1. CASE CompileUdn \/ LeaveForm \/ GoToForm \/ ShowLists \/ OthersRegister
  <2>1. UNCHANGED <<validated, status, mayResend, toldTaken>>
    BY <1>1, Zenon DEF CompileUdn, LeaveForm, GoToForm, ShowLists, OthersRegister
  <2> QED
    BY <2>1 DEF SentInv
<1>2. CASE ValidateMission
  BY <1>2 DEF SentInv, ValidateMission
<1>3. CASE RegisterMission
  BY <1>3 DEF SentInv, RegisterMission
<1>4. ASSUME NEW k \in DOMAIN flights,
             HubDecides(k) \/ AnswerTaken(k) \/ AnswerRefused(k) \/ Reported(k)
               \/ AnswerLost(k) \/ LossReported(k)
      PROVE  SentInv'
  BY <1>4 DEF SentInv, HubDecides, AnswerTaken, AnswerRefused, Reported, AnswerLost,
              LossReported
<1>5. CASE UNCHANGED draftVars
  BY <1>5 DEF SentInv, draftVars
<1>6. CASE OtherRequest
  BY <1>6 DEF SentInv, OtherRequest
<1>7. CASE EditForm
  <2>1. UNCHANGED <<validated, status, mayResend, toldTaken>>
    BY <1>7, Zenon DEF EditForm
  <2> QED
    BY <2>1 DEF SentInv
<1> QED
  BY <1>1, <1>2, <1>3, <1>4, <1>5, <1>6, <1>7 DEF DraftNext

-----------------------------------------------------------------------------
(* The registrations on their way are a sequence, of whatever was sent.    *)
FlightsInv == \E S : flights \in Seq(S)

(* An answer changes one of a sequence or takes one out of it.             *)
LEMMA ChangedSeq ==
    ASSUME NEW S, NEW s \in Seq(S), NEW k \in DOMAIN s, NEW pc
    PROVE  /\ \E T : [s EXCEPT ![k].pc = pc] \in Seq(T)
           /\ Len([s EXCEPT ![k].pc = pc]) = Len(s)
           /\ RemoveAt(s, k) \in Seq(S)
           /\ Len(RemoveAt(s, k)) <= Len(s)
<1> DEFINE new == [s[k] EXCEPT !.pc = pc]
           all == [s EXCEPT ![k] = new]
<1>1. all \in Seq(S \cup {new}) /\ Len(all) = Len(s)
  <2> HIDE DEF new
  <2> QED
    OBVIOUS
<1>2. [s EXCEPT ![k].pc = pc] = all
  OBVIOUS
<1>3. k \in 1..Len(s) /\ Len(s) \in Nat
  OBVIOUS
<1>4. /\ SubSeq(s, 1, k - 1) \in Seq(S) /\ Len(SubSeq(s, 1, k - 1)) = k - 1
      /\ SubSeq(s, k + 1, Len(s)) \in Seq(S) /\ Len(SubSeq(s, k + 1, Len(s))) = Len(s) - k
  BY <1>3
<1>5. RemoveAt(s, k) \in Seq(S) /\ Len(RemoveAt(s, k)) = Len(s) - 1
  <2> DEFINE before == SubSeq(s, 1, k - 1)
             after  == SubSeq(s, k + 1, Len(s))
  <2>1. RemoveAt(s, k) = before \o after
    BY DEF RemoveAt
  <2> HIDE DEF before, after
  <2>2. before \o after \in Seq(S) /\ Len(before \o after) = Len(before) + Len(after)
    BY <1>4 DEF before, after
  <2>3. Len(before) = k - 1 /\ Len(after) = Len(s) - k
    BY <1>4 DEF before, after
  <2>4. Len(before) + Len(after) = Len(s) - 1
    BY <1>3, <2>3
  <2> QED
    BY <2>1, <2>2, <2>4
<1> QED
  BY <1>1, <1>2, <1>3, <1>5

(* Only RegisterMission sends one more.                                    *)
LEMMA FlightsStep ==
    ASSUME FlightsInv, [DraftNext]_draftVars
    PROVE  FlightsInv' /\ (Len(flights') > Len(flights) => RegisterMission)
<1> PICK S : flights \in Seq(S)
  BY DEF FlightsInv
<1>1. CASE UNCHANGED flights
  BY <1>1 DEF FlightsInv
<1>2. CASE RegisterMission
  <2>1. PICK e : flights' = Append(flights, e)
    BY <1>2 DEF RegisterMission
  <2>2. flights' \in Seq(S \cup {e})
    BY <2>1
  <2> QED
    BY <1>2, <2>2 DEF FlightsInv
<1>3. ASSUME NEW k \in DOMAIN flights,
             HubDecides(k) \/ AnswerTaken(k) \/ AnswerRefused(k) \/ Reported(k)
               \/ AnswerLost(k) \/ LossReported(k)
      PROVE  FlightsInv' /\ ~ Len(flights') > Len(flights)
  <2>1. \/ \E pc : flights' = [flights EXCEPT ![k].pc = pc]
        \/ flights' = RemoveAt(flights, k)
    BY <1>3 DEF HubDecides, AnswerTaken, AnswerRefused, Reported, AnswerLost, LossReported,
                AnswerTo
  <2>2. Len(flights) \in Nat
    OBVIOUS
  <2>3. ASSUME NEW pc, flights' = [flights EXCEPT ![k].pc = pc]
        PROVE  FlightsInv' /\ Len(flights') = Len(flights)
    <3>1. (\E T : [flights EXCEPT ![k].pc = pc] \in Seq(T))
            /\ Len([flights EXCEPT ![k].pc = pc]) = Len(flights)
      BY ChangedSeq
    <3> QED
      BY <2>3, <3>1 DEF FlightsInv
  <2>4. ASSUME flights' = RemoveAt(flights, k)
        PROVE  FlightsInv' /\ Len(flights') \in Nat /\ Len(flights') <= Len(flights)
    <3>1. flights' \in Seq(S) /\ Len(flights') <= Len(flights)
      BY <2>4, ChangedSeq
    <3> QED
      BY <3>1 DEF FlightsInv
  <2> QED
    BY <2>1, <2>2, <2>3, <2>4
<1>4. CASE EditForm \/ CompileUdn \/ ValidateMission \/ LeaveForm \/ GoToForm
             \/ OtherRequest \/ ShowLists \/ OthersRegister \/ UNCHANGED draftVars
  <2>1. UNCHANGED flights
    BY <1>4 DEF EditForm, CompileUdn, ValidateMission, LeaveForm, GoToForm, OtherRequest,
                ShowLists, OthersRegister, draftVars
  <2> QED
    BY <1>1, <2>1
<1> QED
  BY <1>2, <1>3, <1>4 DEF DraftNext

(* SentOnce holds for any form, feeds, other requests of the page and      *)
(* other users of the hub, and whatever answers are lost.                  *)
THEOREM RegistrationIsSentOnce == ConsoleSpec => SentOnce
<1>1. ConsoleInit => SentInv /\ FlightsInv
  <2>1. <<>> \in Seq({})
    OBVIOUS
  <2> QED
    BY <2>1 DEF ConsoleInit, DraftInit, SentInv, FlightsInv
<1>2. [ConsoleNext]_consoleVars => [DraftNext]_draftVars
  BY DEF ConsoleNext, consoleVars, PollScene, DraftScene, PresenceScene, ChatScene
<1>3. SentInv /\ FlightsInv /\ [ConsoleNext]_consoleVars => (SentInv /\ FlightsInv)'
  BY <1>2, SentStepInv, FlightsStep
<1> DEFINE Sent == Len(flights') > Len(flights) => mayResend /\ ~ toldTaken
<1>4. SentInv /\ FlightsInv /\ [ConsoleNext]_consoleVars => [Sent]_draftVars
  <2> SUFFICES ASSUME SentInv, FlightsInv, [ConsoleNext]_consoleVars,
                      Len(flights') > Len(flights)
               PROVE  mayResend /\ ~ toldTaken
    OBVIOUS
  <2>1. RegisterMission
    BY <1>2, FlightsStep
  <2> QED
    BY <2>1 DEF RegisterMission, Ready, SentInv
<1>5. ConsoleSpec => [][Sent]_draftVars
  <2> HIDE DEF Sent
  <2> QED
    BY <1>1, <1>3, <1>4, PTL DEF ConsoleSpec
<1> QED
  BY <1>5 DEF SentOnce
-----------------------------------------------------------------------------
(* Sets of numbers. *)

(* A set of numbers that is not empty has a least one.                     *)
LEMMA Least ==
    ASSUME NEW S \in SUBSET Nat, S # {}
    PROVE  \E m \in S : \A k \in S : m <= k
<1> DEFINE R == OpToRel(<, Nat)
<1>1. \A y, m \in Nat : y < m => <<y, m>> \in R
  BY DEF OpToRel
<1>2. IsWellFoundedOn(R, Nat)
  BY NatLessThanWellFounded
<1> HIDE DEF R
<1>3. PICK m \in S : \A y \in S : ~ (<<y, m>> \in R)
  BY <1>2, WFMin
<1>4. ASSUME NEW k \in S PROVE m <= k
  <2>1. k \in Nat /\ m \in Nat /\ ~ (k < m)
    BY <1>1, <1>3
  <2> QED
    BY <2>1
<1> QED
  BY <1>4

(* and, when it is bounded, a greatest one.                                *)
LEMMA Greatest ==
    ASSUME NEW S \in SUBSET Nat, S # {}, NEW n \in Nat, \A k \in S : k <= n
    PROVE  \E m \in S : \A k \in S : k <= m
<1> DEFINE T == {j \in Nat : \E k \in S : j + k = n}
<1>1. T \in SUBSET Nat /\ T # {}
  <2>1. PICK k \in S : TRUE
    OBVIOUS
  <2>2. n - k \in Nat /\ (n - k) + k = n
    OBVIOUS
  <2> QED
    BY <2>2
<1>2. PICK t \in T : \A u \in T : t <= u
  BY <1>1, Least
<1>3. PICK m \in S : t + m = n
  OBVIOUS
<1>4. ASSUME NEW k \in S PROVE k <= m
  <2>1. n - k \in Nat /\ (n - k) + k = n
    OBVIOUS
  <2>2. t <= n - k
    BY <1>2, <2>1
  <2> QED
    BY <1>3, <2>2
<1> QED
  BY <1>4
-----------------------------------------------------------------------------
(* The chat counter. *)

Feed == [id : 1..did, mine : BOOLEAN]

Flight == [pc : {"free", "asked", "served"}, active : BOOLEAN, rows : SUBSET Feed]

PollType ==
    /\ did \in Nat /\ seen \in Nat
    /\ stored \in [Feeds -> SUBSET Feed]
    /\ shown \in [Feeds -> {None} \cup SUBSET Feed]
    /\ flight \in [Feeds -> Flight]
    /\ counted \subseteq Feed

Has(rows, id) == \E x \in rows : x.id = id

(* The row seen last is among the rows the hub has and, since rows are     *)
(* only added, among the rows of every answer on its way; nothing counted  *)
(* is newer.  What entering the chat's section takes for seen is seen.     *)
CountInv ==
    /\ seen # 0 => /\ Has(stored["chat"], seen)
                   /\ flight["chat"].pc = "served" => Has(flight["chat"].rows, seen)
    /\ flight["chat"].pc = "served" => flight["chat"].rows \subseteq stored["chat"]
    /\ shown["chat"] \notin {None, {}} => NewestId(shown["chat"]) = seen
    /\ \A r \in counted : r.id <= seen /\ ~ r.mine
    /\ ~ recounted

PollInv == PollType /\ (removed \/ CountInv)

(* What is counted as the newest is the newest. *)
LEMMA NewestIdIs ==
    ASSUME PollType, NEW rows \in SUBSET Feed, rows # {}
    PROVE  /\ NewestId(rows) \in 1..did /\ Has(rows, NewestId(rows))
           /\ \A r \in rows : r.id <= NewestId(rows)
<1> DEFINE ids == {r.id : r \in rows}
<1>0. did \in Nat
  BY DEF PollType
<1>1. ids \in SUBSET Nat /\ ids # {} /\ \A k \in ids : k <= did
  BY <1>0 DEF Feed
<1>2. PICK m \in ids : \A k \in ids : k <= m
  BY <1>0, <1>1, Greatest
<1>3. \E r \in rows : \A x \in rows : x.id <= r.id
  BY <1>2
<1> DEFINE top == CHOOSE r \in rows : \A x \in rows : x.id <= r.id
<1>4. top \in rows /\ \A x \in rows : x.id <= top.id
  BY <1>3
<1>5. NewestId(rows) = top.id
  BY DEF NewestId
<1> QED
  BY <1>4, <1>5 DEF Has, Feed

(* Rows of an earlier time are rows still. *)
LEMMA FeedGrows ==
    ASSUME did \in Nat, did' \in {did, did + 1}
    PROVE  Feed \subseteq Feed' /\ Flight \subseteq Flight'
<1>1. Feed \subseteq Feed'
  BY DEF Feed
<1> QED
  BY <1>1 DEF Flight

(* What is typed stays so as time goes on.                                 *)
LEMMA TypeGrows ==
    ASSUME PollType, did' \in {did, did + 1}
    PROVE  /\ did' \in Nat /\ counted \subseteq Feed'
           /\ stored \in [Feeds -> SUBSET Feed']
           /\ shown \in [Feeds -> {None} \cup SUBSET Feed']
           /\ \A fl \in [Feeds -> Flight] : fl \in [Feeds -> Flight']
<1>1. did \in Nat
  BY DEF PollType
<1>2. Feed \subseteq Feed' /\ Flight \subseteq Flight'
  BY <1>1, FeedGrows
<1>3. \A fl \in [Feeds -> Flight] : fl \in [Feeds -> Flight']
  BY <1>2
<1> QED
  BY <1>1, <1>2, <1>3 DEF PollType

(* What a request becomes.                                                 *)
LEMMA FlightForms ==
    ASSUME PollType, NEW f \in Feeds
    PROVE  /\ NoFlight \in Flight /\ NoFlight.pc = "free"
           /\ [NoFlight EXCEPT !.pc = "asked"] \in Flight
           /\ [NoFlight EXCEPT !.pc = "asked"].pc = "asked"
           /\ [flight[f] EXCEPT !.pc = "served", !.rows = stored[f]] \in Flight
           /\ [flight[f] EXCEPT !.pc = "served", !.rows = stored[f]].rows = stored[f]
           /\ \A b \in BOOLEAN : /\ [flight[f] EXCEPT !.active = b] \in Flight
                               /\ [flight[f] EXCEPT !.active = b].pc = flight[f].pc
                               /\ [flight[f] EXCEPT !.active = b].rows = flight[f].rows
<1>1. flight[f] \in Flight /\ stored[f] \in SUBSET Feed
  BY DEF PollType
<1>2. NoFlight \in Flight /\ NoFlight.pc = "free"
  BY DEF NoFlight, Flight
<1>3. ASSUME NEW x \in Flight, NEW rows \in SUBSET Feed, NEW b \in BOOLEAN
      PROVE  /\ [x EXCEPT !.pc = "asked"] \in Flight /\ [x EXCEPT !.pc = "asked"].pc = "asked"
             /\ [x EXCEPT !.active = b] \in Flight
             /\ [x EXCEPT !.active = b].pc = x.pc /\ [x EXCEPT !.active = b].rows = x.rows
  BY <1>3 DEF Flight
<1>4. ASSUME NEW x \in Flight, NEW rows \in SUBSET Feed
      PROVE  /\ [x EXCEPT !.pc = "served", !.rows = rows] \in Flight
             /\ [x EXCEPT !.pc = "served", !.rows = rows].rows = rows
  BY <1>4 DEF Flight
<1> QED
  BY <1>1, <1>2, <1>3, <1>4

(* Leaving a section leaves what is on its way.                            *)
LEMMA FlightsDeactivated ==
    ASSUME PollType, NEW fs, flight' = Deactivated(fs), "chat" \in Feeds
    PROVE  /\ flight' \in [Feeds -> Flight]
           /\ flight'["chat"].pc = flight["chat"].pc /\ flight'["chat"].rows = flight["chat"].rows
<1>1. \A f \in Feeds : (flight[f].pc = "free") \in BOOLEAN
  OBVIOUS
<1>2. \A f \in Feeds : /\ flight'[f] \in Flight
                        /\ flight'[f].pc = flight[f].pc /\ flight'[f].rows = flight[f].rows
  <2> SUFFICES ASSUME NEW f \in Feeds
               PROVE  /\ flight'[f] \in Flight
                      /\ flight'[f].pc = flight[f].pc /\ flight'[f].rows = flight[f].rows
    OBVIOUS
  <2>1. PICK b \in BOOLEAN : flight'[f] \in {flight[f], [flight[f] EXCEPT !.active = b]}
    BY <1>1 DEF Deactivated
  <2>2. flight[f] \in Flight
    BY DEF PollType
  <2>3. /\ [flight[f] EXCEPT !.active = b] \in Flight
        /\ [flight[f] EXCEPT !.active = b].pc = flight[f].pc
        /\ [flight[f] EXCEPT !.active = b].rows = flight[f].rows
    BY FlightForms
  <2> HIDE DEF Flight
  <2> QED
    BY <2>1, <2>2, <2>3
<1>3. flight' = [f \in Feeds |-> flight'[f]]
  BY DEF Deactivated
<1> QED
  BY <1>2, <1>3

(* The steps that leave the chat's rows, answers and counter alone.        *)
LEMMA QuietPoll ==
    ASSUME PollInv, UNCHANGED <<stored, shown, seen, counted, recounted, removed>>,
           did' \in {did, did + 1},
           flight' \in [Feeds -> Flight],
           flight'["chat"].pc = "served" =>
              \/ flight["chat"].pc = "served" /\ flight'["chat"].rows = flight["chat"].rows
              \/ flight'["chat"].rows = stored["chat"]
    PROVE  PollInv'
<1>1. did \in Nat /\ did' \in Nat
  BY DEF PollInv, PollType
<1>2. Feed \subseteq Feed' /\ Flight \subseteq Flight'
  BY <1>1, FeedGrows
<1>3. PollType'
  BY <1>1, <1>2 DEF PollInv, PollType
<1>4. CountInv => CountInv'
  BY DEF CountInv, Has, NewestId
<1> QED
  BY <1>3, <1>4 DEF PollInv

(* Every step of the polls keeps PollInv.                                  *)
LEMMA PollStep == PollInv /\ [PollNext]_pollVars => PollInv'
<1> SUFFICES ASSUME PollInv, [PollNext]_pollVars PROVE PollInv'
  OBVIOUS
<1>0. "chat" \in Feeds /\ "chat" \in Checked /\ did \in Nat
  BY FeedsAssumption DEF PollInv, PollType
<1>1. CASE UNCHANGED pollVars
  BY <1>1, <1>0, QuietPoll DEF pollVars, PollInv, PollType
<1>2. ASSUME NEW f \in Feeds, Pull(f) PROVE PollInv'
  <2>1. flight' \in [Feeds -> Flight]
    BY <1>2, FlightForms DEF Pull, FlightTo, PollInv, PollType
  <2>2. flight'["chat"] = flight["chat"] \/ flight'["chat"].pc = "asked"
    BY <1>0, <1>2, FlightForms DEF Pull, FlightTo, PollInv, PollType
  <2> QED
    BY <1>2, <1>0, <2>1, <2>2, QuietPoll DEF Pull
<1>3. ASSUME NEW f \in Feeds, Served(f) PROVE PollInv'
  <2>1. flight' \in [Feeds -> Flight]
    BY <1>3, FlightForms DEF Served, FlightTo, PollInv, PollType
  <2>2. flight'["chat"] = flight["chat"] \/ flight'["chat"].rows = stored["chat"]
    BY <1>0, <1>3, FlightForms DEF Served, FlightTo, PollInv, PollType
  <2> QED
    BY <1>3, <1>0, <2>1, <2>2, QuietPoll DEF Served
<1>4. ASSUME NEW f \in Feeds, Fails(f) PROVE PollInv'
  <2>1. PollType'
    <3>1. PollType /\ did' \in {did, did + 1}
      BY <1>4 DEF Fails, Act, PollInv
    <3>2. flight' \in [Feeds -> Flight']
      BY <1>4, <3>1, FlightForms, TypeGrows DEF Fails, Unlocked, PollType
    <3>3. shown' \in [Feeds -> {None} \cup SUBSET Feed']
      BY <1>4, <3>1, TypeGrows DEF Fails
    <3> QED
      BY <1>4, <3>1, <3>2, <3>3, TypeGrows DEF Fails, PollType
  <2>2. CountInv => CountInv'
    BY <1>4, <1>0 DEF Fails, Unlocked, NoFlight, CountInv, Has, NewestId, PollInv, PollType
  <2> QED
    BY <1>4, <2>1, <2>2 DEF PollInv, Fails
<1>5. ASSUME NEW f \in Feeds, AnswerComes(f) PROVE PollInv'
  <2>1. CASE Wanted(f) /\ f = "chat"
    <3> DEFINE rows == flight["chat"].rows
    <3>1. rows \in SUBSET Feed /\ PollType
      <4>1. PollType /\ flight["chat"] \in Flight
        BY <1>0 DEF PollInv, PollType
      <4> QED
        BY <4>1 DEF Flight
    <3>2. rows = {} \/ NewestId(rows) \in 1..did
      BY <3>1, NewestIdIs
    <3>3. PollType'
      <4>1. UNCHANGED <<stored, did>>
        BY <1>5 DEF AnswerComes
      <4>2. Feed' = Feed /\ Flight' = Flight
        BY <4>1 DEF Feed, Flight
      <4>3. flight' \in [Feeds -> Flight]
        BY <1>5, <3>1, FlightForms DEF AnswerComes, FlightTo, PollType
      <4>4. shown' \in [Feeds -> {None} \cup SUBSET Feed]
        BY <1>5, <2>1, <3>1 DEF AnswerComes, PollType
      <4>5. counted' \subseteq Feed /\ seen' \in Nat
        <5>1. CASE rows = {}
          BY <1>5, <2>1, <5>1, <3>1 DEF AnswerComes, Notice, PollType
        <5>2. CASE rows # {}
          <6>1. NewestId(rows) \in Nat
            BY <3>2, <5>2, <1>0
          <6> QED
            BY <1>5, <2>1, <5>2, <3>1, <6>1 DEF AnswerComes, Notice, Unseen, PollType
        <5> QED
          BY <5>1, <5>2
      <4> QED
        BY <3>1, <4>1, <4>2, <4>3, <4>4, <4>5 DEF PollType
    <3>4. CASE ~ removed /\ rows = {}
      <4>1. /\ UNCHANGED <<seen, counted, recounted, stored, removed>>
            /\ shown'["chat"] = {} /\ flight'["chat"].pc = "free"
        BY <1>5, <2>1, <3>4, <1>0, <3>1, FlightForms
           DEF AnswerComes, Notice, FlightTo, PollType
      <4> QED
        BY <3>3, <3>4, <4>1 DEF PollInv, CountInv, Has
    <3>5. CASE ~ removed /\ rows # {}
      <4> DEFINE new == IF seen \in {0, NewestId(rows)} THEN {}
                        ELSE {r \in Unseen(rows) : ~ r.mine}
      <4>1. /\ seen' = NewestId(rows) /\ counted' = counted \cup new
            /\ recounted' = (recounted \/ new \cap counted # {})
            /\ UNCHANGED <<stored, removed>> /\ shown'["chat"] = rows
            /\ flight'["chat"] = NoFlight
        BY <1>5, <2>1, <3>5, <1>0 DEF AnswerComes, Notice, FlightTo, PollInv, PollType
      <4>2. /\ NewestId(rows) \in 1..did /\ Has(rows, NewestId(rows))
            /\ \A r \in rows : r.id <= NewestId(rows)
        BY <3>1, <3>5, NewestIdIs
      <4>3. CountInv /\ flight["chat"].pc = "served" /\ seen \in Nat /\ counted \subseteq Feed
        BY <1>5, <2>1, <3>5, <3>1 DEF PollInv, PollType, AnswerComes
      <4>4. seen <= NewestId(rows)
        BY <4>2, <4>3 DEF CountInv, Has
      <4>5. \A r \in new : r.id > seen /\ r \in rows /\ ~ r.mine
        BY <4>3 DEF CountInv, Unseen, Has
      <4>6. new \cap counted = {}
        BY <4>3, <4>5, <3>1 DEF CountInv, Feed
      <4> HIDE DEF new
      <4>7. \A r \in counted' : r.id <= seen' /\ ~ r.mine
        BY <4>1, <4>2, <4>3, <4>4, <4>5, <3>1 DEF CountInv, Feed
      <4>8. Has(stored["chat"], NewestId(rows))
        BY <4>2, <4>3 DEF CountInv, Has
      <4>9. NewestId(shown["chat"])' = NewestId(rows)
        BY <4>1 DEF NewestId
      <4>10. ~ recounted' /\ flight'["chat"].pc = "free"
        BY <4>1, <4>3, <4>6, <3>1, <1>0, FlightForms DEF CountInv
      <4>11. CountInv'
        BY <4>1, <4>7, <4>8, <4>9, <4>10 DEF CountInv, Has
      <4> QED
        BY <3>3, <4>11 DEF PollInv
    <3> QED
      BY <1>5, <3>3, <3>4, <3>5 DEF PollInv, AnswerComes
  <2>2. CASE ~ (Wanted(f) /\ f = "chat")
    <3>1. PollType'
      <4>1. flight' \in [Feeds -> Flight]
        BY <1>5, FlightForms DEF AnswerComes, FlightTo, PollInv, PollType
      <4>2. shown' \in [Feeds -> {None} \cup SUBSET Feed]
        BY <1>5, <1>0 DEF AnswerComes, Flight, PollInv, PollType
      <4> QED
        BY <1>5, <2>2, <1>0, <4>1, <4>2, FeedGrows DEF AnswerComes, PollInv, PollType
    <3>2. CountInv => CountInv'
      BY <1>5, <2>2, <1>0 DEF AnswerComes, FlightTo, NoFlight, CountInv, Has, NewestId,
         PollInv, PollType
    <3> QED
      BY <1>5, <3>1, <3>2 DEF PollInv, AnswerComes
  <2> QED
    BY <2>1, <2>2
<1>6. CASE Refresh
  <2>1. PICK f \in Feeds : flight' = Deactivated({f})
    BY <1>6 DEF Refresh
  <2> QED
    BY <1>6, <1>0, <2>1, FlightsDeactivated, QuietPoll DEF Refresh, Act, PollInv
<1>7. CASE GoToSection
  <2>1. shown["chat"] \notin {None, {}} => NewestId(shown["chat"]) \in 1..did
    BY <1>0, NewestIdIs DEF PollInv, PollType
  <2>2. /\ flight' \in [Feeds -> Flight]
        /\ flight'["chat"].pc = flight["chat"].pc /\ flight'["chat"].rows = flight["chat"].rows
    BY <1>7, <1>0, FlightsDeactivated DEF GoToSection, PollInv
  <2>3. seen' \in Nat /\ (CountInv => seen' = seen)
    BY <1>7, <2>1, <1>0 DEF GoToSection, CountInv, PollInv, PollType
  <2>4. PollType'
    <3>1. PollType /\ did' \in {did, did + 1} /\ UNCHANGED <<stored, shown, counted>>
      BY <1>7 DEF GoToSection, Act, PollInv
    <3> QED
      BY <3>1, <2>2, <2>3, TypeGrows DEF PollType
  <2>5. CountInv => CountInv'
    BY <1>7, <2>2, <2>3 DEF GoToSection, CountInv, Has, NewestId
  <2> QED
    BY <1>7, <2>4, <2>5 DEF PollInv, GoToSection
<1>8. CASE ToggleTab
  BY <1>8, <1>0, QuietPoll DEF ToggleTab, Act, PollInv, PollType
<1>9. CASE AddRow
  <2>1. Feed \subseteq Feed' /\ did' = did + 1
    BY <1>9, <1>0, FeedGrows DEF AddRow, Act
  <2>2. PICK f \in Feeds, mine \in BOOLEAN :
             stored' = [stored EXCEPT ![f] = @ \cup {FeedRow(did', mine)}]
    BY <1>9 DEF AddRow
  <2>3. FeedRow(did', mine) \in Feed'
    BY <1>0, <2>1 DEF FeedRow, Feed
  <2>4. PollType'
    <3>1. PollType /\ did' \in {did, did + 1} /\ UNCHANGED <<shown, flight, seen, counted>>
      BY <1>9, <2>1 DEF AddRow, PollInv
    <3>2. stored' \in [Feeds -> SUBSET Feed']
      BY <2>2, <2>3, <3>1, TypeGrows
    <3>3. flight \in [Feeds -> Flight'] /\ seen \in Nat
      BY <3>1, TypeGrows DEF PollType
    <3> QED
      BY <3>1, <3>2, <3>3, TypeGrows DEF PollType
  <2>5. stored["chat"] \subseteq stored'["chat"]
    BY <2>2, <1>0 DEF PollInv, PollType
  <2>6. CountInv => CountInv'
    BY <1>9, <2>5 DEF AddRow, CountInv, Has, NewestId
  <2> QED
    BY <1>9, <2>4, <2>6 DEF PollInv, AddRow
<1>10. CASE RemoveRow
  <2>1. PICK f \in Feeds : \E r \in stored[f] :
          /\ stored' = [stored EXCEPT ![f] = @ \ {r}]
          /\ removed' = (removed \/ f = "chat")
    BY <1>10 DEF RemoveRow
  <2>2. PollType'
    BY <1>10, <1>0, <2>1, FeedGrows DEF RemoveRow, Act, PollInv, PollType
  <2>3. CASE f # "chat"
    BY <1>10, <1>0, <2>1, <2>2, <2>3 DEF RemoveRow, CountInv, Has, NewestId, PollInv, PollType
  <2>4. CASE f = "chat"
    BY <2>1, <2>2, <2>4 DEF PollInv
  <2> QED
    BY <2>3, <2>4
<1> QED
  BY <1>1, <1>2, <1>3, <1>4, <1>5, <1>6, <1>7, <1>8, <1>9, <1>10 DEF PollNext, FeedWork

(* CountedOnce holds for any feeds, sections and number of changes.        *)
THEOREM RowsAreCountedOnce == ConsoleSpec => []CountedOnce
<1>1. ConsoleInit => PollInv
  <2>1. ConsoleInit => PollType
    BY DEF ConsoleInit, PollInit, PollType, NoFlight, Flight
  <2>2. ConsoleInit => CountInv
    BY FeedsAssumption DEF ConsoleInit, PollInit, CountInv, NoFlight
  <2> QED
    BY <2>1, <2>2 DEF PollInv
<1>2. [ConsoleNext]_consoleVars => [PollNext]_pollVars
  BY DEF ConsoleNext, consoleVars, PollScene, DraftScene, PresenceScene, ChatScene
<1>3. PollInv /\ [ConsoleNext]_consoleVars => PollInv'
  BY <1>2, PollStep
<1>4. PollInv => CountedOnce
  BY DEF PollInv, CountInv, CountedOnce
<1> QED
  BY <1>1, <1>3, <1>4, PTL DEF ConsoleSpec
-----------------------------------------------------------------------------
(* The operations chat.                                                    *)

ChatRow == [id : 1..clock, re : 0..clock, what : Messages \cup {Answer, None}]

ChatPc == {"idle", "dispatch", "publish", "published", "save", "delete"}

Slots == Posts \cup {Loop}

ChatSlot == [pc : ChatPc, what : Messages \cup {None}, own : SUBSET ChatRow,
             rows : SUBSET ChatRow]

RepSlot == [pc : {"idle", "load", "save"}, re : 0..clock, rows : SUBSET ChatRow]

Copies == {log} \cup {chat[p].rows : p \in Posts} \cup {rep[s].rows : s \in Slots}

ChatType ==
    /\ clock \in Nat /\ log \in SUBSET ChatRow
    /\ chat \in [Posts -> ChatSlot] /\ rep \in [Slots -> RepSlot]
    /\ loop \in [pc : {"poll", "reply", "waiting", "ended"}, re : 0..clock]
    /\ \A C \in Copies : IsFiniteSet(C)
    /\ \A p \in Posts : IsFiniteSet(chat[p].own)
    /\ ~ outgrown => Cardinality(log) <= ViewRows

(* While nothing is disturbed one request of users is at work, the loop    *)
(* waits for its answer, and nothing is kept of what was finished.         *)
Serial ==
    /\ \A p, q \in Posts : p = q \/ Idle(p) \/ Idle(q)
    /\ \A p \in Posts :
          /\ rep[p].pc # "idle" => chat[p].pc \in {"idle", "published"}
          /\ chat[p].pc = "idle" => chat[p].rows = {}
          /\ chat[p].pc \in {"idle", "dispatch", "delete"} => chat[p].own = {}
    /\ \A s \in Slots : /\ rep[s].pc # "save" => rep[s].rows = {}
                        /\ rep[s].pc # "idle" => rep[s].re # 0
    /\ loop.pc = "reply" => loop.re # 0
    /\ rep[Loop].pc # "idle" => loop.pc = "waiting"

(* What the loop is about to answer. *)
Pending ==
    {x \in {loop.re} : loop.pc = "reply"} \cup {x \in {rep[Loop].re} : rep[Loop].pc # "idle"}

IsMessage(rows, m) == \E r \in rows : r.id = m /\ ~ Inbound(r)

(* A message that is not stored yet, and its answer, are nobody else's.    *)
OwnInv ==
    \A p \in Posts :
       /\ \A a, b \in chat[p].own : a.id = b.id \/ (Inbound(a) /\ Inbound(b)) => a = b
       /\ \A r \in chat[p].own :
             /\ r.id \notin Pending
             /\ \A C \in Copies : \A x \in C : x.id # r.id
             /\ Inbound(r) => IsMessage(chat[p].own, r.re)
             /\ ~ Inbound(r) => \A x \in chat[p].rows : x.re # r.id

(* An answer's id is no message's, and users' requests answer no message   *)
(* that is stored.                                                         *)
AnswersInv ==
    /\ \A C, D \in Copies : \A r \in C : Inbound(r) => ~ IsMessage(D, r.id)
    /\ \A p \in Posts : rep[p].pc # "idle" => \A C \in Copies : ~ IsMessage(C, rep[p].re)

(* An answer to the message m: of the kind "late", a newer row.            *)
Answers(kind, r, m) == r.re = m /\ (kind = "late" => r.id > m)

HasAnswer(kind, rows, m) == \E r \in rows : Answers(kind, r, m)

Once(kind, rows) ==
    \A m, a, b \in rows :
       ~ Inbound(m) /\ Answers(kind, a, m.id) /\ Answers(kind, b, m.id) => a = b

Open(kind, rows, m) == IsMessage(rows, m) => ~ HasAnswer(kind, rows, m)

(* The messages of both that are answered in the one are so in the other.  *)
Within(kind, C, D) ==
    \A m \in C : ~ Inbound(m) /\ IsMessage(D, m.id) /\ HasAnswer(kind, C, m.id)
                   => HasAnswer(kind, D, m.id)

(* No message of a copy has two answers, no copy hides an answer from what *)
(* it was taken of, and what the loop answers is open in all of them.      *)
KindInv(kind) ==
    /\ \A C \in Copies : Once(kind, C)
    /\ \A C \in Copies : \A x \in Pending : Open(kind, C, x)
    /\ Within(kind, log, rep[Loop].rows)
    /\ \A p \in Posts :
          /\ Within(kind, chat[p].rows, log) /\ Within(kind, rep[p].rows, log)
          /\ Within(kind, chat[p].rows, rep[p].rows)
          /\ Within(kind, chat[p].rows, rep[Loop].rows)
          /\ Within(kind, rep[p].rows, rep[Loop].rows)

KeptInv == OwnInv /\ AnswersInv /\ KindInv("late") /\ (~ outgrown => KindInv("all"))

QuietInv == Serial /\ KeptInv

ChatInv == ChatType /\ (~ chatDisturbed => QuietInv)

(* Rows and requests stay typed as time goes on.                           *)
LEMMA ChatGrows ==
    ASSUME ChatType, clock' \in {clock, clock + 1, clock + 2}
    PROVE  /\ clock \in Nat /\ clock' \in Nat /\ ChatRow \subseteq ChatRow'
           /\ ChatSlot \subseteq ChatSlot' /\ RepSlot \subseteq RepSlot'
           /\ 0..clock \subseteq 0..clock'
           /\ log \in SUBSET ChatRow' /\ chat \in [Posts -> ChatSlot']
           /\ rep \in [Slots -> RepSlot']
           /\ loop \in [pc : {"poll", "reply", "waiting", "ended"}, re : 0..clock']
<1>1. /\ clock \in Nat /\ clock' \in Nat
      /\ 0..clock \subseteq 0..clock' /\ 1..clock \subseteq 1..clock'
  BY DEF ChatType
<1>2. ChatRow \subseteq ChatRow'
  BY <1>1 DEF ChatRow
<1>3. ChatSlot \subseteq ChatSlot' /\ RepSlot \subseteq RepSlot'
  BY <1>1, <1>2 DEF ChatSlot, RepSlot
<1>4. chat \in [Posts -> ChatSlot'] /\ rep \in [Slots -> RepSlot']
  BY <1>3 DEF ChatType
<1>5. loop \in [pc : {"poll", "reply", "waiting", "ended"}, re : 0..clock']
  BY <1>1 DEF ChatType
<1> QED
  BY <1>1, <1>2, <1>3, <1>4, <1>5 DEF ChatType

(* What a slot becomes.                                                    *)
LEMMA NoSlots ==
    ASSUME clock' \in Nat
    PROVE  /\ NoChat \in ChatSlot' /\ NoChat.pc = "idle" /\ NoChat.own = {} /\ NoChat.rows = {}
           /\ NoReply \in RepSlot' /\ NoReply.pc = "idle" /\ NoReply.rows = {}
<1>1. 0 \in 0..clock'
  OBVIOUS
<1>2. NoChat \in ChatSlot' /\ NoChat.pc = "idle" /\ NoChat.own = {} /\ NoChat.rows = {}
  BY DEF NoChat, ChatSlot, ChatPc
<1>3. NoReply \in RepSlot' /\ NoReply.pc = "idle" /\ NoReply.rows = {}
  BY <1>1 DEF NoReply, RepSlot
<1> QED
  BY <1>2, <1>3

(* A cut log is of the rows it was cut from, and no row newer than a kept  *)
(* one is cut off.                                                         *)
LEMMA NewestRows ==
    ASSUME NEW rows, IsFiniteSet(rows), \A r \in rows : r.id \in Nat, NEW n \in Nat
    PROVE  /\ Newest(rows, n) \subseteq rows /\ IsFiniteSet(Newest(rows, n))
           /\ Cardinality(Newest(rows, n)) <= Cardinality(rows)
           /\ Cardinality(Newest(rows, n)) \in Nat /\ Cardinality(rows) \in Nat
           /\ \A r \in Newest(rows, n), x \in rows : x.id > r.id => x \in Newest(rows, n)
           /\ Cardinality(rows) <= n => Newest(rows, n) = rows
<1>1. Newest(rows, n) \subseteq rows
  BY DEF Newest
<1>2. /\ IsFiniteSet(Newest(rows, n)) /\ Cardinality(Newest(rows, n)) <= Cardinality(rows)
      /\ Cardinality(Newest(rows, n)) \in Nat /\ Cardinality(rows) \in Nat
  BY <1>1, FS_Subset, FS_CardinalityType
<1>3. ASSUME NEW r \in rows
      PROVE  Cardinality(Newer(rows, r)) \in Nat /\ Cardinality(Newer(rows, r)) < Cardinality(rows)
  <2>1. Newer(rows, r) \subseteq rows /\ r \notin Newer(rows, r)
    BY DEF Newer
  <2>2. IsFiniteSet(Newer(rows, r)) /\ Newer(rows, r) # rows
    BY <2>1, FS_Subset
  <2> QED
    BY <2>1, <2>2, FS_Subset, FS_CardinalityType
<1>4. ASSUME NEW r \in Newest(rows, n), NEW x \in rows, x.id > r.id
      PROVE  x \in Newest(rows, n)
  <2>1. r \in rows /\ Cardinality(Newer(rows, r)) < n
    BY DEF Newest
  <2>2. Newer(rows, x) \subseteq Newer(rows, r)
    BY <1>4, <2>1 DEF Newer
  <2>3. Newer(rows, r) \subseteq rows
    BY DEF Newer
  <2>4. IsFiniteSet(Newer(rows, r))
    BY <2>3, FS_Subset
  <2>5. Cardinality(Newer(rows, x)) <= Cardinality(Newer(rows, r))
    BY <2>2, <2>4, FS_Subset
  <2>6. Cardinality(Newer(rows, x)) < n
    BY <1>3, <2>1, <2>5
  <2> QED
    BY <2>6 DEF Newest
<1>5. Cardinality(rows) <= n => Newest(rows, n) = rows
  BY <1>2, <1>3 DEF Newest
<1> QED
  BY <1>1, <1>2, <1>4, <1>5

(* The message the loop takes. *)
LEMMA FirstUnreadIs ==
    ASSUME ChatType, NEW rows \in SUBSET ChatRow
    PROVE  \/ FirstUnread(rows) = 0
           \/ \E m \in rows : /\ m.id = FirstUnread(rows) /\ ~ Inbound(m)
                              /\ ~ Answered(rows, m.id)
<1> DEFINE open == Unanswered(rows)
           ids == Ids(open)
<1>1. CASE open = {}
  BY <1>1 DEF FirstUnread, TopId
<1>2. CASE open # {}
  <2>1. clock \in Nat /\ open \in SUBSET ChatRow
    BY DEF ChatType, Unanswered
  <2>2. ids \in SUBSET Nat /\ ids # {} /\ \A k \in ids : k <= clock
    BY <1>2, <2>1 DEF Ids, ChatRow
  <2> HIDE DEF ids
  <2>3. \E m \in ids : \A k \in ids : k <= m
    BY <2>1, <2>2, Greatest
  <2>4. FirstUnread(rows) = CHOOSE m \in ids : \A k \in ids : k <= m
    BY <1>2 DEF ids, FirstUnread, TopId
  <2>5. FirstUnread(rows) \in ids
    BY <2>3, <2>4
  <2> QED
    BY <2>5 DEF ids, Ids, Unanswered, ForLoop
<1> QED
  BY <1>1, <1>2

(* What a part of a copy inherits.                                         *)
LEMMA PartFacts ==
    ASSUME NEW kind, NEW C, NEW D, C \subseteq D
    PROVE  /\ Within(kind, C, D)
           /\ Once(kind, D) => Once(kind, C)
           /\ \A x : Open(kind, D, x) => Open(kind, C, x)
           /\ \A E : Within(kind, D, E) => Within(kind, C, E)
BY DEF Within, Once, Open, IsMessage, HasAnswer

(* Of an empty copy everything holds.                                      *)
LEMMA NothingFacts ==
    ASSUME NEW kind, NEW C
    PROVE  /\ Within(kind, {}, C) /\ Within(kind, C, {}) /\ Once(kind, {})
           /\ \A x : Open(kind, {}, x) /\ ~ IsMessage({}, x)
BY DEF Within, Once, Open, IsMessage, HasAnswer

(* A cut that keeps the answers of what it keeps.                          *)
KeepsAnswers(kind, cut, rows) ==
    /\ cut \subseteq rows
    /\ \A m \in cut, r \in rows : Answers(kind, r, m.id) => r \in cut

(* What a log that is cut inherits.                                        *)
LEMMA CutFacts ==
    ASSUME NEW kind, NEW rows, NEW cut, KeepsAnswers(kind, cut, rows)
    PROVE  /\ Once(kind, rows) => Once(kind, cut)
           /\ \A x : Open(kind, rows, x) => Open(kind, cut, x)
           /\ \A C : Within(kind, C, rows) => Within(kind, C, cut)
           /\ \A C : Within(kind, rows, C) => Within(kind, cut, C)
<1>1. \A C : Within(kind, C, rows) => Within(kind, C, cut)
  <2> SUFFICES ASSUME NEW C, Within(kind, C, rows), NEW m \in C, ~ Inbound(m),
                      IsMessage(cut, m.id), HasAnswer(kind, C, m.id)
               PROVE  HasAnswer(kind, cut, m.id)
    BY DEF Within
  <2>1. PICK k \in cut : k.id = m.id /\ ~ Inbound(k)
    BY DEF IsMessage
  <2>2. IsMessage(rows, m.id)
    BY <2>1 DEF IsMessage, KeepsAnswers
  <2>3. PICK r \in rows : Answers(kind, r, m.id)
    BY <2>2 DEF Within, HasAnswer
  <2> QED
    BY <2>1, <2>3 DEF KeepsAnswers, HasAnswer
<1>2. cut \subseteq rows
  BY DEF KeepsAnswers
<1> QED
  BY <1>1, <1>2, PartFacts

LoopType == [pc : {"poll", "reply", "waiting", "ended"}, re : 0..clock]

(* The requests in flight stay typed as time goes on.                      *)
LEMMA ChatSlots ==
    ASSUME ChatType, clock' \in {clock, clock + 1, clock + 2}
    PROVE  /\ \A p \in Posts : IsFiniteSet(chat[p].rows) /\ IsFiniteSet(chat[p].own)
           /\ \A p \in Posts : chat[p] \in ChatSlot /\ chat[p] \in ChatSlot'
           /\ \A p \in Posts : chat[p].rows \in SUBSET ChatRow'
           /\ \A s \in Slots : rep[s] \in RepSlot /\ rep[s] \in RepSlot' /\ IsFiniteSet(rep[s].rows)
           /\ \A s \in Slots : rep[s].rows \in SUBSET ChatRow'
           /\ chat \in [Posts -> ChatSlot'] /\ rep \in [Slots -> RepSlot']
           /\ IsFiniteSet(log) /\ IsFiniteSet({})
<1>1. chat \in [Posts -> ChatSlot'] /\ rep \in [Slots -> RepSlot']
  BY ChatGrows
<1>2. \A p \in Posts : chat[p] \in ChatSlot' /\ chat[p].rows \in SUBSET ChatRow'
  BY <1>1 DEF ChatSlot
<1>3. \A s \in Slots : rep[s] \in RepSlot' /\ rep[s].rows \in SUBSET ChatRow'
  BY <1>1 DEF RepSlot
<1>4. /\ \A p \in Posts : chat[p] \in ChatSlot /\ IsFiniteSet(chat[p].own)
      /\ \A s \in Slots : rep[s] \in RepSlot
  BY DEF ChatType
<1>5. /\ \A p \in Posts : IsFiniteSet(chat[p].rows)
      /\ \A s \in Slots : IsFiniteSet(rep[s].rows)
      /\ IsFiniteSet(log)
  BY DEF ChatType, Copies
<1> QED
  BY <1>1, <1>2, <1>3, <1>4, <1>5, FS_EmptySet

(* A step of a user's message or deletion.                                 *)
LEMMA ChatSlotTo ==
    ASSUME ChatType, clock' \in {clock, clock + 1, clock + 2},
           NEW p \in Posts, NEW x \in ChatSlot', ChatTo(p, x),
           IsFiniteSet(x.rows), IsFiniteSet(x.own)
    PROVE  /\ chat' \in [Posts -> ChatSlot'] /\ chat'[p] = x
           /\ \A q \in Posts : q # p => chat'[q] = chat[q]
           /\ \A q \in Posts : IsFiniteSet(chat'[q].rows) /\ IsFiniteSet(chat'[q].own)
<1>1. chat \in [Posts -> ChatSlot'] /\ chat' = [chat EXCEPT ![p] = x]
  BY ChatSlots DEF ChatTo
<1>2. \A q \in Posts : chat'[q] = IF q = p THEN x ELSE chat[q]
  BY <1>1
<1>3. chat' \in [Posts -> ChatSlot']
  BY <1>1
<1>4. \A q \in Posts : IsFiniteSet(chat[q].rows) /\ IsFiniteSet(chat[q].own)
  BY ChatSlots
<1> QED
  BY <1>2, <1>3, <1>4

(* A step of an answer.                                                    *)
LEMMA RepSlotTo ==
    ASSUME ChatType, clock' \in {clock, clock + 1, clock + 2},
           NEW s \in Slots, NEW x \in RepSlot', RepTo(s, x), IsFiniteSet(x.rows)
    PROVE  /\ rep' \in [Slots -> RepSlot'] /\ rep'[s] = x
           /\ \A q \in Slots : q # s => rep'[q] = rep[q]
           /\ \A q \in Slots : IsFiniteSet(rep'[q].rows)
<1>1. rep \in [Slots -> RepSlot'] /\ rep' = [rep EXCEPT ![s] = x]
  BY ChatSlots DEF RepTo
<1>2. \A q \in Slots : rep'[q] = IF q = s THEN x ELSE rep[q]
  BY <1>1
<1>3. rep' \in [Slots -> RepSlot']
  BY <1>1
<1>4. \A q \in Slots : IsFiniteSet(rep[q].rows)
  BY ChatSlots
<1> QED
  BY <1>2, <1>3, <1>4

(* A step keeps the types when what it changes is typed.                   *)
LEMMA ChatTyped ==
    ASSUME ChatType, clock' \in {clock, clock + 1, clock + 2},
           log' \in SUBSET ChatRow', IsFiniteSet(log'),
           ~ outgrown' => Cardinality(log') <= ViewRows,
           chat' \in [Posts -> ChatSlot'], rep' \in [Slots -> RepSlot'], loop' \in LoopType',
           \A p \in Posts : IsFiniteSet(chat'[p].rows) /\ IsFiniteSet(chat'[p].own),
           \A s \in Slots : IsFiniteSet(rep'[s].rows)
    PROVE  ChatType'
<1>1. clock' \in Nat
  BY ChatGrows
<1>2. \A C \in Copies' : IsFiniteSet(C)
  BY DEF Copies
<1> QED
  BY <1>1, <1>2 DEF ChatType, LoopType

(* Nothing but the clock, a slot of either kind and the loop changes.      *)
LEMMA LogTyped ==
    ASSUME ChatType, clock' \in {clock, clock + 1, clock + 2}, UNCHANGED <<log, outgrown>>
    PROVE  /\ log' \in SUBSET ChatRow' /\ IsFiniteSet(log')
           /\ ~ outgrown' => Cardinality(log') <= ViewRows
           /\ loop \in LoopType'
BY ChatGrows, ChatSlots DEF ChatType, LoopType

(* What is stored is a cut of the copy, or the log as it was.              *)
LEMMA SaveLogIs ==
    ASSUME ChatType, clock' \in {clock, clock + 1}, NEW rows \in SUBSET ChatRow',
           IsFiniteSet(rows), SaveLog(rows)
    PROVE  /\ log' \in SUBSET ChatRow' /\ IsFiniteSet(log')
           /\ ~ outgrown' => Cardinality(log') <= ViewRows /\ ~ outgrown
           /\ \E all \in {log, rows} :
                 /\ KeepsAnswers("late", log', all)
                 /\ ~ outgrown' => KeepsAnswers("all", log', all)
<1>1. CASE UNCHANGED <<log, outgrown>>
  <2>1. KeepsAnswers("late", log', log) /\ KeepsAnswers("all", log', log)
    BY <1>1 DEF KeepsAnswers
  <2> QED
    BY <1>1, <2>1, LogTyped DEF ChatType
<1>2. CASE log' = Newest(rows, LogRows) /\ outgrown' = (outgrown \/ Cardinality(rows) > ViewRows)
  <2>1. LogRows \in Nat /\ ViewRows \in Nat /\ ViewRows <= LogRows
    BY ChatAssumption
  <2>2. \A r \in rows : r.id \in Nat
    <3>1. clock' \in Nat
      BY ChatGrows
    <3> QED
      BY <3>1 DEF ChatRow
  <2>3. /\ Newest(rows, LogRows) \subseteq rows /\ IsFiniteSet(Newest(rows, LogRows))
        /\ Cardinality(Newest(rows, LogRows)) <= Cardinality(rows)
        /\ Cardinality(Newest(rows, LogRows)) \in Nat /\ Cardinality(rows) \in Nat
        /\ \A r \in Newest(rows, LogRows), x \in rows :
              x.id > r.id => x \in Newest(rows, LogRows)
        /\ Cardinality(rows) <= LogRows => Newest(rows, LogRows) = rows
    BY <2>1, <2>2, NewestRows
  <2>4. log' \in SUBSET ChatRow' /\ IsFiniteSet(log')
    BY <1>2, <2>3
  <2>5. ~ outgrown' => ~ (Cardinality(rows) > ViewRows) /\ ~ outgrown
    BY <1>2
  <2>6. ~ outgrown' => Cardinality(rows) <= ViewRows /\ log' = rows
    BY <1>2, <2>1, <2>3, <2>5
  <2>7. KeepsAnswers("late", log', rows)
    BY <1>2, <2>3 DEF KeepsAnswers, Answers
  <2>8. ~ outgrown' => KeepsAnswers("all", log', rows)
    BY <2>6 DEF KeepsAnswers
  <2> QED
    BY <1>2, <2>4, <2>5, <2>6, <2>7, <2>8
<1> QED
  BY <1>1, <1>2 DEF SaveLog

NewOwn(own) ==
    /\ \A a, b \in own : a.id = b.id \/ (Inbound(a) /\ Inbound(b)) => a = b
    /\ \A r \in own : r.id > clock /\ (Inbound(r) => IsMessage(own, r.re))

(* Rows and numbers are not from the future. *)
LEMMA Numbers ==
    ASSUME ChatType
    PROVE  /\ clock \in Nat
           /\ \A C \in Copies : C \in SUBSET ChatRow
           /\ \A r \in ChatRow : r.id \in 1..clock /\ r.re \in 0..clock
           /\ \A x \in Pending : x \in 0..clock
           /\ log \in Copies /\ {} \subseteq log
           /\ \A p \in Posts : /\ chat[p].rows \in Copies /\ rep[p].rows \in Copies
                               /\ chat[p].own \in SUBSET ChatRow
                               /\ rep[p].re \in 0..clock
           /\ rep[Loop].rows \in Copies
<1>1. /\ \A p \in Posts : chat[p] \in ChatSlot
      /\ \A s \in Slots : rep[s] \in RepSlot
      /\ loop.re \in 0..clock /\ clock \in Nat
  BY DEF ChatType
<1>2. \A C \in Copies : C \in SUBSET ChatRow
  BY <1>1 DEF Copies, ChatType, ChatSlot, RepSlot
<1>3. \A r \in ChatRow : r.id \in 1..clock /\ r.re \in 0..clock
  BY DEF ChatRow
<1>4. \A x \in Pending : x \in 0..clock
  <2>1. Loop \in Slots
    BY DEF Slots
  <2>2. rep[Loop].re \in 0..clock
    BY <1>1, <2>1 DEF RepSlot
  <2> QED
    BY <1>1, <2>2 DEF Pending
<1>5. /\ log \in Copies /\ rep[Loop].rows \in Copies
      /\ \A p \in Posts : chat[p].rows \in Copies /\ rep[p].rows \in Copies
  BY DEF Copies, Slots
<1>6. \A p \in Posts : chat[p].own \in SUBSET ChatRow /\ rep[p].re \in 0..clock
  BY <1>1 DEF ChatSlot, RepSlot, Slots
<1> QED
  BY <1>1, <1>2, <1>3, <1>4, <1>5, <1>6

(* Steps that store nothing.                                               *)
LEMMA KeptStill ==
    ASSUME ChatType, KeptInv, clock' \in {clock, clock + 1, clock + 2},
           UNCHANGED <<log, outgrown>>, Pending' \subseteq Pending,
           \A p \in Posts : \/ chat'[p].rows = chat[p].rows
                            \/ chat'[p].rows \subseteq log /\ rep'[p].rows = {},
           \A s \in Slots : rep'[s].rows \in {rep[s].rows, {}},
           \A p \in Posts : \/ chat'[p].own = {}
                            \/ UNCHANGED <<chat[p].own, chat[p].rows>>
                            \/ NewOwn(chat'[p].own),
           \A p \in Posts : rep'[p].pc # "idle" =>
                               \/ rep[p].pc # "idle" /\ rep'[p].re = rep[p].re
                               \/ \A C \in Copies : ~ IsMessage(C, rep'[p].re)
    PROVE  KeptInv'
<1>1. \A C \in Copies' : \E D \in Copies : C \subseteq D
  <2>1. /\ log \in Copies /\ \A p \in Posts : chat[p].rows \in Copies
        /\ \A s \in Slots : rep[s].rows \in Copies
    BY DEF Copies
  <2>2. SUFFICES ASSUME NEW C \in Copies' PROVE \E D \in Copies : C \subseteq D
    OBVIOUS
  <2>3. CASE C = log
    BY <2>1, <2>3
  <2>4. ASSUME NEW p \in Posts, C = chat'[p].rows PROVE \E D \in Copies : C \subseteq D
    BY <2>1, <2>4
  <2>5. ASSUME NEW s \in Slots, C = rep'[s].rows PROVE \E D \in Copies : C \subseteq D
    <3>1. C = rep[s].rows \/ C = {}
      BY <2>5
    <3> QED
      BY <2>1, <3>1
  <2> QED
    BY <2>3, <2>4, <2>5 DEF Copies
<1>2. AnswersInv'
  <2>1. \A C, D \in Copies' : \A r \in C : Inbound(r) => ~ IsMessage(D, r.id)
    BY <1>1 DEF KeptInv, AnswersInv, IsMessage
  <2>2. ASSUME NEW p \in Posts, rep'[p].pc # "idle", NEW C \in Copies'
        PROVE  ~ IsMessage(C, rep'[p].re)
    <3>1. PICK D \in Copies : C \subseteq D
      BY <1>1
    <3>2. ~ IsMessage(D, rep'[p].re)
      BY <2>2 DEF KeptInv, AnswersInv
    <3> QED
      BY <3>1, <3>2 DEF IsMessage
  <2> QED
    BY <2>1, <2>2 DEF AnswersInv, IsMessage, Inbound
<1>3. OwnInv'
  <2> SUFFICES ASSUME NEW p \in Posts
               PROVE  /\ \A a, b \in chat'[p].own :
                            a.id = b.id \/ (Inbound(a) /\ Inbound(b)) => a = b
                      /\ \A r \in chat'[p].own :
                            /\ r.id \notin Pending'
                            /\ \A C \in Copies' : \A x \in C : x.id # r.id
                            /\ Inbound(r) => IsMessage(chat'[p].own, r.re)
                            /\ ~ Inbound(r) => \A x \in chat'[p].rows : x.re # r.id
    BY DEF OwnInv, IsMessage, Inbound
  <2>1. CASE chat'[p].own = {}
    BY <2>1
  <2>2. CASE UNCHANGED <<chat[p].own, chat[p].rows>>
    BY <1>1, <2>2 DEF KeptInv, OwnInv
  <2>3. CASE NewOwn(chat'[p].own)
    <3>1. \A x \in Pending' : x \in 0..clock
      BY Numbers
    <3>2. \A C \in Copies' : \A x \in C : x.id \in 1..clock /\ x.re \in 0..clock
      BY <1>1, Numbers
    <3>3. \A x \in chat'[p].rows : x.re \in 0..clock
      BY <3>2 DEF Copies
    <3>4. clock \in Nat
      BY Numbers
    <3>5. \A r \in chat'[p].own : r.id > clock
      BY <2>3 DEF NewOwn
    <3>6. \A r \in chat'[p].own : r.id \notin 0..clock /\ r.id \notin 1..clock
      BY <3>4, <3>5
    <3> QED
      BY <2>3, <3>1, <3>2, <3>3, <3>6 DEF NewOwn
  <2> QED
    BY <2>1, <2>2, <2>3
<1>4. ASSUME NEW kind, KindInv(kind)
      PROVE  KindInv(kind)'
  <2>1. \A C \in Copies' : Once(kind, C) /\ \A x \in Pending' : Open(kind, C, x)
    <3> SUFFICES ASSUME NEW C \in Copies'
                 PROVE  Once(kind, C) /\ \A x \in Pending' : Open(kind, C, x)
      OBVIOUS
    <3>1. PICK D \in Copies : C \subseteq D
      BY <1>1
    <3>2. Once(kind, D) /\ \A x \in Pending : Open(kind, D, x)
      BY <1>4 DEF KindInv
    <3> QED
      BY <3>1, <3>2, PartFacts
  <2>2. Loop \in Slots /\ \A p \in Posts : p \in Slots
    BY DEF Slots
  <2>3. Within(kind, log, rep'[Loop].rows)
    BY <1>4, <2>2, NothingFacts DEF KindInv
  <2>4. ASSUME NEW p \in Posts
        PROVE  /\ Within(kind, chat'[p].rows, log) /\ Within(kind, rep'[p].rows, log)
               /\ Within(kind, chat'[p].rows, rep'[p].rows)
               /\ Within(kind, chat'[p].rows, rep'[Loop].rows)
               /\ Within(kind, rep'[p].rows, rep'[Loop].rows)
    <3>1. CASE chat'[p].rows = chat[p].rows
      BY <1>4, <2>2, <3>1, NothingFacts DEF KindInv
    <3>2. CASE chat'[p].rows \subseteq log /\ rep'[p].rows = {}
      <4>1. Within(kind, chat'[p].rows, log)
        BY <3>2, PartFacts
      <4>2. Within(kind, chat'[p].rows, rep'[Loop].rows)
        BY <2>3, <3>2, PartFacts
      <4> QED
        BY <3>2, <4>1, <4>2, NothingFacts
    <3> QED
      BY <3>1, <3>2
  <2> QED
    BY <2>1, <2>3, <2>4 DEF KindInv, Once, Open, Within, IsMessage, HasAnswer, Answers, Inbound
<1> QED
  BY <1>2, <1>3, <1>4 DEF KeptInv

(* A slot of the users' goes on, the others rest.                          *)
LEMMA SlotStep ==
    ASSUME ChatType, QuietInv, clock' \in {clock, clock + 1, clock + 2},
           UNCHANGED <<log, outgrown, loop>>, NEW p \in Posts,
           \A q \in Posts : q # p => chat'[q] = chat[q] /\ Idle(q),
           \A s \in Slots : s # p => rep'[s] = rep[s],
           \/ chat'[p].rows = chat[p].rows
           \/ chat'[p].rows \subseteq log /\ rep'[p].rows = {},
           \/ chat'[p].own = {}
           \/ UNCHANGED <<chat[p].own, chat[p].rows>>
           \/ NewOwn(chat'[p].own),
           rep'[p].rows \in {rep[p].rows, {}},
           rep'[p].pc # "idle" =>
              /\ chat'[p].pc \in {"idle", "published"} /\ rep'[p].re # 0
              /\ \/ rep[p].pc # "idle" /\ rep'[p].re = rep[p].re
                 \/ \A C \in Copies : ~ IsMessage(C, rep'[p].re),
           chat'[p].pc = "idle" => chat'[p].rows = {},
           chat'[p].pc \in {"idle", "dispatch", "delete"} => chat'[p].own = {},
           rep'[p].pc # "save" => rep'[p].rows = {}
    PROVE  QuietInv'
<1>1. Loop # p /\ Loop \in Slots /\ \A q \in Posts : q \in Slots
  BY ChatAssumption DEF Slots
<1>2. Pending' = Pending
  BY <1>1 DEF Pending
<1>3. /\ \A q \in Posts : \/ chat'[q].rows = chat[q].rows
                          \/ chat'[q].rows \subseteq log /\ rep'[q].rows = {}
      /\ \A s \in Slots : rep'[s].rows \in {rep[s].rows, {}}
      /\ \A q \in Posts : \/ chat'[q].own = {}
                          \/ UNCHANGED <<chat[q].own, chat[q].rows>>
                          \/ NewOwn(chat'[q].own)
      /\ \A q \in Posts : rep'[q].pc # "idle" =>
                             \/ rep[q].pc # "idle" /\ rep'[q].re = rep[q].re
                             \/ \A C \in Copies : ~ IsMessage(C, rep'[q].re)
  BY <1>1
<1>4. KeptInv'
  BY <1>2, <1>3, KeptStill DEF QuietInv
<1>5. Serial'
  <2>1. Serial
    BY DEF QuietInv
  <2>2. \A q, r \in Posts : q = r \/ Idle(q)' \/ Idle(r)'
    BY <1>1 DEF Idle
  <2> QED
    BY <1>1, <2>1, <2>2 DEF Serial
<1> QED
  BY <1>4, <1>5 DEF QuietInv

(* The loop goes on and stores nothing.                                    *)
LEMMA LoopStep ==
    ASSUME ChatType, QuietInv, clock' \in {clock, clock + 1, clock + 2},
           UNCHANGED <<log, outgrown, chat>>,
           \A s \in Slots : s # Loop => rep'[s] = rep[s],
           rep'[Loop].rows \in {rep[Loop].rows, {}}, Pending' \subseteq Pending,
           rep'[Loop].pc # "save" => rep'[Loop].rows = {},
           rep'[Loop].pc # "idle" => rep'[Loop].re # 0 /\ loop'.pc = "waiting",
           loop'.pc = "reply" => loop'.re # 0
    PROVE  QuietInv'
<1>1. Loop \notin Posts /\ Loop \in Slots /\ \A q \in Posts : q \in Slots
  BY ChatAssumption DEF Slots
<1>2. /\ \A s \in Slots : rep'[s].rows \in {rep[s].rows, {}}
      /\ \A q \in Posts : rep'[q] = rep[q]
  BY <1>1
<1>3. KeptInv'
  BY <1>2, KeptStill DEF QuietInv
<1>4. Serial'
  BY <1>1, <1>2 DEF QuietInv, Serial, Idle
<1> QED
  BY <1>3, <1>4 DEF QuietInv

(* One who is at work is so alone.                                         *)
LEMMA Alone ==
    ASSUME QuietInv, NEW p \in Posts, ~ Idle(p) \/ ~ Overlapping(p)
    PROVE  \A q \in Posts : q # p => Idle(q)
BY DEF QuietInv, Serial, Overlapping

(* An idle request keeps nothing.                                          *)
LEMMA RestingRep ==
    ASSUME Serial, NEW p \in Posts, Idle(p) PROVE rep[p].rows = {} /\ rep[p].pc = "idle"
<1>1. p \in Slots
  BY DEF Slots
<1>2. \A s \in Slots : rep[s].pc # "save" => rep[s].rows = {}
  BY DEF Serial, Idle
<1>3. rep[p].pc = "idle"
  BY DEF Idle
<1>4. "idle" # "save"
  OBVIOUS
<1> QED
  BY <1>1, <1>2, <1>3, <1>4

(* A message is posted.                                                    *)
LEMMA PostKeeps ==
    ASSUME ChatInv, NEW p \in Posts, PostMessage(p)
    PROVE  ChatInv'
<1>1. ChatType /\ clock \in Nat
  BY DEF ChatInv, ChatType
<1>2. PICK what \in Messages, rows \in {log, {}} :
         \/ /\ ChatTo(p, [NoChat EXCEPT !.pc = "dispatch", !.what = what, !.rows = rows])
            /\ UNCHANGED clock
         \/ /\ ChatTo(p, [NoChat EXCEPT !.pc = "save", !.own = {Row(clock + 1, 0, what)},
                                        !.rows = rows])
            /\ clock' = clock + 1
  BY DEF PostMessage, Loaded
<1>3. /\ clock' \in {clock, clock + 1, clock + 2} /\ UNCHANGED <<log, rep, loop, outgrown>>
      /\ chatDisturbed' = (chatDisturbed \/ Overlapping(p)) /\ Idle(p)
  BY <1>2 DEF PostMessage
<1>4. rows \in SUBSET ChatRow' /\ IsFiniteSet(rows) /\ rows \subseteq log
  BY <1>1, <1>2, <1>3, ChatGrows, ChatSlots
<1> DEFINE new == {Row(clock + 1, 0, what)}
<1>5. /\ clock' = clock + 1 => new \in SUBSET ChatRow'
      /\ IsFiniteSet(new) /\ NewOwn(new)
  <2>1. clock' = clock + 1 => Row(clock + 1, 0, what) \in ChatRow'
    BY <1>1 DEF Row, ChatRow
  <2>2. NewOwn(new)
    BY <1>1 DEF Row, NewOwn, Inbound
  <2>3. IsFiniteSet(new)
    BY FS_Singleton
  <2> QED
    BY <2>1, <2>2, <2>3
<1>6. PICK x \in ChatSlot' : /\ ChatTo(p, x) /\ x.rows = rows
                             /\ \/ x.pc = "dispatch" /\ x.own = {}
                                \/ x.pc = "save" /\ x.own = new
  <2>1. CASE ChatTo(p, [NoChat EXCEPT !.pc = "dispatch", !.what = what, !.rows = rows])
    <3> DEFINE x == [NoChat EXCEPT !.pc = "dispatch", !.what = what, !.rows = rows]
    <3>1. x \in ChatSlot' /\ x.rows = rows /\ x.pc = "dispatch" /\ x.own = {}
      BY <1>4 DEF NoChat, ChatSlot, ChatPc
    <3> HIDE DEF x
    <3> QED
      BY <2>1, <3>1 DEF x
  <2>2. CASE /\ ChatTo(p, [NoChat EXCEPT !.pc = "save", !.own = new, !.rows = rows])
             /\ clock' = clock + 1
    <3> DEFINE x == [NoChat EXCEPT !.pc = "save", !.own = new, !.rows = rows]
    <3>1. x \in ChatSlot' /\ x.rows = rows /\ x.pc = "save" /\ x.own = new
      <4> HIDE DEF new
      <4> QED
        BY <1>4, <1>5, <2>2 DEF NoChat, ChatSlot, ChatPc
    <3> HIDE DEF x
    <3> QED
      BY <2>2, <3>1 DEF x
  <2> QED
    BY <1>2, <2>1, <2>2
<1> HIDE DEF new
<1>7. /\ chat' \in [Posts -> ChatSlot'] /\ chat'[p] = x
      /\ \A q \in Posts : q # p => chat'[q] = chat[q]
      /\ \A q \in Posts : IsFiniteSet(chat'[q].rows) /\ IsFiniteSet(chat'[q].own)
  BY <1>1, <1>3, <1>4, <1>5, <1>6, ChatSlotTo, ChatSlots
<1>8. ChatType'
  BY <1>1, <1>3, <1>7, LogTyped, ChatTyped, ChatSlots
<1>9. ASSUME ~ chatDisturbed' PROVE QuietInv'
  <2>1. QuietInv /\ ~ Overlapping(p)
    BY <1>3, <1>9 DEF ChatInv
  <2>2. \A q \in Posts : q # p => Idle(q)
    BY <2>1, Alone
  <2>3. rep[p].rows = {} /\ rep[p].pc = "idle" /\ rep' = rep
    BY <1>3, <2>1, RestingRep DEF QuietInv
  <2> QED
    BY <1>1, <1>3, <1>4, <1>5, <1>6, <1>7, <2>1, <2>2, <2>3, SlotStep
<1> QED
  BY <1>8, <1>9 DEF ChatInv

(* A deletion is asked for.                                                *)
LEMMA DeleteKeeps ==
    ASSUME ChatInv, NEW p \in Posts, DeleteMessage(p)
    PROVE  ChatInv'
<1>1. ChatType /\ clock \in Nat
  BY DEF ChatInv, ChatType
<1>0. PICK old \in {log, {}} : \E gone :
         ChatTo(p, [NoChat EXCEPT !.pc = "delete", !.rows = Without(old, gone)])
  BY DEF DeleteMessage, Loaded
<1>2. PICK gone : ChatTo(p, [NoChat EXCEPT !.pc = "delete", !.rows = Without(old, gone)])
  BY <1>0
<1>3. /\ clock' \in {clock, clock + 1, clock + 2} /\ UNCHANGED <<log, rep, loop, outgrown>>
      /\ chatDisturbed' = (chatDisturbed \/ Overlapping(p)) /\ Idle(p)
  BY DEF DeleteMessage
<1> DEFINE rows == Without(old, gone)
           x == [NoChat EXCEPT !.pc = "delete", !.rows = rows]
<1>4. rows \in SUBSET ChatRow' /\ IsFiniteSet(rows) /\ rows \subseteq log
  <2>1. rows \subseteq log /\ log \in SUBSET ChatRow' /\ IsFiniteSet(log)
    BY <1>1, <1>2, <1>3, ChatGrows, ChatSlots DEF Without
  <2> QED
    BY <2>1, FS_Subset
<1> HIDE DEF rows
<1>5. x \in ChatSlot' /\ x.rows = rows /\ x.own = {} /\ x.pc = "delete"
  BY <1>4 DEF NoChat, ChatSlot, ChatPc
<1>6. ChatTo(p, x)
  BY <1>2 DEF rows
<1> HIDE DEF x
<1>7. /\ chat' \in [Posts -> ChatSlot'] /\ chat'[p] = x
      /\ \A q \in Posts : q # p => chat'[q] = chat[q]
      /\ \A q \in Posts : IsFiniteSet(chat'[q].rows) /\ IsFiniteSet(chat'[q].own)
  BY <1>1, <1>3, <1>4, <1>5, <1>6, ChatSlotTo, ChatSlots
<1>8. ChatType'
  BY <1>1, <1>3, <1>7, LogTyped, ChatTyped, ChatSlots
<1>9. ASSUME ~ chatDisturbed' PROVE QuietInv'
  <2>1. QuietInv /\ ~ Overlapping(p)
    BY <1>3, <1>9 DEF ChatInv
  <2>2. \A q \in Posts : q # p => Idle(q)
    BY <2>1, Alone
  <2>3. rep[p].rows = {} /\ rep[p].pc = "idle" /\ rep' = rep
    BY <1>3, <2>1, RestingRep DEF QuietInv
  <2> QED
    BY <1>1, <1>3, <1>4, <1>5, <1>7, <2>1, <2>2, <2>3, SlotStep
<1> QED
  BY <1>8, <1>9 DEF ChatInv

(* A reply is asked for. *)
LEMMA Asked ==
    ASSUME ChatType, clock' = clock, NEW s \in Slots, NEW re \in 0..clock, AskReply(s, re)
    PROVE  /\ rep' \in [Slots -> RepSlot'] /\ \A q \in Slots : IsFiniteSet(rep'[q].rows)
           /\ \A q \in Slots : q # s => rep'[q] = rep[q]
           /\ rep[s].pc = "idle"
           /\ rep'[s].pc = "load" /\ rep'[s].re = re /\ rep'[s].rows = {}
<1> DEFINE x == [NoReply EXCEPT !.pc = "load", !.re = re]
<1>1. x \in RepSlot' /\ x.pc = "load" /\ x.re = re /\ x.rows = {}
  BY DEF NoReply, RepSlot
<1>2. RepTo(s, x) /\ rep[s].pc = "idle"
  BY DEF AskReply
<1> HIDE DEF x
<1>3. clock' \in {clock, clock + 1, clock + 2}
  OBVIOUS
<1>4. IsFiniteSet(x.rows)
  BY <1>1, FS_EmptySet
<1> QED
  BY <1>1, <1>2, <1>3, <1>4, RepSlotTo

(* Somebody answers an answer.                                             *)
LEMMA ReplyToKeeps ==
    ASSUME ChatInv, NEW p \in Posts, ReplyTo(p)
    PROVE  ChatInv'
<1>1. ChatType /\ clock \in Nat /\ p \in Slots
  BY DEF ChatInv, ChatType, Slots
<1>2. /\ clock' = clock /\ UNCHANGED <<log, chat, loop, outgrown>>
      /\ chatDisturbed' = (chatDisturbed \/ Overlapping(p)) /\ Idle(p)
  BY DEF ReplyTo
<1>3. PICK r \in log : Inbound(r) /\ AskReply(p, r.id)
  BY DEF ReplyTo
<1>4. r.id \in 1..clock /\ r.id \in 0..clock /\ r.id # 0
  BY <1>1, <1>3, Numbers
<1>5. /\ rep' \in [Slots -> RepSlot'] /\ \A q \in Slots : IsFiniteSet(rep'[q].rows)
      /\ \A q \in Slots : q # p => rep'[q] = rep[q]
      /\ rep[p].pc = "idle"
      /\ rep'[p].pc = "load" /\ rep'[p].re = r.id /\ rep'[p].rows = {}
  BY <1>1, <1>2, <1>3, <1>4, Asked
<1>6. clock' \in {clock, clock + 1, clock + 2}
  BY <1>2
<1>7. ChatType'
  BY <1>1, <1>2, <1>5, <1>6, LogTyped, ChatTyped, ChatSlots
<1>8. ASSUME ~ chatDisturbed' PROVE QuietInv'
  <2>1. QuietInv /\ ~ Overlapping(p)
    BY <1>2, <1>8 DEF ChatInv
  <2>2. \A q \in Posts : q # p => Idle(q)
    BY <2>1, Alone
  <2>3. chat'[p] = chat[p] /\ chat[p].pc = "idle" /\ chat[p].own = {} /\ chat[p].rows = {}
    BY <1>2, <2>1 DEF QuietInv, Serial, Idle
  <2>4. \A C \in Copies : ~ IsMessage(C, r.id)
    BY <1>1, <1>3, <2>1, Numbers DEF QuietInv, KeptInv, AnswersInv
  <2> QED
    BY <1>1, <1>2, <1>4, <1>5, <1>6, <2>1, <2>2, <2>3, <2>4, SlotStep
<1> QED
  BY <1>7, <1>8 DEF ChatInv

(* Only while its answer is published a message has one under way.         *)
LEMMA AtWork ==
    ASSUME QuietInv, NEW p \in Posts, chat[p].pc \notin {"idle", "published"}
    PROVE  rep[p].rows = {} /\ rep[p].pc = "idle"
<1>1. p \in Slots
  BY DEF Slots
<1>2. /\ rep[p].pc # "idle" => chat[p].pc \in {"idle", "published"}
      /\ \A s \in Slots : rep[s].pc # "save" => rep[s].rows = {}
  BY DEF QuietInv, Serial
<1>3. rep[p].pc = "idle"
  BY <1>2
<1> QED
  BY <1>1, <1>2, <1>3

(* The worker or the architect answered, or did not.                       *)
LEMMA DispatchedKeeps ==
    ASSUME ChatInv, NEW p \in Posts, Dispatched(p)
    PROVE  ChatInv'
<1>1. ChatType /\ clock \in Nat /\ chat[p] \in ChatSlot
  BY DEF ChatInv, ChatType
<1>2. /\ chat[p].pc = "dispatch" /\ UNCHANGED <<log, rep, loop, outgrown, chatDisturbed>>
  BY DEF Dispatched
<1> DEFINE what == chat[p].what
           one == {Row(clock + 1, 0, what)}
           two == {Row(clock + 1, 0, what), Row(clock + 2, clock + 1, Answer)}
           too == {Row(clock + 2, 0, what), Row(clock + 1, clock + 2, Answer)}
           To(pc, own) == ChatTo(p, [chat[p] EXCEPT !.pc = pc, !.own = own])
<1>3. \/ clock' = clock + 1 /\ To("save", one)
      \/ clock' = clock + 2 /\ To("publish", two)
      \/ clock' = clock + 2 /\ To("publish", too)
  BY DEF Dispatched
<1>4. what \in Messages \cup {None}
  BY <1>1 DEF ChatSlot
<1>5. /\ clock' = clock + 1 => one \in SUBSET ChatRow'
      /\ clock' = clock + 2 => two \in SUBSET ChatRow' /\ too \in SUBSET ChatRow'
  BY <1>1, <1>4 DEF Row, ChatRow
<1>6. NewOwn(one) /\ NewOwn(two) /\ NewOwn(too)
  BY <1>1 DEF NewOwn, Row, Inbound, IsMessage
<1>7. IsFiniteSet(one) /\ IsFiniteSet(two) /\ IsFiniteSet(too)
  <2>1. ASSUME NEW a, NEW b PROVE IsFiniteSet({a}) /\ IsFiniteSet({a, b})
    <3>1. IsFiniteSet({a}) /\ IsFiniteSet({a} \cup {b})
      BY FS_Singleton, FS_AddElement
    <3>2. {a} \cup {b} = {a, b}
      OBVIOUS
    <3> QED
      BY <3>1, <3>2
  <2> QED
    BY <2>1
<1> HIDE DEF one, two, too
<1>8. PICK pc \in {"save", "publish"}, own \in SUBSET ChatRow' :
         To(pc, own) /\ NewOwn(own) /\ IsFiniteSet(own)
  <2>1. CASE clock' = clock + 1 /\ To("save", one)
    BY <1>5, <1>6, <1>7, <2>1
  <2>2. CASE clock' = clock + 2 /\ To("publish", two)
    BY <1>5, <1>6, <1>7, <2>2
  <2>3. CASE clock' = clock + 2 /\ To("publish", too)
    BY <1>5, <1>6, <1>7, <2>3
  <2> QED
    BY <1>3, <2>1, <2>2, <2>3
<1>9. clock' \in {clock, clock + 1, clock + 2}
  BY <1>3
<1> DEFINE x == [chat[p] EXCEPT !.pc = pc, !.own = own]
<1>10. x \in ChatSlot' /\ x.rows = chat[p].rows /\ x.own = own /\ x.pc = pc
  <2>1. chat[p] \in ChatSlot'
    BY <1>1, <1>9, ChatSlots
  <2> QED
    BY <1>8, <2>1 DEF ChatSlot, ChatPc
<1>11. ChatTo(p, x) /\ IsFiniteSet(chat[p].rows)
  BY <1>1, <1>8, <1>9, ChatSlots
<1> HIDE DEF x
<1>12. /\ chat' \in [Posts -> ChatSlot'] /\ chat'[p] = x
       /\ \A q \in Posts : q # p => chat'[q] = chat[q]
       /\ \A q \in Posts : IsFiniteSet(chat'[q].rows) /\ IsFiniteSet(chat'[q].own)
  BY <1>1, <1>8, <1>9, <1>10, <1>11, ChatSlotTo
<1>13. ChatType'
  BY <1>1, <1>2, <1>9, <1>12, LogTyped, ChatTyped, ChatSlots
<1>14. ASSUME ~ chatDisturbed' PROVE QuietInv'
  <2>1. QuietInv /\ ~ Idle(p)
    BY <1>2, <1>14 DEF ChatInv, Idle
  <2>2. \A q \in Posts : q # p => Idle(q)
    BY <2>1, Alone
  <2>3. rep[p].rows = {} /\ rep[p].pc = "idle" /\ rep' = rep
    BY <1>2, <2>1, AtWork
  <2> QED
    BY <1>1, <1>2, <1>8, <1>9, <1>10, <1>12, <2>1, <2>2, <2>3, SlotStep
<1> QED
  BY <1>13, <1>14 DEF ChatInv

(* The answer is published through the reply route.                        *)
LEMMA PublishKeeps ==
    ASSUME ChatInv, NEW p \in Posts, PublishReply(p)
    PROVE  ChatInv'
<1>1. ChatType /\ clock \in Nat /\ chat[p] \in ChatSlot /\ p \in Slots
  BY DEF ChatInv, ChatType, Slots
<1>2. /\ chat[p].pc = "publish" /\ UNCHANGED <<log, loop, clock, outgrown, chatDisturbed>>
      /\ ChatTo(p, [chat[p] EXCEPT !.pc = "published"])
  BY DEF PublishReply
<1>3. clock' = clock /\ clock' \in {clock, clock + 1, clock + 2}
  BY <1>2
<1>4. PICK r \in chat[p].own : Inbound(r) /\ AskReply(p, r.re)
  BY DEF PublishReply
<1>5. r.re \in 0..clock /\ r.re # 0
  <2>1. r \in ChatRow
    BY <1>1 DEF ChatSlot
  <2> QED
    BY <1>1, <1>4, <2>1, Numbers DEF Inbound
<1>6. /\ rep' \in [Slots -> RepSlot'] /\ \A q \in Slots : IsFiniteSet(rep'[q].rows)
      /\ \A q \in Slots : q # p => rep'[q] = rep[q]
      /\ rep[p].pc = "idle"
      /\ rep'[p].pc = "load" /\ rep'[p].re = r.re /\ rep'[p].rows = {}
  BY <1>1, <1>3, <1>4, <1>5, Asked
<1> DEFINE x == [chat[p] EXCEPT !.pc = "published"]
<1>7. x \in ChatSlot' /\ x.rows = chat[p].rows /\ x.own = chat[p].own /\ x.pc = "published"
  <2>1. chat[p] \in ChatSlot'
    BY <1>1, <1>3, ChatSlots
  <2> QED
    BY <2>1 DEF ChatSlot, ChatPc
<1>8. ChatTo(p, x) /\ IsFiniteSet(chat[p].rows) /\ IsFiniteSet(chat[p].own)
  BY <1>1, <1>2, <1>3, ChatSlots
<1> HIDE DEF x
<1>9. /\ chat' \in [Posts -> ChatSlot'] /\ chat'[p] = x
      /\ \A q \in Posts : q # p => chat'[q] = chat[q]
      /\ \A q \in Posts : IsFiniteSet(chat'[q].rows) /\ IsFiniteSet(chat'[q].own)
  BY <1>1, <1>3, <1>7, <1>8, ChatSlotTo
<1>10. ChatType'
  BY <1>1, <1>2, <1>3, <1>6, <1>9, LogTyped, ChatTyped
<1>11. ASSUME ~ chatDisturbed' PROVE QuietInv'
  <2>1. QuietInv /\ ~ Idle(p)
    BY <1>2, <1>11 DEF ChatInv, Idle
  <2>2. \A q \in Posts : q # p => Idle(q)
    BY <2>1, Alone
  <2>3. \A C \in Copies : ~ IsMessage(C, r.re)
    <3>1. PICK m \in chat[p].own : m.id = r.re
      BY <1>4, <2>1 DEF QuietInv, KeptInv, OwnInv, IsMessage
    <3> QED
      BY <2>1, <3>1 DEF QuietInv, KeptInv, OwnInv, IsMessage
  <2> QED
    BY <1>1, <1>2, <1>3, <1>5, <1>6, <1>7, <1>9, <2>1, <2>2, <2>3, SlotStep
<1> QED
  BY <1>10, <1>11 DEF ChatInv

(* It is published, or its connection broke.                               *)
LEMMA PublishedKeeps ==
    ASSUME ChatInv, NEW p \in Posts, Published(p)
    PROVE  ChatInv'
<1>1. ChatType /\ clock \in Nat /\ chat[p] \in ChatSlot /\ p \in Slots
  BY DEF ChatInv, ChatType, Slots
<1>2. /\ chat[p].pc = "published" /\ UNCHANGED <<log, rep, loop, clock, outgrown>>
      /\ ChatTo(p, [chat[p] EXCEPT !.pc = "save"])
      /\ ~ chatDisturbed' => rep[p].pc = "idle" /\ ~ chatDisturbed
  BY DEF Published
<1>3. clock' \in {clock, clock + 1, clock + 2}
  BY <1>2
<1> DEFINE x == [chat[p] EXCEPT !.pc = "save"]
<1>4. x \in ChatSlot' /\ x.rows = chat[p].rows /\ x.own = chat[p].own /\ x.pc = "save"
  <2>1. chat[p] \in ChatSlot'
    BY <1>1, <1>3, ChatSlots
  <2> QED
    BY <2>1 DEF ChatSlot, ChatPc
<1>5. ChatTo(p, x) /\ IsFiniteSet(chat[p].rows) /\ IsFiniteSet(chat[p].own)
  BY <1>1, <1>2, <1>3, ChatSlots
<1> HIDE DEF x
<1>6. /\ chat' \in [Posts -> ChatSlot'] /\ chat'[p] = x
      /\ \A q \in Posts : q # p => chat'[q] = chat[q]
      /\ \A q \in Posts : IsFiniteSet(chat'[q].rows) /\ IsFiniteSet(chat'[q].own)
  BY <1>1, <1>3, <1>4, <1>5, ChatSlotTo
<1>7. ChatType'
  BY <1>1, <1>2, <1>3, <1>6, LogTyped, ChatTyped, ChatSlots
<1>8. ASSUME ~ chatDisturbed' PROVE QuietInv'
  <2>1. QuietInv /\ ~ Idle(p) /\ rep[p].pc = "idle"
    BY <1>2, <1>8 DEF ChatInv, Idle
  <2>2. \A q \in Posts : q # p => Idle(q)
    BY <2>1, Alone
  <2>3. rep' = rep /\ rep'[p].rows = {}
    <3>1. \A s \in Slots : rep[s].pc # "save" => rep[s].rows = {}
      BY <2>1 DEF QuietInv, Serial
    <3> QED
      BY <1>1, <1>2, <2>1, <3>1
  <2> QED
    BY <1>1, <1>2, <1>3, <1>4, <1>6, <2>1, <2>2, <2>3, SlotStep
<1> QED
  BY <1>7, <1>8 DEF ChatInv

(* Steps that store rows.                                                  *)
LEMMA StoreKind ==
    ASSUME NEW kind, KindInv(kind), NEW rows, KeepsAnswers(kind, log', rows),
           Once(kind, rows), Within(kind, rows, rep'[Loop].rows),
           \A x \in Pending' : Open(kind, rows, x), Pending' \subseteq Pending,
           \A p \in Posts : /\ chat'[p].rows \in {chat[p].rows, {}}
                            /\ Within(kind, chat'[p].rows, rows)
                            /\ Within(kind, rep'[p].rows, rows),
           \A s \in Slots : rep'[s].rows \in {rep[s].rows, {}}
    PROVE  KindInv(kind)'
<1>1. Loop \in Slots /\ \A p \in Posts : p \in Slots
  BY DEF Slots
<1>2. /\ Once(kind, log') /\ Within(kind, log', rep'[Loop].rows)
      /\ \A x \in Pending' : Open(kind, log', x)
      /\ \A p \in Posts : Within(kind, chat'[p].rows, log') /\ Within(kind, rep'[p].rows, log')
  BY CutFacts
<1>3. \A C \in Copies' : Once(kind, C) /\ \A x \in Pending' : Open(kind, C, x)
  <2> SUFFICES ASSUME NEW C \in Copies'
               PROVE  Once(kind, C) /\ \A x \in Pending' : Open(kind, C, x)
    OBVIOUS
  <2>1. CASE C = log'
    BY <1>2, <2>1
  <2>2. CASE C = {}
    BY <2>2, NothingFacts
  <2>3. CASE C \in Copies
    BY <2>3 DEF KindInv
  <2>4. \/ C = log' \/ \E p \in Posts : C = chat'[p].rows
        \/ \E s \in Slots : C = rep'[s].rows
    BY DEF Copies
  <2>5. C = log' \/ C = {} \/ C \in Copies
    <3>1. \A p \in Posts : chat[p].rows \in Copies
      BY DEF Copies
    <3>2. \A s \in Slots : rep[s].rows \in Copies
      BY DEF Copies
    <3> QED
      BY <2>4, <3>1, <3>2
  <2> QED
    BY <2>1, <2>2, <2>3, <2>5
<1>4. ASSUME NEW p \in Posts
      PROVE  /\ Within(kind, chat'[p].rows, rep'[p].rows)
             /\ Within(kind, chat'[p].rows, rep'[Loop].rows)
             /\ Within(kind, rep'[p].rows, rep'[Loop].rows)
  <2>1. /\ chat'[p].rows \in {chat[p].rows, {}} /\ rep'[p].rows \in {rep[p].rows, {}}
        /\ rep'[Loop].rows \in {rep[Loop].rows, {}}
    BY <1>1
  <2>2. /\ Within(kind, chat[p].rows, rep[p].rows)
        /\ Within(kind, chat[p].rows, rep[Loop].rows)
        /\ Within(kind, rep[p].rows, rep[Loop].rows)
    BY DEF KindInv
  <2>3. \A C : Within(kind, {}, C) /\ Within(kind, C, {})
    BY NothingFacts
  <2> QED
    BY <2>1, <2>2, <2>3
<1> QED
  BY <1>2, <1>3, <1>4
     DEF KindInv, Once, Open, Within, IsMessage, HasAnswer, Answers, Inbound

(* What is stored takes nobody's id.                                       *)
LEMMA StoreOwn ==
    ASSUME ChatType, KeptInv, NEW rows, log' \subseteq rows, Pending' \subseteq Pending,
           \A p \in Posts : chat'[p].rows \in {chat[p].rows, {}},
           \A s \in Slots : rep'[s].rows \in {rep[s].rows, {}},
           \A p \in Posts : rep'[p].pc # "idle" =>
              /\ rep[p].pc # "idle" /\ rep'[p].re = rep[p].re
              /\ ~ IsMessage(rows, rep[p].re),
           \A p \in Posts : \/ chat'[p].own = {}
                            \/ /\ UNCHANGED <<chat[p].own, chat[p].rows>>
                               /\ \A r \in chat[p].own, x \in rows : x.id # r.id,
           \A r \in rows : Inbound(r) => /\ ~ IsMessage(rows, r.id)
                                         /\ \A C \in Copies : ~ IsMessage(C, r.id),
           \A C \in Copies : \A r \in C : Inbound(r) => ~ IsMessage(rows, r.id)
    PROVE  OwnInv' /\ AnswersInv'
<1>1. \A C \in Copies' : C \subseteq rows \/ C \in Copies
  <2> SUFFICES ASSUME NEW C \in Copies' PROVE C \subseteq rows \/ C \in Copies
    OBVIOUS
  <2>1. \/ C = log' \/ \E p \in Posts : C = chat'[p].rows
        \/ \E s \in Slots : C = rep'[s].rows
    BY DEF Copies
  <2>2. \A p \in Posts : chat[p].rows \in Copies
    BY DEF Copies
  <2>3. \A s \in Slots : rep[s].rows \in Copies
    BY DEF Copies
  <2> QED
    BY <2>1, <2>2, <2>3
<1>2. \A C, D : \A m : D \subseteq C /\ IsMessage(D, m) => IsMessage(C, m)
  BY DEF IsMessage
<1>3. ASSUME NEW C \in Copies', NEW D \in Copies', NEW r \in C, Inbound(r)
      PROVE  ~ IsMessage(D, r.id)
  BY <1>1, <1>2, <1>3 DEF KeptInv, AnswersInv
<1>4. ASSUME NEW p \in Posts, rep'[p].pc # "idle", NEW C \in Copies'
      PROVE  ~ IsMessage(C, rep'[p].re)
  BY <1>1, <1>2, <1>4 DEF KeptInv, AnswersInv
<1>5. AnswersInv'
  BY <1>3, <1>4 DEF AnswersInv, IsMessage, Inbound
<1>6. ASSUME NEW p \in Posts
      PROVE  /\ \A a, b \in chat'[p].own :
                   a.id = b.id \/ (Inbound(a) /\ Inbound(b)) => a = b
             /\ \A r \in chat'[p].own :
                   /\ r.id \notin Pending'
                   /\ \A C \in Copies' : \A x \in C : x.id # r.id
                   /\ Inbound(r) => IsMessage(chat'[p].own, r.re)
                   /\ ~ Inbound(r) => \A x \in chat'[p].rows : x.re # r.id
  BY <1>1 DEF KeptInv, OwnInv
<1> QED
  BY <1>5, <1>6 DEF OwnInv, IsMessage, Inbound

(* The rows that are stored with a message of the user's.                  *)
LEMMA OwnRows ==
    ASSUME NEW kind, KindInv(kind), OwnInv, ChatType, NEW p \in Posts,
           NEW rows, rows \subseteq chat[p].own \cup chat[p].rows
    PROVE  /\ Once(kind, rows) /\ Within(kind, rows, rep[Loop].rows)
           /\ \A x \in Pending : Open(kind, rows, x)
<1> DEFINE own == chat[p].own
           old == chat[p].rows
           all == own \cup old
<1>1. /\ \A a, b \in own : a.id = b.id \/ (Inbound(a) /\ Inbound(b)) => a = b
      /\ \A r \in own : /\ r.id \notin Pending
                        /\ \A x \in old : x.id # r.id
                        /\ \A x \in rep[Loop].rows : x.id # r.id
                        /\ Inbound(r) => IsMessage(own, r.re)
                        /\ ~ Inbound(r) => \A x \in old : x.re # r.id
  <2>1. old \in Copies /\ rep[Loop].rows \in Copies
    BY DEF Copies, Slots
  <2> QED
    BY <2>1 DEF OwnInv
<1>2. /\ Once(kind, old) /\ Within(kind, old, rep[Loop].rows)
      /\ \A x \in Pending : Open(kind, old, x)
  <2>1. old \in Copies
    BY DEF Copies
  <2> QED
    BY <2>1 DEF KindInv
<1>3. \A m \in all : m.id # 0
  <2>1. own \in SUBSET ChatRow /\ old \in SUBSET ChatRow
    BY Numbers
  <2> QED
    BY <2>1, Numbers
<1> HIDE DEF own, old
<1>4. ASSUME NEW m \in all, ~ Inbound(m), NEW a \in all, Answers(kind, a, m.id)
      PROVE  \/ m \in own /\ a \in own /\ Inbound(a)
             \/ m \in old /\ a \in old
  <2>1. Inbound(a) /\ a.re = m.id
    BY <1>3, <1>4 DEF Answers, Inbound
  <2>2. CASE m \in own
    <3>1. \A x \in old : x.re # m.id
      BY <1>1, <1>4, <2>2
    <3> QED
      BY <1>4, <2>1, <2>2, <3>1
  <2>3. CASE m \in old
    BY <1>1, <1>4, <2>1, <2>3 DEF IsMessage
  <2> QED
    BY <2>2, <2>3
<1>5. Once(kind, all)
  <2> SUFFICES ASSUME NEW m \in all, NEW a \in all, NEW b \in all, ~ Inbound(m),
                      Answers(kind, a, m.id), Answers(kind, b, m.id)
               PROVE  a = b
    BY DEF Once
  <2>1. CASE m \in own
    <3>1. m \notin old
      BY <1>1, <2>1
    <3> QED
      BY <1>1, <1>4, <3>1
  <2>2. CASE m \in old
    <3>1. m \notin own
      BY <1>1, <2>2
    <3> QED
      BY <1>2, <1>4, <3>1 DEF Once
  <2> QED
    BY <2>1, <2>2
<1>6. Within(kind, all, rep[Loop].rows)
  <2> SUFFICES ASSUME NEW m \in all, ~ Inbound(m), IsMessage(rep[Loop].rows, m.id),
                      NEW a \in all, Answers(kind, a, m.id)
               PROVE  HasAnswer(kind, rep[Loop].rows, m.id)
    BY DEF Within, HasAnswer
  <2>1. m \notin own
    BY <1>1 DEF IsMessage
  <2>2. m \in old /\ a \in old
    BY <1>4, <2>1
  <2> QED
    BY <1>2, <2>2 DEF Within, HasAnswer
<1>7. ASSUME NEW x \in Pending PROVE Open(kind, all, x)
  <2> SUFFICES ASSUME NEW m \in all, m.id = x, ~ Inbound(m), NEW a \in all,
                      Answers(kind, a, x)
               PROVE  FALSE
    BY DEF Open, IsMessage, HasAnswer
  <2>1. m \notin own
    BY <1>1
  <2>2. m \in old /\ a \in old
    BY <1>4, <2>1
  <2> QED
    BY <1>2, <2>2 DEF Open, IsMessage, HasAnswer
<1> QED
  BY <1>5, <1>6, <1>7, PartFacts DEF own, old

(* An answer stored with its message has no message's id.                  *)
LEMMA OwnAnswers ==
    ASSUME OwnInv, AnswersInv, NEW p \in Posts,
           NEW rows, rows \subseteq chat[p].own \cup chat[p].rows
    PROVE  /\ \A r \in rows : Inbound(r) => /\ ~ IsMessage(rows, r.id)
                                            /\ \A C \in Copies : ~ IsMessage(C, r.id)
           /\ \A C \in Copies : \A r \in C : Inbound(r) => ~ IsMessage(rows, r.id)
<1> DEFINE own == chat[p].own
           old == chat[p].rows
<1>1. /\ \A a, b \in own : a.id = b.id => a = b
      /\ \A r \in own : \A C \in Copies : \A x \in C : x.id # r.id
      /\ old \in Copies /\ rows \subseteq own \cup old
  BY DEF OwnInv, Copies
<1>2. \A C, D \in Copies : \A r \in C : Inbound(r) => ~ IsMessage(D, r.id)
  BY DEF AnswersInv
<1> HIDE DEF own, old
<1>3. ASSUME NEW r \in rows, Inbound(r), NEW C \in Copies PROVE ~ IsMessage(C, r.id)
  BY <1>1, <1>2, <1>3 DEF IsMessage
<1>4. ASSUME NEW C \in Copies, NEW r \in C, Inbound(r), NEW m \in rows, m.id = r.id
      PROVE  Inbound(m)
  BY <1>1, <1>2, <1>4 DEF IsMessage
<1>5. ASSUME NEW r \in own, Inbound(r), NEW m \in rows, m.id = r.id
      PROVE  Inbound(m)
  BY <1>1, <1>5
<1> QED
  BY <1>1, <1>3, <1>4, <1>5 DEF IsMessage

(* A message with its answer, or what a deletion leaves, is stored.        *)
LEMMA FinishKeeps ==
    ASSUME ChatInv, NEW p \in Posts, chat[p].pc \in {"save", "delete"},
           NEW rows, rows \in {KeptRows(p), chat[p].rows}, SaveLog(rows),
           ChatTo(p, NoChat), UNCHANGED <<rep, loop, clock, chatDisturbed>>
    PROVE  ChatInv'
<1>1. ChatType /\ clock \in Nat /\ clock' \in {clock, clock + 1, clock + 2}
  BY DEF ChatInv, ChatType
<1>2. rows \in SUBSET ChatRow' /\ IsFiniteSet(rows) /\ rows \subseteq chat[p].own \cup chat[p].rows
  <2>1. chat[p] \in ChatSlot' /\ IsFiniteSet(chat[p].rows) /\ IsFiniteSet(chat[p].own)
    BY <1>1, ChatSlots
  <2>2. chat[p].rows \in SUBSET ChatRow' /\ chat[p].own \in SUBSET ChatRow'
    BY <2>1 DEF ChatSlot
  <2> QED
    BY <2>1, <2>2, FS_Union DEF KeptRows
<1>3. /\ log' \in SUBSET ChatRow' /\ IsFiniteSet(log')
      /\ ~ outgrown' => Cardinality(log') <= ViewRows /\ ~ outgrown
      /\ \E all \in {log, rows} :
            /\ KeepsAnswers("late", log', all)
            /\ ~ outgrown' => KeepsAnswers("all", log', all)
  BY <1>1, <1>2, SaveLogIs
<1>4. NoChat \in ChatSlot' /\ NoChat.pc = "idle" /\ NoChat.own = {} /\ NoChat.rows = {}
  BY <1>1, NoSlots
<1>5. /\ chat' \in [Posts -> ChatSlot'] /\ chat'[p] = NoChat
      /\ \A q \in Posts : q # p => chat'[q] = chat[q]
      /\ \A q \in Posts : IsFiniteSet(chat'[q].rows) /\ IsFiniteSet(chat'[q].own)
  BY <1>1, <1>4, ChatSlotTo, FS_EmptySet
<1>6. ChatType'
  <2>1. /\ rep' \in [Slots -> RepSlot'] /\ \A s \in Slots : IsFiniteSet(rep'[s].rows)
        /\ loop' \in LoopType'
    BY <1>1, ChatSlots, ChatGrows DEF LoopType
  <2> QED
    BY <1>1, <1>3, <1>5, <2>1, ChatTyped
<1>7. ASSUME ~ chatDisturbed' PROVE QuietInv'
  <2>1. QuietInv /\ ~ Idle(p)
    BY <1>7 DEF ChatInv, Idle
  <2>2. \A q \in Posts : q # p => Idle(q)
    BY <2>1, Alone
  <2>3. rep' = rep /\ loop' = loop /\ Pending' = Pending
    BY DEF Pending
  <2>4. \A q \in Posts : rep[q].rows = {} /\ rep[q].pc = "idle"
    <3>1. rep[p].rows = {} /\ rep[p].pc = "idle"
      BY <2>1, AtWork
    <3> QED
      BY <2>1, <2>2, <3>1, RestingRep DEF QuietInv
  <2>5. \A q \in Posts : chat'[q].rows = {} /\ chat'[q].own = {} /\ chat'[q].pc = "idle"
    BY <1>4, <1>5, <2>1, <2>2 DEF QuietInv, Serial, Idle
  <2>6. Serial'
    BY <2>1, <2>3, <2>4, <2>5 DEF QuietInv, Serial, Idle
  <2>7. PICK all \in {log, rows} : /\ KeepsAnswers("late", log', all)
                                   /\ ~ outgrown' => KeepsAnswers("all", log', all)
    BY <1>3
  <2>8. /\ \A r \in all : Inbound(r) => /\ ~ IsMessage(all, r.id)
                                        /\ \A C \in Copies : ~ IsMessage(C, r.id)
        /\ \A C \in Copies : \A r \in C : Inbound(r) => ~ IsMessage(all, r.id)
    <3>1. log \in Copies /\ OwnInv /\ AnswersInv
      BY <2>1 DEF Copies, QuietInv, KeptInv
    <3>2. CASE all = log
      BY <3>1, <3>2 DEF AnswersInv
    <3>3. CASE all = rows
      BY <1>2, <3>1, <3>3, OwnAnswers
    <3> QED
      BY <3>2, <3>3
  <2>9. OwnInv' /\ AnswersInv'
    <3>1. log' \subseteq all
      BY <2>7 DEF KeepsAnswers
    <3> QED
      BY <1>1, <2>1, <2>3, <2>4, <2>5, <2>8, <3>1, StoreOwn DEF QuietInv
  <2>10. ASSUME NEW kind, KindInv(kind), KeepsAnswers(kind, log', all)
         PROVE  KindInv(kind)'
    <3>1. /\ Once(kind, all) /\ Within(kind, all, rep[Loop].rows)
          /\ \A x \in Pending : Open(kind, all, x)
      <4>1. CASE all = log
        BY <2>10, <4>1 DEF KindInv, Copies
      <4>2. CASE all = rows
        BY <1>1, <1>2, <2>1, <2>10, <4>2, OwnRows DEF QuietInv, KeptInv
      <4> QED
        BY <4>1, <4>2
    <3>2. \A q \in Posts : /\ Within(kind, chat'[q].rows, all)
                           /\ Within(kind, rep'[q].rows, all)
      BY <2>3, <2>4, <2>5, NothingFacts
    <3> QED
      BY <2>3, <2>5, <2>10, <3>1, <3>2, StoreKind
  <2> QED
    BY <1>3, <2>1, <2>6, <2>7, <2>9, <2>10 DEF QuietInv, KeptInv
<1> QED
  BY <1>6, <1>7 DEF ChatInv

(* Both of them.                                                           *)
LEMMA SaveChatKeeps ==
    ASSUME ChatInv, NEW p \in Posts, SaveChat(p) \/ SaveDeletion(p)
    PROVE  ChatInv'
<1>1. CASE SaveChat(p)
  BY <1>1, FinishKeeps DEF SaveChat
<1>2. CASE SaveDeletion(p)
  BY <1>2, FinishKeeps DEF SaveDeletion
<1> QED
  BY <1>1, <1>2

(* The log is loaded for an answer. *)
LEMMA LoadKeeps ==
    ASSUME ChatInv, NEW s \in Slots, LoadForReply(s)
    PROVE  ChatInv'
<1>1. ChatType /\ clock \in Nat /\ rep[s] \in RepSlot
  BY DEF ChatInv, ChatType
<1>2. /\ rep[s].pc = "load" /\ clock' \in {clock, clock + 1, clock + 2}
      /\ UNCHANGED <<log, chat, loop, outgrown, clock, chatDisturbed>>
  BY DEF LoadForReply
<1>3. PICK rows \in {log, {}} : RepTo(s, [rep[s] EXCEPT !.pc = "save", !.rows = rows])
  BY DEF LoadForReply, ReadLog
<1> DEFINE x == [rep[s] EXCEPT !.pc = "save", !.rows = rows]
<1>4. rows \in SUBSET ChatRow' /\ IsFiniteSet(rows) /\ rows \subseteq log
  BY <1>1, <1>2, <1>3, ChatGrows, ChatSlots
<1>5. x \in RepSlot' /\ x.pc = "save" /\ x.re = rep[s].re /\ x.rows = rows
  <2>1. rep[s] \in RepSlot'
    BY <1>1, <1>2, ChatSlots
  <2> QED
    BY <1>4, <2>1 DEF RepSlot
<1>6. RepTo(s, x) /\ IsFiniteSet(x.rows)
  BY <1>3, <1>4, <1>5
<1> HIDE DEF x
<1>7. /\ rep' \in [Slots -> RepSlot'] /\ rep'[s] = x
      /\ \A q \in Slots : q # s => rep'[q] = rep[q]
      /\ \A q \in Slots : IsFiniteSet(rep'[q].rows)
  BY <1>1, <1>2, <1>5, <1>6, RepSlotTo
<1>8. ChatType'
  BY <1>1, <1>2, <1>7, LogTyped, ChatTyped, ChatSlots
<1>9. ASSUME ~ chatDisturbed' PROVE QuietInv'
  <2>1. QuietInv
    BY <1>2, <1>9 DEF ChatInv
  <2>2. Loop \notin Posts /\ Loop \in Slots /\ \A q \in Posts : q \in Slots
    BY ChatAssumption DEF Slots
  <2>3. Pending' = Pending
    BY <1>2, <1>5, <1>7, <2>2 DEF Pending
  <2>4. \A C \in Copies' : C \in Copies \/ C = {}
    <3>1. /\ log \in Copies /\ \A q \in Posts : chat[q].rows \in Copies
          /\ \A q \in Slots : rep[q].rows \in Copies
      BY DEF Copies
    <3>2. \A q \in Slots : rep'[q].rows \in Copies \/ rep'[q].rows = {}
      BY <1>3, <1>5, <1>7, <3>1
    <3> QED
      BY <1>2, <3>1, <3>2 DEF Copies
  <2>5. AnswersInv'
    BY <1>2, <1>5, <1>7, <2>1, <2>2, <2>4 DEF QuietInv, KeptInv, AnswersInv, IsMessage, Inbound
  <2>6. OwnInv'
    BY <1>2, <2>1, <2>3, <2>4 DEF QuietInv, KeptInv, OwnInv, IsMessage, Inbound
  <2>7. Serial'
    BY <1>2, <1>5, <1>7, <2>1, <2>2 DEF QuietInv, Serial, Idle
  <2>8. ASSUME NEW kind, KindInv(kind) PROVE KindInv(kind)'
    <3>1. \A C \in Copies' : Once(kind, C) /\ \A y \in Pending' : Open(kind, C, y)
      BY <2>3, <2>4, <2>8, NothingFacts DEF KindInv
    <3>2. \A q \in Slots : q # s => rep'[q].rows = rep[q].rows
      BY <1>7
    <3>3. rep'[s].rows = log \/ rep'[s].rows = {}
      BY <1>3, <1>5, <1>7
    <3>4. Within(kind, log, log)
      BY PartFacts
    <3>5. \A C : Within(kind, {}, C) /\ Within(kind, C, {})
      BY NothingFacts
    <3>6. Within(kind, log, rep'[Loop].rows)
      BY <2>2, <2>8, <3>2, <3>3, <3>4, <3>5 DEF KindInv
    <3>7. ASSUME NEW q \in Posts
          PROVE  /\ Within(kind, chat[q].rows, log) /\ Within(kind, rep'[q].rows, log)
                 /\ Within(kind, chat[q].rows, rep'[q].rows)
                 /\ Within(kind, chat[q].rows, rep'[Loop].rows)
                 /\ Within(kind, rep'[q].rows, rep'[Loop].rows)
      <4>1. /\ Within(kind, chat[q].rows, log) /\ Within(kind, rep[q].rows, log)
            /\ Within(kind, chat[q].rows, rep[q].rows)
            /\ Within(kind, chat[q].rows, rep[Loop].rows)
            /\ Within(kind, rep[q].rows, rep[Loop].rows)
            /\ Within(kind, log, rep[Loop].rows)
        BY <2>8 DEF KindInv
      <4>2. CASE s = q
        BY <2>2, <3>2, <3>3, <3>4, <3>5, <4>1, <4>2
      <4>3. CASE s # q
        <5>1. rep'[q].rows = rep[q].rows
          BY <2>2, <3>2, <4>3
        <5>2. rep'[Loop].rows \in {rep[Loop].rows, log, {}}
          BY <2>2, <3>2, <3>3
        <5> QED
          BY <3>5, <4>1, <5>1, <5>2
      <4> QED
        BY <4>2, <4>3
    <3> QED
      BY <1>2, <3>1, <3>6, <3>7
         DEF KindInv, Once, Open, Within, IsMessage, HasAnswer, Answers, Inbound
  <2> QED
    BY <1>2, <2>1, <2>5, <2>6, <2>7, <2>8 DEF QuietInv, KeptInv
<1> QED
  BY <1>8, <1>9 DEF ChatInv

(* A copy with an answer added.                                            *)
LEMMA AnswerAdded ==
    ASSUME NEW kind, NEW old, NEW a, Inbound(a)
    PROVE  LET rows == {a} \cup old
           IN  /\ \A m : IsMessage(rows, m) <=> IsMessage(old, m)
               /\ \A C : Within(kind, C, old) => Within(kind, C, rows)
               /\ Once(kind, old) /\ Open(kind, old, a.re) => Once(kind, rows)
               /\ ~ IsMessage(old, a.re) =>
                     \A x : Open(kind, old, x) => Open(kind, rows, x)
               /\ \A C : Within(kind, old, C) /\ ~ IsMessage(C, a.re) => Within(kind, rows, C)
<1> DEFINE rows == {a} \cup old
<1>1. \A m : IsMessage(rows, m) <=> IsMessage(old, m)
  BY DEF IsMessage
<1>2. \A m : HasAnswer(kind, rows, m) => HasAnswer(kind, old, m) \/ m = a.re
  BY DEF HasAnswer, Answers
<1>3. \A m : HasAnswer(kind, old, m) => HasAnswer(kind, rows, m)
  BY DEF HasAnswer
<1>4. \A m \in rows : Inbound(m) \/ m \in old
  OBVIOUS
<1>5. \A C : Within(kind, C, old) => Within(kind, C, rows)
  <2> HIDE DEF rows
  <2> QED
    BY <1>1, <1>3 DEF Within
<1>6. \A C : Within(kind, old, C) /\ ~ IsMessage(C, a.re) => Within(kind, rows, C)
  <2> HIDE DEF rows
  <2> QED
    BY <1>2, <1>4 DEF Within
<1>7. ~ IsMessage(old, a.re) => \A x : Open(kind, old, x) => Open(kind, rows, x)
  <2> HIDE DEF rows
  <2> QED
    BY <1>1, <1>2 DEF Open
<1>8. ASSUME Once(kind, old), Open(kind, old, a.re)
      PROVE  Once(kind, rows)
  <2> SUFFICES ASSUME NEW m \in rows, NEW b \in rows, NEW c \in rows, ~ Inbound(m),
                      Answers(kind, b, m.id), Answers(kind, c, m.id)
               PROVE  b = c
    BY DEF Once
  <2>1. m \in old
    BY <1>4
  <2>2. m.id = a.re => ~ HasAnswer(kind, old, m.id)
    BY <1>8, <2>1 DEF Open, IsMessage
  <2>3. CASE m.id = a.re
    BY <2>2, <2>3 DEF HasAnswer
  <2>4. CASE m.id # a.re
    <3>1. b \in old /\ c \in old
      BY <2>4 DEF Answers
    <3> QED
      BY <1>8, <2>1, <3>1 DEF Once
  <2> QED
    BY <2>3, <2>4
<1> QED
  BY <1>1, <1>5, <1>6, <1>7, <1>8

(* An answer is stored.                                                    *)
LEMMA SaveReplyKeeps ==
    ASSUME ChatInv, NEW s \in Slots, SaveReply(s)
    PROVE  ChatInv'
<1> DEFINE old == rep[s].rows
           a == Row(clock + 1, rep[s].re, Answer)
           rows == {a} \cup old
<1>1. ChatType /\ clock \in Nat /\ rep[s] \in RepSlot
  BY DEF ChatInv, ChatType
<1>2. /\ rep[s].pc = "save" /\ clock' = clock + 1 /\ SaveLog(rows) /\ RepTo(s, NoReply)
      /\ UNCHANGED <<chat, loop, chatDisturbed>>
  BY DEF SaveReply
<1>3. clock' \in {clock, clock + 1, clock + 2} /\ clock' \in {clock, clock + 1}
  BY <1>2
<1>4. /\ a.id = clock + 1 /\ a.re = rep[s].re /\ a.re \in 0..clock /\ a \in ChatRow'
  BY <1>1, <1>2 DEF Row, RepSlot, ChatRow
<1>5. rows \in SUBSET ChatRow' /\ IsFiniteSet(rows)
  <2>1. old \in SUBSET ChatRow' /\ IsFiniteSet(old)
    BY <1>1, <1>3, ChatSlots
  <2>2. IsFiniteSet(old \cup {a})
    BY <2>1, FS_AddElement
  <2>3. rows = old \cup {a}
    OBVIOUS
  <2> HIDE DEF rows
  <2> QED
    BY <1>4, <2>1, <2>2, <2>3
<1> HIDE DEF a
<1>6. /\ log' \in SUBSET ChatRow' /\ IsFiniteSet(log')
      /\ ~ outgrown' => Cardinality(log') <= ViewRows /\ ~ outgrown
      /\ \E all \in {log, rows} : /\ KeepsAnswers("late", log', all)
                                  /\ ~ outgrown' => KeepsAnswers("all", log', all)
  BY <1>1, <1>2, <1>3, <1>5, SaveLogIs
<1>7. NoReply \in RepSlot' /\ NoReply.pc = "idle" /\ NoReply.rows = {}
  BY <1>1, <1>2, NoSlots
<1>8. /\ rep' \in [Slots -> RepSlot'] /\ rep'[s] = NoReply
      /\ \A q \in Slots : q # s => rep'[q] = rep[q]
      /\ \A q \in Slots : IsFiniteSet(rep'[q].rows)
  BY <1>1, <1>2, <1>3, <1>7, RepSlotTo, FS_EmptySet
<1>9. ChatType'
  <2>1. /\ chat' \in [Posts -> ChatSlot'] /\ loop' \in LoopType'
        /\ \A p \in Posts : IsFiniteSet(chat'[p].rows) /\ IsFiniteSet(chat'[p].own)
    BY <1>1, <1>2, <1>3, ChatSlots, ChatGrows DEF LoopType
  <2> QED
    BY <1>1, <1>3, <1>6, <1>8, <2>1, ChatTyped
<1>10. ASSUME ~ chatDisturbed' PROVE QuietInv'
  <2>1. QuietInv /\ Serial /\ KeptInv /\ OwnInv /\ AnswersInv
    BY <1>2, <1>10 DEF ChatInv, QuietInv, KeptInv
  <2>2. Loop \notin Posts /\ Loop \in Slots /\ \A q \in Posts : q \in Slots
    BY ChatAssumption DEF Slots
  <2>3. /\ \A q \in Slots : rep'[q].rows \in {rep[q].rows, {}}
        /\ \A q \in Slots : rep'[q].pc # "idle" => q # s /\ rep'[q] = rep[q]
        /\ Pending' \subseteq Pending
        /\ s = Loop => Pending' = {}
    <3>1. \A q \in Slots : rep'[q] = rep[q] \/ q = s
      BY <1>8
    <3>2. rep'[s].rows = {} /\ rep'[s].pc = "idle"
      BY <1>7, <1>8
    <3>3. s = Loop => loop.pc = "waiting"
      BY <1>2, <2>1 DEF Serial
    <3> QED
      BY <1>2, <2>2, <3>1, <3>2, <3>3 DEF Pending
  <2>4. Inbound(a) /\ old \in Copies /\ log \in Copies
    BY <1>2, <1>4, <2>1 DEF Serial, Inbound, Copies
  <2>5. PICK all \in {log, rows} : /\ KeepsAnswers("late", log', all)
                                   /\ ~ outgrown' => KeepsAnswers("all", log', all)
    BY <1>6
  <2>6. \A C \in Copies : ~ IsMessage(C, a.id) /\ \A x \in C : x.id # a.id
    <3>1. \A C \in Copies : \A x \in C : x.id \in 1..clock
      BY <1>1, Numbers
    <3> QED
      BY <1>1, <1>4, <3>1 DEF IsMessage
  <2>7. \A m : IsMessage(rows, m) <=> IsMessage(old, m)
    BY <2>4, AnswerAdded
  <2>8. /\ \A r \in all : Inbound(r) => /\ ~ IsMessage(all, r.id)
                                        /\ \A C \in Copies : ~ IsMessage(C, r.id)
        /\ \A C \in Copies : \A r \in C : Inbound(r) => ~ IsMessage(all, r.id)
    <3>1. CASE all = log
      BY <2>1, <2>4, <3>1 DEF AnswersInv
    <3>2. CASE all = rows
      <4>1. \A r \in rows : r = a \/ r \in old
        OBVIOUS
      <4> HIDE DEF rows
      <4> QED
        BY <2>1, <2>4, <2>6, <2>7, <3>2, <4>1 DEF AnswersInv
    <3> QED
      BY <3>1, <3>2
  <2>9. \A q \in Posts : rep'[q].pc # "idle" =>
           /\ rep[q].pc # "idle" /\ rep'[q].re = rep[q].re /\ ~ IsMessage(all, rep[q].re)
    <3> SUFFICES ASSUME NEW q \in Posts, rep'[q].pc # "idle"
                 PROVE  /\ rep[q].pc # "idle" /\ rep'[q].re = rep[q].re
                        /\ ~ IsMessage(all, rep[q].re)
      OBVIOUS
    <3>1. rep'[q] = rep[q]
      BY <2>2, <2>3
    <3>2. ~ IsMessage(log, rep[q].re) /\ ~ IsMessage(rows, rep[q].re)
      BY <2>1, <2>4, <2>7, <3>1 DEF AnswersInv
    <3> QED
      BY <3>1, <3>2
  <2>10. \A q \in Posts : /\ UNCHANGED <<chat[q].own, chat[q].rows>>
                          /\ \A r \in chat[q].own, x \in all : x.id # r.id
    <3>1. \A q \in Posts : \A r \in chat[q].own, x \in rows : x.id # r.id
      <4> SUFFICES ASSUME NEW q \in Posts, NEW r \in chat[q].own, NEW x \in rows
                   PROVE  x.id # r.id
        OBVIOUS
      <4>1. CASE x = a
        <5>1. r.id \in 1..clock
          BY <1>1, Numbers
        <5> QED
          BY <1>1, <1>4, <4>1, <5>1
      <4>2. CASE x \in old
        BY <2>1, <2>4, <4>2 DEF OwnInv
      <4> QED
        BY <4>1, <4>2
    <3>2. \A q \in Posts : \A r \in chat[q].own, x \in log : x.id # r.id
      BY <2>1, <2>4 DEF OwnInv
    <3> QED
      BY <1>2, <3>1, <3>2
  <2>11. OwnInv' /\ AnswersInv'
    <3>1. log' \subseteq all
      BY <2>5 DEF KeepsAnswers
    <3>2. \A q \in Posts : chat'[q].rows \in {chat[q].rows, {}}
      BY <1>2
    <3> HIDE DEF rows, old
    <3> QED
      BY <1>1, <2>1, <2>3, <2>8, <2>9, <2>10, <3>1, <3>2, StoreOwn
  <2>12. Serial'
    <3>1. \A q \in Slots : rep'[q].pc # "save" => rep'[q].rows = {}
      BY <1>7, <1>8, <2>1 DEF Serial
    <3>2. \A q \in Posts : Idle(q) => Idle(q)'
      BY <1>2, <2>2, <2>3 DEF Idle
    <3> QED
      BY <1>2, <2>1, <2>2, <2>3, <3>1, <3>2 DEF Serial
  <2>13. ASSUME NEW kind, KindInv(kind), KeepsAnswers(kind, log', all)
         PROVE  KindInv(kind)'
    <3>1. \A C : Within(kind, {}, C) /\ Within(kind, C, {})
      BY NothingFacts
    <3>2. /\ Once(kind, all) /\ Within(kind, all, rep'[Loop].rows)
          /\ \A x \in Pending' : Open(kind, all, x)
          /\ \A q \in Posts : /\ Within(kind, chat[q].rows, all)
                              /\ Within(kind, rep'[q].rows, all)
      <4>1. CASE all = log
        BY <2>2, <2>3, <2>4, <2>13, <3>1, <4>1 DEF KindInv
      <4>2. CASE all = rows /\ s = Loop
        <5>1. a.re \in Pending
          BY <1>2, <1>4, <4>2 DEF Pending
        <5>2. Once(kind, rows)
          BY <2>4, <2>13, <5>1, AnswerAdded DEF KindInv
        <5>3. \A q \in Posts : /\ Within(kind, chat[q].rows, rows)
                               /\ Within(kind, rep[q].rows, rows)
          BY <2>4, <2>13, <4>2, AnswerAdded DEF KindInv
        <5>4. Pending' = {} /\ rep'[Loop].rows = {}
          BY <1>7, <1>8, <2>3, <4>2
        <5> QED
          BY <2>2, <2>3, <3>1, <4>2, <5>2, <5>3, <5>4
      <4>3. CASE all = rows /\ s # Loop
        <5>1. s \in Posts
          BY <4>3 DEF Slots
        <5>2. \A C \in Copies : ~ IsMessage(C, a.re)
          BY <1>2, <1>4, <2>1, <5>1 DEF AnswersInv
        <5>3. Once(kind, rows)
          BY <2>4, <2>13, <5>2, AnswerAdded DEF KindInv, Open
        <5>4. rep[Loop].rows \in Copies /\ rep'[Loop].rows = rep[Loop].rows
          BY <1>8, <2>2, <4>3 DEF Copies
        <5>5. Within(kind, rows, rep[Loop].rows)
          BY <2>4, <2>13, <5>1, <5>2, <5>4, AnswerAdded DEF KindInv
        <5>6. \A x \in Pending' : Open(kind, rows, x)
          <6> SUFFICES ASSUME NEW x \in Pending' PROVE Open(kind, rows, x)
            OBVIOUS
          <6>1. Open(kind, old, x)
            BY <2>3, <2>4, <2>13 DEF KindInv
          <6>2. ~ IsMessage(old, a.re)
            BY <2>4, <5>2
          <6> QED
            BY <2>4, <6>1, <6>2, AnswerAdded
        <5>7. \A q \in Posts : q # s => Idle(q)
          BY <1>2, <2>1, <5>1, Alone DEF Idle
        <5>8. \A q \in Posts : q # s => chat[q].rows = {} /\ rep'[q].rows = {}
          BY <2>1, <2>2, <2>3, <5>7, RestingRep DEF Serial, Idle
        <5>9. Within(kind, chat[s].rows, rows) /\ rep'[s].rows = {}
          BY <1>7, <1>8, <2>4, <2>13, <5>1, AnswerAdded DEF KindInv
        <5> QED
          BY <3>1, <4>3, <5>3, <5>4, <5>5, <5>6, <5>8, <5>9
      <4> QED
        BY <4>1, <4>2, <4>3
    <3>3. \A q \in Posts : chat'[q].rows = chat[q].rows
      BY <1>2
    <3> HIDE DEF rows, old
    <3> QED
      BY <2>3, <2>13, <3>2, <3>3, StoreKind
  <2> QED
    BY <1>6, <2>1, <2>5, <2>11, <2>12, <2>13 DEF QuietInv, KeptInv
<1> QED
  BY <1>9, <1>10 DEF ChatInv

(* The loop takes a message that is open in all that is at work.           *)
LEMMA PollKeeps ==
    ASSUME ChatInv, LoopPolls
    PROVE  ChatInv'
<1>1. ChatType /\ clock \in Nat
  BY DEF ChatInv, ChatType
<1>2. /\ loop.pc = "poll" /\ UNCHANGED <<log, chat, rep, clock, outgrown, chatDisturbed>>
      /\ clock' \in {clock, clock + 1, clock + 2}
  BY DEF LoopPolls
<1>3. PICK rows \in {log, {}} :
         loop' = LoopAt(IF FirstUnread(Newest(rows, ViewRows)) = 0 THEN "poll" ELSE "reply",
                        FirstUnread(Newest(rows, ViewRows)))
  BY DEF LoopPolls, ReadLog
<1> DEFINE view == Newest(rows, ViewRows)
           re == FirstUnread(view)
<1>4. ViewRows \in Nat
  BY ChatAssumption
<1>5. /\ view \subseteq rows /\ rows \in SUBSET ChatRow /\ rows \subseteq log
      /\ \A r \in view, x \in rows : x.id > r.id => x \in view
      /\ ~ outgrown => view = rows
  <2>1. rows \in SUBSET ChatRow /\ IsFiniteSet(rows) /\ rows \subseteq log
    BY <1>1, <1>2, ChatSlots DEF ChatType
  <2>2. \A r \in rows : r.id \in Nat
    BY <1>1, <2>1, Numbers
  <2>3. ~ outgrown => Cardinality(rows) <= ViewRows
    BY <1>1, <1>4, <2>1, FS_EmptySet DEF ChatType
  <2> QED
    BY <1>4, <2>1, <2>2, <2>3, NewestRows
<1> HIDE DEF view
<1>6. \/ re = 0
      \/ \E m \in view : m.id = re /\ ~ Inbound(m) /\ ~ Answered(view, m.id)
  BY <1>1, <1>5, FirstUnreadIs
<1>7. re \in 0..clock
  BY <1>1, <1>5, <1>6, Numbers
<1> HIDE DEF re
<1>8. /\ loop' \in LoopType' /\ loop'.re = re
      /\ loop'.pc = (IF re = 0 THEN "poll" ELSE "reply")
  BY <1>2, <1>3, <1>7 DEF re, view, LoopAt, LoopType
<1>9. ChatType'
  BY <1>1, <1>2, <1>8, LogTyped, ChatTyped, ChatSlots
<1>10. ASSUME ~ chatDisturbed' PROVE QuietInv'
  <2>1. QuietInv /\ Serial /\ KeptInv
    BY <1>2, <1>10 DEF ChatInv, QuietInv
  <2>2. Loop \in Slots /\ rep[Loop].pc = "idle" /\ rep[Loop].rows = {}
    <3>1. Loop \in Slots
      BY DEF Slots
    <3>2. rep[Loop].pc = "idle"
      BY <1>2, <2>1 DEF Serial
    <3> QED
      BY <2>1, <3>1, <3>2 DEF Serial
  <2>3. CASE re = 0
    <3>1. Pending' \subseteq Pending
      BY <1>2, <1>8, <2>2, <2>3 DEF Pending
    <3> QED
      BY <1>1, <1>2, <1>8, <2>1, <2>2, <2>3, <3>1, LoopStep
  <2>4. CASE re # 0
    <3>1. PICK m \in view : m.id = re /\ ~ Inbound(m) /\ ~ Answered(view, m.id)
      BY <1>6, <2>4
    <3>2. Pending' = {re} /\ Copies' = Copies /\ m \in log
      BY <1>2, <1>5, <1>8, <2>2, <2>4, <3>1 DEF Pending, Copies
    <3>3. Serial'
      BY <1>2, <1>8, <2>1, <2>2, <2>4 DEF Serial, Idle
    <3>4. AnswersInv'
      BY <1>2, <2>1, <3>2 DEF KeptInv, AnswersInv, IsMessage, Inbound
    <3>5. OwnInv'
      <4>1. \A p \in Posts : \A r \in chat[p].own : r.id # re
        BY <1>1, <2>1, <3>1, <3>2, Numbers DEF KeptInv, OwnInv
      <4> QED
        BY <1>2, <2>1, <3>2, <4>1 DEF KeptInv, OwnInv, IsMessage, Inbound
    <3>6. ASSUME NEW kind, KindInv(kind), kind = "late" \/ ~ outgrown
          PROVE  KindInv(kind)'
      <4>1. rows = log
        BY <1>3, <1>5, <3>1
      <4>2. ~ HasAnswer(kind, log, re)
        <5> SUFFICES ASSUME NEW a \in log, Answers(kind, a, re) PROVE FALSE
          BY DEF HasAnswer
        <5>1. a \in view
          BY <1>5, <3>1, <3>6, <4>1 DEF Answers
        <5> QED
          BY <2>4, <3>1, <5>1 DEF Answers, Answered, Inbound
      <4>3. IsMessage(log, re) /\ IsMessage(log, re) = IsMessage(log, m.id)
        BY <3>1, <3>2 DEF IsMessage
      <4>4. ASSUME NEW C, Within(kind, C, log) PROVE Open(kind, C, re)
        BY <4>2, <4>3, <4>4 DEF Open, Within, IsMessage
      <4>5. \A C \in Copies : Within(kind, C, log)
        <5>1. Within(kind, log, log) /\ Within(kind, {}, log)
          BY PartFacts, NothingFacts
        <5>2. \A p \in Posts : Within(kind, chat[p].rows, log) /\ Within(kind, rep[p].rows, log)
          BY <3>6 DEF KindInv
        <5>3. \A s \in Slots : s \in Posts \/ s = Loop
          BY DEF Slots
        <5> QED
          BY <2>2, <5>1, <5>2, <5>3 DEF Copies
      <4>6. \A C \in Copies : Open(kind, C, re)
        BY <4>4, <4>5
      <4> QED
        BY <1>2, <3>2, <3>6, <4>6
           DEF KindInv, Once, Open, Within, IsMessage, HasAnswer, Answers, Inbound
    <3> QED
      BY <1>2, <2>1, <3>3, <3>4, <3>5, <3>6 DEF QuietInv, KeptInv
  <2> QED
    BY <2>3, <2>4
<1> QED
  BY <1>9, <1>10 DEF ChatInv

(* The loop's other steps leave what is kept alone. *)
LEMMA LoopKeeps ==
    ASSUME ChatInv, LoopReplies \/ LoopGoesOn \/ LoopEnds \/ LoopStarts
    PROVE  ChatInv'
<1>1. ChatType /\ clock \in Nat /\ Loop \in Slots
  BY DEF ChatInv, ChatType, Slots
<1>2. /\ UNCHANGED <<log, chat, clock, outgrown>> /\ clock' = clock
      /\ clock' \in {clock, clock + 1, clock + 2}
      /\ ~ chatDisturbed' => ~ chatDisturbed /\ (LoopEnds => rep[Loop].pc = "idle")
  <2>1. CASE LoopReplies \/ LoopGoesOn \/ LoopStarts
    <3>1. chatDisturbed' = chatDisturbed /\ UNCHANGED <<log, chat, clock, outgrown>>
      BY <2>1 DEF LoopReplies, LoopGoesOn, LoopStarts
    <3>2. LoopEnds => chatDisturbed' = (chatDisturbed \/ rep[Loop].pc # "idle")
      BY DEF LoopEnds
    <3> QED
      BY <3>1, <3>2
  <2>2. CASE LoopEnds
    BY <2>2 DEF LoopEnds
  <2> QED
    BY <2>1, <2>2
<1>3. /\ rep' \in [Slots -> RepSlot'] /\ \A q \in Slots : IsFiniteSet(rep'[q].rows)
      /\ \A q \in Slots : q # Loop => rep'[q] = rep[q]
  <2>1. CASE LoopReplies
    <3>1. loop.re \in 0..clock /\ AskReply(Loop, loop.re)
      BY <1>1, <2>1 DEF LoopReplies, ChatType
    <3> QED
      BY <1>1, <1>2, <3>1, Asked
  <2>2. CASE LoopGoesOn \/ LoopEnds \/ LoopStarts
    <3>1. rep' = rep
      BY <2>2 DEF LoopGoesOn, LoopEnds, LoopStarts
    <3> QED
      BY <1>1, <1>2, <3>1, ChatSlots
  <2> QED
    BY <2>1, <2>2
<1>4. loop' \in LoopType'
  BY <1>1, <1>2 DEF LoopReplies, LoopGoesOn, LoopEnds, LoopStarts, LoopAt, LoopType
<1>5. ChatType'
  BY <1>1, <1>2, <1>3, <1>4, LogTyped, ChatTyped, ChatSlots
<1>6. ASSUME ~ chatDisturbed' PROVE QuietInv'
  <2>1. QuietInv /\ Serial
    BY <1>2, <1>6 DEF ChatInv, QuietInv
  <2>2. CASE LoopReplies
    <3>1. /\ loop.pc = "reply" /\ loop.re \in 0..clock /\ AskReply(Loop, loop.re)
          /\ loop' = LoopAt("waiting", 0)
      BY <1>1, <2>2 DEF LoopReplies, ChatType
    <3>2. /\ rep[Loop].pc = "idle" /\ rep'[Loop].pc = "load"
          /\ rep'[Loop].re = loop.re /\ rep'[Loop].rows = {}
      BY <1>1, <1>2, <3>1, Asked
    <3>3. loop'.pc = "waiting" /\ loop.re # 0
      BY <2>1, <3>1 DEF LoopAt, Serial
    <3>4. Pending' \subseteq Pending
      BY <3>1, <3>2, <3>3 DEF Pending
    <3> QED
      BY <1>1, <1>2, <1>3, <2>1, <3>2, <3>3, <3>4, LoopStep
  <2>3. CASE LoopGoesOn \/ LoopEnds \/ LoopStarts
    <3>1. /\ rep' = rep /\ loop'.pc \in {"poll", "ended"} /\ rep[Loop].pc = "idle"
      BY <1>1, <1>2, <1>6, <2>1, <2>3 DEF LoopGoesOn, LoopEnds, LoopStarts, LoopAt, Serial
    <3>2. Pending' \subseteq Pending
      BY <3>1 DEF Pending
    <3>3. rep[Loop].rows = {}
      BY <1>1, <2>1, <3>1 DEF Serial
    <3> QED
      BY <1>1, <1>2, <2>1, <3>1, <3>2, <3>3, LoopStep
  <2> QED
    BY <2>2, <2>3
<1> QED
  BY <1>5, <1>6 DEF ChatInv

(* Every step of the chat keeps ChatInv.                                   *)
LEMMA ChatStep == ChatInv /\ [ChatNext]_chatVars => ChatInv'
<1> SUFFICES ASSUME ChatInv, [ChatNext]_chatVars PROVE ChatInv'
  OBVIOUS
<1>1. CASE UNCHANGED chatVars
  <2>1. ChatType'
    BY <1>1 DEF chatVars, ChatInv, ChatType, ChatRow, ChatSlot, RepSlot, Copies
  <2>2. Serial' = Serial /\ Pending' = Pending /\ Copies' = Copies
    BY <1>1 DEF chatVars, Serial, Pending, Copies, Idle
  <2>3. OwnInv' = OwnInv /\ AnswersInv' = AnswersInv
    BY <1>1, <2>2 DEF chatVars, OwnInv, AnswersInv
  <2>4. \A kind : KindInv(kind) => KindInv(kind)'
    BY <1>1, <2>2
       DEF chatVars, KindInv, Once, Open, Within, IsMessage, HasAnswer, Answers, Inbound
  <2> QED
    BY <1>1, <2>1, <2>2, <2>3, <2>4 DEF chatVars, ChatInv, QuietInv, KeptInv
<1>2. CASE ChatNext
  <2>1. Slots = Posts \cup {Loop}
    BY DEF Slots
  <2> QED
    BY <1>2, <2>1, PostKeeps, DeleteKeeps, ReplyToKeeps, DispatchedKeeps, PublishKeeps,
       PublishedKeeps, SaveChatKeeps, LoadKeeps, SaveReplyKeeps, PollKeeps, LoopKeeps
       DEF ChatNext, ChatWork
<1> QED
  BY <1>1, <1>2

(* An old log is good.                                                     *)
LEMMA ChatFirst == ChatInit => ChatInv
<1> SUFFICES ASSUME ChatInit PROVE ChatInv
  OBVIOUS
<1> DEFINE n == Cardinality(FirstLog)
<1>1. /\ log = FirstLog /\ clock = n /\ ~ outgrown
      /\ chat = [p \in Posts |-> NoChat] /\ rep = [s \in Slots |-> NoReply]
      /\ loop = LoopAt("poll", 0)
  BY DEF ChatInit, Slots
<1>2. /\ IsFiniteSet(log) /\ n \in Nat /\ Cardinality(log) <= ViewRows
      /\ log \in SUBSET ChatRow
      /\ \A r, x \in log : r.id = x.id \/ (Inbound(r) /\ r.re = x.re) => r = x
      /\ \A r \in log : r.id \in 1..n
  <2>1. IsFiniteSet(log) /\ n \in Nat
    BY <1>1, FirstLogAssumption, FS_CardinalityType
  <2> QED
    BY <1>1, <2>1, FirstLogAssumption DEF ChatRow
<1> HIDE DEF n
<1>3. /\ \A p \in Posts : chat[p].pc = "idle" /\ chat[p].own = {} /\ chat[p].rows = {}
      /\ \A s \in Slots : rep[s].pc = "idle" /\ rep[s].rows = {}
      /\ \A p \in Posts : p \in Slots
      /\ loop.pc = "poll" /\ Loop \in Slots
  BY <1>1 DEF NoChat, NoReply, LoopAt, Slots
<1>4. Copies \subseteq {log, {}} /\ Pending = {}
  BY <1>3 DEF Copies, Pending
<1>5. ChatType
  <2>1. NoChat \in ChatSlot /\ NoReply \in RepSlot
    BY <1>1, <1>2 DEF NoChat, NoReply, ChatSlot, RepSlot, ChatPc
  <2>2. loop \in [pc : {"poll", "reply", "waiting", "ended"}, re : 0..clock]
    BY <1>1, <1>2 DEF LoopAt
  <2> QED
    BY <1>1, <1>2, <1>3, <1>4, <2>1, <2>2, FS_EmptySet DEF ChatType
<1>6. Serial
  BY <1>3 DEF Serial, Idle
<1>7. OwnInv
  BY <1>3 DEF OwnInv
<1>8. AnswersInv
  BY <1>2, <1>3, <1>4 DEF AnswersInv, IsMessage
<1>9. ASSUME NEW kind PROVE KindInv(kind)
  <2>1. Once(kind, log)
    <3> SUFFICES ASSUME NEW m \in log, NEW a \in log, NEW b \in log, a.re = m.id, b.re = m.id
                 PROVE  a = b
      BY DEF Once, Answers
    <3>1. Inbound(a)
      BY <1>2 DEF Inbound
    <3> QED
      BY <1>2, <3>1
  <2>2. Once(kind, {}) /\ \A C : Within(kind, {}, C) /\ Within(kind, C, {})
    BY NothingFacts
  <2> QED
    BY <1>3, <1>4, <2>1, <2>2 DEF KindInv
<1> QED
  BY <1>5, <1>6, <1>7, <1>8, <1>9 DEF ChatInv, QuietInv, KeptInv

(* AnsweredOnce: while no requests of users overlap and no connection      *)
(* breaks, no message of the log is answered twice by the hub's own answer *)
(* and the loop's (chat/route.ts, chat/reply/route.ts,                     *)
(* ops-chat-cpp-loop.sh), for logs and views of any length.                *)
THEOREM MessagesAreAnsweredOnce == ConsoleSpec => []AnsweredOnce
<1>1. ConsoleInit => ChatInv
  BY ChatFirst DEF ConsoleInit
<1>2. ChatInv /\ [ConsoleNext]_consoleVars => ChatInv'
  <2>1. [ConsoleNext]_consoleVars => [ChatNext]_chatVars
    BY DEF ConsoleNext, consoleVars, PollScene, DraftScene, PresenceScene, ChatScene
  <2> QED
    BY <2>1, ChatStep
<1>3. ChatInv => AnsweredOnce
  <2> SUFFICES ASSUME ChatInv, ~ chatDisturbed, NEW m \in log, NEW a \in log, NEW b \in log,
                      ~ Inbound(m), a.re = m.id, b.re = m.id,
                      outgrown => a.id > m.id /\ b.id > m.id
               PROVE  a = b
    BY DEF AnsweredOnce
  <2>1. log \in Copies /\ KindInv("late") /\ (~ outgrown => KindInv("all"))
    BY DEF ChatInv, QuietInv, KeptInv, Copies
  <2>2. CASE outgrown
    BY <2>1, <2>2 DEF KindInv, Once, Answers
  <2>3. CASE ~ outgrown
    BY <2>1, <2>3 DEF KindInv, Once, Answers
  <2> QED
    BY <2>2, <2>3
<1> QED
  BY <1>1, <1>2, <1>3, PTL DEF ConsoleSpec
=============================================================================
