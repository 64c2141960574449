---------------------------- MODULE ConsoleDraft ----------------------------
(***************************************************************************)
(* The console's mission form: what is typed is validated, and what was    *)
(* validated may be registered.  The form takes the next free mission id   *)
(* by itself, from the ids the console's feeds show.                       *)
(***************************************************************************)
EXTENDS RecordStore, Naturals, Sequences, FiniteSets, FiniteSetsExt, SequencesExt

CONSTANTS
    LastId,       \* bound: ids typed and sent
    Goals,        \* what a mission may be for, without None
    FormTurns     \* bound: what is typed, fails or comes from elsewhere

VARIABLES
    draft,        \* the form
    validated,    \* validatedDraftKey
    status,       \* "sending", or anything else; the page's one state
    inForm,       \* the section of the form is shown
    lists,        \* the mission ids the feeds show
    taken,        \* the ids the hub has
    flights,      \* the registrations on their way
    mayResend,    \* since the last registration was sent, a validation was asked
                  \* for, a registration failed, or the status was overwritten
    toldTaken,    \* a registration was answered with success, and nothing was
                  \* validated since
    formTurns

draftVars == <<draft, validated, status, inForm, lists, taken, flights, mayResend, toldTaken,
               formTurns>>

FormTurn == formTurns < FormTurns /\ formTurns' = formTurns + 1

(* Of the UDN text, the mission its header names, 0 for none, and whether  *)
(* its other required line is there.                                       *)
Udn(names, complete) == [names |-> names, complete |-> complete]

NextCode == Max(lists \cup {0}) + 1

Advanced(id) ==
    IF id = 0 \/ id \in lists \/ id < NextCode THEN NextCode ELSE id

(* The effects behind every change: an empty id is filled in anywhere, one *)
(* that is known or behind only in the form's section.                     *)
Settled(d, shown, here) ==
    LET next == Max(shown \cup {0}) + 1
    IN  IF d.id = 0 \/ (here /\ (d.id \in shown \/ d.id < next))
          THEN [d EXCEPT !.id = next] ELSE d

(* normalizeTdvTags, udnContractIssues, repairMissionUdn: an empty text is *)
(* made from the form, one that lacks a line gets it from there, and any   *)
(* other is kept, whichever mission it names.                              *)
Repaired(udn, id) == Udn(IF udn.names = 0 THEN id ELSE udn.names, TRUE)

(* validateMissionForSubmit *)
Prepared(d) ==
    LET id == Advanced(d.id) IN [d EXCEPT !.id = id, !.udn = Repaired(@, id)]

-----------------------------------------------------------------------------
(* The user. *)

(* The id and the UDN text are fields of other sections too.               *)
EditForm ==
    /\ FormTurn
    /\ \E d \in [id : 0..LastId, goal : Goals \cup {None},
                 udn : {draft.udn, Udn(0, FALSE), Udn(0, TRUE)}] :
          /\ \/ d = [draft EXCEPT !.id = d.id] \/ d = [draft EXCEPT !.udn = d.udn]
             \/ inForm /\ d = [draft EXCEPT !.goal = d.goal]
          /\ draft' = Settled(d, lists, inForm)
    /\ UNCHANGED <<validated, status, inForm, lists, taken, flights, mayResend, toldTaken>>

CompileUdn ==
    /\ inForm /\ FormTurn
    /\ draft' = [draft EXCEPT !.udn = Udn(draft.id, TRUE)]
    /\ UNCHANGED <<validated, status, inForm, lists, taken, flights, mayResend, toldTaken>>

(* Also while a registration is on its way, which is then forgotten.       *)
ValidateMission ==
    /\ inForm
    /\ IF draft.goal = None
         THEN /\ draft' = [draft EXCEPT !.id = Advanced(@)]
              /\ validated' = None
              /\ UNCHANGED <<mayResend, toldTaken>>
         ELSE /\ draft' = Prepared(draft)
              /\ validated' = Prepared(draft)
              /\ mayResend' = TRUE /\ toldTaken' = FALSE
    /\ status' = "ready"
    /\ UNCHANGED <<inForm, lists, taken, flights, formTurns>>

(* missionReadyToRegister; the key of a draft is never the empty one.      *)
Ready ==
    draft.goal # None /\ status # "sending" /\ validated # None /\ validated = draft

RegisterMission ==
    /\ inForm /\ Ready
    /\ Len(flights) < 2 /\ draft.id <= LastId
    /\ Prepared(draft) = validated
    /\ flights' = Append(flights, [pc |-> "sent", sent |-> validated])
    /\ status' = "sending"
    /\ mayResend' = FALSE
    /\ UNCHANGED <<draft, validated, inForm, lists, taken, toldTaken, formTurns>>

LeaveForm ==
    /\ inForm /\ inForm' = FALSE /\ FormTurn
    /\ UNCHANGED <<draft, validated, status, lists, taken, flights, mayResend, toldTaken>>

GoToForm ==
    /\ ~ inForm /\ inForm' = TRUE
    /\ draft' = Settled(draft, lists, TRUE)
    /\ UNCHANGED <<validated, status, lists, taken, flights, mayResend, toldTaken, formTurns>>

(* Any other request of the page, a plan, an estimate, a chat row or a     *)
(* queue row, tells its beginning and its answer by the same status, also  *)
(* while a registration is on its way, which is then forgotten; some then  *)
(* show another section.                                                   *)
OtherRequest ==
    /\ status' = "ready"
    /\ inForm' \in {inForm, FALSE}
    /\ mayResend' = (mayResend \/ status = "sending")
    /\ UNCHANGED <<draft, validated, lists, taken, flights, toldTaken, formTurns>>

-----------------------------------------------------------------------------
(* The hub takes a registration or refuses it; either answer may be lost.  *)

AnswerTo(k, pc) == flights' = [flights EXCEPT ![k].pc = pc]

HubDecides(k) ==
    /\ flights[k].pc = "sent"
    /\ \/ AnswerTo(k, "taken") /\ taken' = taken \cup {flights[k].sent.id}
       \/ AnswerTo(k, "refused") /\ UNCHANGED taken
    /\ UNCHANGED <<draft, validated, status, inForm, lists, mayResend, toldTaken, formTurns>>

Leaves == inForm' = FALSE

KeepsValidated(k) ==   \* mutated
    /\ flights[k].pc = "taken"
    /\ flights' = RemoveAt(flights, k)
    /\ status' = "ready"
    /\ Leaves
    /\ toldTaken' = TRUE
    /\ UNCHANGED <<draft, validated, lists, taken, mayResend, formTurns>>

AnswerTaken(k) ==
    /\ flights[k].pc = "taken"
    /\ flights' = RemoveAt(flights, k)
    /\ status' = "ready" /\ validated' = None
    /\ Leaves
    /\ toldTaken' = TRUE
    /\ UNCHANGED <<draft, lists, taken, mayResend, formTurns>>

(* A refusal is reported to the chat before the validation is forgotten.   *)
AnswerRefused(k) ==
    /\ flights[k].pc = "refused"
    /\ AnswerTo(k, "reporting")
    /\ status' = "ready" /\ mayResend' = TRUE
    /\ UNCHANGED <<draft, validated, inForm, lists, taken, toldTaken, formTurns>>

Reported(k) ==
    /\ flights[k].pc = "reporting"
    /\ flights' = RemoveAt(flights, k)
    /\ validated' = None
    /\ Leaves
    /\ UNCHANGED <<draft, status, lists, taken, mayResend, toldTaken, formTurns>>

(* A network error or a timeout is reported as well; the validation stays. *)
AnswerLost(k) ==
    /\ flights[k].pc \in {"sent", "taken", "refused"} /\ FormTurn
    /\ AnswerTo(k, "lost")
    /\ mayResend' = TRUE
    /\ UNCHANGED <<draft, validated, status, inForm, lists, taken, toldTaken>>

LossReported(k) ==
    /\ flights[k].pc = "lost"
    /\ flights' = RemoveAt(flights, k)
    /\ status' = "ready" /\ mayResend' = TRUE
    /\ UNCHANGED <<draft, validated, inForm, lists, taken, toldTaken, formTurns>>

(* The feeds show what the hub has, or nothing after a failure.            *)
ShowLists ==
    /\ \/ lists' = taken /\ lists # taken /\ UNCHANGED formTurns
       \/ lists' = {} /\ lists # {} /\ FormTurn
    /\ draft' = Settled(draft, lists', inForm)
    /\ UNCHANGED <<validated, status, inForm, taken, flights, mayResend, toldTaken>>

OthersRegister ==
    /\ FormTurn
    /\ \E id \in (1..LastId) \ taken : taken' = taken \cup {id}
    /\ UNCHANGED <<draft, validated, status, inForm, lists, flights, mayResend, toldTaken>>

DraftInit ==
    /\ draft = [id |-> 1, goal |-> None, udn |-> Udn(0, FALSE)]
    /\ validated = None
    /\ status = "ready" /\ inForm = TRUE
    /\ lists = {} /\ taken = {}
    /\ flights = <<>> /\ mayResend = FALSE /\ toldTaken = FALSE
    /\ formTurns = 0

DraftNext ==
    \/ EditForm \/ CompileUdn \/ ValidateMission \/ RegisterMission
    \/ LeaveForm \/ GoToForm \/ OtherRequest
    \/ \E k \in DOMAIN flights :
          \/ HubDecides(k) \/ AnswerTaken(k) \/ AnswerRefused(k) \/ Reported(k)
          \/ AnswerLost(k) \/ LossReported(k)
    \/ ShowLists \/ OthersRegister
-----------------------------------------------------------------------------
(* What the hub was said to have taken is not sent again before something  *)
(* was validated anew, also when the form, the feeds and other requests    *)
(* move on in between; and a registration not yet answered is followed by  *)
(* another only after a validation, a failure, or another request of the   *)
(* page that wrote over the status, which unlocks the button while the     *)
(* validation stays (page.tsx:3065-3209, :3852, :3957-3972).               *)
SentOnce ==
    [][Len(flights') > Len(flights) => mayResend /\ ~ toldTaken]_draftVars
=============================================================================
