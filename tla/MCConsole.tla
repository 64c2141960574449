----------------------------- MODULE MCConsole -----------------------------
(* A small instance of the console, presence and the operations chat.      *)
EXTENDS Console

CONSTANTS g1

(* The older message, for the loop, was answered by a person. *)
MCLog == {Row(1, 0, [action |-> "MSG", target |-> "CPP"]), Row(2, 1, Answer)}

MCMessages == {[action |-> "MSG", target |-> "CPP"],
               [action |-> "MSG", target |-> "PRINCIPAL_ARCHITECT"]}

(* The agent g1 serves the one row of the queue. *)
MCOrder == <<"P-ARQ", "CPP">>
MCLegacy == <<>>
MCHome == g1 :> "CPP"
MCWorkAssignee == [w \in Work |-> "CPP"]
=============================================================================
