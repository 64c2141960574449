----------------------------- MODULE MCRecords -----------------------------
(* A small instance of token budgets, offices and a repository.            *)
EXTENDS Records

CONSTANTS g1, old1, m1, m2, o1, o2

(* g1 joins an office, where old1 is an older name for such an agent.  One *)
(* member fills an office.                                                 *)
MCOrder == <<"P-ARQ", "STAFF", "CPP">>
MCLegacy == old1 :> "STAFF"
MCHome == g1 :> "STAFF"
MCReports == {[state |-> "idle", load |-> 0], [state |-> "running", load |-> 1]}
MCNodes == {Office("staff", {g1}), Office(g1, {}), Office("staff", {g1, "principal_architect"})}

(* A month ends after the first day or two. *)
MCMonths == [d \in 0..LastDay |-> IF d < 2 THEN 0 ELSE 1]

(* A hard limit by default, a soft one for an owner with an override, and  *)
(* a contract with a hard stop of its own.                                 *)
MCDefault == [default |-> [daily |-> 3, monthly |-> 4, stops |-> TRUE],
              own |-> [o \in Owners |-> [f \in Field |-> None]]]
MCPolicies ==
    {MCDefault,
     [MCDefault EXCEPT !.own[o1] = [daily |-> 2, monthly |-> None, stops |-> FALSE]]}
MCContracts ==
    {[mission |-> m1, owner |-> o1, cost |-> 2, hardStop |-> FALSE],
     [mission |-> m1, owner |-> o2, cost |-> 1, hardStop |-> FALSE],
     [mission |-> m2, owner |-> o1, cost |-> 2, hardStop |-> TRUE]}

(* Requests differ by nothing but what they ask. *)
MCSymmetry == Permutations(Registrations) \cup Permutations(OfficeRequests)
=============================================================================
