------------------------------- MODULE Offices -------------------------------
(***************************************************************************)
(* The office hierarchy: offices with a leader and members, kept as one    *)
(* snapshot that the office route loads before anything else and saves     *)
(* over whatever is stored when it is done.  The members are registered    *)
(* agents, the people every hub knows, and names of older snapshots.       *)
(***************************************************************************)
EXTENDS RecordStore, Naturals, Sequences, FiniteSets, TLC

CONSTANTS
    OfficeOrder,     \* the ids of the offices, as sortOfficeRows orders them
    MaxMembers,      \* how many members an office may have
    LegacyRole,      \* names of older snapshots, with the role they tell
    HomeRole,        \* the role an agent registers with
    Nodes,           \* bound: the leaders and members callers put
    Reports,         \* bound: what agents report, a state and a load
    OfficeRequests,  \* bound: requests in flight
    OfficeTurns      \* bound: requests made

VARIABLES
    offices,    \* stored: a leader and members, None for an office not there
    roster,     \* stored: the registered agents, with state and load
    ofc,        \* the requests in flight
    asked       \* how many were made

officeVars == <<offices, roster, ofc, asked>>

OfficeIds == {OfficeOrder[k] : k \in DOMAIN OfficeOrder}

Legacy == DOMAIN LegacyRole

People == {"principal_architect", "staff"}

Identity == Agents \cup Legacy \cup People

WorkerRole == {"STAFF", "CPP", "CPP-IA"}

Office(leader, members) == [leader |-> leader, members |-> members]

(* A leader is filtered out of the members by whoever makes a node. *)
OfficeNode ==
    {n \in [leader : Identity, members : SUBSET Identity] : n.leader \notin n.members}

AgentRow == [state : {"running", "idle", "stale", "down"}, load : Nat]

ASSUME OfficesAssumption ==
    /\ (Agents \cup Legacy) \cap People = {}
    /\ None \notin OfficeNode
    /\ Reports \subseteq AgentRow
    /\ MaxMembers \in Nat \ {0} /\ Cardinality(Legacy) <= MaxMembers

DefaultOffices ==
    [f \in OfficeIds |-> IF f = "P-ARQ" THEN Office("principal_architect", {"staff"})
                         ELSE IF f \in {"STAFF", "CPP"} THEN Office("staff", {})
                         ELSE None]

Offered(o) == {f \in OfficeIds : o[f] # None}

PeopleOf(o, f) == {o[f].leader} \cup o[f].members

Places(o, x) == {f \in Offered(o) : x \in PeopleOf(o, f)}

(* findOfficeForIdentity: the first office in order *)
FirstPlace(o, x) ==
    IF Places(o, x) = {} THEN None
    ELSE OfficeOrder[CHOOSE k \in DOMAIN OfficeOrder :
                       /\ OfficeOrder[k] \in Places(o, x)
                       /\ \A n \in 1..(k - 1) : OfficeOrder[n] \notin Places(o, x)]

Leads(o, x) == \E f \in Offered(o) : o[f].leader = x

RoleAllowed(f, role) ==
    CASE f = "P-ARQ" -> role \in {"PRINCIPAL_ARCHITECT", "STAFF"}
      [] f = "STAFF" -> role \in {"STAFF", "CPP"}
      [] f = "CPP"   -> role \in {"CPP", "CPP-IA"}
      [] f = "CPP-IA" -> role = "CPP-IA"
      [] OTHER       -> role # None

NamedRole == [x \in People |-> IF x = "staff" THEN "STAFF" ELSE "PRINCIPAL_ARCHITECT"]
             @@ LegacyRole

(* resolveIdentityRole: what the registry says, else what the name says;   *)
(* an agent's id says nothing.                                             *)
RoleIn(g, x) ==
    IF x \in Agents THEN (IF g[x] = None THEN None ELSE HomeRole[x]) ELSE NamedRole[x]

Admitted(g) == People \cup {a \in Agents : g[a] # None}

-----------------------------------------------------------------------------
(* sanitizeIdentityList: of a longer list what comes first, in the order   *)
(* of the caller.  No other change makes a stored list longer, but a move. *)
Sanitized(S) ==
    IF Cardinality(S) <= MaxMembers THEN {S}
    ELSE {T \in SUBSET S : Cardinality(T) = MaxMembers}

Full(office) == Cardinality(office.members) >= MaxMembers

Upserted(o, f, leader, members) ==
    [o EXCEPT ![f] = Office(leader, members \ {leader})]

(* Who comes last into a full office is cut off again.                     *)
Joined(o, x, f) ==
    LET old == IF o[f] = None THEN Office("staff", {}) ELSE o[f]
        members == IF Full(old) THEN old.members ELSE old.members \cup {x}
    IN  [o EXCEPT ![f] = Office(old.leader, members \ {old.leader})]

MovedFromFirst(o, x, f) ==   \* mutated
    Joined(IF FirstPlace(o, x) = None THEN o
           ELSE [o EXCEPT ![FirstPlace(o, x)].members = @ \ {x}], x, f)

(* moveOfficeIdentity *)
Moved(o, x, f) ==
    Joined([g \in OfficeIds |->
              IF o[g] = None THEN None ELSE Office(o[g].leader, o[g].members \ {x})], x, f)

(* stateWeight, of the agents of a role the first in order *)
Weight == [s \in {"running", "idle", "stale", "down"} |->
             CASE s = "running" -> 0 [] s = "idle" -> 1 [] s = "stale" -> 2 [] OTHER -> 3]

(* What the pick of each role may be, this time: further by load and age,  *)
(* which is left open.                                                     *)
Picks(g) ==
    {pick \in [WorkerRole -> Agents \cup {None}] :
       \A role \in WorkerRole :
          LET rows == {a \in Agents : g[a] # None /\ HomeRole[a] = role}
          IN  IF rows = {} THEN pick[role] = None
              ELSE /\ pick[role] \in rows
                   /\ \A b \in rows : Weight[g[pick[role]].state] <= Weight[g[b].state]}

(* pickCanonicalByRole, for a hub whose users are its people *)
Canonical(pick, role) ==
    IF role \in WorkerRole /\ pick[role] # None THEN {pick[role]}
    ELSE {x \in People : NamedRole[x] = role}

RenamedByRole(g, pick, x) ==   \* mutated
    IF Canonical(pick, RoleIn(g, x)) = {} THEN x
    ELSE CHOOSE y \in Canonical(pick, RoleIn(g, x)) : TRUE

(* mapIdentityToCanonical *)
Renamed(g, pick, x) ==
    IF x \in Admitted(g) \/ Canonical(pick, RoleIn(g, x)) = {} THEN x
    ELSE CHOOSE y \in Canonical(pick, RoleIn(g, x)) : TRUE

Normalized(o, g, pick) ==
    [f \in OfficeIds |->
       IF o[f] = None THEN None
       ELSE LET leader == Renamed(g, pick, o[f].leader)
            IN  Office(leader, {Renamed(g, pick, x) : x \in o[f].members} \ {leader})]

-----------------------------------------------------------------------------
(* The route. *)

NoOfficeRequest ==
    [pc |-> "idle", op |-> "none", o |-> DefaultOffices, g |-> [a \in Agents |-> None],
     who |-> None, office |-> None]

OfcTo(i, x) == ofc' = [ofc EXCEPT ![i] = x]

Refuse(i) == OfcTo(i, NoOfficeRequest)

(* The hierarchy is loaded whatever is asked; agents are loaded next. *)
OfficeRequest(i) ==
    /\ ofc[i].pc = "idle" /\ asked < OfficeTurns
    /\ asked' = asked + 1
    /\ \E op \in {"upsert", "normalize", "move", "onboard"}, o \in Loaded(offices, DefaultOffices) :
          OfcTo(i, [NoOfficeRequest EXCEPT !.pc = "agents", !.op = op, !.o = o])
    /\ UNCHANGED <<offices, roster>>

Asks(i, op) == ofc[i].pc = "agents" /\ ofc[i].op = op

Rosters == Loaded(roster, [a \in Agents |-> None])

UpsertNode(i) ==
    /\ Asks(i, "upsert")
    /\ \E g \in Rosters, f \in OfficeIds, n \in Nodes : \E members \in Sanitized(n.members) :
         \/ /\ \A x \in {n.leader} \cup members :
                  x \in Admitted(g) /\ RoleAllowed(f, RoleIn(g, x))
            /\ OfcTo(i, [ofc[i] EXCEPT !.pc = "save",
                                       !.o = Upserted(@, f, n.leader, members)])
         \/ /\ \E x \in {n.leader} \cup members :
                  x \notin Admitted(g) \/ ~ RoleAllowed(f, RoleIn(g, x))
            /\ Refuse(i)
    /\ UNCHANGED <<offices, roster, asked>>

NormalizeIdentities(i) ==
    /\ Asks(i, "normalize")
    /\ \E g \in Rosters : \E pick \in Picks(g) :
          OfcTo(i, [ofc[i] EXCEPT !.pc = "save", !.o = Normalized(@, g, pick)])
    /\ UNCHANGED <<offices, roster, asked>>

Movable(o, g, a, f) ==
    /\ g[a] # None
    /\ FirstPlace(o, a) # f
    /\ ~ Leads(o, a)
    /\ RoleAllowed(f, HomeRole[a])
    /\ g[a].state # "running" /\ g[a].load = 0

MoveMember(i) ==
    /\ Asks(i, "move")
    /\ \E g \in Rosters, a \in Agents, f \in OfficeIds :
         \/ /\ Movable(ofc[i].o, g, a, f)
            /\ OfcTo(i, [ofc[i] EXCEPT !.pc = "save", !.o = Moved(@, a, f),
                                       !.who = a, !.office = f])
         \/ ~ Movable(ofc[i].o, g, a, f) /\ Refuse(i)
    /\ UNCHANGED <<offices, roster, asked>>

(* The role rule of the offices is not asked. *)
RequestOnboarding(i) ==
    /\ Asks(i, "onboard")
    /\ \E g \in Rosters, a \in Agents, f \in OfficeIds :
         \/ g[a] # None /\ Refuse(i)
         \/ /\ g[a] = None
            /\ OfcTo(i, [ofc[i] EXCEPT !.pc = "register", !.who = a, !.office = f,
                           !.g = [g EXCEPT ![a] = [state |-> "down", load |-> 0]]])
    /\ UNCHANGED <<offices, roster, asked>>

(* A leader's name cannot be moved; the agent stays registered all the same. *)
SaveNewAgent(i) ==
    /\ ofc[i].pc = "register"
    /\ \E result \in SaveResults :
         /\ roster' = Stored(result, roster, ofc[i].g)
         /\ IF result = "ok" /\ ~ Leads(ofc[i].o, ofc[i].who)
              THEN OfcTo(i, [ofc[i] EXCEPT !.pc = "save",
                                           !.o = Moved(@, ofc[i].who, ofc[i].office)])
              ELSE Refuse(i)
    /\ UNCHANGED <<offices, asked>>

SaveOffices(i) ==
    /\ ofc[i].pc = "save"
    /\ \E result \in SaveResults : offices' = Stored(result, offices, ofc[i].o)
    /\ OfcTo(i, NoOfficeRequest)
    /\ UNCHANGED <<roster, asked>>

(* An agent registers or reports to the agents route. *)
AgentReports ==
    /\ \E a \in Agents, r \in Reports : roster' = [roster EXCEPT ![a] = r]
    /\ UNCHANGED <<offices, ofc, asked>>

OfficesInit ==
    /\ offices = [DefaultOffices EXCEPT !["CPP"] = Office("staff", Legacy)]
    /\ roster = [a \in Agents |-> None]
    /\ ofc = [i \in OfficeRequests |-> NoOfficeRequest]
    /\ asked = 0

OfficesNext ==
    \/ \E i \in OfficeRequests :
         \/ OfficeRequest(i) \/ UpsertNode(i)        \/ NormalizeIdentities(i)
         \/ MoveMember(i)    \/ RequestOnboarding(i) \/ SaveNewAgent(i)
         \/ SaveOffices(i)
    \/ AgentReports
-----------------------------------------------------------------------------
(* Where a move to an office f leaves whom it moves.                       *)
Placed(o, x, f) == Places(o, x) = {f} \/ (Places(o, x) = {} /\ Full(o[f]))

(* A move or an onboarding that is stored leaves the agent in the one      *)
(* office it was moved to, also when an upsert had put it into several,    *)
(* which nothing forbids, and whatever overlaps; only when that office was *)
(* full the agent is in none, though the route answers that it was moved,  *)
(* and never in another one (office-hierarchy.ts:84-93, :189-266,          *)
(* office/route.ts:550-832).                                               *)
MovesLeaveOnePlace ==
    [][\A i \in OfficeRequests :
          ofc[i].pc = "save" /\ ofc[i].who # None /\ offices' # offices /\ ofc' # ofc
          /\ ofc'[i] # ofc[i]
             => Placed(offices', ofc[i].who, ofc[i].office)]_officeVars

(* Normalizing takes nobody the hub knows out of an office, also where a   *)
(* name of an older snapshot becomes the same agent or its leader, and     *)
(* done twice it changes nothing more while the agents are the same        *)
(* (office/route.ts:121-149, :435-549).                                    *)
NormalizingKeepsTheKnown ==
    \A pick \in Picks(roster) :
       LET once == Normalized(offices, roster, pick)
       IN  /\ \A x \in Admitted(roster) : Places(offices, x) \subseteq Places(once, x)
           /\ Normalized(once, roster, pick) = once
=============================================================================
