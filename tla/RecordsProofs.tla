---------------------------- MODULE RecordsProofs ----------------------------
(***************************************************************************)
(* The records beside the queue, for any number of requests, and whatever  *)
(* of their loads and saves fails.                                         *)
(*                                                                         *)
(* Offices: normalizing a hierarchy keeps everybody who is known, and a    *)
(* move leaves one place.                                                  *)
(* Repositories: what the worker answered as done and pushed stays on the  *)
(* remote.                                                                 *)
(* Token budgets: every copy of the usage that a registration may store is *)
(* within limits that were in force, since it was checked, with its own    *)
(* cost, by the policy and the usage it was loaded with; that the day may  *)
(* have passed by then only makes room.  What was registered apart from    *)
(* all others is in every such copy, so that it is within them as well.    *)
(***************************************************************************)
EXTENDS Records, Integers, FiniteSetTheorems, TLAPS

-----------------------------------------------------------------------------
(* Offices.                                                                *)

Hierarchy == [OfficeIds -> OfficeNode \cup {None}]

Roster == [Agents -> AgentRow \cup {None}]

OfficeOp == {"none", "upsert", "normalize", "move", "onboard"}

OfficePc == {"idle", "agents", "register", "save"}

OfficeReq ==
    [pc : OfficePc, op : OfficeOp, o : Hierarchy, g : Roster,
     who : Agents \cup {None}, office : OfficeIds \cup {None}]

(* What a request knows: nobody before the agents are loaded, then the     *)
(* agent to be registered and its office, at last a hierarchy in which the *)
(* agent has that one place, or none because the office was full.          *)
Sound(x) ==
    /\ x.pc = "agents" => x.who = None
    /\ x.pc = "register" => x.who \in Agents /\ x.office \in OfficeIds
    /\ x.pc = "save" /\ x.who # None => Placed(x.o, x.who, x.office)

OfficesInv ==
    /\ offices \in Hierarchy
    /\ roster \in Roster
    /\ ofc \in [OfficeRequests -> OfficeReq]
    /\ \A i \in OfficeRequests : Sound(ofc[i])

-----------------------------------------------------------------------------
(* moveOfficeIdentity puts somebody who leads no office into one place, or *)
(* takes it out of all when there is no room in that one.                  *)
LEMMA MovedOnce ==
    ASSUME NEW o \in Hierarchy, NEW x \in Agents, NEW f \in OfficeIds, ~ Leads(o, x)
    PROVE  Moved(o, x, f) \in Hierarchy /\ Placed(Moved(o, x, f), x, f)
<1> DEFINE left == [g \in OfficeIds |->
                      IF o[g] = None THEN None ELSE Office(o[g].leader, o[g].members \ {x})]
           old  == IF left[f] = None THEN Office("staff", {}) ELSE left[f]
           all  == (IF Full(old) THEN old.members ELSE old.members \cup {x}) \ {old.leader}
           new  == [left EXCEPT ![f] = Office(old.leader, all)]
<1>1. Moved(o, x, f) = new
  BY DEF Moved, Joined
<1>2. x \in Identity /\ "staff" \in Identity /\ x # "staff"
  BY OfficesAssumption DEF Identity, People
<1>3. ASSUME NEW g \in OfficeIds, o[g] # None
      PROVE  /\ left[g] \in OfficeNode /\ left[g] # None
             /\ x \notin left[g].members /\ x # left[g].leader
  <2>1. o[g] \in OfficeNode /\ o[g].leader # x
    BY <1>3 DEF Hierarchy, Leads, Offered
  <2>2. left[g] = Office(o[g].leader, o[g].members \ {x})
    BY <1>3
  <2>3. left[g] \in OfficeNode /\ x \notin left[g].members /\ x # left[g].leader
    BY <2>1, <2>2 DEF OfficeNode, Office
  <2> QED
    BY <2>3, OfficesAssumption
<1>4. ASSUME NEW g \in OfficeIds, o[g] = None
      PROVE  left[g] = None
  BY <1>4
<1>5. left \in Hierarchy
  BY <1>3, <1>4 DEF Hierarchy
<1> HIDE DEF left
<1>6. old \in OfficeNode /\ x # old.leader /\ x \notin old.members
  <2>1. CASE left[f] = None
    <3>1. old = Office("staff", {})
      BY <2>1
    <3> HIDE DEF old
    <3> QED
      BY <1>2, <3>1 DEF Office, OfficeNode
  <2>2. CASE left[f] # None
    BY <1>3, <1>4, <2>2
  <2> QED
    BY <2>1, <2>2
<1> HIDE DEF old
<1>7. /\ new[f] = Office(old.leader, all)
      /\ \A g \in OfficeIds \ {f} : new[g] = left[g]
  BY <1>5 DEF Hierarchy
<1>8. all \subseteq Identity
  BY <1>2, <1>6 DEF OfficeNode
<1>9. new[f] \in OfficeNode /\ new[f] # None
      /\ new[f].members = all /\ new[f].leader = old.leader
  BY <1>6, <1>7, <1>8, OfficesAssumption DEF Office, OfficeNode
<1>10. new \in Hierarchy
  BY <1>5, <1>7, <1>9 DEF Hierarchy
<1>11. \A g \in OfficeIds \ {f} :
          new[g] # None => x \notin new[g].members /\ x # new[g].leader
  BY <1>3, <1>4, <1>7
<1> HIDE DEF new
<1>12. Places(new, x) \subseteq {f}
  BY <1>6, <1>9, <1>11 DEF Places, Offered, PeopleOf
<1>13. CASE ~ Full(old)
  <2>1. x \in new[f].members
    BY <1>6, <1>9, <1>13
  <2>2. f \in Places(new, x)
    BY <1>9, <2>1 DEF Places, Offered, PeopleOf
  <2> QED
    BY <1>1, <1>10, <1>12, <2>2 DEF Placed
<1>14. CASE Full(old)
  <2>1. x \notin new[f].members /\ x # new[f].leader /\ new[f].members = old.members
    <3>1. old.leader \notin old.members
      BY <1>6 DEF OfficeNode
    <3>2. all = old.members
      BY <1>14, <3>1
    <3> QED
      BY <1>6, <1>9, <3>2
  <2>2. Full(new[f])
    BY <1>14, <2>1 DEF Full
  <2>3. f \notin Places(new, x)
    BY <1>9, <2>1 DEF Places, Offered, PeopleOf
  <2> QED
    BY <1>1, <1>10, <1>12, <2>2, <2>3 DEF Placed
<1> QED
  BY <1>13, <1>14

(* An upsert of people the hub knows keeps the hierarchy well formed.      *)
LEMMA UpsertedTyped ==
    ASSUME NEW o \in Hierarchy, NEW g \in Roster, NEW f \in OfficeIds, NEW leader, NEW members,
           \A x \in {leader} \cup members : x \in Admitted(g)
    PROVE  Upserted(o, f, leader, members) \in Hierarchy
<1>1. Admitted(g) \subseteq Identity
  BY DEF Admitted, Identity
<1>2. Office(leader, members \ {leader}) \in OfficeNode
  BY <1>1 DEF Office, OfficeNode
<1> QED
  BY <1>2 DEF Upserted, Hierarchy

(* So does normalizing the names.                                          *)
LEMMA NormalizedTyped ==
    ASSUME NEW o \in Hierarchy, NEW g \in Roster, NEW pick \in Picks(g)
    PROVE  Normalized(o, g, pick) \in Hierarchy
<1>1. \A role : Canonical(pick, role) \subseteq Identity
  BY DEF Canonical, Picks, Identity
<1>2. \A x \in Identity : Renamed(g, pick, x) \in Identity
  BY <1>1 DEF Renamed
<1>3. ASSUME NEW f \in OfficeIds, o[f] # None
      PROVE  Office(Renamed(g, pick, o[f].leader),
                    {Renamed(g, pick, x) : x \in o[f].members}
                      \ {Renamed(g, pick, o[f].leader)}) \in OfficeNode
  <2>1. o[f].leader \in Identity /\ o[f].members \subseteq Identity
    BY <1>3 DEF Hierarchy, OfficeNode
  <2> QED
    BY <1>2, <2>1 DEF Office, OfficeNode
<1> QED
  BY <1>3 DEF Normalized, Hierarchy

(* The hub starts with a hierarchy of its own.                             *)
LEMMA DefaultTyped ==
    /\ DefaultOffices \in Hierarchy
    /\ NoOfficeRequest \in OfficeReq /\ Sound(NoOfficeRequest)
<1>1. DefaultOffices \in Hierarchy
  BY DEF DefaultOffices, Hierarchy, Office, OfficeNode, Identity, People
<1>2. [a \in Agents |-> None] \in Roster
  BY DEF Roster
<1>3. NoOfficeRequest \in OfficeReq
  BY <1>1, <1>2 DEF NoOfficeRequest, OfficeReq, OfficePc, OfficeOp
<1>4. Sound(NoOfficeRequest)
  BY DEF NoOfficeRequest, Sound
<1> QED
  BY <1>1, <1>3, <1>4

-----------------------------------------------------------------------------
(* At first the offices are the default ones, with older names in CPP.     *)
LEMMA OfficesInitInv == OfficesInit => OfficesInv
<1> SUFFICES ASSUME OfficesInit PROVE OfficesInv
  OBVIOUS
<1>1. Office("staff", Legacy) \in OfficeNode
  BY OfficesAssumption DEF Office, OfficeNode, Identity, People
<1>2. offices \in Hierarchy
  BY <1>1, DefaultTyped DEF OfficesInit, Hierarchy
<1>3. roster \in Roster
  BY DEF OfficesInit, Roster
<1> QED
  BY <1>2, <1>3, DefaultTyped DEF OfficesInit, OfficesInv

(* One request goes on, soundly; nothing else changes.                     *)
LEMMA RequestStep ==
    ASSUME OfficesInv, NEW i \in OfficeRequests, NEW x \in OfficeReq, Sound(x), OfcTo(i, x),
           offices' \in Hierarchy, roster' \in Roster
    PROVE  OfficesInv'
BY DEF OfficesInv, OfcTo

(* Every step of the offices keeps the invariant, one case per action.     *)
LEMMA OfficesStepInv == OfficesInv /\ [OfficesNext]_officeVars => OfficesInv'
<1> SUFFICES ASSUME OfficesInv, [OfficesNext]_officeVars PROVE OfficesInv'
  OBVIOUS
<1>0. /\ offices \in Hierarchy /\ roster \in Roster
      /\ \A i \in OfficeRequests : ofc[i] \in OfficeReq /\ Sound(ofc[i])
      /\ NoOfficeRequest \in OfficeReq /\ Sound(NoOfficeRequest)
      /\ DefaultOffices \in Hierarchy
  BY DefaultTyped DEF OfficesInv
<1>1. ASSUME NEW i \in OfficeRequests, OfficeRequest(i)
      PROVE  OfficesInv'
  <2>1. PICK op \in {"upsert", "normalize", "move", "onboard"}, o \in {offices, DefaultOffices} :
            OfcTo(i, [NoOfficeRequest EXCEPT !.pc = "agents", !.op = op, !.o = o])
    BY <1>1 DEF OfficeRequest, Loaded
  <2> DEFINE x == [NoOfficeRequest EXCEPT !.pc = "agents", !.op = op, !.o = o]
  <2>2. x \in OfficeReq
    BY <1>0 DEF OfficeReq, OfficePc, OfficeOp
  <2>3. x.pc = "agents" /\ x.who = None
    BY <1>0 DEF OfficeReq, NoOfficeRequest
  <2>4. Sound(x)
    BY <2>3 DEF Sound
  <2>5. UNCHANGED <<offices, roster>>
    BY <1>1 DEF OfficeRequest
  <2> HIDE DEF x
  <2> QED
    BY <1>0, <2>1, <2>2, <2>4, <2>5, RequestStep DEF x
<1>2. ASSUME NEW i \in OfficeRequests, UpsertNode(i)
      PROVE  OfficesInv'
  <2>0. PICK g \in Rosters, f \in OfficeIds, n \in Nodes : \E members \in Sanitized(n.members) :
          \/ /\ \A x \in {n.leader} \cup members : x \in Admitted(g)
             /\ OfcTo(i, [ofc[i] EXCEPT !.pc = "save",
                                        !.o = Upserted(@, f, n.leader, members)])
          \/ OfcTo(i, NoOfficeRequest)
    BY <1>2 DEF UpsertNode, Refuse
  <2>1. PICK members \in Sanitized(n.members) :
          \/ /\ \A x \in {n.leader} \cup members : x \in Admitted(g)
             /\ OfcTo(i, [ofc[i] EXCEPT !.pc = "save",
                                        !.o = Upserted(@, f, n.leader, members)])
          \/ OfcTo(i, NoOfficeRequest)
    BY <2>0
  <2>2. g \in Roster
    BY <1>0 DEF Rosters, Loaded, Roster
  <2>3. UNCHANGED <<offices, roster>> /\ ofc[i].pc = "agents"
    BY <1>2 DEF UpsertNode, Asks
  <2>4. CASE OfcTo(i, NoOfficeRequest)
    BY <1>0, <2>3, <2>4, RequestStep
  <2>5. CASE /\ \A x \in {n.leader} \cup members : x \in Admitted(g)
             /\ OfcTo(i, [ofc[i] EXCEPT !.pc = "save",
                                        !.o = Upserted(@, f, n.leader, members)])
    <3> DEFINE new == Upserted(ofc[i].o, f, n.leader, members)
               x   == [ofc[i] EXCEPT !.pc = "save", !.o = new]
    <3>1. ofc[i].o \in Hierarchy
      BY <1>0 DEF OfficeReq
    <3>2. new \in Hierarchy
      BY <2>2, <2>5, <3>1, UpsertedTyped
    <3> HIDE DEF new
    <3>3. x \in OfficeReq /\ x.pc = "save" /\ x.who = ofc[i].who
      BY <1>0, <3>2 DEF OfficeReq, OfficePc
    <3>4. Sound(x)
      BY <1>0, <2>3, <3>3 DEF Sound
    <3>5. OfcTo(i, x)
      BY <2>5 DEF new
    <3> HIDE DEF x
    <3> QED
      BY <1>0, <2>3, <3>3, <3>4, <3>5, RequestStep
  <2> QED
    BY <2>1, <2>4, <2>5
<1>3. ASSUME NEW i \in OfficeRequests, NormalizeIdentities(i)
      PROVE  OfficesInv'
  <2>1. PICK g \in Rosters : \E pick \in Picks(g) :
            OfcTo(i, [ofc[i] EXCEPT !.pc = "save", !.o = Normalized(@, g, pick)])
    BY <1>3 DEF NormalizeIdentities
  <2>2. g \in Roster
    BY <1>0 DEF Rosters, Loaded, Roster
  <2>3. UNCHANGED <<offices, roster>> /\ ofc[i].pc = "agents"
    BY <1>3 DEF NormalizeIdentities, Asks
  <2>9. PICK pick \in Picks(g) :
            OfcTo(i, [ofc[i] EXCEPT !.pc = "save", !.o = Normalized(@, g, pick)])
    BY <2>1
  <2> DEFINE new == Normalized(ofc[i].o, g, pick)
             x   == [ofc[i] EXCEPT !.pc = "save", !.o = new]
  <2>4. ofc[i].o \in Hierarchy
    BY <1>0 DEF OfficeReq
  <2>5. new \in Hierarchy
    BY <2>2, <2>4, NormalizedTyped
  <2>6. OfcTo(i, x)
    BY <2>9
  <2> HIDE DEF new
  <2>7. x \in OfficeReq /\ x.pc = "save" /\ x.who = ofc[i].who
    BY <1>0, <2>5 DEF OfficeReq, OfficePc
  <2>8. Sound(x)
    BY <1>0, <2>3, <2>7 DEF Sound
  <2> HIDE DEF x
  <2> QED
    BY <1>0, <2>3, <2>6, <2>7, <2>8, RequestStep
<1>4. ASSUME NEW i \in OfficeRequests, MoveMember(i)
      PROVE  OfficesInv'
  <2>1. PICK g \in Rosters, a \in Agents, f \in OfficeIds :
          \/ /\ ~ Leads(ofc[i].o, a)
             /\ OfcTo(i, [ofc[i] EXCEPT !.pc = "save", !.o = Moved(@, a, f),
                                        !.who = a, !.office = f])
          \/ OfcTo(i, NoOfficeRequest)
    BY <1>4 DEF MoveMember, Movable, Refuse
  <2>2. UNCHANGED <<offices, roster>>
    BY <1>4 DEF MoveMember
  <2>3. CASE OfcTo(i, NoOfficeRequest)
    BY <1>0, <2>2, <2>3, RequestStep
  <2>4. CASE /\ ~ Leads(ofc[i].o, a)
             /\ OfcTo(i, [ofc[i] EXCEPT !.pc = "save", !.o = Moved(@, a, f),
                                        !.who = a, !.office = f])
    <3> DEFINE new == Moved(ofc[i].o, a, f)
               x   == [ofc[i] EXCEPT !.pc = "save", !.o = new, !.who = a, !.office = f]
    <3>1. ofc[i].o \in Hierarchy
      BY <1>0 DEF OfficeReq
    <3>2. new \in Hierarchy /\ Placed(new, a, f)
      BY <2>4, <3>1, MovedOnce
    <3>3. OfcTo(i, x)
      BY <2>4
    <3> HIDE DEF new
    <3>4. x \in OfficeReq
      BY <1>0, <3>2 DEF OfficeReq, OfficePc
    <3>5. x.pc = "save" /\ x.o = new /\ x.who = a /\ x.office = f
      BY <1>0 DEF OfficeReq
    <3>6. Sound(x)
      BY <3>2, <3>5 DEF Sound
    <3> HIDE DEF x
    <3> QED
      BY <1>0, <2>2, <3>3, <3>4, <3>6, RequestStep
  <2> QED
    BY <2>1, <2>3, <2>4
<1>5. ASSUME NEW i \in OfficeRequests, RequestOnboarding(i)
      PROVE  OfficesInv'
  <2>1. PICK g \in Rosters, a \in Agents, f \in OfficeIds :
          \/ OfcTo(i, [ofc[i] EXCEPT !.pc = "register", !.who = a, !.office = f,
                         !.g = [g EXCEPT ![a] = [state |-> "down", load |-> 0]]])
          \/ OfcTo(i, NoOfficeRequest)
    BY <1>5 DEF RequestOnboarding, Refuse
  <2>2. UNCHANGED <<offices, roster>>
    BY <1>5 DEF RequestOnboarding
  <2> DEFINE known == [g EXCEPT ![a] = [state |-> "down", load |-> 0]]
             x   == [ofc[i] EXCEPT !.pc = "register", !.who = a, !.office = f, !.g = known]
  <2>3. CASE OfcTo(i, NoOfficeRequest)
    BY <1>0, <2>2, <2>3, RequestStep
  <2>4. CASE OfcTo(i, x)
    <3>1. [state |-> "down", load |-> 0] \in AgentRow
      BY DEF AgentRow
    <3>2. known \in Roster
      BY <1>0, <3>1 DEF Rosters, Loaded, Roster
    <3> HIDE DEF known
    <3>3. x \in OfficeReq
      BY <1>0, <3>2 DEF OfficeReq, OfficePc
    <3>4. x.pc = "register" /\ x.who = a /\ x.office = f
      BY <1>0 DEF OfficeReq
    <3>5. Sound(x)
      BY <3>4 DEF Sound
    <3> HIDE DEF x
    <3> QED
      BY <1>0, <2>2, <2>4, <3>3, <3>5, RequestStep
  <2> QED
    BY <2>1, <2>3, <2>4
<1>6. ASSUME NEW i \in OfficeRequests, SaveNewAgent(i)
      PROVE  OfficesInv'
  <2>1. ofc[i].pc = "register" /\ ofc[i].who \in Agents /\ ofc[i].office \in OfficeIds
    BY <1>0, <1>6 DEF SaveNewAgent, Sound
  <2>2. roster' \in Roster /\ offices' = offices
    BY <1>0, <1>6 DEF SaveNewAgent, Stored, OfficeReq
  <2>3. \/ /\ ~ Leads(ofc[i].o, ofc[i].who)
           /\ OfcTo(i, [ofc[i] EXCEPT !.pc = "save",
                                      !.o = Moved(@, ofc[i].who, ofc[i].office)])
        \/ OfcTo(i, NoOfficeRequest)
    BY <1>6 DEF SaveNewAgent, Refuse
  <2>4. CASE OfcTo(i, NoOfficeRequest)
    BY <1>0, <2>2, <2>4, RequestStep
  <2>5. CASE /\ ~ Leads(ofc[i].o, ofc[i].who)
             /\ OfcTo(i, [ofc[i] EXCEPT !.pc = "save",
                                        !.o = Moved(@, ofc[i].who, ofc[i].office)])
    <3> DEFINE new == Moved(ofc[i].o, ofc[i].who, ofc[i].office)
               x   == [ofc[i] EXCEPT !.pc = "save", !.o = new]
    <3>1. ofc[i].o \in Hierarchy
      BY <1>0 DEF OfficeReq
    <3>2. new \in Hierarchy /\ Placed(new, ofc[i].who, ofc[i].office)
      BY <2>1, <2>5, <3>1, MovedOnce
    <3>3. OfcTo(i, x)
      BY <2>5
    <3> HIDE DEF new
    <3>4. x \in OfficeReq
      BY <1>0, <3>2 DEF OfficeReq, OfficePc
    <3>5. x.pc = "save" /\ x.o = new /\ x.who = ofc[i].who /\ x.office = ofc[i].office
      BY <1>0 DEF OfficeReq
    <3>6. Sound(x)
      BY <3>2, <3>5 DEF Sound
    <3> HIDE DEF x
    <3> QED
      BY <1>0, <2>2, <3>3, <3>4, <3>6, RequestStep
  <2> QED
    BY <2>3, <2>4, <2>5
<1>7. ASSUME NEW i \in OfficeRequests, SaveOffices(i)
      PROVE  OfficesInv'
  <2>1. offices' \in Hierarchy /\ roster' = roster
    BY <1>0, <1>7 DEF SaveOffices, Stored, OfficeReq
  <2> QED
    BY <1>0, <1>7, <2>1, RequestStep DEF SaveOffices
<1>8. CASE AgentReports
  <2>1. roster' \in Roster
    BY <1>0, <1>8, OfficesAssumption DEF AgentReports, Roster
  <2> QED
    BY <1>8, <2>1 DEF AgentReports, OfficesInv
<1>9. CASE UNCHANGED officeVars
  BY <1>9 DEF officeVars, OfficesInv
<1> QED
  BY <1>1, <1>2, <1>3, <1>4, <1>5, <1>6, <1>7, <1>8, <1>9 DEF OfficesNext

(* A step that ends a move stores where it put the agent, or nothing.      *)
LEMMA StoredMoves ==
    ASSUME OfficesInv, [OfficesNext]_officeVars, NEW i \in OfficeRequests,
           ofc[i].pc = "save", ofc[i].who # None, offices' # offices, ofc'[i] # ofc[i]
    PROVE  Placed(offices', ofc[i].who, ofc[i].office)
<1>1. PICK j \in OfficeRequests : SaveOffices(j)
  BY DEF OfficesNext, officeVars, OfficeRequest, UpsertNode, NormalizeIdentities, MoveMember,
         RequestOnboarding, SaveNewAgent, AgentReports
<1>2. i = j
  BY <1>1 DEF SaveOffices, OfcTo, OfficesInv
<1>3. offices' = ofc[i].o
  BY <1>1, <1>2 DEF SaveOffices, Stored
<1>4. Placed(ofc[i].o, ofc[i].who, ofc[i].office)
  BY DEF OfficesInv, Sound
<1> QED
  BY <1>3, <1>4 DEF Placed, Places, Offered, PeopleOf, Full

(* Whom the hub knows keeps its name; any other gets the name of somebody  *)
(* known, or keeps its own for good.                                       *)
LEMMA RenamedOnce ==
    ASSUME NEW g \in Roster, NEW pick \in Picks(g), NEW x
    PROVE  /\ x \in Admitted(g) => Renamed(g, pick, x) = x
           /\ Renamed(g, pick, Renamed(g, pick, x)) = Renamed(g, pick, x)
<1>1. x \in Admitted(g) => Renamed(g, pick, x) = x
  BY DEF Renamed
<1>2. \A role : Canonical(pick, role) \subseteq Admitted(g)
  BY DEF Canonical, Picks, Admitted
<1>3. Renamed(g, pick, x) = x \/ Renamed(g, pick, x) \in Admitted(g)
  <2>1. CASE x \in Admitted(g) \/ Canonical(pick, RoleIn(g, x)) = {}
    BY <2>1 DEF Renamed
  <2>2. CASE ~ (x \in Admitted(g) \/ Canonical(pick, RoleIn(g, x)) = {})
    BY <1>2, <2>2 DEF Renamed
  <2> QED
    BY <2>1, <2>2
<1>4. CASE Renamed(g, pick, x) = x
  BY <1>1, <1>4
<1>5. CASE Renamed(g, pick, x) \in Admitted(g)
  BY <1>5 DEF Renamed
<1> QED
  BY <1>1, <1>3, <1>4, <1>5

(* What normalizing makes of one office.                                   *)
LEMMA NormalizedOffice ==
    ASSUME NEW o \in Hierarchy, NEW g \in Roster, NEW pick \in Picks(g), NEW f \in OfficeIds
    PROVE  /\ o[f] = None => Normalized(o, g, pick)[f] = None
           /\ o[f] # None =>
                /\ Normalized(o, g, pick)[f] # None
                /\ Normalized(o, g, pick)[f].leader = Renamed(g, pick, o[f].leader)
                /\ Normalized(o, g, pick)[f].members =
                     {Renamed(g, pick, x) : x \in o[f].members}
                       \ {Renamed(g, pick, o[f].leader)}
                /\ Normalized(o, g, pick)[f] =
                     Office(Normalized(o, g, pick)[f].leader, Normalized(o, g, pick)[f].members)
<1> DEFINE leader  == Renamed(g, pick, o[f].leader)
           members == {Renamed(g, pick, x) : x \in o[f].members} \ {leader}
<1>1. Normalized(o, g, pick)[f] = IF o[f] = None THEN None ELSE Office(leader, members)
  BY DEF Normalized
<1>2. Office(leader, members).leader = leader /\ Office(leader, members).members = members
  BY DEF Office
<1>3. o[f] # None => Office(leader, members) # None
  <2>1. Normalized(o, g, pick)[f] \in OfficeNode \cup {None}
    BY NormalizedTyped DEF Hierarchy
  <2> SUFFICES ASSUME o[f] # None, Office(leader, members) = None
               PROVE  FALSE
    OBVIOUS
  <2>2. \A x \in Identity : Renamed(g, pick, x) \in Identity
    <3>1. \A role : Canonical(pick, role) \subseteq Identity
      BY DEF Canonical, Picks, Identity
    <3> QED
      BY <3>1 DEF Renamed
  <2>3. o[f].leader \in Identity /\ o[f].members \subseteq Identity
    BY DEF Hierarchy, OfficeNode
  <2>4. Office(leader, members) \in OfficeNode
    BY <2>2, <2>3 DEF Office, OfficeNode
  <2> QED
    BY <2>4, OfficesAssumption
<1> HIDE DEF leader, members
<1>4. o[f] # None => /\ Normalized(o, g, pick)[f] # None
                     /\ Normalized(o, g, pick)[f].leader = leader
                     /\ Normalized(o, g, pick)[f].members = members
                     /\ Normalized(o, g, pick)[f] = Office(leader, members)
  BY <1>1, <1>2, <1>3
<1> QED
  BY <1>1, <1>4 DEF leader, members

(* Normalizing keeps whom the hub knows where it was, and once is enough.  *)
LEMMA NormalizedKeeps ==
    ASSUME NEW o \in Hierarchy, NEW g \in Roster, NEW pick \in Picks(g)
    PROVE  /\ \A x \in Admitted(g) : Places(o, x) \subseteq Places(Normalized(o, g, pick), x)
           /\ Normalized(Normalized(o, g, pick), g, pick) = Normalized(o, g, pick)
<1> DEFINE once  == Normalized(o, g, pick)
           twice == Normalized(once, g, pick)
<1>1. once \in Hierarchy
  BY NormalizedTyped
<1>2. ASSUME NEW x \in Admitted(g), NEW f \in Places(o, x)
      PROVE  f \in Places(once, x)
  <2>1. f \in OfficeIds /\ o[f] # None /\ x \in PeopleOf(o, f)
    BY <1>2 DEF Places, Offered
  <2>2. Renamed(g, pick, x) = x
    BY <1>2, RenamedOnce
  <2>3. /\ once[f] # None /\ once[f].leader = Renamed(g, pick, o[f].leader)
        /\ once[f].members = {Renamed(g, pick, y) : y \in o[f].members}
                               \ {Renamed(g, pick, o[f].leader)}
    BY <2>1, NormalizedOffice
  <2> HIDE DEF once
  <2>4. x \in PeopleOf(once, f)
    BY <2>1, <2>2, <2>3 DEF PeopleOf
  <2> QED
    BY <2>1, <2>3, <2>4 DEF Places, Offered
<1>3. ASSUME NEW f \in OfficeIds
      PROVE  twice[f] = once[f]
  <2>1. CASE o[f] = None
    BY <1>1, <2>1, NormalizedOffice
  <2>2. CASE o[f] # None
    <3> DEFINE R(x) == Renamed(g, pick, x)
    <3>1. /\ once[f] # None /\ once[f].leader = R(o[f].leader)
          /\ once[f].members = {R(x) : x \in o[f].members} \ {R(o[f].leader)}
          /\ once[f] = Office(once[f].leader, once[f].members)
      BY <2>2, NormalizedOffice
    <3>2. /\ twice[f].leader = R(once[f].leader)
          /\ twice[f].members = {R(x) : x \in once[f].members} \ {R(once[f].leader)}
          /\ twice[f] = Office(twice[f].leader, twice[f].members)
      BY <1>1, <3>1, NormalizedOffice
    <3>3. \A x : R(R(x)) = R(x)
      BY RenamedOnce
    <3> HIDE DEF R, once, twice
    <3>4. twice[f].leader = once[f].leader
      BY <3>1, <3>2, <3>3
    <3>5. \A x \in once[f].members : R(x) = x
      BY <3>1, <3>3
    <3>6. twice[f].members = once[f].members
      BY <3>1, <3>2, <3>3, <3>5
    <3> QED
      BY <3>1, <3>2, <3>4, <3>6
  <2> QED
    BY <2>1, <2>2
<1>4. twice = once
  BY <1>3 DEF Normalized
<1> QED
  BY <1>2, <1>4

-----------------------------------------------------------------------------
(* Every behaviour keeps the invariant.                                    *)
LEMMA OfficesInvariance == RecordsSpec => []OfficesInv
<1>1. RecordsInit => OfficesInv
  BY OfficesInitInv DEF RecordsInit
<1>2. [RecordsNext]_recordVars => [OfficesNext]_officeVars
  BY DEF RecordsNext, recordVars
<1>3. OfficesInv /\ [RecordsNext]_recordVars => OfficesInv'
  BY <1>2, OfficesStepInv
<1> QED
  BY <1>1, <1>3, PTL DEF RecordsSpec

(* NormalizingKeepsTheKnown holds for any offices, agents and older names, *)
(* and whichever agents the hub picks for their roles.                     *)
THEOREM NormalizingIsSound == RecordsSpec => []NormalizingKeepsTheKnown
<1>1. OfficesInv => NormalizingKeepsTheKnown
  BY NormalizedKeeps DEF OfficesInv, NormalizingKeepsTheKnown
<1> QED
  BY <1>1, OfficesInvariance, PTL

(* MovesLeaveOnePlace holds for any offices, agents and number of members  *)
(* an office may have, however requests overlap and whatever loads and     *)
(* saves fail.                                                             *)
THEOREM MovesAreSound == RecordsSpec => MovesLeaveOnePlace
<1>1. RecordsSpec => []OfficesInv
  BY OfficesInvariance
<1>2. [RecordsNext]_recordVars => [OfficesNext]_officeVars
  BY DEF RecordsNext, recordVars
<1> DEFINE Move == \A i \in OfficeRequests :
                      ofc[i].pc = "save" /\ ofc[i].who # None /\ offices' # offices /\ ofc' # ofc
                      /\ ofc'[i] # ofc[i]
                         => Placed(offices', ofc[i].who, ofc[i].office)
<1>4. OfficesInv /\ [RecordsNext]_recordVars => [Move]_officeVars
  BY <1>2, StoredMoves
<1>5. RecordsSpec => [][Move]_officeVars
  <2> HIDE DEF Move
  <2> QED
    BY <1>1, <1>4, PTL DEF RecordsSpec
<1> QED
  BY <1>5 DEF MovesLeaveOnePlace

-----------------------------------------------------------------------------
(* Repositories.                                                           *)

BranchState == [Branches -> Seq(Commits) \cup {None}]

RunPc == {"idle", "fetch", "checkout", "add", "status", "commit", "push", "head", "llm", "done"}

RunState ==
    [pc : RunPc, to : Branches \cup {None}, from : Branches \cup {None}, push : BOOLEAN,
     stage : BOOLEAN, fetch : BOOLEAN, llm : BOOLEAN, commit : Commits]

GitTypeOK ==
    /\ {branch, tracking, remote} \subseteq BranchState
    /\ {tree, index, fresh} \subseteq Commits
    /\ run \in RunState
    /\ run.pc # "idle" => run.to \in Branches /\ run.from \in Branches

Holds(state, b, c) == state[b] # None /\ Contains(state[b], c)

(* What a run has committed is on its branch until it is pushed, and then  *)
(* on the remote; before its commit it has none.                           *)
RunIsOnTheWay ==
    /\ run.pc \in {"idle", "fetch", "checkout", "add", "status", "commit"} => run.commit = {}
    /\ run.pc \in {"add", "status", "commit", "push"} => branch[run.to] # None
    /\ run.pc = "push" /\ run.commit # {} => Contains(branch[run.to], run.commit)
    /\ run.pc \in {"head", "llm", "done"} /\ run.push /\ run.commit # {}
         => Holds(remote, run.to, run.commit)

GitInv ==
    /\ GitTypeOK
    /\ RunIsOnTheWay
    /\ DoneWorkStaysPublished
    /\ \A p \in pushed : p.to \in Branches

-----------------------------------------------------------------------------
(* What extends a branch holds what the branch holds. *)
LEMMA PrefixHolds ==
    ASSUME NEW S, NEW old \in Seq(S), NEW new \in Seq(S), IsPrefix(old, new),
           NEW c, Contains(old, c)
    PROVE  Contains(new, c)
<1>1. PICK k \in 1..Len(old) : old[k] = c
  BY DEF Contains
<1>2. /\ Len(old) \in Nat /\ Len(new) \in Nat /\ Len(old) <= Len(new)
      /\ SubSeq(old, 1, Len(old)) = SubSeq(new, 1, Len(old))
  BY DEF IsPrefix
<1>3. SubSeq(old, 1, Len(old))[k] = old[k] /\ SubSeq(new, 1, Len(old))[k] = new[k]
  BY <1>2
<1>4. k \in 1..Len(new) /\ new[k] = c
  BY <1>1, <1>2, <1>3
<1> QED
  BY <1>4 DEF Contains

(* A commit on top of a branch is on it, with all that was there before. *)
LEMMA AppendHolds ==
    ASSUME NEW S, NEW old \in Seq(S), NEW c \in S
    PROVE  /\ Append(old, c) \in Seq(S) /\ Contains(Append(old, c), c)
           /\ \A e : Contains(old, e) => Contains(Append(old, c), e)
BY DEF Contains

(* A push of the worker, or of others, takes nothing off the remote.       *)
Extends(state, next) ==
    \A b \in Branches : \A c : Holds(state, b, c) => Holds(next, b, c)

(* A push that is a fast forward keeps every commit of every branch. *)
LEMMA PushExtends ==
    ASSUME NEW state \in BranchState, NEW b \in Branches, NEW new \in Seq(Commits),
           FastForward(state[b], new)
    PROVE  /\ [state EXCEPT ![b] = new] \in BranchState
           /\ Extends(state, [state EXCEPT ![b] = new])
<1> DEFINE next == [state EXCEPT ![b] = new]
<1>1. next \in BranchState /\ next[b] = new /\ \A d \in Branches \ {b} : next[d] = state[d]
  BY DEF BranchState
<1>2. ASSUME NEW d \in Branches, NEW c, Holds(state, d, c)
      PROVE  Holds(next, d, c)
  <2>1. CASE d # b
    BY <1>1, <1>2, <2>1 DEF Holds
  <2>2. CASE d = b
    <3>1. state[b] \in Seq(Commits) /\ IsPrefix(state[b], new) /\ Contains(state[b], c)
      BY <1>2, <2>2 DEF Holds, FastForward, BranchState
    <3>2. Contains(new, c)
      BY <3>1, PrefixHolds
    <3> QED
      BY <1>1, <2>2, <3>2, GitAssumption DEF Holds
  <2> QED
    BY <2>1, <2>2
<1> QED
  BY <1>1, <1>2 DEF Extends

(* A run that goes on keeps what it was asked for. *)
LEMMA RunGoesOn ==
    ASSUME NEW pc \in RunPc, NEW r \in RunState, NEW q, q = [r EXCEPT !.pc = pc]
    PROVE  /\ q \in RunState
           /\ q.pc = pc /\ q.to = r.to /\ q.from = r.from
           /\ q.push = r.push /\ q.commit = r.commit
<1>1. q \in RunState
  BY DEF RunState, RunPc
<1>2. q.pc = pc /\ q.to = r.to /\ q.from = r.from /\ q.commit = r.commit
  BY DEF RunState, RunPc
<1>3. q.push = r.push
  BY DEF RunState, RunPc
<1> QED
  BY <1>1, <1>2, <1>3

(* A worker without a request has nothing committed for one. *)
LEMMA NoRunIdle == NoRun \in RunState /\ NoRun.pc = "idle" /\ NoRun.commit = {}
<1>1. {} \in Commits
  BY DEF Commits
<1>2. NoRun \in RunState
  BY <1>1 DEF NoRun, RunState, RunPc
<1>3. NoRun.pc = "idle" /\ NoRun.commit = {}
  BY DEF NoRun
<1> QED
  BY <1>2, <1>3

-----------------------------------------------------------------------------
(* At first nothing was answered, and the remote has an empty branch. *)
LEMMA InitInv == GitInit => GitInv
<1> SUFFICES ASSUME GitInit PROVE GitInv
  OBVIOUS
<1>1. <<>> \in Seq(Commits) /\ {} \in Commits /\ Edits \in Commits
  BY DEF Commits
<1>2. remote \in BranchState
  BY <1>1 DEF GitInit, BranchState
<1>3. GitTypeOK
  BY <1>1, <1>2, NoRunIdle DEF GitInit, GitTypeOK
<1> QED
  BY <1>3, NoRunIdle DEF GitInit, GitInv, RunIsOnTheWay, DoneWorkStaysPublished

(* The step of a run, of an executor or of others keeps the invariant.     *)
LEMMA StepInv == GitInv /\ [GitNext]_gitVars => GitInv'
<1> SUFFICES ASSUME GitInv, [GitNext]_gitVars PROVE GitInv'
  OBVIOUS
<1> USE DEF GitInv
<1>0. /\ NoRun \in RunState /\ NoRun.pc = "idle" /\ NoRun.commit = {}
      /\ run \in RunState
  BY NoRunIdle DEF GitTypeOK
<1>13. \A pc \in RunPc : run' = [run EXCEPT !.pc = pc] =>
        /\ run' \in RunState /\ run'.pc = pc /\ run'.to = run.to
        /\ run'.from = run.from /\ run'.push = run.push /\ run'.commit = run.commit
  <2> SUFFICES ASSUME NEW pc \in RunPc, run' = [run EXCEPT !.pc = pc]
               PROVE  /\ run' \in RunState /\ run'.pc = pc /\ run'.to = run.to
                      /\ run'.from = run.from /\ run'.push = run.push
                      /\ run'.commit = run.commit
    OBVIOUS
  <2> QED
    BY <1>0, RunGoesOn
<1>1. CASE AskRun
  BY <1>1 DEF AskRun, RunState, RunPc, GitTypeOK, RunIsOnTheWay, DoneWorkStaysPublished, Commits
<1>2. CASE Fetch
  <2>1. run.pc = "fetch" /\ run.commit = {} /\ run.to \in Branches /\ run.from \in Branches
    BY <1>2 DEF Fetch, At, GitTypeOK, RunIsOnTheWay
  <2>2. tracking' \in BranchState
    BY <1>2 DEF Fetch, Command, GitTypeOK
  <2>3. run' = [run EXCEPT !.pc = "checkout"] \/ run' = NoRun
    BY <1>2 DEF Fetch, Command, GoesTo, Ends
  <2>4. /\ run' \in RunState /\ run'.commit = {} /\ run'.pc \in {"idle", "checkout"}
        /\ run'.pc # "idle" => run'.to = run.to /\ run'.from = run.from
    BY <1>0, <1>13, <2>1, <2>3 DEF RunPc
  <2>5. UNCHANGED <<branch, remote, tree, index, fresh, pushed>>
    BY <1>2 DEF Fetch
  <2>6. GitTypeOK'
    BY <2>1, <2>2, <2>4, <2>5 DEF GitTypeOK
  <2>7. RunIsOnTheWay'
    BY <2>4 DEF RunIsOnTheWay
  <2> QED
    BY <2>5, <2>6, <2>7 DEF DoneWorkStaysPublished
<1>3. CASE Checkout
  <2>1. run.pc = "checkout" /\ run.commit = {} /\ run.to \in Branches /\ run.from \in Branches
    BY <1>3 DEF Checkout, At, GitTypeOK, RunIsOnTheWay
  <2>2. Start # None => Start \in Seq(Commits)
    BY <2>1 DEF Start, GitTypeOK, BranchState
  <2>3. branch' \in BranchState
    BY <1>3, <2>1, <2>2 DEF Checkout, Command, GitTypeOK, BranchState
  <2>4. \/ run' = NoRun
        \/ /\ run' = [run EXCEPT !.pc = "add"] \/ run' = [run EXCEPT !.pc = "status"]
           /\ branch'[run.to] # None
    BY <1>3, <2>1, <2>2 DEF Checkout, Command, GoesTo, Ends, GitTypeOK, BranchState
  <2> QED
    BY <1>0, <1>13, <1>3, <2>1, <2>3, <2>4
       DEF Checkout, GitTypeOK, RunIsOnTheWay, DoneWorkStaysPublished, RunPc
<1>4. CASE Add
  <2>1. run.pc = "add" /\ run.commit = {} /\ branch[run.to] # None
    BY <1>4 DEF Add, At, RunIsOnTheWay
  <2>2. run' = [run EXCEPT !.pc = "status"] \/ run' = NoRun
    BY <1>4 DEF Add, Command, GoesTo, Ends
  <2>3. {tree', index'} \subseteq Commits
    BY <1>4 DEF Add, Command, GitTypeOK, Commits
  <2> QED
    BY <1>0, <1>13, <1>4, <2>1, <2>2, <2>3
       DEF Add, GitTypeOK, RunIsOnTheWay, DoneWorkStaysPublished, RunPc
<1>5. CASE Status
  <2>1. run.pc = "status" /\ run.commit = {} /\ branch[run.to] # None
    BY <1>5 DEF Status, At, RunIsOnTheWay
  <2>2. run' = NoRun \/ \E pc \in {"commit", "push", "head"} : run' = [run EXCEPT !.pc = pc]
    BY <1>5 DEF Status, GoesTo, Ends
  <2> QED
    BY <1>0, <1>13, <1>5, <2>1, <2>2
       DEF Status, GitTypeOK, RunIsOnTheWay, DoneWorkStaysPublished, RunPc
<1>6. CASE Commit
  <2>1. run.pc = "commit" /\ run.commit = {} /\ run.to \in Branches /\ run.from \in Branches
    BY <1>6 DEF Commit, At, GitTypeOK, RunIsOnTheWay
  <2>2. CASE /\ branch' = [branch EXCEPT ![run.to] = Append(@, index)]
             /\ index' = {}
             /\ \/ run' = [run EXCEPT !.commit = index, !.pc = IF run.push THEN "push" ELSE "head"]
                \/ Ends
    <3> SUFFICES ASSUME branch[run.to] # None PROVE GitInv'
      BY <1>6, <2>1 DEF Commit, At, RunIsOnTheWay
    <3>1. /\ branch[run.to] \in Seq(Commits) /\ index \in Commits
      BY <2>1 DEF GitTypeOK, BranchState
    <3>2. Append(branch[run.to], index) \in Seq(Commits) /\ Contains(Append(branch[run.to], index), index)
      BY <3>1, AppendHolds
    <3>3. branch' \in BranchState /\ branch'[run.to] = Append(branch[run.to], index)
      BY <2>1, <2>2, <3>2 DEF GitTypeOK, BranchState
    <3>4. branch'[run.to] # None
      BY <3>2, <3>3, GitAssumption
    <3>5. /\ run' \in RunState
          /\ run'.pc # "idle" => run'.to = run.to /\ run'.from = run.from
      BY <1>0, <2>2, <3>1 DEF Ends, RunState, RunPc
    <3>6. run'.pc \in {"idle", "push", "head"}
      BY <1>0, <2>2 DEF Ends, RunState
    <3>7. run'.pc # "idle" => run'.commit = index
      BY <1>0, <2>2 DEF Ends, RunState
    <3>8. run'.pc = "idle" => run'.commit = {}
      BY <1>0, <2>2 DEF Ends, RunState
    <3>9. run'.pc = "head" => ~ run'.push
      BY <1>0, <2>2 DEF Ends, RunState
    <3>10. UNCHANGED <<tracking, remote, tree, fresh, pushed>> /\ index' \in Commits
      BY <1>6, <2>2 DEF Commit, Commits
    <3>11. GitTypeOK'
      BY <2>1, <3>3, <3>5, <3>10 DEF GitTypeOK
    <3>12. RunIsOnTheWay'
      BY <3>2, <3>3, <3>4, <3>5, <3>6, <3>7, <3>8, <3>9 DEF RunIsOnTheWay
    <3> QED
      BY <3>10, <3>11, <3>12 DEF DoneWorkStaysPublished
  <2>3. CASE Ends /\ UNCHANGED <<branch, index>>
    BY <1>0, <1>13, <1>6, <2>3
       DEF Commit, Ends, GitTypeOK, RunIsOnTheWay, DoneWorkStaysPublished, RunPc
  <2> QED
    BY <1>6, <2>2, <2>3 DEF Commit
<1>7. CASE Push
  <2>1. /\ run.pc = "push" /\ run.to \in Branches /\ run.from \in Branches
        /\ branch[run.to] # None /\ branch[run.to] \in Seq(Commits)
        /\ run.commit # {} => Contains(branch[run.to], run.commit)
    BY <1>7 DEF Push, At, GitTypeOK, RunIsOnTheWay, BranchState
  <2>2. CASE UNCHANGED <<remote, tracking>> /\ Ends
    BY <1>0, <1>13, <1>7, <2>2
       DEF Push, Ends, GitTypeOK, RunIsOnTheWay, DoneWorkStaysPublished, RunPc
  <2>3. CASE /\ FastForward(remote[run.to], branch[run.to])
             /\ remote' = [remote EXCEPT ![run.to] = branch[run.to]]
             /\ tracking' = [tracking EXCEPT ![run.to] = branch[run.to]]
             /\ GoesTo("head") \/ Ends
    <3>1. remote' \in BranchState /\ Extends(remote, remote')
      BY <2>1, <2>3, PushExtends DEF GitTypeOK
    <3>2. tracking' \in BranchState /\ remote'[run.to] = branch[run.to]
      BY <2>1, <2>3 DEF GitTypeOK, BranchState
    <3>3. run' = [run EXCEPT !.pc = "head"] \/ run' = NoRun
      BY <2>3 DEF GoesTo, Ends
    <3>4. GitTypeOK'
      BY <1>0, <1>13, <1>7, <2>1, <3>1, <3>2, <3>3 DEF Push, GitTypeOK, RunPc
    <3>5. RunIsOnTheWay'
      BY <1>0, <1>13, <2>1, <3>2, <3>3 DEF RunIsOnTheWay, Holds, RunPc
    <3>6. DoneWorkStaysPublished' /\ pushed' = pushed
      BY <1>7, <3>1 DEF Push, DoneWorkStaysPublished, Extends, Holds
    <3> QED
      BY <3>4, <3>5, <3>6
  <2> QED
    BY <1>7, <2>2, <2>3 DEF Push, Command
<1>8. CASE RevParse \/ Round
  <2>1. run.pc \in {"head", "llm"}
    BY <1>8 DEF RevParse, Round, At
  <2>2. run' = NoRun \/ \E pc \in {"llm", "done"} : run' = [run EXCEPT !.pc = pc]
    BY <1>8 DEF RevParse, Round, GoesTo, Ends
  <2> QED
    BY <1>0, <1>13, <1>8, <2>1, <2>2
       DEF RevParse, Round, GitTypeOK, RunIsOnTheWay, DoneWorkStaysPublished, Holds, RunPc
<1>9. CASE ReportDone
  <2>1. run.pc = "done" /\ run.to \in Branches
    BY <1>9 DEF ReportDone, At, GitTypeOK
  <2>2. \A p \in pushed' : p.to \in Branches /\ Holds(remote, p.to, p.commit)
    BY <1>9, <2>1 DEF ReportDone, RunIsOnTheWay, DoneWorkStaysPublished, Holds, RunPc
  <2> QED
    BY <1>0, <1>13, <1>9, <2>2
       DEF ReportDone, Ends, GitTypeOK, RunIsOnTheWay, DoneWorkStaysPublished, Holds, RunPc
<1>10. CASE EditTree
  BY <1>10 DEF EditTree, GitTypeOK, RunIsOnTheWay, DoneWorkStaysPublished, Commits, Holds
<1>11. CASE OthersPush \/ OthersMerge
  <2>1. PICK b \in Branches, new \in Seq(Commits) :
            remote' = [remote EXCEPT ![b] = new] /\ FastForward(remote[b], new)
    <3>1. CASE OthersPush
      <4>1. PICK b \in Branches, e \in fresh :
                remote[b] # None /\ remote' = [remote EXCEPT ![b] = Append(@, {e})]
        BY <3>1 DEF OthersPush
      <4>2. remote[b] \in Seq(Commits) /\ {e} \in Commits
        BY <4>1 DEF GitTypeOK, BranchState, Commits
      <4>3. /\ Append(remote[b], {e}) \in Seq(Commits)
            /\ IsPrefix(remote[b], Append(remote[b], {e}))
        BY <4>2 DEF IsPrefix
      <4> QED
        BY <4>1, <4>3 DEF FastForward
    <3>2. CASE OthersMerge
      BY <3>2 DEF OthersMerge, GitTypeOK, BranchState
    <3> QED
      BY <1>11, <3>1, <3>2
  <2>2. remote' \in BranchState /\ Extends(remote, remote')
    BY <2>1, PushExtends DEF GitTypeOK
  <2>3. /\ UNCHANGED <<branch, tracking, tree, index, run, pushed>>
        /\ fresh' \in Commits
    BY <1>11 DEF OthersPush, OthersMerge, GitTypeOK, Commits
  <2>4. GitTypeOK'
    BY <2>2, <2>3 DEF GitTypeOK
  <2>5. RunIsOnTheWay'
    BY <2>2, <2>3 DEF RunIsOnTheWay, Extends, GitTypeOK
  <2> QED
    BY <2>2, <2>3, <2>4, <2>5 DEF DoneWorkStaysPublished, Extends, Holds
<1>12. CASE UNCHANGED gitVars
  BY <1>12 DEF gitVars, GitTypeOK, RunIsOnTheWay, DoneWorkStaysPublished, Holds, RunPc
<1> QED
  BY <1>1, <1>2, <1>3, <1>4, <1>5, <1>6, <1>7, <1>8, <1>9, <1>10, <1>11, <1>12 DEF GitNext

(* DoneWorkStaysPublished holds for any branches, edits and runs, and      *)
(* whatever fails, is killed or is pushed by others.                       *)
THEOREM WorkStaysPublished == RecordsSpec => []DoneWorkStaysPublished
<1>1. RecordsInit => GitInv
  BY InitInv DEF RecordsInit
<1>2. GitInv /\ [RecordsNext]_recordVars => GitInv'
  <2>1. [RecordsNext]_recordVars => [GitNext]_gitVars
    BY DEF RecordsNext, recordVars
  <2> QED
    BY <2>1, StepInv
<1>3. GitInv => DoneWorkStaysPublished
  BY DEF GitInv
<1> QED
  BY <1>1, <1>2, <1>3, PTL DEF RecordsSpec

-----------------------------------------------------------------------------
(* Token budgets: sums of reservations.                                    *)

UsageRow ==
    [mission : {c.mission : c \in Contracts}, owner : Owners, cost : Nat, day : Days, at : Nat]

RowTokens(r) == {<<r, n>> : n \in 1..r.cost}

(* A reservation counts for no more than its cost.                         *)
LEMMA RowTokensCount ==
    ASSUME NEW r, r.cost \in Nat
    PROVE  /\ IsFiniteSet(RowTokens(r)) /\ Cardinality(RowTokens(r)) <= r.cost
           /\ Cardinality(RowTokens(r)) \in Nat
<1> DEFINE f == [n \in 1..r.cost |-> <<r, n>>]
<1>1. f \in Surjection(1..r.cost, RowTokens(r))
  BY DEF Surjection, RowTokens
<1>2. IsFiniteSet(1..r.cost) /\ Cardinality(1..r.cost) = r.cost
  BY FS_Interval
<1> HIDE DEF f
<1>3. IsFiniteSet(RowTokens(r)) /\ Cardinality(RowTokens(r)) <= r.cost
  BY <1>1, <1>2, FS_Surjection
<1> QED
  BY <1>3, FS_CardinalityType

(* A sum of reservations is a number. *)
LEMMA SpentIsNat ==
    ASSUME NEW u \in SUBSET UsageRow, IsFiniteSet(u), NEW o, NEW days
    PROVE  IsFiniteSet(Tokens(u, o, days)) /\ Spent(u, o, days) \in Nat
<1> DEFINE v == {x \in u : x.owner = o /\ x.day \in days}
           f == [r \in v |-> RowTokens(r)]
           T == {RowTokens(r) : r \in v}
<1>1. IsFiniteSet(v)
  BY FS_Subset
<1>2. f \in Surjection(v, T)
  BY DEF Surjection
<1>3. \A S \in T : IsFiniteSet(S)
  BY RowTokensCount DEF UsageRow
<1> HIDE DEF f, v
<1>4. IsFiniteSet(T)
  BY <1>1, <1>2, FS_Surjection
<1> HIDE DEF T
<1>5. IsFiniteSet(UNION T)
  BY <1>3, <1>4, FS_UNION
<1>6. Tokens(u, o, days) = UNION T
  BY DEF Tokens, T, v, RowTokens
<1> QED
  BY <1>5, <1>6, FS_CardinalityType DEF Spent

(* Fewer reservations come to no more. *)
LEMMA SpentIsMonotone ==
    ASSUME NEW v \in SUBSET UsageRow, IsFiniteSet(v), NEW u \in SUBSET v, NEW o, NEW days
    PROVE  /\ u \in SUBSET UsageRow /\ IsFiniteSet(u)
           /\ Spent(u, o, days) \in Nat /\ Spent(v, o, days) \in Nat
           /\ Spent(u, o, days) <= Spent(v, o, days)
<1>1. IsFiniteSet(u) /\ u \in SUBSET UsageRow
  BY FS_Subset
<1>2. Tokens(u, o, days) \subseteq Tokens(v, o, days)
  BY DEF Tokens
<1> QED
  BY <1>1, <1>2, SpentIsNat, FS_Subset DEF Spent

(* What a reservation adds, for its owner, on its day. *)
LEMMA SpentWith ==
    ASSUME NEW u \in SUBSET UsageRow, IsFiniteSet(u), NEW row \in UsageRow, NEW o, NEW days
    PROVE  /\ u \cup {row} \in SUBSET UsageRow /\ IsFiniteSet(u \cup {row})
           /\ Spent(u, o, days) \in Nat /\ Spent(u \cup {row}, o, days) \in Nat
           /\ Spent(u \cup {row}, o, days) <= Spent(u, o, days) + row.cost
           /\ row.owner # o \/ row.day \notin days =>
                 Spent(u \cup {row}, o, days) = Spent(u, o, days)
<1> DEFINE v == u \cup {row}
           old == Tokens(u, o, days)
           new == Tokens(v, o, days)
           own == RowTokens(row)
<1>1. v \in SUBSET UsageRow /\ IsFiniteSet(v) /\ row.cost \in Nat
  BY FS_AddElement DEF UsageRow
<1>2. new \subseteq old \cup own
  BY DEF Tokens, RowTokens
<1>3. row.owner # o \/ row.day \notin days => new = old
  BY DEF Tokens
<1> HIDE DEF v
<1>4. /\ IsFiniteSet(old) /\ Cardinality(old) \in Nat
      /\ IsFiniteSet(new) /\ Cardinality(new) \in Nat
      /\ IsFiniteSet(own) /\ Cardinality(own) \in Nat /\ Cardinality(own) <= row.cost
  BY <1>1, SpentIsNat, RowTokensCount DEF Spent
<1> HIDE DEF old, new, own
<1>5. Cardinality(old \cup own) <= Cardinality(old) + Cardinality(own)
  <2>1. /\ IsFiniteSet(old \cap own)
        /\ Cardinality(old \cup own)
             = Cardinality(old) + Cardinality(own) - Cardinality(old \cap own)
    BY <1>4, FS_Union, FS_Intersection
  <2>2. Cardinality(old \cap own) \in Nat
    BY <2>1, FS_CardinalityType
  <2> QED
    BY <1>4, <2>1, <2>2
<1>6. IsFiniteSet(old \cup own) /\ Cardinality(new) <= Cardinality(old \cup own)
  BY <1>2, <1>4, FS_Union, FS_Subset
<1>7. Cardinality(old \cup own) \in Nat
  BY <1>6, FS_CardinalityType
<1>8. Cardinality(new) <= Cardinality(old) + row.cost
  BY <1>1, <1>4, <1>5, <1>6, <1>7
<1>9. Spent(u, o, days) = Cardinality(old) /\ Spent(v, o, days) = Cardinality(new)
  BY DEF Spent, old, new
<1>10. row.owner # o \/ row.day \notin days => Spent(v, o, days) = Spent(u, o, days)
  BY <1>3, <1>9
<1> QED
  BY <1>1, <1>4, <1>8, <1>9, <1>10 DEF v

(* On other days nothing is spent. *)
LEMMA NothingSpent ==
    ASSUME NEW u, NEW o, NEW days, \A r \in u : r.day \notin days
    PROVE  Spent(u, o, days) = 0
<1>1. Tokens(u, o, days) = {}
  BY DEF Tokens
<1> QED
  BY <1>1, FS_EmptySet DEF Spent

(* A day or month that is still to come counts no more than today's.       *)
LEMMA LaterSpansCountLess ==
    ASSUME NEW u \in SUBSET UsageRow, IsFiniteSet(u), day \in Days, \A r \in u : r.day <= day,
           NEW o, NEW f \in Limit, NEW d \in Days, d >= day
    PROVE  Spent(u, o, Span(f, d)) \in Nat /\ Spent(u, o, Span(f, d)) <= Spent(u, o, Span(f, day))
<1>1. Spent(u, o, Span(f, d)) \in Nat /\ Spent(u, o, Span(f, day)) \in Nat
  BY SpentIsNat
<1>2. LastDay \in Nat /\ MonthOf \in [Days -> Nat]
  BY TokenAssumption DEF Days
<1>3. \A r \in u : r.day \in Days /\ r.day <= day /\ day \in Int /\ d \in Int /\ r.day \in Int
  BY <1>2 DEF UsageRow, Days
<1>4. CASE d = day
  BY <1>1, <1>4
<1>5. CASE d # day /\ f = "daily"
  <2>1. \A r \in u : r.day \notin Span(f, d)
    BY <1>3, <1>5 DEF Span
  <2> QED
    BY <1>1, <2>1, NothingSpent
<1>6. CASE f # "daily" /\ MonthOf[d] = MonthOf[day]
  <2>1. Span(f, d) = Span(f, day)
    BY <1>6 DEF Span
  <2> QED
    BY <1>1, <2>1
<1>7. CASE f # "daily" /\ MonthOf[d] # MonthOf[day]
  <2>1. ASSUME NEW r \in u PROVE MonthOf[r.day] # MonthOf[d]
    <3>1. MonthOf[r.day] <= MonthOf[day] /\ MonthOf[day] <= MonthOf[d]
      BY <1>3, TokenAssumption DEF Days
    <3>2. MonthOf[r.day] \in Nat /\ MonthOf[day] \in Nat /\ MonthOf[d] \in Nat
      BY <1>2, <1>3
    <3> QED
      BY <1>7, <3>1, <3>2
  <2>2. \A r \in u : r.day \notin Span(f, d)
    BY <1>7, <2>1 DEF Span
  <2> QED
    BY <1>1, <2>2, NothingSpent
<1> QED
  BY <1>4, <1>5, <1>6, <1>7

-----------------------------------------------------------------------------
(* Token budgets: the inductive invariant.                                 *)

TokenPolicies == Policies \cup {DefaultPolicy}

RegSlot ==
    [pc : {"idle", "load", "upstream", "save"}, contract : Contracts \cup {None},
     asked : SUBSET {"policy", "usage"}, policy : TokenPolicies, usage : SUBSET UsageRow,
     at : Nat, overlaps : BOOLEAN]

TokenTypeOK ==
    /\ policy \in TokenPolicies /\ usage \in SUBSET UsageRow /\ day \in Days
    /\ taken \in SUBSET UsageRow /\ IsFiniteSet(taken)
    /\ \A r \in taken : r.at <= Cardinality(taken)
    /\ reg \in [Registrations -> RegSlot]
    /\ \A i \in Registrations : reg[i].pc # "idle" => reg[i].contract \in Contracts
    /\ ceiling \in [Owners -> [Limit -> Nat \cup {None}]]

(* A copy of the usage is within the limits, and nothing in it is of a day *)
(* to come.                                                                *)
GoodUsage(u) == IsFiniteSet(u) /\ (\A r \in u : r.day <= day) /\ WithinLimits(u)

GoodPolicy(p) ==
    \A o \in Owners, f \in Limit :
       \/ ceiling[o][f] = None
       \/ PolicyOf(p, o).stops /\ PolicyOf(p, o)[f] <= ceiling[o][f]

(* What was checked fits on the day of the check and on all later ones.    *)
Fits(u, c) ==
    \A f \in Limit, d \in Days :
       d >= day => AtMost(Spent(u, c.owner, Span(f, d)) + c.cost, ceiling[c.owner][f])

BudgetInv ==
    /\ GoodUsage(usage) /\ GoodPolicy(policy) /\ GoodPolicy(DefaultPolicy)
    /\ \A i \in Registrations :
          /\ GoodUsage(reg[i].usage) /\ GoodPolicy(reg[i].policy)
          /\ reg[i].pc = "upstream" => Fits(reg[i].usage, reg[i].contract)

(* A registration that has the usage to go by. *)
Knows(x) ==
    \/ x.pc \in {"upstream", "save"}
    \/ x.pc = "load" /\ "usage" \notin x.asked

(* While nothing is disturbed, the reservation of a mission that was       *)
(* registered apart from all others is stored, or its own registration is  *)
(* about to store it and still the only one; so whoever knows the usage    *)
(* knows of it.                                                            *)
UsageIsTaken ==
    /\ \A i, j \in Registrations :
          \/ i = j \/ reg[i].pc = "idle" \/ reg[j].pc = "idle" \/ reg[i].overlaps
    /\ \A r \in TakenApart :
          \/ r \in usage
          \/ \E j \in Registrations :
                reg[j].pc = "save" /\ ~ reg[j].overlaps /\ reg[j].at = r.at
    /\ \A i \in Registrations : Knows(reg[i]) => TakenApart \subseteq reg[i].usage

TokenInv == TokenTypeOK /\ BudgetInv /\ (regDisturbed \/ UsageIsTaken)

(* An empty usage is good. *)
LEMMA EmptyUsageIsGood ==
    ASSUME TokenTypeOK PROVE GoodUsage(EmptyUsage) /\ EmptyUsage \in SUBSET UsageRow
<1>1. \A o, days : Spent({}, o, days) = 0
  BY NothingSpent
<1>2. WithinLimits({})
  BY <1>1 DEF WithinLimits, AtMost, TokenTypeOK
<1> QED
  BY <1>2, FS_EmptySet DEF GoodUsage, EmptyUsage

(* What is good stays good as days pass and limits rise. *)
LEMMA GoodStaysGood ==
    ASSUME TokenTypeOK, day' \in Days, day' >= day, ceiling' \in [Owners -> [Limit -> Nat \cup {None}]],
           \A o \in Owners, f \in Limit :
              ceiling'[o][f] = None \/ (ceiling[o][f] # None /\ ceiling[o][f] <= ceiling'[o][f])
    PROVE  /\ \A u \in SUBSET UsageRow : GoodUsage(u) => GoodUsage(u)'
           /\ \A p \in TokenPolicies : GoodPolicy(p) => GoodPolicy(p)'
           /\ \A u \in SUBSET UsageRow, c \in Contracts :
                 IsFiniteSet(u) /\ Fits(u, c) => Fits(u, c)'
<1>1. ASSUME NEW o \in Owners, NEW f \in Limit, NEW n \in Nat, AtMost(n, ceiling[o][f])
      PROVE  AtMost(n, ceiling'[o][f])
  <2>1. ceiling[o][f] \in Nat \cup {None} /\ ceiling'[o][f] \in Nat \cup {None}
    BY DEF TokenTypeOK
  <2>2. ceiling'[o][f] = None \/ (ceiling[o][f] # None /\ ceiling[o][f] <= ceiling'[o][f])
    OBVIOUS
  <2> QED
    BY <1>1, <2>1, <2>2 DEF AtMost
<1>2. LastDay \in Nat /\ day \in Days /\ \A d \in Days : d \in Nat
  BY TokenAssumption DEF TokenTypeOK, Days
<1>3. ASSUME NEW u \in SUBSET UsageRow, GoodUsage(u) PROVE GoodUsage(u)'
  <2>1. \A o, days : Spent(u, o, days) \in Nat
    BY <1>3, SpentIsNat DEF GoodUsage
  <2>2. WithinLimits(u)'
    BY <1>1, <1>3, <2>1 DEF GoodUsage, WithinLimits
  <2>3. \A r \in u : r.day <= day'
    BY <1>2, <1>3 DEF GoodUsage, UsageRow
  <2> QED
    BY <1>3, <2>2, <2>3 DEF GoodUsage
<1>4. ASSUME NEW p \in TokenPolicies, GoodPolicy(p) PROVE GoodPolicy(p)'
  <2>1. ASSUME NEW o \in Owners, NEW f \in Limit
        PROVE  \/ ceiling'[o][f] = None
               \/ PolicyOf(p, o).stops /\ PolicyOf(p, o)[f] <= ceiling'[o][f]
    <3>1. PolicyOf(p, o)[f] \in Nat
      BY TokenAssumption DEF TokenPolicies, PolicyOf, Field, Limit
    <3>2. ceiling[o][f] \in Nat \cup {None} /\ ceiling'[o][f] \in Nat \cup {None}
      BY DEF TokenTypeOK
    <3>3. ceiling'[o][f] = None \/ (ceiling[o][f] # None /\ ceiling[o][f] <= ceiling'[o][f])
      OBVIOUS
    <3> QED
      BY <1>4, <3>1, <3>2, <3>3 DEF GoodPolicy
  <2> QED
    BY <2>1 DEF GoodPolicy
<1>5. ASSUME NEW u \in SUBSET UsageRow, NEW c \in Contracts, IsFiniteSet(u), Fits(u, c)
      PROVE  Fits(u, c)'
  <2>1. c.owner \in Owners /\ c.cost \in Nat
    BY TokenAssumption
  <2>2. ASSUME NEW f \in Limit, NEW d \in Days, d >= day'
        PROVE  AtMost(Spent(u, c.owner, Span(f, d)) + c.cost, ceiling'[c.owner][f])
    <3>1. d >= day
      BY <1>2, <2>2
    <3>2. Spent(u, c.owner, Span(f, d)) + c.cost \in Nat
      BY <1>5, <2>1, SpentIsNat
    <3> QED
      BY <1>1, <1>5, <2>1, <3>1, <3>2 DEF Fits
  <2> QED
    BY <2>2 DEF Fits
<1> QED
  BY <1>3, <1>4, <1>5

(* A registration that is over, or was never begun. *)
LEMMA NoRegistrationIs ==
    ASSUME TokenTypeOK, BudgetInv
    PROVE  /\ NoRegistration \in RegSlot /\ NoRegistration.pc = "idle"
           /\ GoodUsage(NoRegistration.usage) /\ GoodPolicy(NoRegistration.policy)
<1>1. GoodUsage(EmptyUsage) /\ EmptyUsage \in SUBSET UsageRow /\ GoodPolicy(DefaultPolicy)
  BY EmptyUsageIsGood DEF BudgetInv
<1> QED
  BY <1>1 DEF NoRegistration, RegSlot, TokenPolicies

(* What a step of a registration has to show. *)
LEMMA RegStep ==
    ASSUME TokenTypeOK, BudgetInv, NEW i \in Registrations, NEW x \in RegSlot, RegTo(i, x),
           UNCHANGED <<policy, day, ceiling>>, usage' \in {usage, reg[i].usage},
           UNCHANGED taken, x.pc # "idle" => x.contract \in Contracts,
           GoodUsage(x.usage), GoodPolicy(x.policy),
           x.pc = "upstream" => Fits(x.usage, x.contract)
    PROVE  /\ TokenTypeOK' /\ BudgetInv'
           /\ reg'[i] = x /\ \A j \in Registrations : j # i => reg'[j] = reg[j]
<1>1. reg' = [reg EXCEPT ![i] = x] /\ reg \in [Registrations -> RegSlot]
  BY DEF RegTo, TokenTypeOK
<1>2. /\ reg' \in [Registrations -> RegSlot] /\ reg'[i] = x
      /\ \A j \in Registrations : j # i => reg'[j] = reg[j]
  BY <1>1
<1>3. /\ reg[i] \in RegSlot /\ reg[i].usage \in SUBSET UsageRow
      /\ usage' \in SUBSET UsageRow /\ GoodUsage(usage')
  BY <1>1 DEF RegSlot, BudgetInv, TokenTypeOK
<1>4. TokenTypeOK'
  BY <1>2, <1>3 DEF TokenTypeOK
<1>5. ASSUME NEW j \in Registrations
      PROVE  /\ GoodUsage(reg'[j].usage) /\ GoodPolicy(reg'[j].policy)
             /\ reg'[j].pc = "upstream" => Fits(reg'[j].usage, reg'[j].contract)
  <2>1. CASE j = i
    BY <1>2, <2>1
  <2>2. CASE j # i
    BY <1>2, <2>2 DEF BudgetInv
  <2> QED
    BY <2>1, <2>2
<1>6. BudgetInv'
  BY <1>3, <1>5
     DEF BudgetInv, GoodUsage, GoodPolicy, Fits, WithinLimits, PolicyOf
<1> QED
  BY <1>2, <1>4, <1>6

(* What is allowed fits on the day and later. *)
LEMMA AllowedFits ==
    ASSUME TokenTypeOK, NEW p \in TokenPolicies, NEW u \in SUBSET UsageRow, NEW c \in Contracts,
           GoodPolicy(p), GoodUsage(u), Allowed(PolicyOf(p, c.owner), u, c)
    PROVE  Fits(u, c)
<1> DEFINE o == c.owner
           q == PolicyOf(p, o)
<1>1. o \in Owners /\ c.cost \in Nat /\ \A f \in Limit : q[f] \in Nat
  BY TokenAssumption DEF TokenPolicies, PolicyOf, Field, Limit
<1> SUFFICES ASSUME NEW f \in Limit, NEW d \in Days, d >= day, ceiling[o][f] # None
             PROVE  Spent(u, o, Span(f, d)) + c.cost <= ceiling[o][f]
  BY <1>1 DEF Fits, AtMost
<1>2. q.stops /\ q[f] <= ceiling[o][f]
  BY <1>1 DEF GoodPolicy
<1>3. Spent(u, o, Span(f, day)) \in Nat /\ ceiling[o][f] \in Nat
  BY <1>1, SpentIsNat DEF GoodUsage, TokenTypeOK
<1>4. Spent(u, o, Span(f, day)) + c.cost <= q[f]
  <2>1. ~ Exceeds(q, u, c)
    BY <1>2 DEF Allowed
  <2>2. ~ (Spent(u, o, Span(f, day)) + c.cost > q[f])
    BY <2>1 DEF Exceeds
  <2> HIDE DEF o, q
  <2> QED
    BY <1>1, <1>3, <2>2 DEF o
<1>5. /\ Spent(u, o, Span(f, d)) \in Nat
      /\ Spent(u, o, Span(f, d)) <= Spent(u, o, Span(f, day))
  BY LaterSpansCountLess DEF GoodUsage, TokenTypeOK
<1> HIDE DEF q
<1> QED
  BY <1>1, <1>2, <1>3, <1>4, <1>5

(* The second of the answers decides. *)
LEMMA DecidedIs ==
    ASSUME TokenTypeOK, BudgetInv, NEW y \in RegSlot, y.pc = "load", y.contract \in Contracts,
           GoodUsage(y.usage), GoodPolicy(y.policy)
    PROVE  /\ Decided(y) \in RegSlot
           /\ Decided(y).pc # "idle" => /\ Decided(y).contract = y.contract
                                        /\ Decided(y).usage = y.usage
                                        /\ Decided(y).asked = y.asked
                                        /\ Decided(y).overlaps = y.overlaps
           /\ Decided(y).pc \in {"idle", "load", "upstream"}
           /\ Decided(y).pc = "upstream" => y.asked = {}
           /\ GoodUsage(Decided(y).usage) /\ GoodPolicy(Decided(y).policy)
           /\ Decided(y).pc = "upstream" => Fits(Decided(y).usage, Decided(y).contract)
<1>1. CASE y.asked # {}
  BY <1>1 DEF Decided
<1>2. CASE y.asked = {} /\ ~ Allowed(PolicyOf(y.policy, y.contract.owner), y.usage, y.contract)
  <2>1. Decided(y) = NoRegistration
    BY <1>2 DEF Decided
  <2> QED
    BY <2>1, NoRegistrationIs
<1>3. CASE y.asked = {} /\ Allowed(PolicyOf(y.policy, y.contract.owner), y.usage, y.contract)
  <2> DEFINE x == [y EXCEPT !.pc = "upstream"]
  <2>1. Decided(y) = x
    BY <1>3 DEF Decided
  <2>2. /\ x \in RegSlot /\ x.pc = "upstream" /\ x.contract = y.contract /\ x.asked = y.asked
        /\ x.usage = y.usage /\ x.policy = y.policy /\ x.overlaps = y.overlaps
        /\ y.usage \in SUBSET UsageRow /\ y.policy \in TokenPolicies
    BY DEF RegSlot
  <2> HIDE DEF x
  <2>3. Fits(y.usage, y.contract)
    BY <1>3, <2>2, AllowedFits
  <2> QED
    BY <1>3, <2>1, <2>2, <2>3
<1> QED
  BY <1>1, <1>2, <1>3

-----------------------------------------------------------------------------
(* Token budgets: the steps.                                               *)

(* A registration goes on, or is over, and nothing taken is lost. *)
LEMMA NothingIsLost ==
    ASSUME UsageIsTaken, NEW i \in Registrations, reg[i].pc # "idle", NEW x,
           reg'[i] = x, \A j \in Registrations : j # i => reg'[j] = reg[j],
           UNCHANGED <<taken, excused>>, x.pc # "save",
           x.pc # "idle" => x.overlaps = reg[i].overlaps,
           Knows(x) => TakenApart \subseteq x.usage,
           (usage' = usage /\ reg[i].pc # "save") \/ TakenApart \subseteq usage'
    PROVE  UsageIsTaken'
<1>1. TakenApart' = TakenApart
  BY DEF TakenApart, LatestTaken
<1>2. \A j, k \in Registrations :
         \/ j = k \/ reg'[j].pc = "idle" \/ reg'[k].pc = "idle" \/ reg'[j].overlaps
  BY DEF UsageIsTaken
<1>3. ASSUME NEW r \in TakenApart
      PROVE  \/ r \in usage'
             \/ \E j \in Registrations :
                   reg'[j].pc = "save" /\ ~ reg'[j].overlaps /\ reg'[j].at = r.at
  BY <1>3 DEF UsageIsTaken
<1>4. ASSUME NEW j \in Registrations, Knows(reg'[j]) PROVE TakenApart \subseteq reg'[j].usage
  BY <1>4 DEF UsageIsTaken
<1> QED
  BY <1>1, <1>2, <1>3, <1>4 DEF UsageIsTaken

(* Beside another one, everything taken apart is stored. *)
LEMMA StoredBeside ==
    ASSUME UsageIsTaken, NEW i \in Registrations, reg[i].pc \notin {"idle", "save"}
    PROVE  TakenApart \subseteq usage
  BY DEF UsageIsTaken

(* A registration begins: from now on all in flight overlap.               *)
LEMMA BeginKeeps ==
    ASSUME TokenInv, NEW i \in Registrations, BeginRegistration(i)
    PROVE  TokenInv'
<1>1. /\ TokenTypeOK /\ BudgetInv /\ reg[i].pc = "idle"
      /\ UNCHANGED <<policy, usage, day, taken, ceiling, regDisturbed>>
      /\ excused' = excused \cup {reg[j].at : j \in {k \in Registrations : RegAt(k, "save")}}
  BY DEF TokenInv, BeginRegistration, RegAt
<1>2. PICK c \in Contracts :
         reg' = [j \in Registrations |->
                    IF j = i THEN [NoRegistration EXCEPT !.pc = "load", !.contract = c,
                                     !.asked = {"policy", "usage"}, !.overlaps = InFlight # {}]
                    ELSE IF j \in InFlight THEN [reg[j] EXCEPT !.overlaps = TRUE]
                    ELSE reg[j]]
  BY DEF BeginRegistration
<1> DEFINE x == [NoRegistration EXCEPT !.pc = "load", !.contract = c,
                   !.asked = {"policy", "usage"}, !.overlaps = InFlight # {}]
<1>3. /\ x \in RegSlot /\ x.pc = "load" /\ x.contract = c /\ "usage" \in x.asked
      /\ GoodUsage(x.usage) /\ GoodPolicy(x.policy) /\ x.overlaps = (InFlight # {})
  <2>1. NoRegistration \in RegSlot
    BY <1>1, NoRegistrationIs
  <2>2. x.usage = NoRegistration.usage /\ x.policy = NoRegistration.policy
    BY DEF NoRegistration
  <2>3. /\ x \in RegSlot /\ x.pc = "load" /\ x.contract = c /\ "usage" \in x.asked
        /\ x.overlaps = (InFlight # {})
    BY <2>1 DEF RegSlot, NoRegistration
  <2> QED
    BY <1>1, <2>2, <2>3, NoRegistrationIs
<1>4. reg'[i] = x
  BY <1>2
<1> HIDE DEF x
<1>5. ASSUME NEW j \in Registrations, j # i
      PROVE  /\ reg'[j] \in RegSlot /\ reg'[j].pc = reg[j].pc /\ reg'[j].contract = reg[j].contract
             /\ reg'[j].asked = reg[j].asked /\ reg'[j].policy = reg[j].policy
             /\ reg'[j].usage = reg[j].usage /\ reg'[j].at = reg[j].at
             /\ reg[j].pc # "idle" => reg'[j].overlaps = TRUE
  <2>1. reg[j] \in RegSlot
    BY <1>1 DEF TokenTypeOK
  <2>2. reg'[j] = IF j \in InFlight THEN [reg[j] EXCEPT !.overlaps = TRUE] ELSE reg[j]
    BY <1>2, <1>5
  <2>3. CASE j \in InFlight
    BY <2>1, <2>2, <2>3 DEF RegSlot
  <2>4. CASE j \notin InFlight
    <3>1. reg[j].pc = "idle" /\ reg'[j] = reg[j]
      BY <2>2, <2>4 DEF InFlight, RegAt
    <3> QED
      BY <2>1, <3>1
  <2> QED
    BY <2>3, <2>4
<1>6. TokenTypeOK'
  <2>1. reg' \in [Registrations -> RegSlot]
    <3>1. \A j \in Registrations : reg'[j] \in RegSlot
      BY <1>3, <1>4, <1>5
    <3>2. reg' = [j \in Registrations |-> reg'[j]]
      BY <1>2
    <3> QED
      BY <3>1, <3>2
  <2>2. \A j \in Registrations : reg'[j].pc # "idle" => reg'[j].contract \in Contracts
    BY <1>1, <1>3, <1>4, <1>5 DEF TokenTypeOK
  <2> QED
    BY <1>1, <2>1, <2>2 DEF TokenTypeOK
<1>7. BudgetInv'
  <2>1. ASSUME NEW j \in Registrations
        PROVE  /\ GoodUsage(reg'[j].usage) /\ GoodPolicy(reg'[j].policy)
               /\ reg'[j].pc = "upstream" => Fits(reg'[j].usage, reg'[j].contract)
    BY <1>1, <1>3, <1>4, <1>5 DEF BudgetInv
  <2> QED
    BY <1>1, <2>1 DEF BudgetInv, GoodUsage, GoodPolicy, Fits, WithinLimits, PolicyOf
<1>8. ASSUME ~ regDisturbed' PROVE UsageIsTaken'
  <2>1. UsageIsTaken
    BY <1>1, <1>8 DEF TokenInv
  <2>2. TakenApart' \subseteq TakenApart
    BY <1>1 DEF TakenApart, LatestTaken
  <2>3. ASSUME NEW j \in Registrations, NEW k \in Registrations, j # k,
               reg'[j].pc # "idle", reg'[k].pc # "idle"
        PROVE  reg'[j].overlaps
    <3>1. CASE j = i
      <4>1. k \in InFlight
        BY <1>5, <2>3, <3>1 DEF InFlight, RegAt
      <4> QED
        BY <1>3, <1>4, <3>1, <4>1
    <3>2. CASE j # i
      BY <1>5, <2>3, <3>2
    <3> QED
      BY <3>1, <3>2
  <2>4. ASSUME NEW r \in TakenApart' PROVE r \in usage'
    <3>1. r.at \notin excused' /\ r \in TakenApart
      BY <2>2, <2>4 DEF TakenApart
    <3>2. \A j \in Registrations : reg[j].pc = "save" => reg[j].at # r.at
      BY <1>1, <3>1 DEF RegAt
    <3> QED
      BY <1>1, <2>1, <3>1, <3>2 DEF UsageIsTaken
  <2>5. ASSUME NEW j \in Registrations, Knows(reg'[j]) PROVE TakenApart' \subseteq reg'[j].usage
    <3>1. j # i
      BY <1>3, <1>4, <2>5 DEF Knows
    <3> QED
      BY <1>5, <2>1, <2>2, <2>5, <3>1 DEF UsageIsTaken, Knows
  <2> QED
    BY <2>3, <2>4, <2>5 DEF UsageIsTaken
<1> QED
  BY <1>6, <1>7, <1>8 DEF TokenInv

(* The policy is loaded, and decides when the usage was before. *)
LEMMA LoadPolicyKeeps ==
    ASSUME TokenInv, NEW i \in Registrations, LoadPolicy(i)
    PROVE  TokenInv'
<1>1. /\ TokenTypeOK /\ BudgetInv /\ reg[i] \in RegSlot /\ reg[i].pc = "load"
      /\ reg[i].contract \in Contracts
      /\ UNCHANGED <<policy, usage, day, taken, ceiling, excused>>
  BY DEF TokenInv, LoadPolicy, TokenTypeOK, RegAt
<1>2. PICK p \in {policy, DefaultPolicy} :
         /\ RegTo(i, Decided([reg[i] EXCEPT !.asked = @ \ {"policy"}, !.policy = p]))
         /\ regDisturbed' = (regDisturbed \/ p # policy)
  BY DEF LoadPolicy, Loaded
<1> DEFINE y == [reg[i] EXCEPT !.asked = @ \ {"policy"}, !.policy = p]
           x == Decided(y)
<1>3. /\ y \in RegSlot /\ y.pc = "load" /\ y.contract = reg[i].contract
      /\ y.usage = reg[i].usage /\ y.policy = p /\ y.asked = reg[i].asked \ {"policy"}
      /\ y.overlaps = reg[i].overlaps
  BY <1>1 DEF RegSlot, TokenPolicies, TokenTypeOK
<1>4. RegTo(i, x)
  BY <1>2
<1> HIDE DEF y
<1>5. GoodUsage(y.usage) /\ GoodPolicy(y.policy)
  BY <1>1, <1>3 DEF BudgetInv
<1>6. /\ x \in RegSlot /\ x.pc \in {"idle", "load", "upstream"}
      /\ x.pc # "idle" => x.contract = y.contract /\ x.usage = y.usage /\ x.asked = y.asked
                          /\ x.overlaps = y.overlaps
      /\ x.pc = "upstream" => y.asked = {} /\ Fits(x.usage, x.contract)
      /\ GoodUsage(x.usage) /\ GoodPolicy(x.policy)
  BY <1>1, <1>3, <1>5, DecidedIs
<1> HIDE DEF x
<1>7. /\ TokenTypeOK' /\ BudgetInv'
      /\ reg'[i] = x /\ \A j \in Registrations : j # i => reg'[j] = reg[j]
  BY <1>1, <1>3, <1>4, <1>6, RegStep
<1>8. ASSUME ~ regDisturbed' PROVE UsageIsTaken'
  <2>1. UsageIsTaken
    BY <1>2, <1>8 DEF TokenInv
  <2>2. Knows(x) => TakenApart \subseteq x.usage
    <3>1. "usage" \notin reg[i].asked => TakenApart \subseteq reg[i].usage
      BY <1>1, <2>1 DEF UsageIsTaken, Knows
    <3>2. "usage" \in reg[i].asked => "usage" \in y.asked
      BY <1>3
    <3> QED
      BY <1>3, <1>6, <3>1, <3>2 DEF Knows
  <2> QED
    BY <1>1, <1>3, <1>6, <1>7, <2>1, <2>2, NothingIsLost
<1> QED
  BY <1>7, <1>8 DEF TokenInv

(* The usage is loaded, and decides when the policy was before. *)
LEMMA LoadUsageKeeps ==
    ASSUME TokenInv, NEW i \in Registrations, LoadUsage(i)
    PROVE  TokenInv'
<1>1. /\ TokenTypeOK /\ BudgetInv /\ reg[i] \in RegSlot /\ reg[i].pc = "load"
      /\ reg[i].contract \in Contracts
      /\ UNCHANGED <<policy, usage, day, taken, ceiling, excused>>
  BY DEF TokenInv, LoadUsage, TokenTypeOK, RegAt
<1>2. PICK u \in {usage, EmptyUsage} :
         /\ RegTo(i, Decided([reg[i] EXCEPT !.asked = @ \ {"usage"}, !.usage = u]))
         /\ regDisturbed' = (regDisturbed \/ u # usage)
  BY DEF LoadUsage, Loaded
<1> DEFINE y == [reg[i] EXCEPT !.asked = @ \ {"usage"}, !.usage = u]
           x == Decided(y)
<1>3. /\ u \in SUBSET UsageRow /\ GoodUsage(u)
      /\ y \in RegSlot /\ y.pc = "load" /\ y.contract = reg[i].contract
      /\ y.policy = reg[i].policy /\ y.usage = u /\ y.overlaps = reg[i].overlaps
  <2>1. u \in SUBSET UsageRow /\ GoodUsage(u)
    BY <1>1, EmptyUsageIsGood DEF TokenTypeOK, BudgetInv
  <2> QED
    BY <1>1, <2>1 DEF RegSlot
<1>4. RegTo(i, x)
  BY <1>2
<1> HIDE DEF y
<1>5. GoodUsage(y.usage) /\ GoodPolicy(y.policy)
  BY <1>1, <1>3 DEF BudgetInv
<1>6. /\ x \in RegSlot /\ x.pc \in {"idle", "load", "upstream"}
      /\ x.pc # "idle" => x.contract = y.contract /\ x.usage = y.usage /\ x.overlaps = y.overlaps
      /\ x.pc = "upstream" => Fits(x.usage, x.contract)
      /\ GoodUsage(x.usage) /\ GoodPolicy(x.policy)
  BY <1>1, <1>3, <1>5, DecidedIs
<1> HIDE DEF x
<1>7. /\ TokenTypeOK' /\ BudgetInv'
      /\ reg'[i] = x /\ \A j \in Registrations : j # i => reg'[j] = reg[j]
  BY <1>1, <1>3, <1>4, <1>6, RegStep
<1>8. ASSUME ~ regDisturbed' PROVE UsageIsTaken'
  <2>1. UsageIsTaken /\ u = usage
    BY <1>2, <1>8 DEF TokenInv
  <2>2. TakenApart \subseteq usage
    BY <1>1, <2>1, StoredBeside
  <2>3. Knows(x) => TakenApart \subseteq x.usage
    BY <1>3, <1>6, <2>1, <2>2 DEF Knows
  <2> QED
    BY <1>1, <1>3, <1>6, <1>7, <2>1, <2>3, NothingIsLost
<1> QED
  BY <1>7, <1>8 DEF TokenInv

(* The hub refuses the mission, or a registration's usage is stored.       *)
LEMMA EndKeeps ==
    ASSUME TokenInv, NEW i \in Registrations, UpstreamFails(i) \/ SaveUsage(i)
    PROVE  TokenInv'
<1>1. /\ TokenTypeOK /\ BudgetInv /\ RegTo(i, NoRegistration)
      /\ UNCHANGED <<policy, day, taken, ceiling, excused>> /\ usage' \in {usage, reg[i].usage}
  BY DEF TokenInv, UpstreamFails, SaveUsage, SaveResults, Stored
<1>2. /\ NoRegistration \in RegSlot /\ NoRegistration.pc = "idle"
      /\ GoodUsage(NoRegistration.usage) /\ GoodPolicy(NoRegistration.policy)
  BY <1>1, NoRegistrationIs
<1>3. /\ TokenTypeOK' /\ BudgetInv'
      /\ reg'[i] = NoRegistration /\ \A j \in Registrations : j # i => reg'[j] = reg[j]
  BY <1>1, <1>2, RegStep
<1>4. ASSUME ~ regDisturbed' PROVE UsageIsTaken'
  <2>1. ~ Knows(NoRegistration)
    BY <1>2 DEF Knows
  <2>2. CASE UpstreamFails(i)
    <3>1. UsageIsTaken /\ usage' = usage /\ reg[i].pc = "upstream"
      BY <1>4, <2>2 DEF TokenInv, UpstreamFails, RegAt
    <3> QED
      BY <1>1, <1>2, <1>3, <2>1, <3>1, NothingIsLost
  <2>3. CASE SaveUsage(i)
    <3>1. PICK result \in SaveResults : /\ usage' = Stored(result, usage, reg[i].usage)
                                        /\ regDisturbed' = (regDisturbed \/ result = "failed")
      BY <2>3 DEF SaveUsage
    <3>2. UsageIsTaken /\ usage' = reg[i].usage /\ reg[i].pc = "save"
      BY <1>4, <2>3, <3>1 DEF TokenInv, SaveUsage, RegAt, Stored
    <3>3. TakenApart \subseteq usage'
      BY <3>2 DEF UsageIsTaken, Knows
    <3> QED
      BY <1>1, <1>2, <1>3, <2>1, <3>2, <3>3, NothingIsLost
  <2> QED
    BY <2>2, <2>3
<1> QED
  BY <1>3, <1>4 DEF TokenInv

(* A reservation that fits keeps a copy within the limits. *)
LEMMA ReservedIsGood ==
    ASSUME TokenTypeOK, NEW u \in SUBSET UsageRow, GoodUsage(u), NEW c \in Contracts, Fits(u, c),
           NEW row \in UsageRow, row.owner = c.owner, row.cost = c.cost, row.day = day
    PROVE  /\ Reserved(u, row) \in SUBSET UsageRow /\ GoodUsage(Reserved(u, row))
           /\ Cardinality(u) < UsageRows =>
                 Reserved(u, row) = {x \in u : ~ SameReservation(x, row)} \cup {row}
<1> DEFINE v == {x \in u : ~ SameReservation(x, row)}
           w == v \cup {row}
           kept == Reserved(u, row)
<1>1. /\ v \in SUBSET u /\ v \in SUBSET UsageRow /\ IsFiniteSet(v) /\ IsFiniteSet(u)
      /\ w \in SUBSET UsageRow /\ IsFiniteSet(w) /\ kept \in SUBSET w
  BY FS_Subset, FS_AddElement DEF GoodUsage, Reserved, NewestUsage
<1>2. kept \in SUBSET UsageRow /\ IsFiniteSet(kept)
  BY <1>1, FS_Subset
<1>3. row.cost \in Nat /\ day \in Days /\ \A d \in Days : d \in Nat
  BY TokenAssumption DEF UsageRow, TokenTypeOK, Days
<1>4. \A r \in kept : r.day <= day
  <2>1. \A r \in w : r.day <= day
    BY <1>3 DEF GoodUsage
  <2> HIDE DEF w
  <2> QED
    BY <1>1, <2>1
<1>5. ASSUME NEW o \in Owners, NEW f \in Limit, NEW d \in Days
      PROVE  AtMost(Spent(kept, o, Span(f, d)), ceiling[o][f])
  <2> DEFINE days == Span(f, d)
             old == Spent(u, o, days)
             new == Spent(kept, o, days)
  <2>1. ceiling[o][f] \in Nat \cup {None}
    BY DEF TokenTypeOK
  <2>2. Spent(v, o, days) \in Nat /\ old \in Nat /\ Spent(v, o, days) <= old
    BY <1>1, SpentIsMonotone
  <2>3. Spent(w, o, days) \in Nat /\ new \in Nat /\ new <= Spent(w, o, days)
    <3> HIDE DEF w, kept
    <3> QED
      BY <1>1, SpentIsMonotone
  <2>4. /\ Spent(w, o, days) <= Spent(v, o, days) + row.cost
        /\ row.owner # o \/ row.day \notin days => Spent(w, o, days) = Spent(v, o, days)
    <3> HIDE DEF v
    <3> QED
      BY <1>1, SpentWith
  <2>5. AtMost(old, ceiling[o][f])
    BY DEF GoodUsage, WithinLimits
  <2> HIDE DEF v, w, kept, old, new, days
  <2>6. row.owner # o \/ row.day \notin days => AtMost(new, ceiling[o][f])
    BY <2>1, <2>2, <2>3, <2>4, <2>5 DEF AtMost
  <2>7. ASSUME row.owner = o, row.day \in days PROVE AtMost(new, ceiling[o][f])
    <3>1. days = Span(f, day)
      BY <1>3, <2>7 DEF days, Span
    <3>2. AtMost(old + row.cost, ceiling[o][f])
      <4>1. day >= day
        BY <1>3
      <4> QED
        BY <1>3, <2>7, <3>1, <4>1 DEF Fits, old, days
    <3> QED
      BY <1>3, <2>1, <2>2, <2>3, <2>4, <3>2 DEF AtMost
  <2> QED
    BY <2>6, <2>7 DEF days, new
<1>6. ASSUME Cardinality(u) < UsageRows PROVE kept = w
  <2>1. /\ Cardinality(u) \in Nat /\ Cardinality(v) \in Nat /\ Cardinality(w) \in Nat
        /\ Cardinality(v) <= Cardinality(u) /\ UsageRows \in Nat
    BY <1>1, FS_CardinalityType, FS_Subset, TokenAssumption
  <2>2. Cardinality(w) <= Cardinality(v) + 1
    <3> HIDE DEF v
    <3> QED
      BY <1>1, <2>1, FS_AddElement
  <2>3. Cardinality(w) <= UsageRows
    BY <1>6, <2>1, <2>2
  <2>4. \A x \in w : x.at \in Nat
    BY <1>1 DEF UsageRow
  <2>5. kept = NewestUsage(w)
    BY DEF Reserved
  <2> HIDE DEF w, kept
  <2>6. ASSUME NEW r \in w PROVE Cardinality({x \in w : x.at > r.at}) < UsageRows
    <3> DEFINE newer == {x \in w : x.at > r.at}
    <3>1. newer \in SUBSET w /\ r \notin newer
      BY <2>4
    <3> HIDE DEF newer
    <3>2. newer # w /\ IsFiniteSet(newer)
      BY <1>1, <3>1, FS_Subset
    <3>3. Cardinality(newer) # Cardinality(w) /\ Cardinality(newer) <= Cardinality(w)
      BY <1>1, <3>1, <3>2, FS_Subset
    <3>4. Cardinality(newer) \in Nat
      BY <3>2, FS_CardinalityType
    <3> QED
      BY <2>1, <2>3, <3>3, <3>4 DEF newer
  <2> QED
    BY <2>5, <2>6 DEF NewestUsage
<1>7. GoodUsage(kept)
  BY <1>2, <1>4, <1>5 DEF GoodUsage, WithinLimits
<1> QED
  BY <1>2, <1>6, <1>7

(* The hub takes the mission, and its reservation is made. *)
LEMMA TakeKeeps ==
    ASSUME TokenInv, NEW i \in Registrations, UpstreamTakes(i)
    PROVE  TokenInv'
<1> DEFINE c == reg[i].contract
           n == Cardinality(taken)
           row == [mission |-> c.mission, owner |-> c.owner, cost |-> c.cost, day |-> day,
                   at |-> n + 1]
           u == reg[i].usage
           x == [reg[i] EXCEPT !.pc = "save", !.usage = Reserved(@, row), !.at = row.at]
<1>1. /\ TokenTypeOK /\ BudgetInv /\ reg[i] \in RegSlot /\ reg[i].pc = "upstream"
      /\ c \in Contracts /\ u \in SUBSET UsageRow /\ GoodUsage(u) /\ Fits(u, c)
  BY DEF TokenInv, TokenTypeOK, BudgetInv, UpstreamTakes, RegAt, RegSlot
<1>2. /\ RegTo(i, x) /\ taken' = taken \cup {row} /\ UNCHANGED <<policy, usage, day, ceiling>>
      /\ excused' = IF reg[i].overlaps THEN excused \cup {row.at} ELSE excused
      /\ regDisturbed' = (regDisturbed \/ Cardinality(u) >= UsageRows)
  BY DEF UpstreamTakes
<1>3. n \in Nat /\ \A r \in taken : r.at \in Nat /\ r.at <= n
  BY <1>1, FS_CardinalityType DEF TokenTypeOK, UsageRow
<1>4. /\ row \in UsageRow /\ row.owner = c.owner /\ row.cost = c.cost /\ row.day = day
      /\ row.at = n + 1 /\ n + 1 \in Nat
  BY <1>1, <1>3, TokenAssumption DEF UsageRow, TokenTypeOK
<1> HIDE DEF row
<1>5. /\ Reserved(u, row) \in SUBSET UsageRow /\ GoodUsage(Reserved(u, row))
      /\ Cardinality(u) < UsageRows =>
            Reserved(u, row) = {r \in u : ~ SameReservation(r, row)} \cup {row}
  BY <1>1, <1>4, ReservedIsGood
<1>6. /\ x \in RegSlot /\ x.pc = "save" /\ x.contract = c /\ x.usage = Reserved(u, row)
      /\ x.policy = reg[i].policy /\ x.at = row.at /\ x.overlaps = reg[i].overlaps
  BY <1>1, <1>4, <1>5 DEF RegSlot
<1> HIDE DEF x
<1>7. /\ reg' \in [Registrations -> RegSlot] /\ reg'[i] = x
      /\ \A j \in Registrations : j # i => reg'[j] = reg[j]
  BY <1>1, <1>2, <1>6 DEF RegTo, TokenTypeOK
<1>8. /\ taken' \in SUBSET UsageRow /\ IsFiniteSet(taken')
      /\ \A r \in taken' : r.at <= Cardinality(taken')
  <2>1. row \notin taken
    BY <1>3, <1>4
  <2>2. IsFiniteSet(taken') /\ Cardinality(taken') = n + 1
    BY <1>1, <1>2, <2>1, FS_AddElement DEF TokenTypeOK
  <2>3. taken' \in SUBSET UsageRow
    BY <1>1, <1>2, <1>4 DEF TokenTypeOK
  <2>4. \A r \in taken' : r.at \in Nat /\ r.at <= n + 1
    BY <1>2, <1>3, <1>4
  <2> HIDE DEF n
  <2> QED
    BY <2>2, <2>3, <2>4
<1>9. TokenTypeOK'
  <2>1. \A j \in Registrations : reg'[j].pc # "idle" => reg'[j].contract \in Contracts
    BY <1>1, <1>6, <1>7 DEF TokenTypeOK
  <2> QED
    BY <1>1, <1>2, <1>7, <1>8, <2>1 DEF TokenTypeOK
<1>10. BudgetInv'
  <2>1. ASSUME NEW j \in Registrations
        PROVE  /\ GoodUsage(reg'[j].usage) /\ GoodPolicy(reg'[j].policy)
               /\ reg'[j].pc = "upstream" => Fits(reg'[j].usage, reg'[j].contract)
    <3>1. CASE j = i
      BY <1>1, <1>5, <1>6, <1>7, <3>1 DEF BudgetInv
    <3>2. CASE j # i
      BY <1>1, <1>7, <3>2 DEF BudgetInv
    <3> QED
      BY <3>1, <3>2
  <2> QED
    BY <1>1, <1>2, <2>1 DEF BudgetInv, GoodUsage, GoodPolicy, Fits, WithinLimits, PolicyOf
<1>11. ASSUME ~ regDisturbed' PROVE UsageIsTaken'
  <2>1. ~ regDisturbed /\ ~ (Cardinality(u) >= UsageRows)
    BY <1>2, <1>11
  <2>2. Cardinality(u) < UsageRows
    <3>1. Cardinality(u) \in Nat /\ UsageRows \in Nat
      BY <1>1, FS_CardinalityType, TokenAssumption DEF GoodUsage
    <3> QED
      BY <2>1, <3>1
  <2>3. UsageIsTaken
    BY <2>1 DEF TokenInv
  <2>4. TakenApart \subseteq u /\ TakenApart \subseteq usage
    BY <1>1, <2>3, StoredBeside DEF UsageIsTaken, Knows
  <2>5. LatestTaken' = {r \in LatestTaken : ~ SameReservation(r, row)} \cup {row}
    <3>1. \A r \in taken : row.at > r.at /\ ~ (r.at > row.at)
      BY <1>3, <1>4
    <3>2. ~ (row.at > row.at)
      BY <1>3, <1>4
    <3>3. \A r \in taken : SameReservation(row, r) <=> SameReservation(r, row)
      BY DEF SameReservation
    <3> QED
      BY <1>2, <3>1, <3>2, <3>3 DEF LatestTaken
  <2>6. /\ TakenApart' \subseteq {r \in TakenApart : ~ SameReservation(r, row)} \cup {row}
        /\ row \in TakenApart' => ~ reg[i].overlaps
    <3>1. excused \subseteq excused' /\ (reg[i].overlaps => row.at \in excused')
      BY <1>2
    <3> QED
      BY <2>5, <3>1 DEF TakenApart
  <2>7. \A j, k \in Registrations :
           \/ j = k \/ reg'[j].pc = "idle" \/ reg'[k].pc = "idle" \/ reg'[j].overlaps
    BY <1>1, <1>6, <1>7, <2>3 DEF UsageIsTaken
  <2>8. ASSUME NEW r \in TakenApart'
        PROVE  \/ r \in usage'
               \/ \E j \in Registrations :
                     reg'[j].pc = "save" /\ ~ reg'[j].overlaps /\ reg'[j].at = r.at
    <3>1. CASE r = row
      BY <1>6, <1>7, <2>6, <3>1
    <3>2. CASE r # row
      BY <1>2, <2>4, <2>6, <3>2
    <3> QED
      BY <3>1, <3>2
  <2>9. ASSUME NEW j \in Registrations, Knows(reg'[j]) PROVE TakenApart' \subseteq reg'[j].usage
    <3>1. CASE j = i
      BY <1>5, <1>6, <1>7, <2>2, <2>4, <2>6, <3>1
    <3>2. CASE j # i
      <4>1. reg'[j] = reg[j] /\ reg[j].pc # "idle" /\ TakenApart \subseteq reg[j].usage
        BY <1>7, <2>3, <2>9, <3>2 DEF UsageIsTaken, Knows
      <4>2. row \notin TakenApart'
        BY <1>1, <2>3, <2>6, <3>2, <4>1 DEF UsageIsTaken
      <4> QED
        BY <2>6, <4>1, <4>2
    <3> QED
      BY <3>1, <3>2
  <2> QED
    BY <2>7, <2>8, <2>9 DEF UsageIsTaken
<1> QED
  BY <1>9, <1>10, <1>11 DEF TokenInv

(* A policy is stored, or a day passes: limits and days only rise. *)
LEMMA RiseKeeps ==
    ASSUME TokenInv, PutPolicy \/ DayPasses
    PROVE  TokenInv'
<1>1. TokenTypeOK /\ BudgetInv /\ UNCHANGED <<usage, reg, taken, excused, regDisturbed>>
  BY DEF TokenInv, PutPolicy, DayPasses
<1>2. /\ day' \in Days /\ day' >= day /\ policy' \in TokenPolicies
      /\ ceiling' \in [Owners -> [Limit -> Nat \cup {None}]]
      /\ \A o \in Owners, f \in Limit :
            ceiling'[o][f] = None \/ (ceiling[o][f] # None /\ ceiling[o][f] <= ceiling'[o][f])
      /\ GoodPolicy(policy)'
  <2>1. LastDay \in Nat /\ day \in Nat /\ day \in Days
    BY <1>1, TokenAssumption DEF TokenTypeOK, Days
  <2>2. CASE DayPasses
    <3>1. \A o \in Owners, f \in Limit : ceiling[o][f] \in Nat \cup {None}
      BY <1>1 DEF TokenTypeOK
    <3>2. UNCHANGED <<policy, ceiling>> /\ day' = day + 1 /\ day < LastDay
      BY <2>2 DEF DayPasses
    <3>3. day' \in Days /\ day' >= day
      BY <2>1, <3>2 DEF Days
    <3>4. GoodPolicy(policy)'
      BY <1>1, <3>2 DEF BudgetInv, GoodPolicy, PolicyOf
    <3>5. policy' \in TokenPolicies /\ ceiling' \in [Owners -> [Limit -> Nat \cup {None}]]
      BY <1>1, <3>2 DEF TokenTypeOK
    <3>6. \A o \in Owners, f \in Limit :
             ceiling'[o][f] = None \/ (ceiling[o][f] # None /\ ceiling[o][f] <= ceiling'[o][f])
      BY <3>1, <3>2
    <3> QED
      BY <3>3, <3>4, <3>5, <3>6
  <2>3. CASE PutPolicy
    <3>1. /\ policy' \in TokenPolicies /\ day' = day
          /\ ceiling' = [o \in Owners |-> [f \in Limit |->
                           Higher(ceiling[o][f], InForce(PolicyOf(policy', o), f))]]
      BY <1>1, <2>3 DEF PutPolicy, Stored, TokenTypeOK, TokenPolicies
    <3>2. ASSUME NEW o \in Owners, NEW f \in Limit
          PROVE  /\ ceiling'[o][f] \in Nat \cup {None}
                 /\ ceiling'[o][f] = None
                       \/ (ceiling[o][f] # None /\ ceiling[o][f] <= ceiling'[o][f])
                 /\ \/ ceiling'[o][f] = None
                    \/ PolicyOf(policy', o).stops /\ PolicyOf(policy', o)[f] <= ceiling'[o][f]
      <4> DEFINE q == PolicyOf(policy', o)
      <4>1. q[f] \in Nat
        BY <3>1, TokenAssumption DEF TokenPolicies, PolicyOf, Field, Limit
      <4>2. ceiling[o][f] \in Nat \cup {None}
        BY <1>1 DEF TokenTypeOK
      <4>3. ceiling'[o][f] = Higher(ceiling[o][f], InForce(q, f))
        BY <3>1
      <4> HIDE DEF q
      <4>4. CASE q.stops
        BY <4>1, <4>2, <4>3, <4>4 DEF Higher, InForce, q
      <4>5. CASE ~ q.stops
        BY <4>3, <4>5 DEF Higher, InForce
      <4> QED
        BY <4>4, <4>5
    <3>3. ceiling' \in [Owners -> [Limit -> Nat \cup {None}]]
      BY <3>1, <3>2
    <3>4. GoodPolicy(policy)'
      BY <3>2 DEF GoodPolicy
    <3> QED
      BY <2>1, <3>1, <3>2, <3>3, <3>4
  <2> QED
    BY <2>2, <2>3
<1>3. TokenTypeOK'
  BY <1>1, <1>2 DEF TokenTypeOK
<1>4. /\ \A w \in SUBSET UsageRow : GoodUsage(w) => GoodUsage(w)'
      /\ \A p \in TokenPolicies : GoodPolicy(p) => GoodPolicy(p)'
      /\ \A w \in SUBSET UsageRow, c \in Contracts :
            IsFiniteSet(w) /\ Fits(w, c) => Fits(w, c)'
  BY <1>1, <1>2, GoodStaysGood
<1>5. BudgetInv'
  <2>1. DefaultPolicy \in TokenPolicies /\ usage \in SUBSET UsageRow
    BY <1>1 DEF TokenPolicies, TokenTypeOK
  <2>2. GoodUsage(usage)' /\ GoodPolicy(DefaultPolicy)'
    BY <1>1, <1>4, <2>1 DEF BudgetInv, GoodUsage, WithinLimits, GoodPolicy
  <2>3. ASSUME NEW j \in Registrations
        PROVE  /\ GoodUsage(reg[j].usage)' /\ GoodPolicy(reg[j].policy)'
               /\ reg[j].pc = "upstream" => Fits(reg[j].usage, reg[j].contract)'
    <3>1. /\ reg[j].usage \in SUBSET UsageRow /\ reg[j].policy \in TokenPolicies
          /\ reg[j].pc = "upstream" => reg[j].contract \in Contracts
          /\ GoodUsage(reg[j].usage) /\ GoodPolicy(reg[j].policy)
          /\ reg[j].pc = "upstream" => Fits(reg[j].usage, reg[j].contract)
      BY <1>1 DEF TokenTypeOK, RegSlot, BudgetInv
    <3>2. IsFiniteSet(reg[j].usage)
      BY <3>1 DEF GoodUsage
    <3> QED
      BY <1>1, <1>4, <3>1, <3>2 DEF GoodUsage, WithinLimits, GoodPolicy, Fits, PolicyOf
  <2> QED
    BY <1>1, <1>2, <2>2, <2>3 DEF BudgetInv
<1>6. ~ regDisturbed' => UsageIsTaken'
  BY <1>1 DEF TokenInv, UsageIsTaken, TakenApart, LatestTaken, Knows
<1> QED
  BY <1>3, <1>5, <1>6 DEF TokenInv

(* Every step of token governance keeps TokenInv. *)
LEMMA TokenStep == TokenInv /\ [TokenNext]_tokenVars => TokenInv'
<1> SUFFICES ASSUME TokenInv, [TokenNext]_tokenVars PROVE TokenInv'
  OBVIOUS
<1>1. CASE UNCHANGED tokenVars
  BY <1>1
     DEF tokenVars, TokenInv, TokenTypeOK, BudgetInv, GoodUsage, GoodPolicy, Fits,
         WithinLimits, PolicyOf, UsageIsTaken, TakenApart, LatestTaken, Knows
<1>2. CASE TokenNext
  BY <1>2, BeginKeeps, LoadPolicyKeeps, LoadUsageKeeps, EndKeeps, TakeKeeps, RiseKeeps
     DEF TokenNext
<1> QED
  BY <1>1, <1>2

(* Nothing is reserved at first. *)
LEMMA TokenFirst == TokenInit => TokenInv
<1> SUFFICES ASSUME TokenInit PROVE TokenInv
  OBVIOUS
<1>1. /\ policy = DefaultPolicy /\ usage = {} /\ day = 0 /\ taken = {}
      /\ reg = [i \in Registrations |-> NoRegistration]
      /\ ceiling = [o \in Owners |-> [f \in Limit |-> InForce(PolicyOf(DefaultPolicy, o), f)]]
  BY DEF TokenInit, EmptyUsage
<1>2. ASSUME NEW o \in Owners, NEW f \in Limit
      PROVE  /\ InForce(PolicyOf(DefaultPolicy, o), f) \in Nat \cup {None}
             /\ \/ ceiling[o][f] = None
                \/ /\ PolicyOf(DefaultPolicy, o).stops
                   /\ PolicyOf(DefaultPolicy, o)[f] <= ceiling[o][f]
  <2> DEFINE q == PolicyOf(DefaultPolicy, o)
  <2>1. q[f] \in Nat
    BY TokenAssumption DEF PolicyOf, Field, Limit
  <2>2. ceiling[o][f] = InForce(q, f)
    BY <1>1
  <2> HIDE DEF q
  <2>3. /\ InForce(q, f) \in Nat \cup {None}
        /\ ceiling[o][f] = None \/ (q.stops /\ q[f] <= ceiling[o][f])
    BY <2>1, <2>2 DEF InForce
  <2> QED
    BY <2>3 DEF q
<1>3. NoRegistration \in RegSlot /\ NoRegistration.pc = "idle" /\ NoRegistration.usage = {}
      /\ NoRegistration.policy = DefaultPolicy
  BY DEF NoRegistration, RegSlot, TokenPolicies, EmptyUsage
<1>4. TokenTypeOK
  <2>1. day \in Days
    BY <1>1, TokenAssumption DEF Days
  <2>2. ceiling \in [Owners -> [Limit -> Nat \cup {None}]]
    BY <1>1, <1>2
  <2> QED
    BY <1>1, <1>3, <2>1, <2>2, FS_EmptySet DEF TokenTypeOK, TokenPolicies
<1>5. BudgetInv
  <2>1. GoodUsage({})
    BY <1>4, EmptyUsageIsGood DEF EmptyUsage
  <2>2. GoodPolicy(DefaultPolicy)
    BY <1>2 DEF GoodPolicy
  <2> QED
    BY <1>1, <1>3, <2>1, <2>2 DEF BudgetInv
<1>6. UsageIsTaken
  <2>1. TakenApart = {}
    BY <1>1 DEF TakenApart, LatestTaken
  <2> QED
    BY <1>1, <1>3, <2>1 DEF UsageIsTaken
<1> QED
  BY <1>4, <1>5, <1>6 DEF TokenInv

(* TokenInv holds of the composed records. *)
LEMMA TokenInvariance == RecordsSpec => []TokenInv
<1>1. RecordsInit => TokenInv
  BY TokenFirst DEF RecordsInit
<1>2. [RecordsNext]_recordVars => [TokenNext]_tokenVars
  BY DEF RecordsNext, recordVars
<1>3. TokenInv /\ [RecordsNext]_recordVars => TokenInv'
  BY <1>2, TokenStep
<1> QED
  BY <1>1, <1>3, PTL DEF RecordsSpec

(* StoredUsageWithinLimit: what is stored as reserved for an owner on a    *)
(* day or in a month is within limits that were in force, for any number   *)
(* of overlapping registrations, policies, days and faults                 *)
(* (token-governance.ts, missions/register/route.ts).                      *)
THEOREM StoredUsageStaysWithinLimit == RecordsSpec => []StoredUsageWithinLimit
<1>1. TokenInv => StoredUsageWithinLimit
  BY DEF TokenInv, BudgetInv, GoodUsage, StoredUsageWithinLimit
<1> QED
  BY <1>1, TokenInvariance, PTL

(* TakenWithinLimit: what the hub took for an owner on a day or in a month *)
(* is within limits that were in force, all but the missions whose own     *)
(* registrations overlapped another, while none fails to load or save or   *)
(* drops old rows (missions/register/route.ts).                            *)
THEOREM TakenStaysWithinLimit == RecordsSpec => []TakenWithinLimit
<1>1. TokenInv => TakenWithinLimit
  <2> SUFFICES ASSUME TokenInv, ~ regDisturbed PROVE WithinLimits(TakenApart)
    BY DEF TakenWithinLimit
  <2>1. TokenTypeOK /\ UsageIsTaken /\ BudgetInv
    BY DEF TokenInv
  <2>2. PICK u \in SUBSET UsageRow : TakenApart \subseteq u /\ GoodUsage(u)
    <3>1. CASE \E i \in Registrations : reg[i].pc = "save"
      <4>1. PICK i \in Registrations : reg[i].pc = "save"
        BY <3>1
      <4>2. reg[i].usage \in SUBSET UsageRow
        BY <2>1 DEF TokenTypeOK, RegSlot
      <4> QED
        BY <2>1, <4>1, <4>2 DEF UsageIsTaken, BudgetInv, Knows
    <3>2. CASE \A i \in Registrations : reg[i].pc # "save"
      BY <2>1, <3>2 DEF UsageIsTaken, BudgetInv, TokenTypeOK
    <3> QED
      BY <3>1, <3>2
  <2>3. ASSUME NEW o \in Owners, NEW f \in Limit, NEW d \in Days
        PROVE  AtMost(Spent(TakenApart, o, Span(f, d)), ceiling[o][f])
    <3>1. /\ Spent(TakenApart, o, Span(f, d)) \in Nat /\ Spent(u, o, Span(f, d)) \in Nat
          /\ Spent(TakenApart, o, Span(f, d)) <= Spent(u, o, Span(f, d))
      BY <2>2, SpentIsMonotone DEF GoodUsage
    <3>2. AtMost(Spent(u, o, Span(f, d)), ceiling[o][f])
      BY <2>2 DEF GoodUsage, WithinLimits
    <3>3. ceiling[o][f] \in Nat \cup {None}
      BY <2>1 DEF TokenTypeOK
    <3> QED
      BY <3>1, <3>2, <3>3 DEF AtMost
  <2> QED
    BY <2>3 DEF WithinLimits
<1> QED
  BY <1>1, TokenInvariance, PTL
=============================================================================
