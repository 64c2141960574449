---------------------------- MODULE TokenBudget ----------------------------
(***************************************************************************)
(* Token governance: before a mission is registered its projected cost is  *)
(* held against its owner's limits, with what the owner has reserved for   *)
(* the day and the month; when GovHub takes the mission, its reservation   *)
(* is stored over the usage as it was before.                              *)
(*                                                                         *)
(* Tokens and dollars are one number here.  Reservations are never marked  *)
(* consumed or released by any route.                                      *)
(***************************************************************************)
EXTENDS RecordStore, Naturals, FiniteSets

CONSTANTS
    Owners,
    Registrations,   \* bound: registrations that may be in flight
    Contracts,       \* bound: what is registered, with its projected cost
    Policies,        \* what PUT may store
    DefaultPolicy,   \* defaultTokenPolicyState
    UsageRows,       \* a usage snapshot keeps its newest UsageRows rows (3000)
    LastDay,         \* bound: the days that pass
    MonthOf,         \* the month of each of these days
    MaxTaken         \* bound: how many missions are registered or being so

ASSUME TokenAssumption ==
    /\ UsageRows \in Nat /\ LastDay \in Nat
    /\ MonthOf \in [0..LastDay -> Nat]
    /\ \A d, e \in 0..LastDay : d <= e => MonthOf[d] <= MonthOf[e]
    /\ \A p \in Policies \cup {DefaultPolicy} :
          /\ {p.default.daily, p.default.monthly} \subseteq Nat
          /\ \A o \in Owners : {p.own[o].daily, p.own[o].monthly} \subseteq Nat \cup {None}
    /\ \A c \in Contracts : c.owner \in Owners /\ c.cost \in Nat

VARIABLES
    policy, usage,   \* the stored snapshots
    day,
    reg,             \* the registrations in flight
    taken,           \* what GovHub took, a set of numbered rows with their day
    ceiling,         \* for every owner, the highest limits ever in force
    excused,         \* the numbers of those whose registration overlapped another
    regDisturbed     \* a load or save failed, or old rows were dropped

tokenVars == <<policy, usage, day, reg, taken, ceiling, excused, regDisturbed>>

Limit == {"daily", "monthly"}

Field == Limit \cup {"stops"}

EmptyUsage == {}

(* resolvePolicyForOwner: the fields an override leaves out are the        *)
(* default's.                                                              *)
PolicyOf(p, o) ==
    [f \in Field |-> IF p.own[o][f] = None THEN p.default[f] ELSE p.own[o][f]]

Days == 0..LastDay

(* The days that count for a limit on the day d. *)
Span(f, d) == IF f = "daily" THEN {d} ELSE {e \in Days : MonthOf[e] = MonthOf[d]}

(* What an owner has reserved, token by token. *)
Tokens(u, o, days) ==
    UNION {{<<r, n>> : n \in 1..r.cost} : r \in {x \in u : x.owner = o /\ x.day \in days}}

Spent(u, o, days) == Cardinality(Tokens(u, o, days))

(* evaluateTokenGovernance *)
ExceedsSpentOnly(p, u, c) ==   \* mutated
    \E f \in Limit : Spent(u, c.owner, Span(f, day)) > p[f]

Exceeds(p, u, c) == \E f \in Limit : Spent(u, c.owner, Span(f, day)) + c.cost > p[f]

Allowed(p, u, c) == ~ (Exceeds(p, u, c) /\ (c.hardStop \/ p.stops))

(* appendUsageReservation: replaces an earlier one of the mission and its  *)
(* owner, and drops the oldest rows.                                       *)
NewestUsage(u) == {r \in u : Cardinality({x \in u : x.at > r.at}) < UsageRows}

ReservedForMission(u, row) ==   \* mutated
    NewestUsage({x \in u : x.mission # row.mission} \cup {row})

SameReservation(x, row) == x.mission = row.mission /\ x.owner = row.owner

Reserved(u, row) == NewestUsage({x \in u : ~ SameReservation(x, row)} \cup {row})

-----------------------------------------------------------------------------
(* Registering a mission. *)

(* "at" is the number of the mission once it is taken; "overlaps" says     *)
(* that another registration was in flight at some time of this one.       *)
NoRegistration ==
    [pc |-> "idle", contract |-> None, asked |-> {},
     policy |-> DefaultPolicy, usage |-> EmptyUsage, at |-> 0, overlaps |-> FALSE]

RegAt(i, pc) == reg[i].pc = pc

RegTo(i, x) == reg' = [reg EXCEPT ![i] = x]

InFlight == {j \in Registrations : ~ RegAt(j, "idle")}

BeginRegistration(i) ==
    /\ RegAt(i, "idle")
    /\ Cardinality(taken) + Cardinality(InFlight) < MaxTaken
    /\ \E c \in Contracts :
          reg' = [j \in Registrations |->
                    IF j = i THEN [NoRegistration EXCEPT !.pc = "load", !.contract = c,
                                     !.asked = {"policy", "usage"}, !.overlaps = InFlight # {}]
                    ELSE IF j \in InFlight THEN [reg[j] EXCEPT !.overlaps = TRUE]
                    ELSE reg[j]]
    /\ excused' = excused \cup {reg[j].at : j \in {k \in Registrations : RegAt(k, "save")}}
    /\ UNCHANGED <<policy, usage, day, taken, ceiling, regDisturbed>>

(* Policy and usage are loaded together, and answer in either order; the   *)
(* second answer decides.                                                  *)
Decided(x) ==
    IF x.asked # {} THEN x
    ELSE IF Allowed(PolicyOf(x.policy, x.contract.owner), x.usage, x.contract)
      THEN [x EXCEPT !.pc = "upstream"]
      ELSE NoRegistration

LoadPolicy(i) ==
    /\ RegAt(i, "load") /\ "policy" \in reg[i].asked
    /\ \E p \in Loaded(policy, DefaultPolicy) :
          /\ RegTo(i, Decided([reg[i] EXCEPT !.asked = @ \ {"policy"}, !.policy = p]))
          /\ regDisturbed' = (regDisturbed \/ p # policy)
    /\ UNCHANGED <<policy, usage, day, taken, ceiling, excused>>

LoadUsage(i) ==
    /\ RegAt(i, "load") /\ "usage" \in reg[i].asked
    /\ \E u \in Loaded(usage, EmptyUsage) :
          /\ RegTo(i, Decided([reg[i] EXCEPT !.asked = @ \ {"usage"}, !.usage = u]))
          /\ regDisturbed' = (regDisturbed \/ u # usage)
    /\ UNCHANGED <<policy, usage, day, taken, ceiling, excused>>

(* GovHub refuses the mission or cannot be reached. *)
UpstreamFails(i) ==
    /\ RegAt(i, "upstream")
    /\ RegTo(i, NoRegistration)
    /\ UNCHANGED <<policy, usage, day, taken, ceiling, excused, regDisturbed>>

(* GovHub takes the mission; the reservation carries the time it is made.  *)
UpstreamTakes(i) ==
    /\ RegAt(i, "upstream")
    /\ LET c   == reg[i].contract
           row == [mission |-> c.mission, owner |-> c.owner, cost |-> c.cost, day |-> day,
                   at |-> Cardinality(taken) + 1]
       IN  /\ RegTo(i, [reg[i] EXCEPT !.pc = "save", !.usage = Reserved(@, row),
                                      !.at = row.at])
           /\ taken' = taken \cup {row}
           /\ excused' = IF reg[i].overlaps THEN excused \cup {row.at} ELSE excused
           /\ regDisturbed' = (regDisturbed \/ Cardinality(reg[i].usage) >= UsageRows)
    /\ UNCHANGED <<policy, usage, day, ceiling>>

(* Whatever the save answers, the registration goes on to the queue.       *)
SaveUsage(i) ==
    /\ RegAt(i, "save")
    /\ \E result \in SaveResults :
          /\ usage' = Stored(result, usage, reg[i].usage)
          /\ regDisturbed' = (regDisturbed \/ result = "failed")
    /\ RegTo(i, NoRegistration)
    /\ UNCHANGED <<policy, day, taken, ceiling, excused>>

-----------------------------------------------------------------------------
(* A policy that does not stop is no limit. *)
InForce(p, f) == IF p.stops THEN p[f] ELSE None

Higher(a, b) == IF None \in {a, b} THEN None ELSE IF a > b THEN a ELSE b

(* PUT /token/policy replaces the whole policy, overrides included, by     *)
(* what the caller has.                                                    *)
PutPolicy ==
    /\ \E p \in Policies : \E result \in SaveResults :
          /\ policy' = Stored(result, policy, p)
          /\ ceiling' = [o \in Owners |-> [f \in Limit |->
                           Higher(ceiling[o][f], InForce(PolicyOf(policy', o), f))]]
    /\ UNCHANGED <<usage, day, reg, taken, excused, regDisturbed>>

DayPasses ==
    /\ day < LastDay
    /\ day' = day + 1
    /\ UNCHANGED <<policy, usage, reg, taken, ceiling, excused, regDisturbed>>

TokenInit ==
    /\ policy = DefaultPolicy
    /\ usage = EmptyUsage /\ day = 0
    /\ reg = [i \in Registrations |-> NoRegistration]
    /\ taken = {} /\ excused = {}
    /\ ceiling = [o \in Owners |-> [f \in Limit |-> InForce(PolicyOf(DefaultPolicy, o), f)]]
    /\ regDisturbed = FALSE

TokenNext ==
    \/ \E i \in Registrations :
         \/ BeginRegistration(i) \/ LoadPolicy(i)    \/ LoadUsage(i)
         \/ UpstreamFails(i)     \/ UpstreamTakes(i) \/ SaveUsage(i)
    \/ PutPolicy \/ DayPasses
-----------------------------------------------------------------------------
AtMost(n, limit) == limit = None \/ n <= limit

WithinLimits(u) ==
    \A o \in Owners, f \in Limit, d \in Days : AtMost(Spent(u, o, Span(f, d)), ceiling[o][f])

(* However registrations overlap and whatever fails, what is stored as     *)
(* reserved for an owner on a day and in a month is within limits that     *)
(* were in force: every save stores a copy that was checked, by the time   *)
(* of the check                                                            *)
(* (token-governance.ts:216-301, missions/register/route.ts:406-513).      *)
StoredUsageWithinLimit == WithinLimits(usage)

(* The cost of a mission taken twice counts once, as its latest. *)
LatestTaken == {r \in taken : \A x \in taken : x.at > r.at => ~ SameReservation(x, r)}

(* The missions whose registrations overlapped no other. *)
TakenApart == {r \in LatestTaken : r.at \notin excused}

(* While no load or save fails, what the hub took for an owner on a day    *)
(* and in a month is within the owner's limits, although the day or the    *)
(* month may change between the check and the reservation: all but the     *)
(* missions whose own registrations overlapped another, which may lose     *)
(* each other's reservations and lose none of any third                    *)
(* (missions/register/route.ts:406-513).                                   *)
TakenWithinLimit == regDisturbed \/ WithinLimits(TakenApart)
=============================================================================
