--------------------------- MODULE AgentRegistry ---------------------------
(***************************************************************************)
(* The agent registry as a value: the load every registered agent carries. *)
(*                                                                         *)
(* Abstraction: an agent's state (idle, running, stale, down) is derived   *)
(* from its health and the age of its last heartbeat each time the         *)
(* registry is loaded, so the model lets every load find any subset of     *)
(* the registered agents usable.  Every reader clamps a load to 999; the   *)
(* model clamps it to MaxLoad when it is raised.                           *)
(***************************************************************************)
EXTENDS Naturals, QueueRows

CONSTANTS
    AgentRole,   \* the role an agent registers with
    MaxLoad      \* the load every reader clamps to

Registry == [Agents -> 0..MaxLoad \cup {None}]

ASSUME RegistryAssumption ==
    /\ AgentRole \in [Agents -> Assignee]
    /\ MaxLoad \in Nat \ {0}
    /\ None \notin 0..MaxLoad

EmptyRegistry == [a \in Agents |-> None]

Registered(reg) == {a \in Agents : reg[a] # None}

(* STAFF is human work and never blocked on a heartbeat. *)
HasHealthyAgent(up, who) == who = "STAFF" \/ \E a \in up : AgentRole[a] = who

(* The agents a start may pick: usable, of the role, least loaded. *)
StartAgents(reg, up, who) ==
    LET able == {a \in up : AgentRole[a] = who}
    IN  IF who = "STAFF" \/ able = {}
          THEN {None}
          ELSE {a \in able : \A x \in able : reg[a] <= reg[x]}

Bumped(reg, a) == [reg EXCEPT ![a] = IF reg[a] < MaxLoad THEN reg[a] + 1 ELSE MaxLoad]

(* The agents a release may find: the row's own agent when it names one,   *)
(* else the first agent of the role.                                       *)
ReleaseTargets(reg, row) ==
    {a \in Registered(reg) : /\ row.assignee # "STAFF"
                             /\ AgentRole[a] = row.assignee
                             /\ row.agent \in {None, a}}

ReleasedBelowZero(reg, a) == [reg EXCEPT ![a] = reg[a] - 1]   \* mutated

Released(reg, a) == [reg EXCEPT ![a] = IF reg[a] = 0 THEN 0 ELSE reg[a] - 1]

(* The registries a release may produce. *)
Releases(reg, row) ==
    IF ReleaseTargets(reg, row) = {}
      THEN {reg}
      ELSE {Released(reg, a) : a \in ReleaseTargets(reg, row)}
=============================================================================
