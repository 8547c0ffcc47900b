---------------------------- MODULE FeedContract ----------------------------
(***************************************************************************)
(* What the work feed promises about placement and progress, without rows, *)
(* leases, budgets or calls: a resource is placed on one agent, once; only *)
(* that agent ever holds it; the desired revision only grows; and observed *)
(* progress only grows, up to the desired revision.                        *)
(***************************************************************************)
EXTENDS Naturals

CONSTANTS Resource, Agent, NoAgent

VARIABLES
  owner,     \* owner[r]: the agent r is placed on, or NoAgent
  holders,   \* holders[r]: the agents with work for r or a workload of r
  desired,   \* desired[r]: the revision asked for
  observed   \* observed[r]: the revision known to be reached

vars == <<owner, holders, desired, observed>>

Init ==
  /\ owner = [r \in Resource |-> NoAgent]
  /\ holders = [r \in Resource |-> {}]
  /\ desired = [r \in Resource |-> 1]
  /\ observed = [r \in Resource |-> 0]

\* Agent a is given the resources S: its own, or ones never placed before.
Place(a, S) ==
  /\ \A r \in S : owner[r] \in {a, NoAgent}
  /\ owner' = [r \in Resource |-> IF r \in S THEN a ELSE owner[r]]
  /\ holders' \in [Resource -> SUBSET Agent]
  /\ \A r \in Resource :
       holders'[r] \subseteq holders[r] \cup (IF r \in S THEN {a} ELSE {})
  /\ UNCHANGED <<desired, observed>>

\* Workloads and undone work disappear from hosts.
Release ==
  /\ holders' \in [Resource -> SUBSET Agent]
  /\ \A r \in Resource : holders'[r] \subseteq holders[r]
  /\ UNCHANGED <<owner, desired, observed>>

Demand(r) ==
  /\ desired' = [desired EXCEPT ![r] = @ + 1]
  /\ UNCHANGED <<owner, holders, observed>>

Advance(r) ==
  /\ \E n \in observed[r]..desired[r] : observed' = [observed EXCEPT ![r] = n]
  /\ UNCHANGED <<owner, holders, desired>>

Next ==
  \/ \E a \in Agent, S \in SUBSET Resource : Place(a, S)
  \/ Release
  \/ \E r \in Resource : Demand(r) \/ Advance(r)

Spec == Init /\ [][Next]_vars
=============================================================================
