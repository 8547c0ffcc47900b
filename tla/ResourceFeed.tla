---------------------------- MODULE ResourceFeed ----------------------------
(***************************************************************************)
(* The reconciler's work feed: operators change desired state through the  *)
(* REST API, agents pull leased work and report back through the           *)
(* AgentGateway, and everything meets in the rows of the resources table.  *)
(* A status report (agent) and a status patch (operator) read the row,     *)
(* compute in Go, and write it back in a second statement; every other     *)
(* operation is decided by one SQL statement.                              *)
(*                                                                         *)
(* The agent is an external program: it applies or tears down the item it  *)
(* was handed and then reports, one call at a time, and calls can be lost. *)
(* Spec has agents that wait for their calls; in LateSpec operators also   *)
(* patch statuses, and a caller may stop waiting for a call Core goes on   *)
(* serving.                                                                *)
(***************************************************************************)
EXTENDS ResourceRow, FiniteSets

CONSTANTS
  Resource,       \* resource_uuid values
  SystemTier,     \* the resources whose metadata says tier = system
  MaxItems,       \* PullWork max_items
  StatusDocs,     \* the status documents agents attach to their reports
  StatusPatches,  \* the bodies operators PATCH to /resources/{id}/status
  MaxGeneration,  \* bound: no spec change or re-dispatch beyond this revision
  MaxAttempts,    \* bound: no further failures reported once attempts is here
  MaxCalls        \* bound: status writes in flight at once

ASSUME SystemTierAssumption == SystemTier \subseteq Resource
ASSUME MaxItemsAssumption == MaxItems \in Nat \ {0}
ASSUME StatusDocsAssumption ==
  StatusDocs \subseteq ({"none", "plain"} \cup (Health \ {""}))
ASSUME StatusPatchesAssumption == StatusPatches \subseteq Report

VARIABLES
  rows,    \* the resources table
  older,   \* the pairs of live rows whose updated_at differ, earlier one first
  work,    \* work[a][r]: the envelope agent a holds for r
  host,    \* host[a][r]: the generation of r present on a's host, 0 if none
  calls    \* status writes in flight, from agents and from operators

vars == <<rows, older, work, host, calls>>

NoWork == [generation |-> 0, teardown |-> FALSE]
Work == [generation: Nat, teardown: BOOLEAN]
Operator == NoAgent     \* the caller of a status patch

Call == [caller: Agent \cup {Operator}, res: Resource, rep: Report,
         phase: {"sent", "read"}, cur: Row, awaited: BOOLEAN]

Init ==
  /\ rows = [r \in Resource |-> AbsentRow]
  /\ older = {}
  /\ work = [a \in Agent |-> [r \in Resource |-> NoWork]]
  /\ host = [a \in Agent |-> [r \in Resource |-> 0]]
  /\ calls = {}

----------------------------------------------------------------------------
Live(r) == rows[r].life = "live"
Busy(a) == \E c \in calls : c.caller = a /\ c.awaited

\* Every statement stamps updated_at = now() on the rows S it writes.
Stamp(S) ==
  older' = {p \in older : p[1] \notin S /\ p[2] \notin S}
             \cup ({r \in Resource : Live(r)} \ S) \X S

Write(r, row) == rows' = [rows EXCEPT ![r] = row] /\ Stamp({r})

\* REST: create, change the spec, delete.
Create(r) ==
  /\ rows[r].life = "absent"
  /\ Write(r, CreateResource(rows[r]))
  /\ UNCHANGED <<work, host, calls>>

UpdateSpec(r) ==
  /\ Live(r)
  /\ rows[r].generation < MaxGeneration
  /\ Write(r, UpdateResourceSpec(rows[r]))
  /\ UNCHANGED <<work, host, calls>>

Delete(r) ==
  /\ Live(r)
  /\ Write(r, MarkResourceDeleting(rows[r]))
  /\ UNCHANGED <<work, host, calls>>

\* The supervisor's keep-alive write.
RedispatchSystem(r) ==
  /\ r \in SystemTier
  /\ Redispatchable(rows[r])
  /\ rows[r].generation < MaxGeneration
  /\ Write(r, RedispatchSystemResource(rows[r]))
  /\ UNCHANGED <<work, host, calls>>

\* (Mutant: an expired lease still counts.)
LeaseExpires_Never(r) == FALSE /\ UNCHANGED vars

\* Time.
LeaseExpires(r) ==
  /\ Live(r) /\ rows[r].leased
  /\ rows' = [rows EXCEPT ![r].leased = FALSE]
  /\ UNCHANGED <<older, work, host, calls>>

\* next_attempt_at passes, in the row and in the copies that calls have read.
BackoffElapses(r) ==
  /\ Live(r) /\ rows[r].backoff
  /\ rows' = [rows EXCEPT ![r].backoff = FALSE]
  /\ calls' = {[c EXCEPT !.cur.backoff = @ /\ c.res # r] : c \in calls}
  /\ UNCHANGED <<older, work, host>>

----------------------------------------------------------------------------
\* AgentGateway.PullWork claims the oldest claimable rows, up to max_items
\* (rows with the same updated_at in any order).

OldestFirst(S, all) == \A r \in S, q \in all \ S : <<q, r>> \notin older

Batches(a) ==
  LET all == {r \in Resource : Claimable(rows[r], a)}
  IN  {S \in SUBSET all : /\ Cardinality(S) <= MaxItems
                          /\ Cardinality(S) = MaxItems \/ S = all
                          /\ OldestFirst(S, all)}

ClaimForAgent(a, S) ==
  /\ rows' = [r \in Resource |->
                IF r \in S THEN ClaimAgentWork(rows[r], a) ELSE rows[r]]
  /\ Stamp(S)

PullWork(a) ==
  /\ ~Busy(a)
  /\ \E S \in Batches(a) \ {{}} :
       /\ ClaimForAgent(a, S)
       /\ work' = [work EXCEPT ![a] =
                     [r \in Resource |->
                        IF r \in S THEN Envelope(rows[r]) ELSE work[a][r]]]
  /\ UNCHANGED <<host, calls>>

\* The claim committed but its response never reached the agent.
PullWorkLost(a) ==
  /\ ~Busy(a)
  /\ \E S \in Batches(a) \ {{}} : ClaimForAgent(a, S)
  /\ UNCHANGED <<work, host, calls>>

----------------------------------------------------------------------------
\* The agent: act on an envelope, then report the outcome.

Send(caller, r, rep) ==
  /\ Cardinality(calls) < MaxCalls
  /\ calls' = calls \cup {[caller |-> caller, res |-> r, rep |-> rep,
                           phase |-> "sent", cur |-> AbsentRow, awaited |-> TRUE]}

Converge(a, r) ==
  /\ ~Busy(a)
  /\ work[a][r] # NoWork
  /\ \E doc \in StatusDocs :
       Send(a, r, [state |-> IF work[a][r].teardown THEN "removed" ELSE "running",
                   observed |-> work[a][r].generation, status |-> doc])
  /\ host' = [host EXCEPT ![a][r] =
                IF work[a][r].teardown THEN 0 ELSE work[a][r].generation]
  /\ work' = [work EXCEPT ![a][r] = NoWork]
  /\ UNCHANGED <<rows, older>>

FailToConverge(a, r) ==
  /\ ~Busy(a)
  /\ work[a][r] # NoWork
  /\ rows[r].attempts < MaxAttempts
  /\ Send(a, r, [state |-> "failed", observed |-> work[a][r].generation,
                 status |-> "plain"])
  /\ work' = [work EXCEPT ![a][r] = NoWork]
  /\ UNCHANGED <<rows, older, host>>

\* A drift observation about a workload present on the host.
ObserveDrift(a, r) ==
  /\ ~Busy(a)
  /\ host[a][r] # 0
  /\ \E d \in Drift : Send(a, r, [state |-> d, observed |-> host[a][r],
                                  status |-> "plain"])
  /\ UNCHANGED <<rows, older, work, host>>

\* The agent process restarts: what it had pulled and not yet done is gone.
AgentRestart(a) ==
  /\ ~Busy(a)
  /\ \E r \in Resource : work[a][r] # NoWork
  /\ work' = [work EXCEPT ![a] = [r \in Resource |-> NoWork]]
  /\ UNCHANGED <<rows, older, host, calls>>

PatchStatus(r) ==
  /\ ~Busy(Operator)
  /\ \E in \in StatusPatches : Send(Operator, r, in)
  /\ UNCHANGED <<rows, older, work, host>>

----------------------------------------------------------------------------
\* ReportStatus (and UpdateStatus) at Core: read, then write.

Authorized(c) == Live(c.res) /\ c.caller \in {Operator, rows[c.res].agent}

ReadRow(c) ==
  /\ c.phase = "sent"
  /\ calls' = (calls \ {c}) \cup
       (IF Authorized(c)
        THEN {[c EXCEPT !.phase = "read", !.cur = rows[c.res]]}
        ELSE {})
  /\ UNCHANGED <<rows, older, work, host>>

WriteRow(c) ==
  /\ c.phase = "read"
  /\ calls' = calls \ {c}
  /\ IF Live(c.res)
     THEN LET row == IF c.caller = Operator
                     THEN UpdateResourceStatus(c.cur, rows[c.res], c.rep)
                     ELSE ApplyAgentReport(c.cur, rows[c.res], c.rep)
          IN  Write(c.res, row)
     ELSE UNCHANGED <<rows, older>>
  /\ UNCHANGED <<work, host>>

\* The request never arrives, or Core stops between the two statements.
LoseCall(c) ==
  /\ calls' = calls \ {c}
  /\ UNCHANGED <<rows, older, work, host>>

\* The caller times out; Core goes on serving the call.
GiveUpWaiting(c) ==
  /\ c.awaited
  /\ calls' = (calls \ {c}) \cup {[c EXCEPT !.awaited = FALSE]}
  /\ UNCHANGED <<rows, older, work, host>>

----------------------------------------------------------------------------
ResourceStep(r) ==
  \/ Create(r) \/ UpdateSpec(r) \/ Delete(r) \/ RedispatchSystem(r)
  \/ LeaseExpires(r) \/ BackoffElapses(r)

AgentStep(a) ==
  \/ PullWork(a) \/ PullWorkLost(a) \/ AgentRestart(a)
  \/ \E r \in Resource : Converge(a, r) \/ FailToConverge(a, r) \/ ObserveDrift(a, r)

CallStep(c) == ReadRow(c) \/ WriteRow(c) \/ LoseCall(c)

Next ==
  \/ \E r \in Resource : ResourceStep(r)
  \/ \E a \in Agent : AgentStep(a)
  \/ \E c \in calls : CallStep(c)

Spec == Init /\ [][Next]_vars

\* Operators patch statuses by hand.
PatchedNext == Next \/ \E r \in Resource : PatchStatus(r)
PatchedSpec == Init /\ [][PatchedNext]_vars

\* Besides, calls outlive their callers' wait for them.
LateNext == PatchedNext \/ \E c \in calls : GiveUpWaiting(c)
LateSpec == Init /\ [][LateNext]_vars

\* a's report of what came of its work on r.
Outcome(c, a, r) == c.caller = a /\ c.res = r /\ c.rep.state \notin Drift

\* Time passes, agents poll forever and work through what they hold, a call ends,
\* and the report of an outcome is not lost for ever, whatever is observed besides.
Fairness ==
  /\ \A r \in Resource : WF_vars(LeaseExpires(r)) /\ WF_vars(BackoffElapses(r))
  /\ \A a \in Agent : SF_vars(PullWork(a))
  /\ \A r \in Resource, a \in Agent :
       /\ SF_vars(Converge(a, r) \/ FailToConverge(a, r))
       /\ SF_vars(\E c \in calls : Outcome(c, a, r) /\ ReadRow(c))
       /\ SF_vars(\E c \in calls : Outcome(c, a, r) /\ WriteRow(c))
       /\ WF_vars(\E c \in calls : c.caller = a /\ c.res = r /\ CallStep(c))

FairSpec == Spec /\ Fairness

----------------------------------------------------------------------------
\* Properties.

\* Type invariant of the table, the agents' holdings and the calls in flight.
TypeOK ==
  /\ rows \in [Resource -> Row]
  /\ older \subseteq Resource \X Resource
  /\ work \in [Agent -> [Resource -> Work]]
  /\ host \in [Agent -> [Resource -> Nat]]
  /\ calls \subseteq Call

\* No split brain: work for a resource, and a workload of it on a host, is only
\* ever with the agent the row is assigned to, whatever leases expired,
\* messages were lost or re-dispatches happened since (ClaimAgentWork:
\* "first claim is sticky"; FlagResourceHostUnreachable: "two hosts running the
\* same stateful workload" must never happen).
SoleCustody ==
  \A a \in Agent, r \in Resource :
    \/ work[a][r] # NoWork
    \/ host[a][r] # 0
    => rows[r].agent = a

\* A finalized delete leaves nothing behind (MarkResourceDeleting: only the
\* agent's "removed" report finalizes, "otherwise the workload would keep
\* running on the host with no record of it").
NoOrphan ==
  \A r \in Resource :
    rows[r].life = "deleted" => \A a \in Agent : host[a][r] = 0

\* What the table calls converged is what the host has: a live row that says
\* running at its current generation describes a workload of that generation
\* on the assigned host (ApplyAgentReport, "running" -> converged).
ConvergedIsReal ==
  \A r \in Resource :
    LET row == rows[r] IN
    row.life = "live" /\ row.state = "running" /\ row.observed = row.generation
      => row.agent # NoAgent /\ host[row.agent][r] = row.generation

\* The retry budget holds: a row waiting for its first or its next attempt has one
\* left, so a poisoned spec cannot hot-loop its agent. (A teardown is retried
\* beyond the budget, and so is a row whose failure an observation overwrote.)
FeedWithinBudget ==
  \A r \in Resource :
    NeedsWork(rows[r]) /\ rows[r].state \in {"pending", "error", "running"} =>
      rows[r].attempts < Budget

\* A row that needs work is worked off: it converges, parks, or is finalized,
\* although claims, reports and agents get lost on the way.
Settles ==
  \A r \in Resource : NeedsWork(rows[r]) ~> ~NeedsWork(rows[r])

\* A requested teardown stays requested until it is finalized, parked by the
\* retry budget, or revoked by a new spec (Service.Delete: "the row must stay
\* in the work feed so PullWork can ship a teardown envelope").
TeardownSurvives ==
  [][\A r \in Resource :
       rows[r].life = "live" /\ rows[r].state = "deleting" =>
         \/ rows'[r].state \in {"deleting", "failed"}
         \/ rows'[r].life = "deleted"
         \/ rows'[r].generation > rows[r].generation]_vars

\* A parked row leaves 'failed' only through a new generation, a delete
\* (ListOutOfSyncResources: "only a spec change re-arms it"), or a drift report,
\* which is recorded as it is.
ParkedUntilSpecChange ==
  [][\A r \in Resource :
       rows[r].state = "failed" /\ rows'[r].state \notin {"failed", "deleting"} =>
         rows'[r].generation > rows[r].generation \/ rows'[r].state \in Drift]_vars

----------------------------------------------------------------------------
\* Refinement: the feed keeps the placement and progress contract.

Holders(r) == {a \in Agent : work[a][r] # NoWork \/ host[a][r] # 0}

Contract == INSTANCE FeedContract WITH
  owner <- [r \in Resource |-> rows[r].agent],
  holders <- [r \in Resource |-> Holders(r)],
  desired <- [r \in Resource |-> rows[r].generation],
  observed <- [r \in Resource |-> rows[r].observed]

\* Every step of the feed is a step, or a stutter, of FeedContract: placement
\* is decided once by the first claim, and progress only moves forward within
\* the revisions handed out. (Operators' status patches are excluded: they may
\* write any observed_generation.)
KeepsContract == Contract!Spec
=============================================================================
