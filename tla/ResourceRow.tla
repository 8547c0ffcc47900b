---------------------------- MODULE ResourceRow ----------------------------
(***************************************************************************)
(* One row of the resources table and every statement that rewrites it     *)
(* (internal/storage/queries/resource.sql, internal/resource/service.go).  *)
(* Each operator maps the row a statement finds to the row it leaves.      *)
(*                                                                         *)
(* Timestamps are reduced to the one question the code asks of them:       *)
(*   leased       leased_until lies in the future                          *)
(*   backoff      next_attempt_at lies in the future                       *)
(* and the status document to the one key the code reads back from it:     *)
(*   unreachable  status ->> 'host_unreachable' = 'true'                   *)
(***************************************************************************)
EXTENDS Integers

CONSTANTS
  Agent,          \* agents.agent_id values
  NoAgent,        \* resources.agent_id IS NULL
  AttemptBudget,  \* gateway Options.AttemptBudget, as configured
  Drift           \* what else an agent may report: "exited", ..., or "" (no state)

ASSUME NoAgentAssumption == NoAgent \notin Agent
ASSUME AttemptBudgetAssumption == AttemptBudget \in Nat
ASSUME DriftAssumption ==
  Drift \cap {"pending", "running", "error", "failed", "deleting", "removed"} = {}

\* resources.state: the values Core writes and the agent's own observations.
State == {"pending", "running", "error", "failed", "deleting", "removed"} \cup (Drift \ {""})

\* resources.health, as far as supervision tells the values apart.
Health == {"", "healthy", "unhealthy", "unknown"}

\* A status report. 'status' is the decoded status_json: "none" when it was
\* empty or not an object, "plain" when it carried no health, else its health.
Report == [state: State \cup {""}, observed: Nat,
           status: {"none", "plain"} \cup (Health \ {""})]

\* What a report writes.
Params == [state: State, health: Health, unreachable: BOOLEAN, observed: Nat,
           attempts: Nat, backoff: BOOLEAN, finalize: BOOLEAN]

Row == [life: {"absent", "live", "deleted"}, state: State, health: Health,
        unreachable: BOOLEAN, generation: Nat, observed: Nat,
        agent: Agent \cup {NoAgent}, leased: BOOLEAN,
        attempts: Nat, backoff: BOOLEAN]

AbsentRow == [life |-> "absent", state |-> "pending", health |-> "",
              unreachable |-> FALSE, generation |-> 1, observed |-> 0,
              agent |-> NoAgent, leased |-> FALSE,
              attempts |-> 0, backoff |-> FALSE]

\* CreateResource: the column defaults of the migration.
CreateResource(row) == [row EXCEPT !.life = "live"]

\* UpdateResourceSpec: a new desired revision with a fresh retry budget. The
\* lease and the agent assignment stay as they are.
UpdateResourceSpec(row) ==
  [row EXCEPT !.generation = @ + 1, !.state = "pending",
              !.attempts = 0, !.backoff = FALSE]

\* MarkResourceDeleting: only the state changes.
MarkResourceDeleting(row) == [row EXCEPT !.state = "deleting"]

\* Service.UpdateStatus: what was left out of the request is filled in from the
\* row read before (cur), then UpdateResourceStatus writes all three columns.
UpdateResourceStatus(cur, row, in) ==
  [row EXCEPT !.state = IF in.state = "" THEN cur.state ELSE in.state,
              !.observed = IF in.observed > 0 THEN in.observed ELSE cur.observed,
              !.unreachable = IF in.status = "none" THEN cur.unreachable ELSE FALSE]

\* (Mutant: parked rows are offered too.)
NeedsWork_Parked(row) ==
  /\ row.observed < row.generation \/ row.state \in {"deleting", "error"}
  /\ row.life = "live"

\* The feed rules shared by ListOutOfSyncResources and ClaimAgentWork.
NeedsWork(row) ==
  /\ row.observed < row.generation \/ row.state \in {"deleting", "error"}
  /\ row.state # "failed"
  /\ row.life = "live"

InFeed(row) == NeedsWork(row) /\ ~row.leased /\ ~row.backoff

\* (Mutant: the assignment filter is dropped.)
Claimable_AnyAgent(row, a) == InFeed(row)

\* ClaimAgentWork narrows the feed to the caller's own and unassigned rows.
Claimable(row, a) == InFeed(row) /\ row.agent \in {a, NoAgent}

ClaimAgentWork(row, a) == [row EXCEPT !.agent = a, !.leased = TRUE]

\* PullWork's envelope: the revision to apply, and whether to tear it down.
Envelope(row) == [generation |-> row.generation, teardown |-> row.state = "deleting"]

----------------------------------------------------------------------------
\* Service.ApplyAgentReport computes its write from the row it read (cur).

Budget == IF AttemptBudget < 1 THEN 10 ELSE AttemptBudget

\* (Mutant: off by one.)
Exhausted_OneMore(cur) == cur.attempts + 1 > Budget

Exhausted(cur) == cur.attempts + 1 >= Budget

\* (Mutant: any answer for a row being torn down finalizes it.)
Finalizes_AnyAnswer(cur, rep) == cur.state = "deleting"

Finalizes(cur, rep) == rep.state = "removed" /\ cur.state = "deleting"

ReportedState(cur, rep) ==
  CASE rep.state = "failed" /\ Exhausted(cur) -> "failed"
    [] rep.state = "failed" /\ ~Exhausted(cur) ->
         IF cur.state = "deleting" THEN "deleting" ELSE "error"
    [] rep.state = "" -> cur.state
    [] OTHER -> rep.state

ReportedAttempts(cur, rep) ==
  CASE rep.state = "running" -> 0
    [] rep.state = "failed" -> cur.attempts + 1
    [] OTHER -> cur.attempts

ReportedBackoff(cur, rep) ==
  CASE rep.state = "running" -> FALSE
    [] rep.state = "failed" -> ~Exhausted(cur)
    [] OTHER -> cur.backoff

\* (Mutant: the report is taken to be about the current revision.)
ReportedObserved_Current(cur, rep) == IF rep.state = "failed" THEN 0 ELSE cur.generation

\* A failure passes 0 so that GREATEST leaves observed_generation alone.
ReportedObserved(cur, rep) ==
  CASE rep.state = "failed" -> 0
    [] Finalizes(cur, rep) -> cur.generation
    [] OTHER -> rep.observed

\* (Mutant: a report without health overwrites the column all the same.)
resolveHealth_Raw(cur, rep) == rep.status

resolveHealth(cur, rep) ==
  CASE rep.status \in Health -> rep.status
    [] rep.status \notin Health /\ rep.state = "running" -> cur.health
    [] OTHER -> ""

\* (Mutant: the last report wins.)
Greatest_Last(m, n) == n

Greatest(m, n) == IF m > n THEN m ELSE n

\* The parameters of the UPDATE, computed from the row read before.
ReportParams(cur, rep) ==
  [state |-> ReportedState(cur, rep), health |-> resolveHealth(cur, rep),
   unreachable |-> IF rep.status = "none" THEN cur.unreachable ELSE FALSE,
   observed |-> ReportedObserved(cur, rep), attempts |-> ReportedAttempts(cur, rep),
   backoff |-> ReportedBackoff(cur, rep), finalize |-> Finalizes(cur, rep)]

\* The UPDATE writes them over the row as it is by then; the lease is always released.
UpdateFromReport(row, params) ==
  [row EXCEPT !.state = params.state, !.health = params.health,
              !.unreachable = params.unreachable,
              !.observed = Greatest(@, params.observed),
              !.attempts = params.attempts, !.backoff = params.backoff,
              !.leased = FALSE,
              !.life = IF params.finalize THEN "deleted" ELSE @]

ApplyAgentReport(cur, row, rep) == UpdateFromReport(row, ReportParams(cur, rep))

----------------------------------------------------------------------------
\* The supervisor's two writes.

\* (Mutant: only rows already gone are refused.)
Redispatchable_Live(row) == row.life = "live"

Redispatchable(row) == row.life = "live" /\ row.state # "deleting"

RedispatchSystemResource(row) ==
  [row EXCEPT !.generation = @ + 1, !.state = "pending", !.leased = FALSE,
              !.attempts = 0, !.backoff = FALSE]

Flaggable(row) == row.life = "live" /\ ~row.unreachable

FlagResourceHostUnreachable(row) ==
  [row EXCEPT !.unreachable = TRUE, !.health = "unknown"]
=============================================================================
