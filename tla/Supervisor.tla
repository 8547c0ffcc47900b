----------------------------- MODULE Supervisor -----------------------------
(***************************************************************************)
(* The availability loop (internal/supervisor): every pass sweeps silent   *)
(* agents offline, flags system workloads stranded on them and puts system *)
(* services that are not running back on the work feed. A pass decides on  *)
(* lists it read earlier, while agents beat, pull and report and operators *)
(* delete; every database call of a pass is a step, and may fail.          *)
(*                                                                         *)
(* The instance of service s ("system-" + name) is rows[s].                *)
(***************************************************************************)
EXTENDS ResourceRow, AgentRow, FiniteSets

CONSTANTS
  Service,        \* names in the service registry
  AppTier,        \* services the catalog declares TierApp
  EscalateAfter,  \* SUPERVISOR_ESCALATE_AFTER
  Answers,        \* status documents of an agent whose workload is up
  SlowAgents,     \* whether StaleAfter may pass while a host that is up works
  MaxFaults       \* bound: outages, failures, drifts, failed calls, operator acts

ASSUME ServicesAssumption == AppTier \subseteq Service
ASSUME EscalateAfterAssumption == EscalateAfter \in Int
ASSUME AnswersAssumption == Answers \subseteq {"none", "plain", "healthy"}
ASSUME MaxFaultsAssumption == MaxFaults \in Nat

VARIABLES
  rows,        \* rows[s]: the resources row of s's instance
  quiet,       \* quiet[s]: its updated_at is older than Options.StaleAfter
  agents,      \* the agents table
  up,          \* the agents whose hosts are up
  hold,        \* hold[s]: the envelope an agent works on, or has applied
  call,        \* call[s]: what ApplyAgentReport will write, between its two statements
  registered,  \* is_system rows of the service registry
  tick,        \* the running pass: its next call, what it has read, what is left
  episodes,    \* Supervisor.episodes
  hist,        \* history: per service, what was asked, heard and recorded
  faults       \* bound counter

world == <<rows, quiet, agents, up, hold, call, registered>>
vars == <<world, tick, episodes, hist, faults>>

NoEpisode == [missing |-> FALSE, redispatches |-> 0, escalated |-> FALSE]
NoHist == [asked |-> FALSE, stranded |-> "no", escalations |-> 0]
NoWork == [agent |-> NoAgent, generation |-> 0, teardown |-> FALSE, done |-> FALSE]
NoCall == [state |-> "", health |-> "", unreachable |-> FALSE, observed |-> 0,
           attempts |-> 0, backoff |-> FALSE, finalize |-> FALSE]
Idle == [pc |-> "idle", offline |-> {}, todo |-> {},
         verdict |-> [s \in Service |-> "missing"]]

Init ==
  /\ rows = [s \in Service |-> AbsentRow]
  /\ quiet = {}
  /\ agents = [a \in Agent |-> AgentHeartbeat(CreateAgent(AbsentAgent))]
  /\ up = Agent
  /\ hold = [s \in Service |-> NoWork]
  /\ call = [s \in Service |-> NoCall]
  /\ registered = {}
  /\ tick = Idle
  /\ episodes = [s \in Service |-> NoEpisode]
  /\ hist = [s \in Service |-> NoHist]
  /\ faults = 0

\* A threshold that makes no sense gets its default.
withDefaults(escalateAfter) == IF escalateAfter < 1 THEN 5 ELSE escalateAfter

\* The services the container runtime keeps up, not Core.
substrateServices == {"core", "agent", "docker", "runtime"}

Live(s) == rows[s].life = "live"
Fault == faults < MaxFaults /\ faults' = faults + 1
Offline(a) == agents[a].status = "offline"

\* The revisions of a service in play. They only grow and are only compared, so
\* they are kept as their ranks.
Revisions(row, work, c) ==
  {0, row.generation, row.observed, work.generation, c.observed}
Rank(R, n) == Cardinality({m \in R : m < n})
RankRow(R, row) == [row EXCEPT !.generation = Rank(R, @), !.observed = Rank(R, @)]
RankWork(R, work) == [work EXCEPT !.generation = Rank(R, @)]

Settle(s, row, work, c) ==
  LET R == Revisions(row, work, c)
  IN /\ rows' = [rows EXCEPT ![s] = RankRow(R, row)]
     /\ hold' = [hold EXCEPT ![s] = RankWork(R, work)]
     /\ call' = [call EXCEPT ![s] = [c EXCEPT !.observed = Rank(R, @)]]

\* Every write of a resources row stamps updated_at.
WriteAll(s, row, work, c) == Settle(s, row, work, c) /\ quiet' = quiet \ {s}
Write(s, row) == WriteAll(s, row, hold[s], call[s])

Min2(m, n) == IF m < n THEN m ELSE n

----------------------------------------------------------------------------
\* The event log, of one service: the stranding that its row's flag stands for
\* ("lost": it is not on record), and the escalations of the incident (no more than
\* two are counted).
CreatePlatformEvent(log, kind) ==
  CASE kind = "system.host_unreachable" -> [log EXCEPT !.stranded = "raised"]
    [] kind = "system.redispatch_escalated" -> [log EXCEPT !.escalations = Min2(@ + 1, 2)]
    [] kind \in {"agent.offline", "system.instance_missing", "system.recovered"} -> log

\* Emit records what has a kind and a message, as all five do. emit, its caller,
\* drops an event it cannot write; so does a Core that stops before the write.
Emit(s, log, kind) ==
  \/ hist' = [hist EXCEPT ![s] = CreatePlatformEvent(log, kind)] /\ UNCHANGED faults
  \/ hist' = [hist EXCEPT ![s] = log] /\ Fault

----------------------------------------------------------------------------
\* One pass, call by call.

\* sweepAgents: the UPDATE (when it fails the pass goes on all the same) ...
TickSweep ==
  /\ tick.pc = "idle"
  /\ \/ /\ agents' = [a \in Agent |->
                        IF Sweepable(agents[a]) THEN MarkOffline(agents[a]) ELSE agents[a]]
        /\ UNCHANGED faults
     \/ Fault /\ UNCHANGED agents
  /\ tick' = [tick EXCEPT !.pc = "standing"]
  /\ UNCHANGED <<rows, quiet, up, hold, call, registered, episodes, hist>>

\* ... and ListOffline, an empty set when it fails.
TickStanding ==
  /\ tick.pc = "standing"
  /\ \/ /\ tick' = [tick EXCEPT !.pc = "list",
                      !.offline = {a \in Agent : agents[a].life = "live" /\ Offline(a)}]
        /\ UNCHANGED faults
     \/ Fault /\ tick' = [tick EXCEPT !.pc = "list"]
  /\ UNCHANGED <<world, episodes, hist>>

\* ListSystemTierResources: no lease, backoff or state keeps a row off the list.
Listed(row) == row.life = "live"

\* (Mutant: only what runs can be stranded.)
Stranded_Running(offline, list) ==
  {s \in Service : list[s].agent \in offline /\ list[s].state = "running"}

\* The instances flagStranded will flag, decided on the rows as listed.
Stranded(offline, list) ==
  {s \in Service : /\ Listed(list[s])
                   /\ list[s].agent \in offline
                   /\ list[s].state # "deleting"}

Converged(row) == row.observed >= row.generation

\* redispatchReason is not "".
NeedsRedispatch(row, stale) ==
  \/ row.health \in {"unhealthy", "unknown"}
  \/ row.state = "failed"
  \/ Converged(row) /\ row.state # "running"
  \/ ~Converged(row) /\ stale

\* What keepAlive will make of an instance, decided on the row as listed too.
Verdict(offline, row, stale) ==
  CASE ~Listed(row) -> "missing"
    [] Listed(row) /\ row.state = "deleting" -> "terminating"
    [] Listed(row) /\ row.state # "deleting" /\ row.agent \in offline -> "deferred"
    [] OTHER -> IF NeedsRedispatch(row, stale) THEN "redispatch" ELSE "fine"

\* ListSystemTier: the pass is skipped when it fails.
TickList ==
  /\ tick.pc = "list"
  /\ \/ /\ tick' = [tick EXCEPT !.pc = "strand", !.offline = {},
                      !.todo = Stranded(tick.offline, rows),
                      !.verdict = [s \in Service |-> Verdict(tick.offline, rows[s], s \in quiet)]]
        /\ UNCHANGED faults
     \/ Fault /\ tick' = Idle
  /\ UNCHANGED <<world, episodes, hist>>

\* flagStranded, for one instance.
FlagHostUnreachable(s) ==
  /\ tick.pc = "strand" /\ s \in tick.todo
  /\ tick' = [tick EXCEPT !.todo = @ \ {s}]
  /\ \/ IF Flaggable(rows[s])
        THEN /\ Write(s, FlagResourceHostUnreachable(rows[s]))
             /\ Emit(s, [hist[s] EXCEPT !.stranded = "lost"], "system.host_unreachable")
        ELSE UNCHANGED <<rows, quiet, hold, call, hist, faults>>
     \/ Fault /\ UNCHANGED <<rows, quiet, hold, call, hist>>
  /\ UNCHANGED <<agents, up, registered, episodes>>

supervises(s) == s \notin substrateServices /\ s \notin AppTier

\* keepAlive reads the registry; it is skipped when that fails.
TickRegistry ==
  /\ tick.pc = "strand" /\ tick.todo = {}
  /\ \/ /\ tick' = [tick EXCEPT !.pc = "keep", !.todo = {s \in registered : supervises(s)}]
        /\ UNCHANGED faults
     \/ Fault /\ tick' = Idle
  /\ UNCHANGED <<world, episodes, hist>>

Keep(s, verdict) ==
  /\ tick.pc = "keep" /\ s \in tick.todo /\ tick.verdict[s] = verdict
  /\ tick' = [tick EXCEPT !.todo = @ \ {s}]

\* reportMissingInstance: one event until the instance appears.
ReportMissing(s) ==
  /\ Keep(s, "missing")
  /\ IF episodes[s].missing THEN UNCHANGED <<hist, faults>>
                            ELSE Emit(s, hist[s], "system.instance_missing")
  /\ episodes' = [episodes EXCEPT ![s].missing = TRUE]
  /\ UNCHANGED world

\* An instance being torn down: keep-alive stands down and forgets the incident.
StandDown(s) ==
  /\ Keep(s, "terminating")
  /\ episodes' = [episodes EXCEPT ![s] = NoEpisode]
  /\ hist' = [hist EXCEPT ![s].escalations = 0]
  /\ UNCHANGED <<world, faults>>

\* The owning host is offline: nothing to dispatch to.
Defer(s) ==
  /\ Keep(s, "deferred")
  /\ episodes' = [episodes EXCEPT ![s].missing = FALSE]
  /\ UNCHANGED <<world, hist, faults>>

\* noteRecovered: redispatchReason found nothing to do, and the incident is over.
NoteRecovered(s) ==
  /\ Keep(s, "fine")
  /\ episodes' = [episodes EXCEPT ![s] = NoEpisode]
  /\ LET log == [hist[s] EXCEPT !.escalations = 0]
     IN IF episodes[s].escalated THEN Emit(s, log, "system.recovered")
                                 ELSE hist' = [hist EXCEPT ![s] = log] /\ UNCHANGED faults
  /\ UNCHANGED world

\* (Mutant: one record per pass.)
Escalates_EveryPass(ep) == ep.redispatches + 1 > withDefaults(EscalateAfter)

Escalates(ep) == ep.redispatches + 1 > withDefaults(EscalateAfter) /\ ~ep.escalated

\* redispatch: the write may fail or find the row gone or being torn down, and
\* then nothing is counted.
Redispatch(s) ==
  /\ Keep(s, "redispatch")
  /\ \/ /\ Redispatchable(rows[s])
        /\ Write(s, RedispatchSystemResource(rows[s]))
        /\ IF Escalates(episodes[s]) THEN Emit(s, hist[s], "system.redispatch_escalated")
                                     ELSE UNCHANGED <<hist, faults>>
        /\ episodes' = [episodes EXCEPT ![s] =
             [missing |-> FALSE,
              redispatches |-> Min2(@.redispatches + 1, withDefaults(EscalateAfter) + 1),
              escalated |-> @.escalated \/ Escalates(@)]]
     \/ /\ (~Redispatchable(rows[s]) /\ UNCHANGED faults) \/ Fault
        /\ episodes' = [episodes EXCEPT ![s].missing = FALSE]
        /\ UNCHANGED <<rows, quiet, hold, call, hist>>
  /\ UNCHANGED <<agents, up, registered>>

\* prune, and the wait for the next tick of the ticker.
TickEnd ==
  /\ tick.pc = "keep" /\ tick.todo = {}
  /\ tick' = Idle
  /\ episodes' = [s \in Service |->
                    IF s \in registered /\ supervises(s) THEN episodes[s] ELSE NoEpisode]
  /\ UNCHANGED <<world, hist, faults>>

\* Core restarts: the pass, the episodes and the reports it was applying are gone.
CoreRestart ==
  /\ Fault
  /\ tick' = Idle
  /\ episodes' = [s \in Service |-> NoEpisode]
  /\ hist' = [s \in Service |-> [hist[s] EXCEPT !.escalations = 0]]
  /\ LET R(s) == Revisions(rows[s], hold[s], NoCall)
     IN /\ rows' = [s \in Service |-> RankRow(R(s), rows[s])]
        /\ hold' = [s \in Service |-> RankWork(R(s), hold[s])]
        /\ call' = [s \in Service |-> NoCall]
  /\ UNCHANGED <<quiet, agents, up, registered>>

Pass ==
  \/ TickSweep \/ TickStanding \/ TickList \/ TickRegistry \/ TickEnd
  \/ \E s \in Service :
       \/ FlagHostUnreachable(s) \/ ReportMissing(s) \/ StandDown(s)
       \/ Defer(s) \/ NoteRecovered(s) \/ Redispatch(s)

----------------------------------------------------------------------------
\* Setup registers and publishes the services; an operator may delete one.

EnsureRegistered(s) ==
  /\ s \notin registered
  /\ registered' = registered \cup {s}
  /\ UNCHANGED <<rows, quiet, agents, up, hold, call, tick, episodes, hist, faults>>

Publish(s) ==
  /\ rows[s].life = "absent"
  /\ Write(s, CreateResource(rows[s]))
  /\ UNCHANGED <<agents, up, registered, tick, episodes, hist, faults>>

Delete(s) ==
  /\ Fault
  /\ Live(s)
  /\ Write(s, MarkResourceDeleting(rows[s]))
  /\ hist' = [hist EXCEPT ![s].asked = TRUE]
  /\ UNCHANGED <<agents, up, registered, tick, episodes>>

----------------------------------------------------------------------------
\* The agents: pull, report, beat; a host fails and comes back.

Pull(a, s) ==
  /\ a \in up
  /\ Claimable(rows[s], a)
  /\ WriteAll(s, ClaimAgentWork(rows[s], a),
              [agent |-> a, generation |-> rows[s].generation,
               teardown |-> rows[s].state = "deleting", done |-> FALSE],
              call[s])
  /\ UNCHANGED <<agents, up, registered, tick, episodes, hist, faults>>

\* A report reaches Core, which reads the row and computes its update from it (bound:
\* one report of a service at a time).
Send(s, rep) ==
  /\ hold[s].agent \in up /\ call[s] = NoCall
  /\ Live(s) /\ rows[s].agent = hold[s].agent
  /\ call' = [call EXCEPT ![s] = ReportParams(rows[s], rep)]
  /\ hold' = [hold EXCEPT ![s].done = TRUE]
  /\ UNCHANGED <<rows, quiet, agents, up, registered, tick, episodes, hist>>

\* The update, which may fail: a report that is not applied is only counted. (With one
\* report at a time, the row it was read from is still there.)
WriteReport(s) ==
  LET row == UpdateFromReport(rows[s], call[s])
  IN /\ call[s] # NoCall
     /\ \/ /\ WriteAll(s, row, hold[s], NoCall)
           /\ hist' = [hist EXCEPT ![s].stranded = IF row.unreachable THEN @ ELSE "no"]
           /\ UNCHANGED faults
        \/ /\ Fault
           /\ Settle(s, rows[s], hold[s], NoCall)
           /\ UNCHANGED <<quiet, hist>>
     /\ UNCHANGED <<agents, up, registered, tick, episodes>>

\* The agent applied the envelope.
Converge(s) ==
  /\ ~hold[s].done
  /\ \E status \in Answers :
       Send(s, [state |-> IF hold[s].teardown THEN "removed" ELSE "running",
                observed |-> hold[s].generation, status |-> status])
  /\ UNCHANGED faults

\* It could not.
FailToConverge(s) ==
  /\ Fault
  /\ ~hold[s].done
  /\ Send(s, [state |-> "failed", observed |-> hold[s].generation, status |-> "plain"])

\* What it runs stopped, or is up and does not work.
ObserveDrift(s) ==
  /\ Fault
  /\ hold[s].done /\ ~hold[s].teardown
  /\ \/ \E d \in Drift :
          Send(s, [state |-> d, observed |-> hold[s].generation, status |-> "plain"])
     \/ Send(s, [state |-> "running", observed |-> hold[s].generation,
                 status |-> "unhealthy"])

Heartbeat(a) ==
  /\ a \in up
  /\ AgentHeartbeat(agents[a]) # agents[a]
  /\ agents' = [agents EXCEPT ![a] = AgentHeartbeat(@)]
  /\ UNCHANGED <<rows, quiet, up, hold, call, registered, tick, episodes, hist, faults>>

HostDown(a) ==
  /\ Fault
  /\ a \in up
  /\ up' = up \ {a}
  /\ UNCHANGED <<rows, quiet, agents, hold, call, registered, tick, episodes, hist>>

HostUp(a) ==
  /\ a \notin up
  /\ up' = up \cup {a}
  /\ UNCHANGED <<rows, quiet, agents, hold, call, registered, tick, episodes, hist, faults>>

----------------------------------------------------------------------------
\* Time passes: AgentOfflineAfter, StaleAfter, a lease, a backoff.

GoesSilent(a) ==
  /\ a \notin up
  /\ agents[a].seen = "fresh"
  /\ agents' = [agents EXCEPT ![a].seen = "stale"]
  /\ UNCHANGED <<rows, quiet, up, hold, call, registered, tick, episodes, hist, faults>>

\* (Asked only of an instance that is out of sync.)
GoesQuiet(s) ==
  /\ Live(s) /\ ~Converged(rows[s]) /\ s \notin quiet
  /\ SlowAgents \/ {a \in up : rows[s].agent \in {a, NoAgent}} = {}
  /\ quiet' = quiet \cup {s}
  /\ UNCHANGED <<rows, agents, up, hold, call, registered, tick, episodes, hist, faults>>

TimerRuns(s) ==
  /\ \/ rows[s].leased /\ rows' = [rows EXCEPT ![s].leased = FALSE]
     \/ rows[s].backoff /\ rows' = [rows EXCEPT ![s].backoff = FALSE]
  /\ UNCHANGED <<quiet, agents, up, hold, call, registered, tick, episodes, hist, faults>>

ServiceStep(s) ==
  \/ EnsureRegistered(s) \/ Publish(s) \/ Delete(s)
  \/ Converge(s) \/ FailToConverge(s) \/ ObserveDrift(s) \/ WriteReport(s)
  \/ GoesQuiet(s) \/ TimerRuns(s)
  \/ \E a \in Agent : Pull(a, s)

AgentStep(a) == Heartbeat(a) \/ HostDown(a) \/ HostUp(a) \/ GoesSilent(a)

Next ==
  \/ Pass \/ CoreRestart
  \/ \E s \in Service : ServiceStep(s)
  \/ \E a \in Agent : AgentStep(a)

Spec == Init /\ [][Next]_vars

\* Run's ticker keeps passes coming and each call of a pass returns; agents
\* whose host is up beat, pull and answer on their own goroutines; clocks run.
\* Hosts may stay down for good.
Fairness ==
  /\ WF_vars(Pass)
  /\ \A s \in Service :
       /\ WF_vars(EnsureRegistered(s)) /\ WF_vars(Publish(s))
       /\ WF_vars(Converge(s)) /\ WF_vars(WriteReport(s))
       /\ WF_vars(TimerRuns(s)) /\ WF_vars(GoesQuiet(s))
       /\ \A a \in Agent : WF_vars(Pull(a, s))
  /\ \A a \in Agent : WF_vars(Heartbeat(a)) /\ WF_vars(GoesSilent(a))

FairSpec == Spec /\ Fairness

----------------------------------------------------------------------------
\* Type invariant.
TypeOK ==
  /\ rows \in [Service -> Row]
  /\ quiet \subseteq Service /\ registered \subseteq Service
  /\ agents \in [Agent -> AgentRecord] /\ up \subseteq Agent
  /\ hold \in [Service -> [agent: Agent \cup {NoAgent}, generation: Nat,
                           teardown: BOOLEAN, done: BOOLEAN]]
  /\ call \in [Service -> Params \cup {NoCall}]
  /\ tick \in [pc: {"idle", "standing", "list", "strand", "keep"}, offline: SUBSET Agent,
               todo: SUBSET Service,
               verdict: [Service -> {"missing", "terminating", "deferred", "fine", "redispatch"}]]
  /\ episodes \in [Service -> [missing: BOOLEAN, redispatches: 0 .. withDefaults(EscalateAfter) + 1,
                               escalated: BOOLEAN]]
  /\ hist \in [Service -> [asked: BOOLEAN, stranded: {"no", "raised", "lost"},
                           escalations: 0 .. 2]]
  /\ faults \in 0 .. MaxFaults

\* A pass never takes an instance out of a teardown, even when the list it works
\* from was read before the operator asked for it (RedispatchSystem: "refused, in
\* Go and again in SQL").
TeardownUntouched ==
  [][Pass => \A s \in Service :
       rows[s].state = "deleting" => rows'[s].state = "deleting"
                                     /\ rows'[s].generation = rows[s].generation]_vars

\* An incident is escalated at most once (episode: "escalation fire ONCE per
\* incident rather than once per tick").
OneEscalation == \A s \in Service : hist[s].escalations <= 1

\* StrandedIsRaised: a system workload on a host that went offline ends up flagged
\* (flagStranded), with an event since the flag was last cleared unless that one
\* event's write failed; a report that clears the flag lets the next outage raise it
\* anew. (A report without a status document does not clear it, service.go:415: an
\* outage after nothing but such reports is not raised again, although
\* resource.sql:180-181 takes every report to replace the status.)
StrandedIsRaised ==
  \A s \in Service, a \in Agent :
    (Live(s) /\ rows[s].agent = a /\ rows[s].state # "deleting" /\ Offline(a)) ~>
      \/ rows[s].unreachable /\ hist[s].stranded \in {"raised", "lost"}
      \/ ~Offline(a) \/ rows[s].state = "deleting" \/ ~Live(s)

\* KeptAlive: once faults stop and as long as hosts come back, every supervised
\* service that has not been deleted comes back to running, converged and not
\* unhealthy, and stays there (keepAlive, "a system service is retried forever").
\* Except a service whose agent for ever answers without its health: resolveHealth
\* keeps the 'unknown' of an outage, or an old 'unhealthy', and so it is re-dispatched
\* for ever.
KeptAlive ==
  \A s \in Service :
    /\ \A a \in Agent : []<>(a \in up)
    /\ <>[](call[s].health \notin {"unhealthy", "unknown"})
    => <>[](Live(s) /\ supervises(s) /\ ~hist[s].asked =>
              /\ rows[s].state = "running" /\ Converged(rows[s])
              /\ rows[s].health \notin {"unhealthy", "unknown"})

\* An instance an operator removed is never brought back (RedispatchSystem:
\* "keep-alive may not resurrect something an operator removed").
NotResurrected ==
  \A s \in Service : hist[s].asked => rows[s].state # "pending"
=============================================================================
