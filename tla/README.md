# A TLA+ verification of maintainerd core

maintainerd core is a control plane. Operators describe what should run (tenants,
projects, services, resources) through a REST API; agents on the hosts pull leased
work over a gRPC gateway, apply it and report back; a supervisor inside Core keeps
the platform's own services alive. On its first run Core provisions the auth service
and then the secret manager, registers the platform's services in both its own tables
and Auth, and publishes their workloads. Everything meets in PostgreSQL or in another
service's API, and nothing is locked between two calls: what can go wrong is what
happens between a read and the write computed from it, or between a call's effect and
its answer.

This directory holds the models of that system, the TLC configurations that check
them on small instances, and theorems that TLAPS proves for all instances.
`PROJECT.json` is the index: components, runs, the source lines behind each
definition, hazards, findings and theorems.

## Parts and modules

| Part of the system | Source | Module |
|---|---|---|
| one row of `resources`, every statement on it | `internal/storage/queries/resource.sql`, `internal/resource/service.go` | `ResourceRow` |
| the work feed: REST writes, pulls, reports, status patches | `internal/resource`, `internal/grpcserver` | `ResourceFeed` |
| what the feed promises | | `FeedContract` |
| one row of `agents`, every statement on it | `internal/storage/queries/agent.sql`, `internal/agent/service.go` | `AgentRow` |
| agent handlers: create, patch, register, enrol, heartbeat, sweep | `internal/agent`, `internal/grpcserver` | `AgentRegistry` |
| availability passes over agents and system services | `internal/supervisor` | `Supervisor` |
| first-run provisioning of Auth and Secret, the control_plane row and what the process caches of it | `internal/setup`, `internal/authctrl/identity.go`, `outbound.go`, `internal/server/capabilities.go`, `cmd/server/bootstrap.go` | `Setup` |
| convergence of Auth to the control catalog, key files, service registry | `internal/steward`, `internal/authctrl`, `internal/service` | `Steward` |
| rendering deployment templates against the vault; dependency loop and readiness | `internal/deploytemplate`, `internal/secretctrl`, `internal/dependency` | `Provision` |
| the inventory tables and each statement on them | `internal/storage/queries`, `internal/storage/migrations` | `Tables` |
| guards, permissions per route and method, interceptors, errors as statuses | `internal/authz`, `internal/grpcserver`, `internal/server` | `Access` |
| REST requests, statement by statement; the steward's calls of the service registry | handlers and services of `internal/tenant`, `project`, `provider`, `service`, `agent`, `resource`, ... | `Console` |
| the stages of a boot: secret store, configuration, database | `cmd/server/bootstrap.go`, `internal/platform/config` | `Boot` |
| the cached token of calls to the vault | `internal/authctrl/token.go`, `outbound.go` | `TokenCache` |
| one process, from start to exit | `cmd/server`, `internal/server`, `internal/grpcserver` | `Core` |

`ResourceFeed` extends `ResourceRow`; `AgentRegistry` extends `AgentRow`; `Supervisor`
composes both rows: a pass reads agents and instances in separate calls while agents
beat, pull and report. `FeedContract` is an abstract specification that `ResourceFeed`
instantiates with a refinement mapping. `Console` extends `Tables`, `Access` and the two
rows, and `Core` composes `Console`, `Boot` and `TokenCache`. `Setup` contains the
steward's reconcile as one step that succeeds or fails; `Steward` contains setup as the
phase "window". Each `MC...` module instantiates one component for TLC; the `...Proofs`
modules hold the theorems.

### The work feed

A row carries the desired `generation`, the `observed` one, a `state`, a lease, a
retry count with backoff, and the agent it is assigned to. `ResourceRow` has one
operator per SQL statement, from the row a statement finds to the row it leaves;
what Go computes for `ApplyAgentReport` from the row it read before (`cur`) stays
separate from the row it is written over. `ResourceFeed` then has one action per
REST call and gateway call; reports and status patches, which are a read and a
write, are two actions with anything in between. The agent is not in this
repository: it is modelled from how the gateway uses it (pull, act, report, and an
unsolicited drift observation). Calls are lost, responses are lost, agents restart,
leases run out. There are three specifications: `Spec`, where an agent waits for its
call to end; `PatchedSpec`, where operators also patch statuses by hand; and
`LateSpec`, where besides a call can outlive its caller's wait for it. Timestamps are
reduced to whether they lie in the future, and `updated_at` to the order it induces.

### The agent registry

A handler is a sequence of statements (`handlers` holds where each one is and what it
has read): `Enroll` reads, signs and then consumes the join token; `Register` binds the
subject, reads, and writes; `Heartbeat` checks and then writes; `Update` reads and
writes back. `MaxHandlers` of them are in flight at once, and any may die in between.

### The supervisor

Each database call of `Tick` is a step. Which instances are stranded and what keep-alive
makes of each (`Verdict`) is decided on the list and kept in `tick`, so the decision and
the write it leads to can be far apart. A report is a read (`Send`) and a write
(`WriteReport`), with what it is going to write in `call`; one of a service is in flight at
a time. An agent whose workload is up answers without a status document, with one that
leaves its health out, or with its health (`Answers`). An event may fail to be written,
which `emit` only logs. Revisions are only ever compared, so the four in play (desired,
observed, held by the agent, about to be written) are stored as ranks, anew whenever one
of them changes or is dropped, and need no bound. `MaxFaults` bounds outages, failures,
drifts, failing calls and event writes, deletes and restarts of Core; everything else is
unbounded.

Two behaviours of the code limit what can be said. A report without a status document
leaves `host_unreachable` standing: after nothing but such reports a second outage raises
no second event. A report without health keeps what was there, so a service whose reports
never carry it stays `unknown` after an outage (or `unhealthy`) and is re-dispatched for
ever. `StrandedIsRaised` and `KeptAlive` name these cases.

### Setup

`RunWith` is one action per call that reads or writes something outside the run. Its
two callers, the boot loop and the wizard, share the single-flight flag. Every RPC to
Auth may fail before or after its effect; `CreateAdmin`, which also closes Auth's setup
window, may fail half way. The control_plane row keeps of its contents what the code
decides by: the private key, whether tenant and client ids are there, completion, and
the deployment mode as spelled. `Mirrored`/`PartlyMirrored` are what the logged-and-ignored
mirror leaves. The secret orchestrator follows, gated on the recorded completion. Around
this, the process keeps three things of the row: the identity its outbound tokens are
signed with (`source`), the capability probe's answer (`setupIdentity`), and, checked at
boot, the mode (`verifyDeploymentMode`). Core may restart anywhere, and may come back
with an empty database while Auth's and Secret's survive.

### The steward

A pass walks the catalog in order. In Auth's setup window every call is idempotent and
a pass stops at its first error; later, over the regular surface, each object is found
or created in separate calls, failures are recorded and dependents of a failed service
are skipped. The policy of a service that is granted nothing (`Granted`) is passed over on
both surfaces, and counts as ensured. The key of a service client is minted, recorded in a file created
exclusively, used, and discarded on error. The boot loop gives up
(`GiveUp`) after `BootMaxAttempts`, and leaves the rest to POST apply, which competes for the same single flight. `MirrorInserts` and
the two halves of a status patch write the same registry rows at the same time.

### Provisioning

A request is its parameters with what was supplied for them; a value is reduced to
what the code asks of it (absent, null, empty, digits, other text, number, bool,
reference), and a template may leave out a parameter's name.
`resolveParam` and `coerceParam` are operators, and the vault pass stores one secret per
step while the vault comes and goes; a store may fail after storing. Independently the
dependency loop probes concurrently, records, and `readiness` answers from the record.

### Tables, access and console

`Tables` is the inventory (tenants, projects, providers, services, agents and resources)
as one record of functions from ids to rows, and each statement as
an operator from the tables to the tables and its result: no row, a unique violation, or
the row. Deletes are soft and do not cascade; names are unique among live rows. `Access`
is pure: how the postures of the two guards are resolved, what a caller may do by route
and by gateway method, and which status an error becomes. In `Console` a request is a
record with its place in its method (`pc`), its input, what it has read (`row`), whether
its caller may write and whether it has written; `Statement(c)` runs the method's next
statement and `StatementFails(c)` fails it. What a service computes from the row it read
is written over the row the statement finds, as in the code. Setup's trigger is a run of
the orchestrator behind a request: it is refused with 409 before it starts, but answers
400 also when it failed half way, after writes. The steward's
`EnsureRegistered` is a caller among the others.

### Boot, token cache and process

`Boot` goes through the stages of `bootstrap.go` and `config.Init`. The environment and
what the secret store answers, on any attempt and after a relogin, are chosen freely;
each provider's reading of its store's answers is an operator of its own. In `TokenCache`
time is what is left: of a token, of the time it is kept for, and of a call's deadline;
the mutex is held over the mint's exchange. `Core` resolves the guards, opens the two
listeners, serves, and drains when a signal comes or a listener fails: the REST side
with a deadline, the gateway without. When both are down the deferred `pool.Close` waits
for every connection to come back: a request that outlived its listener may be in the
middle of a statement (`held`), and nothing bounds that wait either. `Stops` names the
two waits, for a health stream and for a statement, as its exceptions.

## Runs, bounds and fairness

| Run | Instance | Shows |
|---|---|---|
| `feed` | `Spec`; 2 agents, 1 system-tier resource, 4 generations, 4 attempts over a budget of 3, 2 calls in flight, drift | types, `NoOrphan`, `ConvergedIsReal`, `FeedWithinBudget`, `SoleCustody`, refinement of `FeedContract`, `ParkedUntilSpecChange` |
| `feed_live` | `FairSpec`; 1 agent, 2 resources, batches of 1, up to 2 failures each over a budget of 2 | `Settles` |
| `feed_lostdelete` | 2 agents, 3 generations, budget 2 | `TeardownSurvives` is violated |
| `agent` | 1 agent, 2 subjects, 2 handlers in flight | types, `OneCertificate`, `OneIdentity`, `SilentGoesOffline` |
| `supervisor` | 1 agent, 1 service, all three answers, escalation after 1, budget 1, 2 faults | `OneEscalation`, `TeardownUntouched`, `StrandedIsRaised`, `KeptAlive` |
| `supervisor_resurrect` | the same, where the stale window may also pass while an agent is at work, 3 faults | `NotResurrected` is violated |
| `setup` | 3 keys, 1 service, 1 image, 2 modes, 3 faults | `ProvisionedOnce`, `ProvisioningOrder`, `CachesStayTrue`, `KeyNeverBlanked`, `SubstrateImmutable`, `SetupConverges` |
| `setup_identity` | 2 faults | `IdentityRecorded` is violated |
| `setup_mode` | the spellings `docker` and `Docker`, no faults | `BootsAgain` is violated |
| `steward` | 2 services, one of them granted nothing, the last 5 of their 8 objects, 2 permissions, 4 keys, 4 attempts, 3 faults | `CreatedOnce`, `CleanMeansInPlace`, `WindowKeepsKeys`, `BootConverges`, `ApplyConverges` |
| `provision` | every declaration of an ordinary parameter with every value, and every secret declaration after a generated one | `NoPlaintext`, `ReferenceResolves`, `RenderedIsTyped`, `HealthyWasSeen`, `DependencyTracked` |
| `core` | 3 tenants, 2 ids in each other table, 2 requests, every environment, 2 callers of the vault, a deadline of 1 in a skew of 4 | `RefusedWroteNothing`, `WritesNeedPermission`, `DeletedStaysDeleted`, `FreshWriteKeepsTheRest`, `FallbackOnlyWhenAbsent`, `TokenOutlivesCall`, `Stops`, `EveryCallAnswered` |

Why the bounds are enough. The races are between two actors on one row. In `agent` two
handlers of one agent are in flight, and in `core` two requests, in every order of their
reads and writes. In `feed` an agent waits for its call and a row has one agent, so one
report of the resource is in flight, and races with the REST writes, claims and
timers; reports of one row that overtake each other need a caller that gave up waiting,
which no run has. Four generations let a stale answer be about a revision
that is neither the first nor the last. A budget of more than one separates a first
failure from the one that exhausts it. Two resources are needed only where they compete
for a batch (`feed_live`). In `Setup` three faults allow a failed attempt, a restart and
a failed read in one history; three keys are enough for the row, Auth and a run in flight
to hold different ones. In `Steward` two permissions let a pass stop between them. The five
objects (`From`, `To`: a window of the catalog) are the policy of a service granted nothing
and a whole service after it; four attempts and three faults let the boot loop
converge late or give up, and a key is minted as long as `Key` has a fresh one. `Core` has four bounds of its own, next to the guards they are
in: which requests come without a setup token (`OnlySetup`), when a second console
request comes (`Busy`), and that a behaviour has requests or calls to the vault, which
share no state (`NoVaultCalls`, `NoRequests`). The theorems below do not depend on the
size of any instance; those about the `Spec` of `Core` are of a process with these four
bounds in its guards.

Deadlock is checked in every run but those of the feed and the registry, where
`CHECK_DEADLOCK FALSE` is set because the system may really come to rest: everything
deleted, or a bound reached. A Core process that has ended, or serves and is asked for
nothing, stutters on purpose (`Rests`).

Fairness. Loops the code never leaves are weakly fair: the supervisor's ticker, the
sweep inside it, the setup, secret and steward retry loops, the dependency loop, an
agent's heartbeat and pull loops, and the clock that ends leases and backoffs. A run
that has started goes on to its next call. `feed_live` needs strong fairness of pulls,
of an agent's work and of a call's statements: it says that a message sent again and
again is not lost every time. In `core` the boot, the listeners and the handlers of
unary calls go on, a call to the vault ends with its deadline, and the mutex, which Go
hands to whoever has waited long enough, is strongly fair. Nothing is assumed of
operators and clients: the wizard, manual apply, patches, deletes and signals may never
come, a console request may hang, a stream may stay open. (`ApplyConverges` has somebody
who goes on pressing "apply" as its premise.) Hosts may stay down for ever (`KeptAlive` has
as its premises that hosts come back and that reports come to say how the service is). Faults are bounded by
constants, which is what "once faults stop" means in a finite instance.

## Findings

Each is a run whose property TLC refutes; `PROJECT.json` quotes the line it contradicts.

1. **A delete can be lost** (`feed_lostdelete`). `ApplyAgentReport` writes the state it
   computed from the row it read; a delete between the read and the write is
   overwritten and the row leaves the feed without a teardown. A report that read
   `deleting` but is about the work before it does the same: `running` and every
   observed state are taken as they are.
2. **A failed teardown comes back to life** (`supervisor_resurrect`). When a teardown
   uses up its budget the row says `failed`, which keep-alive re-dispatches as desired.
3. **A retried setup has no usable identity** (`setup_identity`). The tenant id is only
   known to the attempt that created the tenant. A retry records neither the JSON id nor
   the column, and `LoadIdentity` then refuses the stored key on every boot. The same
   state is reached when an adopting run cannot read the row: it takes it for empty and
   writes the empty result over it.
4. **`DEPLOYMENT_MODE=Docker` boots once** (`setup_mode`). Validation lowers the case,
   setup stamps the spelling, and the check at the next boot compares the two.

Other behaviours seen while modelling, which no run states:

- `Update` of an agent writes back the status it read: an `offline` can cover a
  heartbeat's `online` until the next beat (compare `agent.sql:28-32`). `Register` marks
  an agent online that may never beat and is then never swept.
- A service that never gets to run is not escalated when its state is inside the stale
  window at every pass: `noteRecovered` resets the count (compare `supervisor.go:111-113`).
- A parked row is un-parked by a drift report, and a failure of an old revision spends the
  budget of the new one. `FeedWithinBudget` therefore speaks of the states that wait for
  an attempt, and `ParkedUntilSpecChange` excepts what an agent observed by itself.
- With late calls a stale `removed` report can finalize a re-applied workload, and an
  operator's patch may write any `observed_generation`: `NoOrphan` holds of `PatchedSpec`,
  the other claims about hosts and progress of `Spec`, `SoleCustody` of `LateSpec`.
- Setup mints a control key and stores it only after Auth is locked; a retry mints
  another while Auth keeps the first client's JWKS. A lost answer of `CreateAdmin` leads
  to an adopting run that records completion without key or identity.
- A key file created but not written hides the key the next pass registers; over the
  regular surface a lost answer of `CreateClient` discards the key of a client that
  exists. `WindowKeepsKeys`, `BootConverges` and `ApplyConverges` name these states as their
  exceptions.
- `EnsureRegistered` can write `registered` over a concurrent `running`
  (compare `internal/service/service.go:205`); `FreshWriteKeepsTheRest` is about writes whose
  row is still the one that was read. The steward's boot attempts are also spent by passes that
  could not start.
- `host_unreachable` outlives an outage when reports carry no status document (compare
  `resource.sql:180-181`), and health `unknown` when they carry no health.
- An optional int or bool supplied as the empty string stays a string; two instances of
  a template share one credential address; a refused render may have rotated a credential.

## What is proved

TLAPS checks 34 theorems in eight modules. They hold for any sets of agents, resources,
services, tenants, subjects, keys, requests and callers, any budget, threshold, deadline
and bound on faults. The assumptions are those the modules state of their constants,
which the runs evaluate: null values are not members of the sets they extend, budgets
and bounds are numbers, drift reports are none of the states Core writes itself
(`DriftAssumption`), the catalog lists distinct services (`CatalogAssumption`), the tables
Core starts with have one row per id, with the table's columns (`SeedsAssumption`), a request supplies plain values
for its template's parameters (`RequestAssumption`), and for tokens that the skew is at
least two deadlines and a lifetime at least four (`TimeAssumption`, `GrantsAssumption`;
the defaults are a deadline of 3 s, a skew of 60 s and a lifetime of 300 s).

**The work feed** (`ResourceFeedProofs`).

- `TypeCorrect` and `NoSplitBrain` (`SoleCustody`) hold of `LateSpec`. Only a claim changes an
  assignment, a claim takes rows that are the claimer's or nobody's, and no other step
  gives an agent anything it did not hold.
- `NothingLeftBehind` (`NoOrphan`) holds of `PatchedSpec`. The invariant adds that a call in
  flight is awaited by the agent the row is assigned to, which after `removed` has neither
  work nor workload (`CallInv`), and that no agent holds work that could recreate a
  deleted row's workload (`GoneInv`).
- `ConvergedForReal` (`ConvergedIsReal`), `BudgetHolds` (`FeedWithinBudget`), `ParkedStaysParked`
  (`ParkedUntilSpecChange`) and `FeedKeepsContract` (`KeepsContract`) hold of `Spec`, all from one
  invariant, `FeedInv`. It ties four things that move at different times: the row, what an
  agent holds, a call in flight, and the row that call has read. An agent makes one call
  at a time and waits for it, so its workload is what it reports for as long as the call
  lasts; what the call has read may be old, but only by steps that raise the generation
  or ask for a teardown. The refinement then goes action by action to `Place`, `Release`,
  `Demand`, `Advance` or a stutter.

**The agent registry** (`AgentRegistryProofs`): `TypeCorrect`; `TokenBuysOne`
(`OneCertificate`), because `MarkAgentEnrolled`'s WHERE clause re-checks what `Enroll` read;
`IdentityIsSticky` (`OneIdentity`), strengthened by "a handler past its check belongs to the
bound subject" (`CheckedInv`).

**The supervisor** (`SupervisorProofs`): `TypeCorrect`; `EscalatedOnce` (`OneEscalation`): a
recorded escalation is remembered by the episode of a supervised service, and what
forgets the episode ends the incident (`EscalationInv`); `TeardownIsLeftAlone` (`TeardownUntouched`): the
statements of a pass re-check the state in their WHERE clauses. This one needs that the
stored revisions of a service are ranks without a gap (`RankInv`), because every write
ranks them anew: a write that changes none of them then leaves them all as they are. A
step that drops one of the four, a lost report or a restart, therefore ranks the rest.

**Setup** (`SetupProofs`): `TypeCorrect`, `TenantAndAdminOnce` (`ProvisionedOnce`),
`RecordsFollow` (`ProvisioningOrder`), `CachedForGood` (`CachesStayTrue`), `KeyIsKept`
(`KeyNeverBlanked`) and `SubstrateIsKept` (`SubstrateImmutable`). `SetupInv` says what a run
knows at each of its calls: one run at a time is at work, so what it saw of Auth is still
so, and it has a key of its own only while none is on record.

**The steward** (`StewardProofs`): `CreatedAtMostOnce` (`CreatedOnce`), `CleanReportsAreTrue`
(`CleanMeansInPlace`) and `KeysSurviveTheWindow` (`WindowKeepsKeys`). `StewardInv` has the single
flight across three callers and two surfaces, what a pass has looked up about the object
it is at (`LookedUp`), and that everything it has passed without an error is in place
(`Behind`), policies of services that are granted something included.

**Rendering and readiness** (`ProvisionProofs`): `TypeCorrect`, `SecretsStayInTheVault`
(`NoPlaintext`), `ReferencesResolve` (`ReferenceResolves`), `SpecsAreTyped` (`RenderedIsTyped`)
from `RenderInv`: what the loop has passed is settled, what lies ahead is what
`resolveParams` made of the request. `ReadyWasSeen` (`HealthyWasSeen`) from `ReadyInv`: every
recorded, probed or reported health is of a dependency that has answered.

**The process** (`ConsoleProofs`, `CoreProofs`). `ConsoleProofs` has the effect of each method's
statements (`Effect`): deleted rows are left alone, only a caller who may write writes, and
a request that has written is not refused (of setup's trigger: not with 409). From it `CoreProofs` has `DeletionIsFinal`
(`DeletedStaysDeleted`), `RefusalsAreClean` (`RefusedWroteNothing`) and `OnlyPermittedWrites`
(`WritesNeedPermission`) for the whole process. `FreshWritesKeepTheRest`
(`FreshWriteKeepsTheRest`) goes through the seven statements that write from a row read
before: each sets some columns, and to what they are when the request left them out and
the row is still what was read. For that the invariant has to say which columns a stored
row has (`Shaped`). Besides:
`FallbackIsJustified` (`FallbackOnlyWhenAbsent`), from what the boot carries at each stage
(`BootInv`); `NeverStale` (`TokenOutlivesCall`) for the token cache on its own and
`VaultSeesLiveTokens` for the cache inside the process, from `TokenInv`: the cached token
outlives the time it is kept for by a deadline.

Only model-checked are the liveness properties (`Settles`, `SilentGoesOffline`,
`StrandedIsRaised`, `KeptAlive`, `SetupConverges`, `BootConverges`, `ApplyConverges`,
`DependencyTracked`, `Stops`, `EveryCallAnswered`): fairness and ENABLED are out of this prover's reach.

Conversely, late calls and operators' status patches are covered by the theorems about
`LateSpec` and `PatchedSpec`, and by no run.

## What is not modelled

The web console (presentation over the REST API), the generated protobuf bindings,
telemetry and logging (nothing reads them back), and `app.New`, which wires constructors
together. A bearer token is good or bad: its verification is the JWT library's. Payloads
(specs, MRNs, certificates, JWKS, event texts) are opaque. PostgreSQL runs each statement
atomically, and a statement's WHERE clause is evaluated on the row it updates. The agent
program, Auth and the secret manager are not in this repository and are modelled from
how Core uses them. In `Core` a gateway call only arrives and answers; what its handler
does is in `AgentRegistry` and `ResourceFeed`.
