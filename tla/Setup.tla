------------------------------- MODULE Setup -------------------------------
(***************************************************************************)
(* First-run provisioning: the setup orchestrator against Auth             *)
(* (internal/setup/orchestrator.go), its control_plane row                 *)
(* (internal/storage/queries/control_plane.sql), the mirror it seeds in    *)
(* Core's own tables, and the secret orchestrator that follows it          *)
(* (internal/setup/secret.go). Around it, what the process keeps of the    *)
(* row: the deployment mode checked at boot (cmd/server/bootstrap.go), the *)
(* control identity (internal/authctrl/outbound.go) and the anonymous      *)
(* capability probe's cache (internal/server/capabilities.go).             *)
(*                                                                         *)
(* One action per call that reads or writes something outside the run. A   *)
(* call may fail before or after its effect: both cost one of MaxFaults    *)
(* faults, as do a restart of Core and the loss of Core's own database.    *)
(***************************************************************************)
EXTENDS Integers, FiniteSets

CONSTANTS
  Key,          \* private_key_jwt key pairs
  NoKey,        \* the empty PEM, or no control client in Auth
  Service,      \* the system services the mirror registers
  Image,        \* the system workloads that have an image configured
  Env,          \* spellings of DEPLOYMENT_MODE an operator may boot Core with
  EnvPassword,  \* is the admin password in the environment? (the boot loop has no other)
  DialFiles,    \* which TLS files are configured for the setup calls: "ca", "cert", "key"
  MaxFaults     \* bound on failed calls, restarts and resets

ASSUME NoKeyAssumption == NoKey \notin Key
ASSUME EnvAssumption == Env \subseteq {"docker", "Docker", "kubernetes"}
ASSUME EnvPasswordAssumption == EnvPassword \in BOOLEAN
ASSUME DialFilesAssumption == DialFiles \subseteq {"ca", "cert", "key"}
ASSUME MaxFaultsAssumption == MaxFaults \in Nat

\* Who calls RunWith: the boot goroutine, and POST /api/v1/setup.
Caller == {"boot", "wizard"}

VARIABLES
  auth,       \* Auth: what its setup window has created, and its lock
  secret,     \* Secret: its scope, and its lock
  cp,         \* the control_plane row
  core,       \* Core's mirror: system tenant, services, project, resources
  running,    \* Orchestrator.running
  run,        \* the RunWith of each caller
  boot,       \* Orchestrator.RunWithRetry: "retrying" or "returned"
  sec,        \* the SecretOrchestrator: its pass, and done
  env,        \* DEPLOYMENT_MODE in the environment of the running process
  ident,      \* OutboundTokens.src: the control key it was built with
  caps,       \* capabilitiesHandler: complete and consoleClientID, as cached
  swallowed,  \* observed: the latest run to get that far logged a failure and succeeded
  faults      \* faults spent

process == <<env, ident, caps>>
vars == <<auth, secret, cp, core, running, run, boot, sec, process, swallowed, faults>>

Keys == Key \cup {NoKey}

\* What a run collects for the row: Result's ids of the Auth tenant, of the control
\* client and of the console's, and CompletedAt.
Result == [tenant: BOOLEAN, oauth: BOOLEAN, console: BOOLEAN, completed: BOOLEAN]
EmptyResult == [tenant |-> FALSE, oauth |-> FALSE, console |-> FALSE, completed |-> FALSE]

Step == {"idle", "dial", "status", "load", "tenant", "register", "key", "client",
         "integrate", "steward", "admin", "complete", "persist", "mirror"}

Idle == [at |-> "idle", adopting |-> FALSE, tenantSetup |-> FALSE,
         adminSetup |-> FALSE, key |-> NoKey, res |-> EmptyResult]

NoRow == [row |-> FALSE, key |-> NoKey, res |-> EmptyResult, mode |-> ""]
EmptyCore == [tenant |-> FALSE, services |-> {}, resources |-> {}]
SecretIdle == [at |-> "idle", done |-> FALSE]

\* The setup half of the capability probe's answer.
capabilitiesPayload(complete, console) == [SetupComplete |-> complete, Console |-> console]
Unread == capabilitiesPayload(FALSE, FALSE)

\* The one type invariant: every variable of the orchestrators, of the row and
\* of the two services keeps its type; Auth's objects are counted without a cap.
TypeOK ==
  /\ auth \in [tenants: Nat, admins: Nat, service: BOOLEAN, client: Keys,
              console: BOOLEAN, locked: BOOLEAN]
  /\ secret \in [scope: BOOLEAN, locked: BOOLEAN]
  /\ cp \in [row: BOOLEAN, key: Keys, res: Result, mode: Env \cup {""}]
  /\ core \in [tenant: BOOLEAN, services: SUBSET Service, resources: SUBSET Image]
  /\ running \in BOOLEAN
  /\ run \in [Caller -> [at: Step, adopting: BOOLEAN, tenantSetup: BOOLEAN,
                         adminSetup: BOOLEAN, key: Keys, res: Result]]
  /\ boot \in {"retrying", "returned"}
  /\ sec \in [at: {"idle", "dial", "status", "setup", "complete"}, done: BOOLEAN]
  /\ env \in Env /\ ident \in Keys
  /\ caps \in [SetupComplete: BOOLEAN, Console: BOOLEAN]
  /\ swallowed \in BOOLEAN
  /\ faults \in 0..MaxFaults

Init ==
  /\ auth = [tenants |-> 0, admins |-> 0, service |-> FALSE,
             client |-> NoKey, console |-> FALSE, locked |-> FALSE]
  /\ secret = [scope |-> FALSE, locked |-> FALSE]
  /\ cp = NoRow
  /\ core = EmptyCore
  /\ running = FALSE
  /\ run = [c \in Caller |-> Idle]
  /\ boot = "retrying"
  /\ sec = SecretIdle
  /\ env \in Env /\ ident = NoKey /\ caps = Unread
  /\ swallowed = FALSE
  /\ faults = 0

Fault == faults < MaxFaults /\ faults' = faults + 1

----------------------------------------------------------------------------
(***************************************************************************)
(* How a run moves: on to its next call, out with an error, or out with    *)
(* success. The deferred end() gives the single-flight slot back.          *)
(***************************************************************************)
Goto(c, r) == run' = [run EXCEPT ![c] = r] /\ UNCHANGED <<running, boot>>

Fail(c) == run' = [run EXCEPT ![c] = Idle] /\ running' = FALSE /\ UNCHANGED boot

Return(c) ==
  /\ run' = [run EXCEPT ![c] = Idle]
  /\ running' = FALSE
  /\ boot' = IF c = "boot" THEN "returned" ELSE boot

\* One RPC to Auth: answered, or failed with any of its effects (or none) done.
Rpc(c, done, partly, r) ==
  /\ \/ auth' = done /\ Goto(c, r) /\ UNCHANGED faults
     \/ auth' \in {auth, done} \cup partly /\ Fail(c) /\ Fault
  /\ UNCHANGED <<secret, cp, core, sec, swallowed, process>>

\* (Mutant: no single flight.)
tryBegin_Always == TRUE

tryBegin == ~running

\* setup.LoadConfig, of what a run looks at: values are trimmed and otherwise kept
\* as they are spelled.
LoadConfig(e) == [AdminPassword |-> EnvPassword, Images |-> Image, DeploymentMode |-> e]

\* RunWithRetry's next attempt, or the wizard's request. A caller that finds a
\* run in flight changes nothing (the loop polls again, the wizard gets a 409).
Begin(c) ==
  /\ run[c].at = "idle"
  /\ c = "boot" => boot = "retrying" /\ LoadConfig(env).AdminPassword
  /\ tryBegin
  /\ running' = TRUE
  /\ run' = [run EXCEPT ![c].at = "dial"]
  /\ UNCHANGED <<auth, secret, cp, core, boot, sec, swallowed, faults, process>>

\* Plaintext when neither a CA nor a client certificate is configured; otherwise
\* the configured files are read, and one that does not load is an error. The
\* address is first contacted by the first call.
dialSetupService == IF {"ca", "cert"} \cap DialFiles = {} THEN {"plaintext"} ELSE {"tls", "error"}

dial(c) ==
  /\ run[c].at = "dial"
  /\ \E conn \in dialSetupService :
       IF conn = "error" THEN Fail(c) /\ Fault
       ELSE Goto(c, [run[c] EXCEPT !.at = "status"]) /\ UNCHANGED faults
  /\ UNCHANGED <<auth, secret, cp, core, sec, swallowed, process>>

GetSetupStatus(c) ==
  /\ run[c].at = "status"
  /\ \/ /\ auth.locked
        /\ Goto(c, [run[c] EXCEPT !.at = "load", !.adopting = TRUE])
        /\ UNCHANGED faults
     \/ /\ ~auth.locked
        /\ Goto(c, [run[c] EXCEPT !.at = "tenant", !.tenantSetup = auth.tenants > 0,
                                  !.adminSetup = auth.admins > 0])
        /\ UNCHANGED faults
     \/ Fail(c) /\ Fault
  /\ UNCHANGED <<auth, secret, cp, core, sec, swallowed, process>>

\* loadPersisted: a row that cannot be read is taken for an empty one.
loadPersisted(c) ==
  /\ run[c].at = "load"
  /\ \/ Goto(c, [run[c] EXCEPT !.at = "mirror", !.res = cp.res]) /\ UNCHANGED faults
     \/ Goto(c, [run[c] EXCEPT !.at = "mirror"]) /\ Fault
  /\ UNCHANGED <<auth, secret, cp, core, sec, swallowed, process>>

\* CreateTenant is not idempotent: skipped when the status said it was done.
CreateTenant(c) ==
  /\ run[c].at = "tenant"
  /\ \/ /\ run[c].tenantSetup
        /\ Goto(c, [run[c] EXCEPT !.at = "register"])
        /\ UNCHANGED <<auth, secret, cp, core, sec, swallowed, faults, process>>
     \/ /\ ~run[c].tenantSetup
        /\ Rpc(c, [auth EXCEPT !.tenants = @ + 1], {},
               [run[c] EXCEPT !.at = "register", !.res.tenant = TRUE])

RegisterControlService(c) ==
  /\ run[c].at = "register"
  /\ Rpc(c, [auth EXCEPT !.service = TRUE], {}, [run[c] EXCEPT !.at = "key"])

\* A minted key is none of those some party still holds.
FreshKey == Key \ ({cp.key, auth.client} \cup {run[c].key : c \in Caller})

\* controlKey: the stored key; a fresh one when the row has none or cannot be read.
controlKey(c) ==
  /\ run[c].at = "key"
  /\ \/ /\ \E k \in IF cp.key # NoKey THEN {cp.key} ELSE FreshKey :
             Goto(c, [run[c] EXCEPT !.at = "client", !.key = k])
        /\ UNCHANGED faults
     \/ /\ \E k \in FreshKey : Goto(c, [run[c] EXCEPT !.at = "client", !.key = k])
        /\ Fault
  /\ UNCHANGED <<auth, secret, cp, core, sec, swallowed, process>>

\* EnsureControlClient keeps the JWKS of a client that exists already.
EnsureControlClient(c) ==
  /\ run[c].at = "client"
  /\ Rpc(c, [auth EXCEPT !.client = IF @ = NoKey THEN run[c].key ELSE @], {},
         [run[c] EXCEPT !.at = "integrate", !.res.oauth = TRUE])

\* Steps 4-6 (resource API, admin role, console client): best effort. No later
\* step depends on the first two; the console's client id goes into the row, and
\* is missing there when the call that registers it failed.
EnsureIntegration(c) ==
  /\ run[c].at = "integrate"
  /\ \/ /\ auth' = [auth EXCEPT !.console = TRUE]
        /\ Goto(c, [run[c] EXCEPT !.at = "steward", !.res.console = TRUE])
        /\ UNCHANGED faults
     \/ /\ auth' \in {auth, [auth EXCEPT !.console = TRUE]}
        /\ Goto(c, [run[c] EXCEPT !.at = "steward"])
        /\ Fault
  /\ UNCHANGED <<secret, cp, core, sec, swallowed, process>>

\* The service catalog, reconciled through the same window (module Steward).
reconcileSteward(c) ==
  /\ run[c].at = "steward"
  /\ \/ Goto(c, [run[c] EXCEPT !.at = "admin"]) /\ UNCHANGED faults
     \/ Fail(c) /\ Fault
  /\ UNCHANGED <<auth, secret, cp, core, sec, swallowed, process>>

\* CreateAdmin activates the tenant, which closes the window; a failing one may
\* have created the admin and not activated the tenant.
CreateAdmin(c) ==
  /\ run[c].at = "admin"
  /\ \/ /\ run[c].adminSetup
        /\ Goto(c, [run[c] EXCEPT !.at = "complete"])
        /\ UNCHANGED <<auth, secret, cp, core, sec, swallowed, faults, process>>
     \/ /\ ~run[c].adminSetup
        /\ Rpc(c, [auth EXCEPT !.admins = @ + 1, !.locked = TRUE],
               {[auth EXCEPT !.admins = @ + 1]}, [run[c] EXCEPT !.at = "complete"])

CompleteSetup(c) ==
  /\ run[c].at = "complete"
  /\ Rpc(c, [auth EXCEPT !.locked = TRUE], {},
         [run[c] EXCEPT !.at = "persist", !.res.completed = TRUE])

\* (Mutant: an empty key is written like any other.)
UpsertControlPlane_Plain(res, key) ==
  [row |-> TRUE, key |-> key, res |-> res, mode |-> LoadConfig(env).DeploymentMode]

\* UpsertControlPlane: every column is overwritten, but an empty key keeps the
\* stored one. The mode is the setup package's own reading of the variable.
UpsertControlPlane(res, key) ==
  [row |-> TRUE, key |-> IF key = NoKey THEN cp.key ELSE key, res |-> res,
   mode |-> LoadConfig(env).DeploymentMode]

\* persist fails the run that provisioned Auth, and is only logged by one that
\* found Auth provisioned.
persist(c) ==
  /\ run[c].at = "persist"
  /\ LET row == UpsertControlPlane(run[c].res, run[c].key) IN
     \/ /\ cp' = row
        /\ IF run[c].adopting THEN Return(c) ELSE Goto(c, [run[c] EXCEPT !.at = "mirror"])
        /\ UNCHANGED <<swallowed, faults>>
     \/ /\ cp' \in {cp, row}
        /\ IF run[c].adopting THEN Return(c) /\ swallowed' = TRUE
                              ELSE Fail(c) /\ UNCHANGED swallowed
        /\ Fault
  /\ UNCHANGED <<auth, secret, core, sec, process>>

\* What mirror leaves when every statement succeeds, and when some fail.
Mirrored == [tenant |-> TRUE, services |-> Service, resources |-> LoadConfig(env).Images]
PartlyMirrored ==
  {core} \cup
  {[tenant |-> TRUE, services |-> core.services \cup s, resources |-> core.resources \cup r] :
     s \in SUBSET Service, r \in SUBSET Image}

\* (Mutant: the adopting run does not stamp completion.)
AfterMirror_NoStamp(c) == Return(c)

\* The run that adopted a provisioned Auth stamps completion when the row it
\* loaded had none.
AfterMirror(c) ==
  IF run[c].adopting /\ ~run[c].res.completed
    THEN Goto(c, [run[c] EXCEPT !.at = "persist", !.res.completed = TRUE])
    ELSE Return(c)

\* mirror: the tenant, the services and the system workloads that are not there
\* yet; every failure is logged and the run goes on.
mirror(c) ==
  /\ run[c].at = "mirror"
  /\ \/ core' = Mirrored /\ swallowed' = FALSE /\ UNCHANGED faults
     \/ core' \in PartlyMirrored /\ swallowed' = TRUE /\ Fault
  /\ AfterMirror(c)
  /\ UNCHANGED <<auth, secret, cp, sec, process>>

----------------------------------------------------------------------------
\* SecretOrchestrator.Run, one action per call; a failed pass is retried forever.

\* (Mutant: the ordering gate is dropped.)
AuthSetupComplete_Ungated == TRUE

\* Orchestrator.Status; a read error answers "not complete", and the pass waits.
AuthSetupComplete == cp.res.completed

\* SecretOrchestrator.State, the readiness check "secret-setup".
State == sec.done

SecretBegin ==
  /\ sec.at = "idle" /\ ~sec.done
  /\ AuthSetupComplete
  /\ sec' = [sec EXCEPT !.at = "dial"]
  /\ UNCHANGED <<auth, secret, cp, core, running, run, boot, swallowed, faults, process>>

dialSecret ==
  /\ sec.at = "dial"
  /\ \E conn \in dialSetupService :
       IF conn = "error" THEN sec' = SecretIdle /\ Fault
       ELSE sec' = [sec EXCEPT !.at = "status"] /\ UNCHANGED faults
  /\ UNCHANGED <<auth, secret, cp, core, running, run, boot, swallowed, process>>

SecretGetSetupStatus ==
  /\ sec.at = "status"
  /\ \/ /\ secret.locked
        /\ sec' = [at |-> "idle", done |-> TRUE]
        /\ UNCHANGED faults
     \/ /\ ~secret.locked
        /\ sec' = [sec EXCEPT !.at = "setup"]
        /\ UNCHANGED faults
     \/ sec' = SecretIdle /\ Fault
  /\ UNCHANGED <<auth, secret, cp, core, running, run, boot, swallowed, process>>

\* (Mutant: Secret is locked before its scope is provisioned.)
SecretSetup_LockFirst ==
  /\ sec.at = "setup"
  /\ secret' = [secret EXCEPT !.locked = TRUE]
  /\ sec' = [sec EXCEPT !.at = "complete"]
  /\ UNCHANGED <<auth, cp, core, running, run, boot, swallowed, faults, process>>

SecretSetup ==
  /\ sec.at = "setup"
  /\ \/ /\ secret' = [secret EXCEPT !.scope = TRUE]
        /\ sec' = [sec EXCEPT !.at = "complete"]
        /\ UNCHANGED faults
     \/ /\ secret' \in {secret, [secret EXCEPT !.scope = TRUE]}
        /\ sec' = SecretIdle
        /\ Fault
  /\ UNCHANGED <<auth, cp, core, running, run, boot, swallowed, process>>

SecretCompleteSetup ==
  /\ sec.at = "complete"
  /\ \/ /\ secret' = [secret EXCEPT !.locked = TRUE]
        /\ sec' = [at |-> "idle", done |-> TRUE]
        /\ UNCHANGED faults
     \/ /\ secret' \in {secret, [secret EXCEPT !.locked = TRUE]}
        /\ sec' = SecretIdle
        /\ Fault
  /\ UNCHANGED <<auth, cp, core, running, run, boot, swallowed, process>>

----------------------------------------------------------------------------
\* What the running process reads off the row and keeps. A read that fails, or
\* finds nothing yet, leaves nothing behind.

\* LoadIdentity: the stored key, unless the client id or the tenant is missing.
LoadIdentity == IF cp.res.oauth /\ cp.res.tenant THEN cp.key ELSE NoKey

\* OutboundTokens.source: built on first use, kept for the life of the process.
source ==
  /\ ident = NoKey /\ LoadIdentity # NoKey
  /\ ident' = LoadIdentity
  /\ UNCHANGED <<auth, secret, cp, core, running, run, boot, sec, env, caps, swallowed, faults>>

\* ConsoleIdentity: nothing is told of an incomplete setup.
ConsoleIdentity ==
  IF AuthSetupComplete THEN capabilitiesPayload(TRUE, cp.res.console) ELSE Unread

\* The anonymous probe: a completed setup is cached for good, with the console's
\* client id or without.
setupIdentity ==
  /\ ~caps.SetupComplete /\ ConsoleIdentity.SetupComplete
  /\ caps' = ConsoleIdentity
  /\ UNCHANGED <<auth, secret, cp, core, running, run, boot, sec, env, ident, swallowed, faults>>

----------------------------------------------------------------------------
\* config.Init lowers the variable's case before it validates it.
DeploymentMode(e) == IF e = "Docker" THEN "docker" ELSE e

\* (Mutant: the stamp is not consulted.)
verifyDeploymentMode_Skipped(e, row) == TRUE

\* Core boots only when its mode agrees with the install record.
verifyDeploymentMode(e, row) == row.row => row.mode = DeploymentMode(e)

\* Core stops at any point and boots again, perhaps in another environment: only
\* memory is lost. A boot that is refused changes nothing, and is not a step.
Reboot ==
  /\ env' \in Env
  /\ verifyDeploymentMode(env', cp')
  /\ ident' = NoKey /\ caps' = Unread
  /\ run' = [c \in Caller |-> Idle]
  /\ running' = FALSE
  /\ boot' = "retrying"
  /\ sec' = SecretIdle
  /\ swallowed' = FALSE
  /\ Fault

CoreRestart == UNCHANGED <<auth, secret, cp, core>> /\ Reboot

\* Core's database is recreated while Auth's and Secret's survive.
CoreReset == cp' = NoRow /\ core' = EmptyCore /\ UNCHANGED <<auth, secret>> /\ Reboot

RunStep(c) ==
  \/ dial(c) \/ GetSetupStatus(c) \/ loadPersisted(c) \/ CreateTenant(c)
  \/ RegisterControlService(c) \/ controlKey(c) \/ EnsureControlClient(c)
  \/ EnsureIntegration(c) \/ reconcileSteward(c) \/ CreateAdmin(c)
  \/ CompleteSetup(c) \/ persist(c) \/ mirror(c)

SecretStep ==
  SecretBegin \/ dialSecret \/ SecretGetSetupStatus \/ SecretSetup \/ SecretCompleteSetup

Next ==
  \/ \E c \in Caller : Begin(c) \/ RunStep(c)
  \/ SecretStep
  \/ source
  \/ setupIdentity
  \/ CoreRestart
  \/ CoreReset

Spec == Init /\ [][Next]_vars

\* Both loops retry for ever and a started run goes on to its next call. Nobody
\* has to press the wizard's button.
Fairness ==
  /\ WF_vars(Begin("boot"))
  /\ \A c \in Caller : WF_vars(RunStep(c))
  /\ WF_vars(SecretStep)

FairSpec == Spec /\ Fairness

----------------------------------------------------------------------------
\* ProvisionedOnce: however runs fail, are retried, restarted or raced by the
\* wizard, Auth gets at most one system tenant and one super-admin (RunWith's
\* single flight and its skips: CreateTenant and CreateAdmin are not idempotent).
ProvisionedOnce == auth.tenants <= 1 /\ auth.admins <= 1

\* ProvisioningOrder: what Core records and reports never runs ahead of the
\* services. A recorded completion means Auth is locked with a tenant, an admin
\* and a control client; Secret is touched only after Auth was locked; Secret is
\* locked only with a scope; and secret-setup is ready only when Secret is locked.
ProvisioningOrder ==
  /\ cp.res.completed => auth.locked
  /\ auth.locked => auth.tenants = 1 /\ auth.admins = 1 /\ auth.client # NoKey
  /\ secret.scope => auth.locked
  /\ secret.locked => secret.scope
  /\ State => secret.locked

\* KeyNeverBlanked: the control key on record is never erased or replaced, not
\* even by a run that read the row in error (UpsertControlPlane, controlKey).
KeyNeverBlanked == [][cp.key # NoKey /\ cp'.row => cp'.key = cp.key]_vars

\* CachesStayTrue: what the process keeps for good never disagrees with the
\* record it was read from, whatever later runs write (capabilities.go: "a cached
\* true can never become wrong"; OutboundTokens never rebuilds its source), and
\* the console's client id the probe hands out is one that Auth has registered.
CachesStayTrue ==
  /\ ident # NoKey => ident = cp.key
  /\ caps.SetupComplete => cp.res.completed
  /\ caps.Console => auth.console

\* SubstrateImmutable: no run and no restart moves an install to another
\* substrate, although every persist overwrites the stamp (verifyDeploymentMode).
SubstrateImmutable ==
  [][cp.row /\ cp'.row => DeploymentMode(cp'.mode) = DeploymentMode(cp.mode)]_vars

\* IdentityRecorded: a recorded control key can be used, because the ids that go
\* with it are recorded too (identity.go:122-123, of a run that skipped
\* CreateTenant: "the column is still populated").
IdentityRecorded == cp.key # NoKey => LoadIdentity # NoKey

\* BootsAgain: Core boots again in the environment it was set up in
\* (bootstrap.go:257-258: "the stamp is written at setup from this same
\* validated value").
BootsAgain == verifyDeploymentMode(env, cp)

Provisioned ==
  auth.locked /\ cp.res.completed /\ core = Mirrored /\ secret.locked

\* SetupConverges: once faults stop, the install ends up provisioned and
\* recorded for good, unless the last run swallowed the failure of a write (the
\* next boot or wizard run repairs that).
SetupConverges == <>[](Provisioned \/ swallowed)
=============================================================================
