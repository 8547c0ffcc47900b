---------------------------- MODULE SetupProofs ----------------------------
(***************************************************************************)
(* First-run provisioning, for any number of faults, restarts and resets,  *)
(* any services, workloads and keys: what is created, recorded and cached. *)
(***************************************************************************)
EXTENDS Setup, TLAPS

AuthType == [tenants: Nat, admins: Nat, service: BOOLEAN, client: Keys,
             console: BOOLEAN, locked: BOOLEAN]
RowType == [row: BOOLEAN, key: Keys, res: Result, mode: Env \cup {""}]
RunType == [at: Step, adopting: BOOLEAN, tenantSetup: BOOLEAN,
            adminSetup: BOOLEAN, key: Keys, res: Result]

----------------------------------------------------------------------------
\* The invariant.

\* Auth has one of each, and is locked with everything in place.
AuthOK(a) ==
  /\ a.tenants <= 1 /\ a.admins <= 1
  /\ a.locked => a.tenants = 1 /\ a.admins = 1 /\ a.client # NoKey

\* The row does not run ahead of Auth, and its stamp is this process's mode.
RowOK(p, a, e) ==
  /\ p.key # NoKey => a.locked
  /\ p.res.completed => a.locked
  /\ p.res.console => a.console
  /\ p.row => DeploymentMode(p.mode) = DeploymentMode(e)

\* The steps of a run between Auth's status and its lock.
Window == {"tenant", "register", "key", "client", "integrate", "steward", "admin"}

\* A run knows what Auth has: nobody else changes it while the run is at it. It
\* has a key of its own only in the window, when none is on record.
RunOK(r, a, p) ==
  /\ r.at = "idle" => r = Idle
  /\ r.at \in {"dial", "status"} => r.key = NoKey
  /\ r.adopting => r.at \in {"load", "mirror", "persist"} /\ a.locked /\ r.key = NoKey
  /\ r.at = "load" => r.adopting
  /\ r.at \in Window => ~a.locked /\ p.key = NoKey /\ (r.adminSetup <=> a.admins > 0)
  /\ r.at = "tenant" => (r.tenantSetup <=> a.tenants > 0)
  /\ r.at \in (Window \cup {"complete"}) \ {"tenant"} => a.tenants = 1
  /\ r.at \in {"client", "integrate", "steward", "admin", "complete"} => r.key # NoKey
  /\ r.at \in {"integrate", "steward", "admin", "complete"} => a.client # NoKey
  /\ r.at = "complete" => a.admins = 1 /\ p.key = NoKey
  /\ r.at = "persist" => /\ a.locked /\ r.res.completed
                         /\ ~r.adopting => p.key = NoKey
  /\ r.res.completed => a.locked
  /\ r.res.console => a.console

\* One run at a time.
SingleFlight ==
  /\ \A c \in Caller : run[c].at # "idle" => running
  /\ \A c, d \in Caller : run[c].at # "idle" /\ run[d].at # "idle" => c = d

\* Secret's pass has seen Auth complete.
SecretOK ==
  /\ sec.at # "idle" \/ secret.scope => auth.locked
  /\ sec.at = "complete" \/ secret.locked => secret.scope
  /\ sec.done => secret.locked

SetupInv ==
  /\ TypeOK /\ AuthOK(auth) /\ RowOK(cp, auth, env)
  /\ \A c \in Caller : RunOK(run[c], auth, cp)
  /\ SingleFlight /\ SecretOK /\ CachesStayTrue

CoreType == [tenant: BOOLEAN, services: SUBSET Service, resources: SUBSET Image]
FaultType == 0 .. MaxFaults
SecretType == [scope: BOOLEAN, locked: BOOLEAN]
PassType == [at: {"idle", "dial", "status", "setup", "complete"}, done: BOOLEAN]
CapsType == [SetupComplete: BOOLEAN, Console: BOOLEAN]

\* TypeOK, one named type per variable.
Typed ==
  /\ auth \in AuthType /\ secret \in SecretType /\ cp \in RowType /\ core \in CoreType
  /\ running \in BOOLEAN /\ run \in [Caller -> RunType] /\ boot \in {"retrying", "returned"}
  /\ sec \in PassType /\ env \in Env /\ ident \in Keys /\ caps \in CapsType
  /\ swallowed \in BOOLEAN /\ faults \in FaultType

\* It is the type invariant.
LEMMA TypedIsTypeOK == Typed <=> TypeOK
BY DEF Typed, TypeOK, AuthType, SecretType, RowType, CoreType, RunType, PassType, CapsType,
       FaultType

\* And so it is after a step.
LEMMA TypedPrimed == Typed' <=> TypeOK'
BY TypedIsTypeOK, PTL

\* A run that does not exist is fine whatever Auth and the row hold.
LEMMA IdleOK == Idle \in RunType /\ Idle.at = "idle" /\ \A a, p : RunOK(Idle, a, p)
<1>1. /\ Idle \in RunType /\ Idle.at = "idle" /\ Idle.adopting = FALSE /\ Idle.key = NoKey
      /\ Idle.res = EmptyResult
  BY DEF Idle, RunType, Step, Keys, Result, EmptyResult
<1>2. EmptyResult.completed = FALSE /\ EmptyResult.console = FALSE
  BY DEF EmptyResult
<1> QED
  BY <1>1, <1>2 DEF RunOK, Window

\* Auth only grows under a row.
LEMMA RowGrows ==
  ASSUME NEW p, NEW a, NEW b, NEW e, RowOK(p, a, e), a.locked => b.locked, a.console => b.console
  PROVE  RowOK(p, b, e)
BY DEF RowOK

\* A fault is counted.
LEMMA FaultType1 == ASSUME TypeOK, Fault \/ UNCHANGED faults PROVE faults' \in FaultType
<1>1. faults \in 0 .. MaxFaults
  BY DEF TypeOK
<1> QED
  BY <1>1, MaxFaultsAssumption DEF Fault, FaultType

\* A run that takes a step, alone in flight.
LEMMA RunMoves ==
  ASSUME SetupInv, NEW c \in Caller, run[c].at # "idle",
         NEW r \in RunType, run' = [run EXCEPT ![c] = r],
         running' \in BOOLEAN, r.at # "idle" => running' = running,
         boot' \in {"retrying", "returned"}, swallowed' \in BOOLEAN, faults' \in FaultType,
         auth' \in AuthType, AuthOK(auth'),
         auth.locked => auth'.locked, auth.console => auth'.console,
         cp' \in RowType, RowOK(cp', auth', env),
         ident # NoKey => cp'.key = cp.key, cp.res.completed => cp'.res.completed,
         RunOK(r, auth', cp'), core' \in CoreType,
         UNCHANGED <<secret, sec, process>>
  PROVE  SetupInv'
<1> USE DEF SetupInv
<1>1. run \in [Caller -> RunType] /\ UNCHANGED <<secret, sec, env, ident, caps>>
  BY DEF TypeOK, RunType, process
<1>2. TypeOK'
  BY <1>1 DEF TypeOK, AuthType, RowType, RunType, CoreType, FaultType
<1>3. ASSUME NEW d \in Caller, d # c
      PROVE  run'[d] = Idle
  <2>1. run[d].at = "idle"
    BY <1>3 DEF SingleFlight
  <2>2. RunOK(run[d], auth, cp)
    OBVIOUS
  <2> QED
    BY <1>1, <1>3, <2>1, <2>2 DEF RunOK
<1>4. run'[c] = r
  BY <1>1
<1>5. ASSUME NEW d \in Caller PROVE RunOK(run[d], auth, cp)'
  BY <1>3, <1>4, IdleOK
<1>6. SingleFlight'
  <2>1. running
    BY DEF SingleFlight
  <2> QED
    BY <1>3, <1>4, <2>1, IdleOK DEF SingleFlight
<1>7. SecretOK'
  BY <1>1 DEF SecretOK
<1>8. CachesStayTrue'
  BY <1>1 DEF CachesStayTrue
<1>9. RowOK(cp, auth, env)'
  BY <1>1
<1> QED
  BY <1>2, <1>5, <1>6, <1>7, <1>8, <1>9

\* It moves on without touching Auth or the row.
LEMMA GotoMoves ==
  ASSUME SetupInv, NEW c \in Caller, run[c].at # "idle", NEW r \in RunType, r.at # "idle",
         Goto(c, r), RunOK(r, auth, cp), Fault \/ UNCHANGED faults,
         UNCHANGED <<auth, secret, cp, core, sec, swallowed, process>>
  PROVE  SetupInv'
<1>1. faults' \in FaultType
  BY FaultType1 DEF SetupInv
<1>2. /\ auth \in AuthType /\ cp \in RowType /\ core \in CoreType /\ running \in BOOLEAN
      /\ boot \in {"retrying", "returned"} /\ swallowed \in BOOLEAN
  BY DEF SetupInv, TypeOK, AuthType, RowType, CoreType
<1>3. run' = [run EXCEPT ![c] = r] /\ running' = running /\ boot' = boot
  BY DEF Goto
<1>4. auth' = auth /\ cp' = cp /\ core' = core /\ swallowed' = swallowed
  OBVIOUS
<1> QED
  BY <1>1, <1>2, <1>3, <1>4, RunMoves DEF SetupInv

\* It ends without touching Auth or the row.
LEMMA FailMoves ==
  ASSUME SetupInv, NEW c \in Caller, run[c].at # "idle", Fail(c), Fault \/ UNCHANGED faults,
         UNCHANGED <<secret, cp, core, sec, swallowed, process>>,
         auth' \in AuthType, AuthOK(auth'), auth.locked => auth'.locked,
         auth.console => auth'.console
  PROVE  SetupInv'
<1>1. faults' \in FaultType
  BY FaultType1 DEF SetupInv
<1>2. /\ cp \in RowType /\ core \in CoreType
      /\ boot \in {"retrying", "returned"} /\ swallowed \in BOOLEAN
  BY DEF SetupInv, TypeOK, RowType, CoreType
<1>3. run' = [run EXCEPT ![c] = Idle] /\ running' = FALSE /\ boot' = boot
  BY DEF Fail
<1>4. RowOK(cp, auth', env)
  BY RowGrows DEF SetupInv
<1>5. cp' = cp /\ core' = core /\ swallowed' = swallowed
  OBVIOUS
<1> QED
  BY <1>1, <1>2, <1>3, <1>4, <1>5, IdleOK, RunMoves

\* What a call may leave in Auth: everything that was there, and more.
Grown(S) ==
  \A x \in S : /\ x \in AuthType /\ AuthOK(x)
               /\ auth.locked => x.locked
               /\ auth.console => x.console

\* It moves on, and Auth may have grown.
LEMMA GrowMoves ==
  ASSUME SetupInv, NEW c \in Caller, run[c].at # "idle", NEW r \in RunType, r.at # "idle",
         Goto(c, r), Grown({auth'}), RunOK(r, auth', cp), Fault \/ UNCHANGED faults,
         UNCHANGED <<secret, cp, core, sec, swallowed, process>>
  PROVE  SetupInv'
<1>1. /\ cp \in RowType /\ core \in CoreType /\ running \in BOOLEAN
      /\ boot \in {"retrying", "returned"} /\ swallowed \in BOOLEAN
  BY DEF SetupInv, TypeOK, RowType, CoreType
<1>2. run' = [run EXCEPT ![c] = r] /\ running' = running /\ boot' = boot
  BY DEF Goto
<1>3. RowOK(cp, auth', env)
  BY RowGrows DEF SetupInv, Grown
<1>4. cp' = cp /\ core' = core /\ swallowed' = swallowed /\ faults' \in FaultType
  BY FaultType1 DEF SetupInv
<1> QED
  BY <1>1, <1>2, <1>3, <1>4, RunMoves DEF Grown

\* A call to Auth: answered, or failed with any of its effects done.
LEMMA RpcMoves ==
  ASSUME SetupInv, NEW c \in Caller, run[c].at # "idle", NEW r \in RunType, r.at # "idle",
         NEW done, NEW partly, Rpc(c, done, partly, r),
         Grown({done} \cup partly), RunOK(r, done, cp)
  PROVE  SetupInv'
<1>1. auth \in AuthType /\ AuthOK(auth)
  BY DEF SetupInv, TypeOK, AuthType
<1>2. UNCHANGED <<secret, cp, core, sec, swallowed, process>>
  BY DEF Rpc
<1> USE DEF Grown
<1>3. CASE auth' = done /\ Goto(c, r) /\ UNCHANGED faults
  <2>1. Grown({auth'})
    BY <1>3
  <2> QED
    BY <1>2, <1>3, <2>1, GrowMoves
<1>4. CASE auth' \in {auth, done} \cup partly /\ Fail(c) /\ Fault
  BY <1>1, <1>2, <1>4, FailMoves
<1> QED
  BY <1>3, <1>4 DEF Rpc

\* What is known of the run that takes a step.
LEMMA Own ==
  ASSUME SetupInv, NEW c \in Caller
  PROVE  /\ run[c] \in RunType /\ RunOK(run[c], auth, cp)
         /\ auth \in AuthType /\ AuthOK(auth) /\ cp \in RowType /\ RowOK(cp, auth, env)
BY DEF SetupInv, TypeOK, AuthType, RowType, RunType

----------------------------------------------------------------------------
\* One lemma per call of a run.

\* dial touches nothing.
LEMMA DialKeeps == ASSUME SetupInv, NEW c \in Caller, dial(c) PROVE SetupInv'
<1> DEFINE r == [run[c] EXCEPT !.at = "status"]
<1>1. run[c] \in RunType /\ RunOK(run[c], auth, cp) /\ run[c].at = "dial"
  BY Own DEF dial
<1>2. r \in RunType /\ r.at = "status" /\ RunOK(r, auth, cp)
  BY <1>1 DEF RunType, Step, RunOK, Window
<1>3. UNCHANGED <<auth, secret, cp, core, sec, swallowed, process>>
  BY DEF dial
<1>4. CASE Fail(c) /\ Fault
  <2>1. auth' = auth
    BY <1>3
  <2> QED
    BY <1>1, <1>3, <1>4, <2>1, Own, FailMoves
<1>5. CASE Goto(c, r) /\ UNCHANGED faults
  <2> HIDE DEF r
  <2> QED
    BY <1>1, <1>2, <1>3, <1>5, GotoMoves
<1> QED
  BY <1>4, <1>5 DEF dial

\* A run adopts a locked Auth, or learns what Auth has.
LEMMA GetSetupStatusKeeps == ASSUME SetupInv, NEW c \in Caller, GetSetupStatus(c) PROVE SetupInv'
<1>1. run[c] \in RunType /\ RunOK(run[c], auth, cp) /\ run[c].at = "status"
  BY Own DEF GetSetupStatus
<1>2. run[c].key = NoKey /\ run[c].adopting = FALSE
  BY <1>1 DEF RunOK, RunType
<1>3. UNCHANGED <<auth, secret, cp, core, sec, swallowed, process>>
  BY DEF GetSetupStatus
<1>4. CASE Fail(c) /\ Fault
  <2>1. auth' = auth
    BY <1>3
  <2> QED
    BY <1>1, <1>3, <1>4, <2>1, Own, FailMoves
<1>5. CASE /\ auth.locked /\ UNCHANGED faults
           /\ Goto(c, [run[c] EXCEPT !.at = "load", !.adopting = TRUE])
  <2> DEFINE r == [run[c] EXCEPT !.at = "load", !.adopting = TRUE]
  <2>1. r \in RunType /\ r.at = "load" /\ RunOK(r, auth, cp)
    BY <1>1, <1>2, <1>5 DEF RunType, Step, RunOK, Window
  <2> HIDE DEF r
  <2> QED
    BY <1>1, <1>3, <1>5, <2>1, GotoMoves DEF r
<1>6. CASE /\ ~auth.locked /\ UNCHANGED faults
           /\ Goto(c, [run[c] EXCEPT !.at = "tenant", !.tenantSetup = auth.tenants > 0,
                                     !.adminSetup = auth.admins > 0])
  <2>1. PICK t \in BOOLEAN : t = (auth.tenants > 0)
    <3>1. (auth.tenants > 0) \in BOOLEAN
      BY Own, SMT DEF AuthType
    <3> QED
      BY <3>1, Zenon
  <2>2. PICK m \in BOOLEAN : m = (auth.admins > 0)
    <3>1. (auth.admins > 0) \in BOOLEAN
      BY Own, SMT DEF AuthType
    <3> QED
      BY <3>1, Zenon
  <2> DEFINE r == [run[c] EXCEPT !.at = "tenant", !.tenantSetup = t, !.adminSetup = m]
  <2>3. Goto(c, r)
    BY <1>6, <2>1, <2>2, Zenon
  <2>4. /\ r \in RunType /\ r.at = "tenant" /\ r.tenantSetup = t /\ r.adminSetup = m
        /\ r.adopting = FALSE /\ r.res = run[c].res /\ r.key = NoKey
    BY <1>1, <1>2 DEF RunType, Step
  <2>5. cp.key = NoKey
    BY <1>6, Own DEF RowOK
  <2> HIDE DEF r
  <2>6. RunOK(r, auth, cp)
    BY <1>1, <1>2, <1>6, <2>1, <2>2, <2>4, <2>5 DEF RunOK, Window
  <2> QED
    BY <1>1, <1>3, <1>6, <2>3, <2>4, <2>6, GotoMoves
<1> QED
  BY <1>4, <1>5, <1>6 DEF GetSetupStatus

\* The adopting run takes over what the row has, or nothing.
LEMMA loadPersistedKeeps == ASSUME SetupInv, NEW c \in Caller, loadPersisted(c) PROVE SetupInv'
<1>1. /\ run[c] \in RunType /\ RunOK(run[c], auth, cp) /\ run[c].at = "load"
      /\ cp \in RowType /\ RowOK(cp, auth, env)
  BY Own DEF loadPersisted
<1>2. run[c].adopting /\ auth.locked /\ run[c].key = NoKey
  BY <1>1 DEF RunOK
<1>3. UNCHANGED <<auth, secret, cp, core, sec, swallowed, process>> /\ (Fault \/ UNCHANGED faults)
  BY DEF loadPersisted
<1>4. ASSUME NEW r \in RunType, r.at = "mirror", r.adopting = run[c].adopting, r.key = NoKey,
             r.res \in {run[c].res, cp.res}, Goto(c, r)
      PROVE  SetupInv'
  <2>1. RunOK(r, auth, cp)
    BY <1>1, <1>2, <1>4 DEF RunOK, Window, RowOK
  <2> QED
    BY <1>1, <1>3, <1>4, <2>1, GotoMoves
<1>5. CASE Goto(c, [run[c] EXCEPT !.at = "mirror", !.res = cp.res])
  <2> DEFINE r == [run[c] EXCEPT !.at = "mirror", !.res = cp.res]
  <2>1. /\ r \in RunType /\ r.at = "mirror" /\ r.adopting = run[c].adopting /\ r.key = NoKey
        /\ r.res = cp.res
    BY <1>1, <1>2 DEF RunType, RowType, Step
  <2> HIDE DEF r
  <2> QED
    BY <1>4, <1>5, <2>1 DEF r
<1>6. CASE Goto(c, [run[c] EXCEPT !.at = "mirror"])
  <2> DEFINE r == [run[c] EXCEPT !.at = "mirror"]
  <2>1. /\ r \in RunType /\ r.at = "mirror" /\ r.adopting = run[c].adopting /\ r.key = NoKey
        /\ r.res = run[c].res
    BY <1>1, <1>2 DEF RunType, Step
  <2> HIDE DEF r
  <2> QED
    BY <1>4, <1>6, <2>1 DEF r
<1> QED
  BY <1>5, <1>6 DEF loadPersisted

\* A status that said "no tenant" still holds: nobody else creates one.
LEMMA CreateTenantKeeps == ASSUME SetupInv, NEW c \in Caller, CreateTenant(c) PROVE SetupInv'
<1>1. /\ run[c] \in RunType /\ RunOK(run[c], auth, cp) /\ run[c].at = "tenant"
      /\ auth \in AuthType /\ AuthOK(auth)
  BY Own DEF CreateTenant
<1>2. ~auth.locked /\ run[c].adopting = FALSE /\ (run[c].tenantSetup <=> auth.tenants > 0)
  BY <1>1 DEF RunOK, Window, RunType
<1>3. CASE run[c].tenantSetup /\ Goto(c, [run[c] EXCEPT !.at = "register"])
           /\ UNCHANGED <<auth, secret, cp, core, sec, swallowed, faults, process>>
  <2> DEFINE r == [run[c] EXCEPT !.at = "register"]
  <2>1. r \in RunType /\ r.at = "register" /\ RunOK(r, auth, cp)
    BY <1>1, <1>2, <1>3 DEF RunType, Step, RunOK, Window, AuthOK, AuthType
  <2> HIDE DEF r
  <2> QED
    BY <1>1, <1>3, <2>1, GotoMoves DEF r
<1>4. CASE /\ ~run[c].tenantSetup
           /\ Rpc(c, [auth EXCEPT !.tenants = @ + 1], {},
                  [run[c] EXCEPT !.at = "register", !.res.tenant = TRUE])
  <2> DEFINE r == [run[c] EXCEPT !.at = "register", !.res.tenant = TRUE]
             a == [auth EXCEPT !.tenants = @ + 1]
  <2>1. /\ a \in AuthType /\ a.tenants = 1 /\ a.admins = auth.admins /\ a.client = auth.client
        /\ a.console = auth.console /\ a.locked = auth.locked
    BY <1>1, <1>2, <1>4 DEF AuthType
  <2>2. /\ r \in RunType /\ r.at = "register" /\ r.key = run[c].key /\ r.adopting = FALSE
        /\ r.adminSetup = run[c].adminSetup
        /\ r.res.completed = run[c].res.completed /\ r.res.console = run[c].res.console
    BY <1>1, <1>2 DEF RunType, Step, Result
  <2> HIDE DEF r, a
  <2>3. RunOK(r, a, cp) /\ AuthOK(a)
    BY <1>1, <1>2, <2>1, <2>2 DEF RunOK, Window, AuthOK
  <2>4. Rpc(c, a, {}, r)
    BY <1>4 DEF r, a
  <2>5. Grown({a} \cup {})
    BY <2>1, <2>3 DEF Grown
  <2> QED
    BY <1>1, <2>2, <2>3, <2>4, <2>5, RpcMoves
<1> QED
  BY <1>3, <1>4 DEF CreateTenant

\* The service is registered next to what is there.
LEMMA RegisterKeeps == ASSUME SetupInv, NEW c \in Caller, RegisterControlService(c) PROVE SetupInv'
<1>1. /\ run[c] \in RunType /\ RunOK(run[c], auth, cp) /\ run[c].at = "register"
      /\ auth \in AuthType /\ AuthOK(auth)
  BY Own DEF RegisterControlService
<1> DEFINE r == [run[c] EXCEPT !.at = "key"]
           a == [auth EXCEPT !.service = TRUE]
<1>2. /\ a \in AuthType /\ a.tenants = auth.tenants /\ a.admins = auth.admins
      /\ a.client = auth.client /\ a.console = auth.console /\ a.locked = auth.locked
  BY <1>1 DEF AuthType
<1>3. /\ r \in RunType /\ r.at = "key" /\ r.key = run[c].key /\ r.adopting = run[c].adopting
      /\ r.adminSetup = run[c].adminSetup /\ r.res = run[c].res
  BY <1>1 DEF RunType, Step
<1> HIDE DEF r, a
<1>4. RunOK(r, a, cp) /\ AuthOK(a)
  BY <1>1, <1>2, <1>3 DEF RunOK, Window, AuthOK
<1>5. Rpc(c, a, {}, r)
  BY DEF RegisterControlService, r, a
<1>6. Grown({a} \cup {})
  BY <1>2, <1>4 DEF Grown
<1> QED
  BY <1>1, <1>3, <1>4, <1>5, <1>6, RpcMoves

\* The run gets a key: none is on record, so it is a new one.
LEMMA controlKeyKeeps == ASSUME SetupInv, NEW c \in Caller, controlKey(c) PROVE SetupInv'
<1>1. run[c] \in RunType /\ RunOK(run[c], auth, cp) /\ run[c].at = "key"
  BY Own DEF controlKey
<1>2. cp.key = NoKey
  BY <1>1 DEF RunOK, Window
<1>3. PICK k \in Key : Goto(c, [run[c] EXCEPT !.at = "client", !.key = k])
  BY <1>2 DEF controlKey, FreshKey
<1>4. UNCHANGED <<auth, secret, cp, core, sec, swallowed, process>> /\ (Fault \/ UNCHANGED faults)
  BY DEF controlKey
<1> DEFINE r == [run[c] EXCEPT !.at = "client", !.key = k]
<1>5. /\ r \in RunType /\ r.at = "client" /\ r.key = k /\ r.adopting = run[c].adopting
      /\ r.adminSetup = run[c].adminSetup /\ r.res = run[c].res
  BY <1>1 DEF RunType, Step, Keys
<1> HIDE DEF r
<1>6. RunOK(r, auth, cp)
  BY <1>1, <1>5, NoKeyAssumption DEF RunOK, Window
<1> QED
  BY <1>1, <1>3, <1>4, <1>5, <1>6, GotoMoves DEF r

\* Auth has a control client afterwards, this run's or an earlier one's.
LEMMA EnsureControlClientKeeps ==
  ASSUME SetupInv, NEW c \in Caller, EnsureControlClient(c) PROVE SetupInv'
<1>1. /\ run[c] \in RunType /\ RunOK(run[c], auth, cp) /\ run[c].at = "client"
      /\ auth \in AuthType /\ AuthOK(auth)
  BY Own DEF EnsureControlClient
<1> DEFINE r == [run[c] EXCEPT !.at = "integrate", !.res.oauth = TRUE]
           a == [auth EXCEPT !.client = IF @ = NoKey THEN run[c].key ELSE @]
<1>2. run[c].key # NoKey /\ run[c].key \in Keys
  BY <1>1 DEF RunOK, RunType
<1>3. /\ a \in AuthType /\ a.tenants = auth.tenants /\ a.admins = auth.admins
      /\ a.client # NoKey /\ a.console = auth.console /\ a.locked = auth.locked
  BY <1>1, <1>2 DEF AuthType
<1>4. /\ r \in RunType /\ r.at = "integrate" /\ r.key = run[c].key /\ r.adopting = run[c].adopting
      /\ r.adminSetup = run[c].adminSetup
      /\ r.res.completed = run[c].res.completed /\ r.res.console = run[c].res.console
  BY <1>1 DEF RunType, Step, Result
<1> HIDE DEF r, a
<1>5. RunOK(r, a, cp) /\ AuthOK(a)
  BY <1>1, <1>3, <1>4 DEF RunOK, Window, AuthOK
<1>6. Rpc(c, a, {}, r)
  BY DEF EnsureControlClient, r, a
<1>7. Grown({a} \cup {})
  BY <1>3, <1>5 DEF Grown
<1> QED
  BY <1>1, <1>4, <1>5, <1>6, <1>7, RpcMoves

\* The console's client is recorded by a run that registered it.
LEMMA EnsureIntegrationKeeps ==
  ASSUME SetupInv, NEW c \in Caller, EnsureIntegration(c) PROVE SetupInv'
<1>1. /\ run[c] \in RunType /\ RunOK(run[c], auth, cp) /\ run[c].at = "integrate"
      /\ auth \in AuthType /\ AuthOK(auth)
  BY Own DEF EnsureIntegration
<1>2. UNCHANGED <<secret, cp, core, sec, swallowed, process>> /\ (Fault \/ UNCHANGED faults)
  BY DEF EnsureIntegration
<1> DEFINE a == [auth EXCEPT !.console = TRUE]
           r == [run[c] EXCEPT !.at = "steward", !.res.console = TRUE]
           s == [run[c] EXCEPT !.at = "steward"]
<1>3. /\ a \in AuthType /\ a.tenants = auth.tenants /\ a.admins = auth.admins
      /\ a.client = auth.client /\ a.console = TRUE /\ a.locked = auth.locked
  BY <1>1 DEF AuthType
<1>4. /\ r \in RunType /\ r.at = "steward" /\ r.key = run[c].key /\ r.adopting = run[c].adopting
      /\ r.adminSetup = run[c].adminSetup /\ r.res.completed = run[c].res.completed
  BY <1>1 DEF RunType, Step, Result
<1>5. /\ s \in RunType /\ s.at = "steward" /\ s.key = run[c].key /\ s.adopting = run[c].adopting
      /\ s.adminSetup = run[c].adminSetup /\ s.res = run[c].res
  BY <1>1 DEF RunType, Step
<1>6. \/ auth' = a /\ Goto(c, r)
      \/ auth' = a /\ Goto(c, s)
      \/ auth' = auth /\ Goto(c, s)
  BY DEF EnsureIntegration
<1> HIDE DEF a, r, s
<1>7. RunOK(r, a, cp) /\ AuthOK(a)
  BY <1>1, <1>3, <1>4 DEF RunOK, Window, AuthOK
<1>8. RunOK(s, a, cp) /\ RunOK(s, auth, cp)
  BY <1>1, <1>3, <1>5 DEF RunOK, Window
<1>9. Grown({a}) /\ Grown({auth})
  BY <1>1, <1>3, <1>7 DEF Grown
<1>10. CASE auth' = a /\ Goto(c, r)
  BY <1>1, <1>2, <1>4, <1>7, <1>9, <1>10, GrowMoves
<1>11. CASE auth' = a /\ Goto(c, s)
  BY <1>1, <1>2, <1>5, <1>8, <1>9, <1>11, GrowMoves
<1>12. CASE auth' = auth /\ Goto(c, s)
  BY <1>1, <1>2, <1>5, <1>8, <1>9, <1>12, GrowMoves
<1> QED
  BY <1>6, <1>10, <1>11, <1>12

\* A catalog pass that fails ends the run.
LEMMA reconcileStewardKeeps ==
  ASSUME SetupInv, NEW c \in Caller, reconcileSteward(c) PROVE SetupInv'
<1> DEFINE r == [run[c] EXCEPT !.at = "admin"]
<1>1. run[c] \in RunType /\ RunOK(run[c], auth, cp) /\ run[c].at = "steward"
  BY Own DEF reconcileSteward
<1>2. /\ r \in RunType /\ r.at = "admin" /\ r.key = run[c].key /\ r.adopting = run[c].adopting
      /\ r.adminSetup = run[c].adminSetup /\ r.res = run[c].res
  BY <1>1 DEF RunType, Step
<1>3. UNCHANGED <<auth, secret, cp, core, sec, swallowed, process>>
  BY DEF reconcileSteward
<1>4. CASE Fail(c) /\ Fault
  <2>1. auth' = auth
    BY <1>3
  <2> QED
    BY <1>1, <1>3, <1>4, <2>1, Own, FailMoves
<1>5. CASE Goto(c, r) /\ UNCHANGED faults
  <2> HIDE DEF r
  <2>1. RunOK(r, auth, cp)
    BY <1>1, <1>2 DEF RunOK, Window
  <2> QED
    BY <1>1, <1>2, <1>3, <1>5, <2>1, GotoMoves
<1> QED
  BY <1>4, <1>5 DEF reconcileSteward

\* A status that said "no admin" still holds: nobody else creates one.
LEMMA CreateAdminKeeps == ASSUME SetupInv, NEW c \in Caller, CreateAdmin(c) PROVE SetupInv'
<1>1. /\ run[c] \in RunType /\ RunOK(run[c], auth, cp) /\ run[c].at = "admin"
      /\ auth \in AuthType /\ AuthOK(auth)
  BY Own DEF CreateAdmin
<1>2. /\ ~auth.locked /\ (run[c].adminSetup <=> auth.admins > 0)
      /\ auth.tenants = 1 /\ auth.client # NoKey
  BY <1>1 DEF RunOK, Window
<1> DEFINE r == [run[c] EXCEPT !.at = "complete"]
           b == [auth EXCEPT !.admins = @ + 1]
           a == [b EXCEPT !.locked = TRUE]
<1>3. /\ r \in RunType /\ r.at = "complete" /\ r.key = run[c].key /\ r.adopting = run[c].adopting
      /\ r.adminSetup = run[c].adminSetup /\ r.res = run[c].res
  BY <1>1 DEF RunType, Step
<1>4. /\ b \in AuthType /\ b.tenants = auth.tenants /\ b.admins = auth.admins + 1
      /\ b.client = auth.client /\ b.console = auth.console /\ b.locked = auth.locked
  BY <1>1 DEF AuthType
<1>5. /\ a \in AuthType /\ a.tenants = auth.tenants /\ a.admins = auth.admins + 1
      /\ a.client = auth.client /\ a.console = auth.console /\ a.locked = TRUE
  <2> HIDE DEF b
  <2> QED
    BY <1>4 DEF AuthType
<1>6. CASE /\ run[c].adminSetup /\ Goto(c, r)
           /\ UNCHANGED <<auth, secret, cp, core, sec, swallowed, faults, process>>
  <2>1. auth.admins = 1
    BY <1>1, <1>2, <1>6 DEF AuthOK, AuthType
  <2> HIDE DEF r
  <2>2. RunOK(r, auth, cp)
    BY <1>1, <1>3, <2>1 DEF RunOK, Window
  <2> QED
    BY <1>1, <1>3, <1>6, <2>2, GotoMoves
<1>7. CASE ~run[c].adminSetup /\ Rpc(c, a, {b}, r)
  <2>1. auth.admins = 0
    BY <1>1, <1>2, <1>7 DEF AuthType
  <2> HIDE DEF r, a, b
  <2>2. RunOK(r, a, cp)
    BY <1>1, <1>2, <1>3, <1>5, <2>1 DEF RunOK, Window
  <2>3. AuthOK(a) /\ AuthOK(b)
    BY <1>1, <1>2, <1>4, <1>5, <2>1 DEF AuthOK
  <2>4. Grown({a} \cup {b})
    BY <1>4, <1>5, <2>3 DEF Grown
  <2> QED
    BY <1>1, <1>3, <1>7, <2>2, <2>4, RpcMoves
<1> QED
  BY <1>6, <1>7 DEF CreateAdmin

\* Auth is locked with everything in place.
LEMMA CompleteSetupKeeps == ASSUME SetupInv, NEW c \in Caller, CompleteSetup(c) PROVE SetupInv'
<1>1. /\ run[c] \in RunType /\ RunOK(run[c], auth, cp) /\ run[c].at = "complete"
      /\ auth \in AuthType /\ AuthOK(auth)
  BY Own DEF CompleteSetup
<1> DEFINE r == [run[c] EXCEPT !.at = "persist", !.res.completed = TRUE]
           a == [auth EXCEPT !.locked = TRUE]
<1>2. /\ a \in AuthType /\ a.tenants = auth.tenants /\ a.admins = auth.admins
      /\ a.client = auth.client /\ a.console = auth.console /\ a.locked = TRUE
  BY <1>1 DEF AuthType
<1>3. /\ r \in RunType /\ r.at = "persist" /\ r.key = run[c].key /\ r.adopting = run[c].adopting
      /\ r.res.completed = TRUE /\ r.res.console = run[c].res.console
  BY <1>1 DEF RunType, Step, Result
<1> HIDE DEF r, a
<1>4. RunOK(r, a, cp) /\ AuthOK(a)
  BY <1>1, <1>2, <1>3 DEF RunOK, Window, AuthOK
<1>5. Rpc(c, a, {}, r)
  BY DEF CompleteSetup, r, a
<1>6. Grown({a} \cup {})
  BY <1>2, <1>4 DEF Grown
<1> QED
  BY <1>1, <1>3, <1>4, <1>5, <1>6, RpcMoves

\* The row is written by a run that saw Auth locked, and a key only over none.
LEMMA persistKeeps == ASSUME SetupInv, NEW c \in Caller, persist(c) PROVE SetupInv'
<1>1. /\ run[c] \in RunType /\ RunOK(run[c], auth, cp) /\ run[c].at = "persist"
      /\ auth \in AuthType /\ AuthOK(auth) /\ cp \in RowType /\ RowOK(cp, auth, env)
  BY Own DEF persist
<1>2. /\ auth.locked /\ run[c].res.completed
      /\ run[c].adopting => run[c].key = NoKey
      /\ ~run[c].adopting => cp.key = NoKey
      /\ run[c].res.console => auth.console
  BY <1>1 DEF RunOK
<1> DEFINE row == UpsertControlPlane(run[c].res, run[c].key)
           r == [run[c] EXCEPT !.at = "mirror"]
<1>3. /\ row \in RowType /\ row.res = run[c].res /\ row.mode = env
      /\ row.key = IF run[c].key = NoKey THEN cp.key ELSE run[c].key
  <2>1. env \in Env
    BY DEF SetupInv, TypeOK
  <2> QED
    BY <1>1, <2>1 DEF UpsertControlPlane, LoadConfig, RowType, RunType
<1>4. /\ r \in RunType /\ r.at = "mirror" /\ r.key = run[c].key
      /\ r.adopting = run[c].adopting /\ r.res = run[c].res
  BY <1>1 DEF RunType, Step
<1>5. /\ cp' = cp \/ cp' = row
      /\ \/ ~run[c].adopting /\ Goto(c, r)
         \/ Fail(c)
         \/ Return(c)
      /\ swallowed' = swallowed \/ swallowed' = TRUE
      /\ Fault \/ UNCHANGED faults
      /\ UNCHANGED <<auth, secret, core, sec, process>>
  BY DEF persist
<1> HIDE DEF row, r
<1>6. /\ cp' \in RowType /\ RowOK(cp', auth, env)
      /\ ident # NoKey => cp'.key = cp.key
      /\ cp.res.completed => cp'.res.completed
  <2>1. ident # NoKey => ident = cp.key
    BY DEF SetupInv, CachesStayTrue
  <2>2. CASE cp' = cp
    BY <1>1, <2>2
  <2>3. CASE cp' = row
    BY <1>1, <1>2, <1>3, <2>1, <2>3 DEF RowOK
  <2> QED
    BY <1>5, <2>2, <2>3
<1>7. /\ auth' = auth /\ core' = core /\ core \in CoreType /\ running \in BOOLEAN
      /\ boot \in {"retrying", "returned"} /\ swallowed' \in BOOLEAN /\ faults' \in FaultType
  BY <1>5, FaultType1 DEF SetupInv, TypeOK, CoreType
<1>8. CASE ~run[c].adopting /\ Goto(c, r)
  <2>1. RunOK(r, auth, cp')
    BY <1>1, <1>4, <1>8 DEF RunOK, Window
  <2>2. run' = [run EXCEPT ![c] = r] /\ running' = running /\ boot' = boot
    BY <1>8 DEF Goto
  <2> QED
    BY <1>1, <1>4, <1>5, <1>6, <1>7, <2>1, <2>2, RunMoves
<1>9. CASE Fail(c) \/ Return(c)
  <2>1. /\ run' = [run EXCEPT ![c] = Idle] /\ running' = FALSE
        /\ boot' \in {"retrying", "returned"}
    BY <1>7, <1>9 DEF Fail, Return
  <2>2. RunOK(Idle, auth, cp')
    BY IdleOK
  <2> QED
    BY <1>1, <1>5, <1>6, <1>7, <2>1, <2>2, IdleOK, RunMoves
<1> QED
  BY <1>5, <1>8, <1>9

\* The mirror is Core's own; the adopting run goes on to stamp completion.
LEMMA mirrorKeeps == ASSUME SetupInv, NEW c \in Caller, mirror(c) PROVE SetupInv'
<1>1. /\ run[c] \in RunType /\ RunOK(run[c], auth, cp) /\ run[c].at = "mirror"
      /\ auth \in AuthType /\ AuthOK(auth) /\ cp \in RowType /\ RowOK(cp, auth, env)
  BY Own DEF mirror
<1>2. /\ UNCHANGED <<auth, secret, cp, sec, process>> /\ (Fault \/ UNCHANGED faults)
      /\ core' \in {Mirrored} \cup PartlyMirrored /\ swallowed' \in BOOLEAN
  BY DEF mirror
<1>3. core' \in CoreType
  <2>1. core \in CoreType
    BY DEF SetupInv, TypeOK, CoreType
  <2>2. Mirrored \in CoreType
    BY DEF Mirrored, LoadConfig, CoreType
  <2>3. PartlyMirrored \subseteq CoreType
    <3>1. core.services \subseteq Service /\ core.resources \subseteq Image
      BY <2>1 DEF CoreType
    <3>2. ASSUME NEW s \in SUBSET Service, NEW r \in SUBSET Image
          PROVE  [tenant |-> TRUE, services |-> core.services \cup s,
                  resources |-> core.resources \cup r] \in CoreType
      <4>1. core.services \cup s \in SUBSET Service /\ core.resources \cup r \in SUBSET Image
        BY <3>1
      <4> QED
        BY <4>1 DEF CoreType
    <3> QED
      <4> SUFFICES ASSUME NEW x \in PartlyMirrored PROVE x \in CoreType
        OBVIOUS
      <4>1. CASE x = core
        BY <2>1, <4>1
      <4>2. CASE \E s \in SUBSET Service, r \in SUBSET Image :
                   x = [tenant |-> TRUE, services |-> core.services \cup s,
                        resources |-> core.resources \cup r]
        BY <3>2, <4>2, Zenon
      <4> QED
        BY <4>1, <4>2 DEF PartlyMirrored
  <2> QED
    BY <1>2, <2>2, <2>3
<1>4. /\ auth' = auth /\ cp' = cp /\ running \in BOOLEAN
      /\ boot \in {"retrying", "returned"} /\ faults' \in FaultType
  BY <1>2, FaultType1 DEF SetupInv, TypeOK
<1>5. CASE Return(c)
  <2>1. /\ run' = [run EXCEPT ![c] = Idle] /\ running' = FALSE
        /\ boot' \in {"retrying", "returned"}
    BY <1>4, <1>5 DEF Return
  <2> QED
    BY <1>1, <1>2, <1>3, <1>4, <2>1, IdleOK, RunMoves
<1> DEFINE r == [run[c] EXCEPT !.at = "persist", !.res.completed = TRUE]
<1>6. CASE run[c].adopting /\ Goto(c, r)
  <2>1. /\ r \in RunType /\ r.at = "persist" /\ r.key = run[c].key
        /\ r.adopting = run[c].adopting
        /\ r.res.completed = TRUE /\ r.res.console = run[c].res.console
    BY <1>1 DEF RunType, Step, Result
  <2> HIDE DEF r
  <2>2. RunOK(r, auth, cp)
    BY <1>1, <1>6, <2>1 DEF RunOK, Window
  <2>3. run' = [run EXCEPT ![c] = r] /\ running' = running /\ boot' = boot
    BY <1>6 DEF Goto
  <2> QED
    BY <1>1, <1>2, <1>3, <1>4, <2>1, <2>2, <2>3, RunMoves
<1> QED
  BY <1>5, <1>6 DEF mirror, AfterMirror

\* One call of a run, whichever.
LEMMA RunStepKeeps == ASSUME SetupInv, NEW c \in Caller, RunStep(c) PROVE SetupInv'
BY DialKeeps, GetSetupStatusKeeps, loadPersistedKeeps, CreateTenantKeeps, RegisterKeeps,
   controlKeyKeeps, EnsureControlClientKeeps, EnsureIntegrationKeeps, reconcileStewardKeeps,
   CreateAdminKeeps, CompleteSetupKeeps, persistKeeps, mirrorKeeps
   DEF RunStep

\* A run begins alone.
LEMMA BeginKeeps == ASSUME SetupInv, NEW c \in Caller, Begin(c) PROVE SetupInv'
<1> USE DEF SetupInv
<1>1. run[c] = Idle /\ run \in [Caller -> RunType]
  BY DEF Begin, RunOK, TypeOK, RunType
<1>2. \A d \in Caller : run[d].at = "idle"
  BY DEF Begin, tryBegin, SingleFlight
<1> DEFINE r == [Idle EXCEPT !.at = "dial"]
<1>3. /\ r \in RunType /\ r.at = "dial" /\ r.adopting = FALSE /\ r.key = NoKey
      /\ r.res.completed = FALSE /\ r.res.console = FALSE
  BY DEF Idle, EmptyResult, RunType, Step, Keys, Result
<1>4. run' = [run EXCEPT ![c] = r] /\ running' = TRUE
  BY <1>1 DEF Begin
<1>5. UNCHANGED <<auth, secret, cp, core, boot, sec, swallowed, faults, env, ident, caps>>
  BY DEF Begin, process
<1> HIDE DEF r
<1>6. TypeOK'
  <2>1. run' \in [Caller -> RunType]
    BY <1>1, <1>3, <1>4
  <2>2. TypeOK /\ faults' \in FaultType
    BY <1>5, FaultType1
  <2> HIDE DEF SetupInv
  <2> QED
    BY <1>4, <1>5, <2>1, <2>2, TypedIsTypeOK, TypedPrimed DEF Typed
<1>7. run'[c] = r /\ \A d \in Caller : d # c => run'[d] = run[d]
  BY <1>1, <1>4
<1>8. ASSUME NEW d \in Caller PROVE RunOK(run[d], auth, cp)'
  <2>1. RunOK(r, auth, cp)
    BY <1>3 DEF RunOK, Window
  <2> QED
    BY <1>5, <1>7, <2>1
<1>9. SingleFlight'
  BY <1>2, <1>4, <1>7 DEF SingleFlight
<1>10. AuthOK(auth)' /\ RowOK(cp, auth, env)' /\ SecretOK' /\ CachesStayTrue'
  BY <1>5 DEF SecretOK, CachesStayTrue
<1> QED
  BY <1>6, <1>8, <1>9, <1>10

\* A step that leaves the runs, Auth and the row alone.
LEMMA AsideKeeps ==
  ASSUME SetupInv, TypeOK', SecretOK', CachesStayTrue', UNCHANGED <<auth, cp, run, running, env>>
  PROVE  SetupInv'
BY DEF SetupInv, SingleFlight

\* A step of Secret's pass.
LEMMA PassMoves ==
  ASSUME SetupInv, auth.locked, NEW s \in SecretType, NEW p \in PassType,
         secret' = s, sec' = p, Fault \/ UNCHANGED faults,
         secret.scope => s.scope, p.at = "complete" \/ s.locked => s.scope, p.done => s.locked,
         UNCHANGED <<auth, cp, core, running, run, boot, swallowed, process>>
  PROVE  SetupInv'
<1>1. UNCHANGED <<env, ident, caps>>
  BY DEF process
<1>2. TypeOK'
  <2>1. TypeOK /\ faults' \in FaultType
    BY FaultType1 DEF SetupInv
  <2>2. /\ secret' \in SecretType /\ sec' \in PassType
        /\ UNCHANGED <<auth, cp, core, running, run, boot, swallowed>>
    OBVIOUS
  <2> QED
    BY <1>1, <2>1, <2>2 DEF TypeOK, SecretType, PassType, FaultType
<1>3. SecretOK' /\ CachesStayTrue'
  BY <1>1 DEF SetupInv, SecretOK, CachesStayTrue
<1> QED
  BY <1>1, <1>2, <1>3, AsideKeeps

\* Secret's pass starts when Auth is recorded complete, and locks Secret last.
LEMMA SecretStepKeeps == ASSUME SetupInv, SecretStep PROVE SetupInv'
<1>1. secret \in SecretType /\ sec \in PassType /\ SecretOK
  BY DEF SetupInv, TypeOK, SecretType, PassType
<1>2. auth.locked
  BY <1>1 DEF SetupInv, RowOK, SecretOK, SecretStep, SecretBegin, AuthSetupComplete, dialSecret,
              SecretGetSetupStatus, SecretSetup, SecretCompleteSetup
<1>3. SecretIdle \in PassType /\ SecretIdle.at = "idle" /\ SecretIdle.done = FALSE
  BY DEF SecretIdle, PassType
<1>4. UNCHANGED <<auth, cp, core, running, run, boot, swallowed, process>>
      /\ (Fault \/ UNCHANGED faults)
  BY DEF SecretStep, SecretBegin, dialSecret, SecretGetSetupStatus, SecretSetup,
         SecretCompleteSetup
<1> DEFINE to(a) == [sec EXCEPT !.at = a]
           D == [at |-> "idle", done |-> TRUE]
           scoped == [secret EXCEPT !.scope = TRUE]
           shut == [secret EXCEPT !.locked = TRUE]
<1>6. \A a \in {"dial", "status", "setup", "complete"} :
        to(a) \in PassType /\ to(a).at = a /\ to(a).done = sec.done
  BY <1>1 DEF PassType
<1>7. D \in PassType /\ D.at = "idle"
  BY DEF PassType
<1>8. scoped \in SecretType /\ scoped.scope = TRUE /\ scoped.locked = secret.locked
  BY <1>1 DEF SecretType
<1>9. shut \in SecretType /\ shut.scope = secret.scope /\ shut.locked = TRUE
  BY <1>1 DEF SecretType
<1>10. CASE SecretBegin
  <2>1. secret' = secret /\ sec' = to("dial")
    BY <1>10 DEF SecretBegin
  <2> HIDE DEF to
  <2> QED
    BY <1>1, <1>2, <1>4, <1>6, <2>1, PassMoves DEF SecretOK
<1>11. CASE dialSecret
  <2>1. secret' = secret /\ sec' \in {SecretIdle, to("status")}
    BY <1>11 DEF dialSecret
  <2> HIDE DEF to
  <2> QED
    BY <1>1, <1>2, <1>3, <1>4, <1>6, <2>1, PassMoves DEF SecretOK
<1>12. CASE SecretGetSetupStatus
  <2>1. /\ secret' = secret
        /\ sec' = SecretIdle \/ sec' = to("setup") \/ (secret.locked /\ sec' = D)
    BY <1>12 DEF SecretGetSetupStatus
  <2> HIDE DEF to, D
  <2> QED
    BY <1>1, <1>2, <1>3, <1>4, <1>6, <1>7, <2>1, PassMoves DEF SecretOK
<1>13. CASE SecretSetup
  <2>1. \/ secret' = scoped /\ sec' = to("complete")
        \/ secret' \in {secret, scoped} /\ sec' = SecretIdle
    BY <1>13 DEF SecretSetup
  <2> HIDE DEF to, scoped
  <2> QED
    BY <1>1, <1>2, <1>3, <1>4, <1>6, <1>8, <2>1, PassMoves DEF SecretOK
<1>14. CASE SecretCompleteSetup
  <2>1. \/ secret' = shut /\ sec' = D
        \/ secret' \in {secret, shut} /\ sec' = SecretIdle
    BY <1>14 DEF SecretCompleteSetup
  <2>2. secret.scope
    BY <1>1, <1>14 DEF SecretOK, SecretCompleteSetup
  <2> HIDE DEF D, shut
  <2> QED
    BY <1>1, <1>2, <1>3, <1>4, <1>7, <1>9, <2>1, <2>2, PassMoves DEF SecretOK
<1> QED
  BY <1>10, <1>11, <1>12, <1>13, <1>14 DEF SecretStep

\* The outbound token source takes the key on record.
LEMMA sourceKeeps == ASSUME SetupInv, source PROVE SetupInv'
<1>1. /\ UNCHANGED <<auth, secret, cp, core, running, run, boot, sec, env, caps, swallowed, faults>>
      /\ ident' = cp.key
  BY DEF source, LoadIdentity
<1>2. TypeOK'
  <2>1. TypeOK /\ cp.key \in Keys
    BY DEF SetupInv, TypeOK
  <2>2. faults' \in FaultType
    BY <1>1, <2>1, FaultType1
  <2> QED
    BY <1>1, <2>1, <2>2, TypedIsTypeOK, TypedPrimed DEF Typed
<1>3. SecretOK' /\ CachesStayTrue'
  BY <1>1 DEF SetupInv, SecretOK, CachesStayTrue
<1> QED
  BY <1>1, <1>2, <1>3, AsideKeeps

\* The capability probe caches a completed setup.
LEMMA setupIdentityKeeps == ASSUME SetupInv, setupIdentity PROVE SetupInv'
<1>1. UNCHANGED <<auth, secret, cp, core, running, run, boot, sec, env, ident, swallowed, faults>>
  BY DEF setupIdentity
<1>2. cp.res.completed /\ caps' = [SetupComplete |-> TRUE, Console |-> cp.res.console]
  BY DEF setupIdentity, ConsoleIdentity, AuthSetupComplete, capabilitiesPayload, Unread
<1>3. cp.res.console \in BOOLEAN /\ (cp.res.console => auth.console)
  BY DEF SetupInv, TypeOK, Result, RowOK
<1>4. /\ caps' \in CapsType
      /\ caps'.Console => auth.console
  BY <1>2, <1>3 DEF CapsType
<1>5. TypeOK'
  <2>1. TypeOK /\ faults' \in FaultType
    BY <1>1, FaultType1 DEF SetupInv
  <2> QED
    BY <1>1, <1>4, <2>1, TypedIsTypeOK, TypedPrimed DEF Typed
<1>6. SecretOK' /\ CachesStayTrue'
  BY <1>1, <1>2, <1>4 DEF SetupInv, SecretOK, CachesStayTrue
<1> QED
  BY <1>1, <1>5, <1>6, AsideKeeps

\* What a boot starts from: no run, no pass, nothing cached.
LEMMA FreshProcess ==
  ASSUME auth \in AuthType, AuthOK(auth), secret \in SecretType, cp \in RowType,
         RowOK(cp, auth, env), core \in CoreType,
         secret.scope => auth.locked, secret.locked => secret.scope,
         running = FALSE, run = [c \in Caller |-> Idle], boot = "retrying", sec = SecretIdle,
         env \in Env, ident = NoKey, caps = Unread, swallowed = FALSE, faults \in FaultType
  PROVE  SetupInv
<1>1. \A c \in Caller : run[c] = Idle
  OBVIOUS
<1>2. SecretIdle \in PassType /\ SecretIdle.at = "idle" /\ SecretIdle.done = FALSE
  BY DEF SecretIdle, PassType
<1>3. /\ Unread \in [SetupComplete: BOOLEAN, Console: BOOLEAN]
      /\ Unread.SetupComplete = FALSE /\ Unread.Console = FALSE
  BY DEF Unread, capabilitiesPayload
<1>4. TypeOK
  <2>1. run \in [Caller -> RunType] /\ ident \in Keys
    BY IdleOK DEF Keys
  <2> QED
    BY <1>2, <1>3, <2>1 DEF TypeOK, AuthType, RowType, RunType, CoreType, SecretType, PassType,
                            FaultType
<1>5. SingleFlight /\ SecretOK /\ CachesStayTrue
  BY <1>1, <1>2, <1>3, IdleOK DEF SingleFlight, SecretOK, CachesStayTrue
<1>6. \A c \in Caller : RunOK(run[c], auth, cp)
  BY <1>1, IdleOK
<1> QED
  BY <1>4, <1>5, <1>6 DEF SetupInv

\* The same, of the boot a step ends in.
LEMMA FreshPrimed ==
  (/\ auth \in AuthType /\ AuthOK(auth) /\ secret \in SecretType /\ cp \in RowType
   /\ RowOK(cp, auth, env) /\ core \in CoreType
   /\ secret.scope => auth.locked
   /\ secret.locked => secret.scope
   /\ running = FALSE /\ run = [c \in Caller |-> Idle] /\ boot = "retrying" /\ sec = SecretIdle
   /\ env \in Env /\ ident = NoKey /\ caps = Unread /\ swallowed = FALSE
   /\ faults \in FaultType)' => SetupInv'
BY FreshProcess, PTL

\* An install that was never set up.
LEMMA NoRowOK == NoRow \in RowType /\ \A a, e : RowOK(NoRow, a, e)
<1>1. NoRow \in RowType /\ NoRow.key = NoKey /\ NoRow.row = FALSE /\ NoRow.res = EmptyResult
  BY DEF NoRow, RowType, Keys, Result, EmptyResult
<1>2. EmptyResult.completed = FALSE /\ EmptyResult.console = FALSE
  BY DEF EmptyResult
<1> QED
  BY <1>1, <1>2 DEF RowOK

\* The first boot.
LEMMA InitInv == Init => SetupInv
<1> SUFFICES ASSUME Init PROVE SetupInv
  OBVIOUS
<1>1. auth \in AuthType /\ AuthOK(auth)
  BY DEF Init, AuthType, AuthOK, Keys
<1>2. secret \in SecretType /\ ~secret.scope /\ ~secret.locked
  BY DEF Init, SecretType
<1>3. core \in CoreType
  BY DEF Init, EmptyCore, CoreType
<1>4. faults \in FaultType
  BY MaxFaultsAssumption DEF Init, FaultType
<1>5. /\ cp = NoRow /\ running = FALSE /\ run = [c \in Caller |-> Idle] /\ boot = "retrying"
      /\ sec = SecretIdle /\ env \in Env /\ ident = NoKey /\ caps = Unread /\ swallowed = FALSE
  BY DEF Init
<1> QED
  BY <1>1, <1>2, <1>3, <1>4, <1>5, NoRowOK, FreshProcess

\* A restart keeps Auth, Secret and the row; a reset of Core's database loses the row.
LEMMA RebootKeeps ==
  ASSUME SetupInv, Reboot, UNCHANGED <<auth, secret>>,
         \/ UNCHANGED <<cp, core>>
         \/ cp' = NoRow /\ core' = EmptyCore
  PROVE  SetupInv'
<1>1. auth' \in AuthType /\ AuthOK(auth') /\ secret' \in SecretType
  BY DEF SetupInv, TypeOK, AuthType, SecretType
<1>2. (secret'.scope => auth'.locked) /\ (secret'.locked => secret'.scope)
  BY DEF SetupInv, SecretOK
<1>3. cp' \in RowType /\ core' \in CoreType
  <2>1. cp \in RowType /\ core \in CoreType
    BY TypedIsTypeOK DEF SetupInv, Typed
  <2>2. EmptyCore \in CoreType
    BY DEF EmptyCore, CoreType
  <2> QED
    BY <2>1, <2>2, NoRowOK
<1>4. env' \in Env /\ (cp'.row => cp'.mode = DeploymentMode(env'))
  BY DEF Reboot, verifyDeploymentMode
<1>5. RowOK(cp', auth', env')
  <2>1. CASE UNCHANGED cp
    <3>1. RowOK(cp, auth, env)
      BY DEF SetupInv
    <3>2. cp'.row => DeploymentMode(cp'.mode) = DeploymentMode(env')
      BY <1>4 DEF DeploymentMode
    <3> QED
      BY <2>1, <3>1, <3>2 DEF RowOK
  <2> QED
    BY <2>1, NoRowOK
<1>6. /\ running' = FALSE /\ run' = [c \in Caller |-> Idle] /\ boot' = "retrying"
      /\ sec' = SecretIdle /\ ident' = NoKey /\ caps' = Unread /\ swallowed' = FALSE
  BY DEF Reboot
<1>7. faults' \in FaultType
  BY FaultType1 DEF SetupInv, Reboot
<1>8. SetupInv'
  BY <1>1, <1>2, <1>3, <1>4, <1>5, <1>6, <1>7, FreshPrimed
<1> QED
  BY <1>8

\* The invariant is inductive.
LEMMA StepInv == SetupInv /\ [Next]_vars => SetupInv'
<1> SUFFICES ASSUME SetupInv, [Next]_vars PROVE SetupInv'
  OBVIOUS
<1>1. ASSUME NEW c \in Caller, Begin(c) \/ RunStep(c) PROVE SetupInv'
  BY <1>1, BeginKeeps, RunStepKeeps
<1>2. CASE SecretStep
  BY <1>2, SecretStepKeeps
<1>3. CASE source
  BY <1>3, sourceKeeps
<1>4. CASE setupIdentity
  BY <1>4, setupIdentityKeeps
<1>5. CASE CoreRestart \/ CoreReset
  BY <1>5, RebootKeeps DEF CoreRestart, CoreReset
<1>6. CASE UNCHANGED vars
  <2>1. UNCHANGED <<auth, secret, cp, core, running, run, boot, sec, env, ident, caps,
                    swallowed, faults>>
    BY <1>6 DEF vars, process
  <2>2. TypeOK'
    BY <2>1, TypedIsTypeOK, TypedPrimed DEF Typed, SetupInv
  <2>3. SecretOK' /\ CachesStayTrue'
    BY <2>1 DEF SetupInv, SecretOK, CachesStayTrue
  <2> QED
    BY <2>1, <2>2, <2>3, AsideKeeps
<1> QED
  BY <1>1, <1>2, <1>3, <1>4, <1>5, <1>6 DEF Next

\* It holds throughout.
LEMMA SetupInvariant == Spec => []SetupInv
  BY InitInv, StepInv, PTL DEF Spec

----------------------------------------------------------------------------
\* Type correctness: no interleaving of boot loop, wizard, Secret's pass and
\* restarts writes a malformed row or run (RunWith, SecretOrchestrator.Run).
THEOREM TypeCorrect == Spec => []TypeOK
<1>1. SetupInv => TypeOK
  BY DEF SetupInv
<1> QED
  BY <1>1, SetupInvariant, PTL

\* One system tenant and one super-admin, however many runs fail and are retried
\* (RunWith's single flight, and the skips of CreateTenant and CreateAdmin).
THEOREM TenantAndAdminOnce == Spec => []ProvisionedOnce
<1>1. SetupInv => ProvisionedOnce
  BY DEF SetupInv, AuthOK, ProvisionedOnce
<1> QED
  BY <1>1, SetupInvariant, PTL

\* What Core records never runs ahead of Auth, and Secret never ahead of Core's
\* record (CompleteSetup before persist, SecretOrchestrator's gate).
THEOREM RecordsFollow == Spec => []ProvisioningOrder
<1>1. SetupInv => ProvisioningOrder
  BY DEF SetupInv, AuthOK, RowOK, SecretOK, ProvisioningOrder, State
<1> QED
  BY <1>1, SetupInvariant, PTL

\* What the process caches for good stays true (capabilitiesHandler, OutboundTokens).
THEOREM CachedForGood == Spec => []CachesStayTrue
<1>1. SetupInv => CachesStayTrue
  BY DEF SetupInv
<1> QED
  BY <1>1, SetupInvariant, PTL

----------------------------------------------------------------------------
\* Only persist writes the row, and a reset loses it.
LEMMA RowWriters ==
  ASSUME [Next]_vars
  PROVE  cp' = cp \/ cp' = NoRow \/ \E c \in Caller : persist(c)
<1>1. ASSUME NEW c \in Caller, RunStep(c), ~persist(c) PROVE cp' = cp
  BY <1>1 DEF RunStep, dial, GetSetupStatus, loadPersisted, CreateTenant,
              RegisterControlService, controlKey, EnsureControlClient, EnsureIntegration,
              reconcileSteward, CreateAdmin, CompleteSetup, mirror, Rpc
<1>2. ASSUME NEW c \in Caller, Begin(c) PROVE cp' = cp
  BY <1>2 DEF Begin
<1>3. SecretStep \/ source \/ setupIdentity \/ CoreRestart \/ UNCHANGED vars => cp' = cp
  BY DEF SecretStep, SecretBegin, dialSecret, SecretGetSetupStatus, SecretSetup,
         SecretCompleteSetup, source, setupIdentity, CoreRestart, vars
<1>4. CoreReset => cp' = NoRow
  BY DEF CoreReset
<1> QED
  BY <1>1, <1>2, <1>3, <1>4 DEF Next

\* What persist leaves of the row it overwrites.
LEMMA RowWritten ==
  ASSUME SetupInv, NEW c \in Caller, persist(c)
  PROVE  /\ cp.key # NoKey => cp'.key = cp.key
         /\ cp.row => DeploymentMode(cp'.mode) = DeploymentMode(cp.mode)
<1>1. /\ RunOK(run[c], auth, cp) /\ run[c].at = "persist" /\ RowOK(cp, auth, env)
  BY Own DEF persist
<1>2. /\ run[c].adopting => run[c].key = NoKey
      /\ ~run[c].adopting => cp.key = NoKey
  BY <1>1 DEF RunOK
<1> DEFINE row == UpsertControlPlane(run[c].res, run[c].key)
<1>3. row.mode = env /\ row.key = IF run[c].key = NoKey THEN cp.key ELSE run[c].key
  BY DEF UpsertControlPlane, LoadConfig
<1>4. cp' = cp \/ cp' = row
  BY DEF persist
<1> HIDE DEF row
<1> QED
  BY <1>1, <1>2, <1>3, <1>4 DEF RowOK

\* The control key on record is never erased or replaced (UpsertControlPlane keeps
\* it against an empty one, and a run with a key of its own found none on record).
THEOREM KeyIsKept == Spec => KeyNeverBlanked
<1>1. SetupInv /\ [Next]_vars => [cp.key # NoKey /\ cp'.row => cp'.key = cp.key]_vars
  <2> SUFFICES ASSUME SetupInv, [Next]_vars, cp.key # NoKey, cp'.row PROVE cp'.key = cp.key
    OBVIOUS
  <2>1. NoRow.row = FALSE
    BY DEF NoRow
  <2> QED
    BY <2>1, RowWriters, RowWritten
<1> QED
  BY <1>1, SetupInvariant, PTL DEF Spec, KeyNeverBlanked

\* No run and no restart moves an install to another substrate (the boot check of
\* the stamp, and every later stamp from the environment that passed it).
THEOREM SubstrateIsKept == Spec => SubstrateImmutable
<1>1. SetupInv /\ [Next]_vars
        => [cp.row /\ cp'.row => DeploymentMode(cp'.mode) = DeploymentMode(cp.mode)]_vars
  <2> SUFFICES ASSUME SetupInv, [Next]_vars, cp.row, cp'.row
               PROVE  DeploymentMode(cp'.mode) = DeploymentMode(cp.mode)
    OBVIOUS
  <2>1. NoRow.row = FALSE
    BY DEF NoRow
  <2> QED
    BY <2>1, RowWriters, RowWritten
<1> QED
  BY <1>1, SetupInvariant, PTL DEF Spec, SubstrateImmutable
=============================================================================
