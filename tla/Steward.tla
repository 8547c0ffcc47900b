------------------------------ MODULE Steward ------------------------------
(***************************************************************************)
(* The steward converges Auth to the control catalog                       *)
(* (internal/steward/reconcile.go) in two ways: during Auth's setup window *)
(* (internal/setup/steward.go), where a pass stops at its first error, and *)
(* afterwards through Auth's regular surface (internal/authctrl/runner.go, *)
(* applier.go), where a pass records an object's failure and goes on. Both *)
(* keep the services' private keys in one key store                        *)
(* (internal/steward/keystore.go); the second also advances Core's own     *)
(* registry row (internal/service/service.go), which agents and operators  *)
(* patch at the same time.                                                 *)
(*                                                                         *)
(* One action per call. A failed call may have had its effect and costs a  *)
(* fault, as a restart of Core does.                                       *)
(***************************************************************************)
EXTENDS Integers, Sequences, FiniteSets

CONSTANTS
  Services,         \* the catalog's service principals, in its order
  Granted,          \* those whose policy allows some action
  From, To,         \* bound: the first and the last of the catalog's objects there are
  EnvVars,          \* which AUTH_CTRL_* and AUTH_SETUP_* variables are set
  Permission,       \* the permissions of every ResourceAPI
  Key,              \* key pairs
  NoKey,            \* no client in Auth, no key in hand
  NoFile,           \* the key store has no file for the service
  EmptyFile,        \* the file was created and the write failed
  BootMaxAttempts,  \* runner.go's bootMaxAttempts, scaled down
  MaxFaults         \* bound on failed calls and restarts

ASSUME KeyAssumption ==
  /\ {NoKey, NoFile, EmptyFile} \cap Key = {}
  /\ NoKey # NoFile /\ NoKey # EmptyFile /\ NoFile # EmptyFile
ASSUME BoundsAssumption == BootMaxAttempts \in Nat /\ MaxFaults \in Nat

Service == {Services[i] : i \in DOMAIN Services}

ASSUME CatalogAssumption ==
  /\ Services \in Seq(Service) /\ "idle" \notin Service /\ Granted \subseteq Service
  /\ \A i, j \in DOMAIN Services : Services[i] = Services[j] => i = j
  /\ From \in Nat \ {0} /\ To \in (From - 1) .. 4 * Len(Services)

\* Four objects for a service; what they declare besides its name is data.
ObjectsOf(s) ==
  <<[kind |-> "Service", svc |-> s], [kind |-> "ResourceAPI", svc |-> s],
    [kind |-> "ServiceClient", svc |-> s], [kind |-> "ServicePolicy", svc |-> s]>>

BuiltinCatalog ==
  [i \in 1 .. 4 * Len(Services) |-> ObjectsOf(Services[(i + 3) \div 4])[((i - 1) % 4) + 1]]

Catalog == SubSeq(BuiltinCatalog, From, To)

\* Each setting of the control path defaults to the setup path's.
Setting ==
  [GRPCAddr       |-> {"AUTH_CTRL_GRPC_ADDR", "AUTH_SETUP_ADDR"},
   CAFile         |-> {"AUTH_CTRL_CA_FILE", "AUTH_SETUP_CA_FILE"},
   ClientCertFile |-> {"AUTH_CTRL_CLIENT_CERT_FILE", "AUTH_SETUP_CLIENT_CERT_FILE"},
   ClientKeyFile  |-> {"AUTH_CTRL_CLIENT_KEY_FILE", "AUTH_SETUP_CLIENT_KEY_FILE"}]

LoadConfig == [v \in DOMAIN Setting |-> Setting[v] \cap EnvVars # {}]

plaintext == ~LoadConfig.CAFile /\ ~LoadConfig.ClientCertFile

\* The configured files may not load.
transportCreds == IF plaintext THEN {"plaintext"} ELSE {"tls", "error"}

\* Who reconciles: the setup run, the boot loop, POST /api/v1/steward/apply.
Caller == {"setup", "boot", "post"}

VARIABLES
  phase,     \* "window" until setup recorded the control identity, then "control"
  iam,       \* Auth: the objects of each service; creations are counted
  file,      \* FileKeyStore: one file per service
  registry,  \* Core's services row: its status, and registered_at
  running,   \* Runner.running
  conn,      \* Client.conn: dialled once, with the identity loaded
  pass,      \* the pass of each caller
  last,      \* Runner.last: "none", "clean" (Failed = 0) or "failed"
  boot,      \* RunWithRetry: "retrying", "returned" or "gaveup", and its attempts
  patch,     \* a PATCH of a services row in flight, with the row it will write
  faults     \* faults spent

vars == <<phase, iam, file, registry, running, conn, pass, last, boot, patch, faults>>

Status == {"pending", "registered", "running"}
Row == [life: BOOLEAN, status: Status, stamped: BOOLEAN]
NoRow == [life |-> FALSE, status |-> "pending", stamped |-> FALSE]

NoObjects == [service |-> 0, api |-> 0, permissions |-> {}, clients |-> 0,
              client |-> NoKey, policy |-> 0, attached |-> FALSE]

Idle == [at |-> "idle", i |-> 1, ids |-> {}, failed |-> FALSE, key |-> NoKey,
         generated |-> FALSE, existed |-> FALSE, todo |-> {}, row |-> NoRow]

NoPatch == [at |-> "idle", row |-> NoRow]

\* A fresh install in its setup window, or an upgraded Core whose catalog names
\* services that Auth has not heard of yet.
Init ==
  /\ phase \in {"window", "control"}
  /\ iam = [s \in Service |-> NoObjects]
  /\ file = [s \in Service |-> NoFile]
  /\ registry = [s \in Service |-> NoRow]
  /\ running = FALSE /\ conn = FALSE
  /\ pass = [c \in Caller |-> Idle]
  /\ last = "none"
  /\ boot = [loop |-> "retrying", attempts |-> 0]
  /\ patch = NoPatch
  /\ faults = 0

Fault == faults < MaxFaults /\ faults' = faults + 1

----------------------------------------------------------------------------
\* How a pass moves.

Goto(c, p) == pass' = [pass EXCEPT ![c] = p]

NextObject(p) == [Idle EXCEPT !.at = "object", !.i = p.i + 1, !.ids = p.ids, !.failed = p.failed]

\* The setup window's pass returns the error; the regular one records it and
\* goes on to the next object.
fail(c) ==
  Goto(c, IF c = "setup" THEN Idle ELSE [NextObject(pass[c]) EXCEPT !.failed = TRUE])

succeed(c) == Goto(c, NextObject(pass[c]))

Working(c, at) == pass[c].at = at
Object(c) == Catalog[pass[c].i]
Svc(c) == Object(c).svc

\* A call that changes the objects of the pass's service in Auth: done and
\* answered, or failed with or without its effect.
Call(c, effect, then) ==
  \/ iam' = [iam EXCEPT ![Svc(c)] = effect] /\ then /\ UNCHANGED faults
  \/ /\ iam' \in {iam, [iam EXCEPT ![Svc(c)] = effect]}
     /\ fail(c)
     /\ Fault

Idempotent(n) == IF n = 0 THEN 1 ELSE n

\* A minted key: one nobody holds (which one does not matter).
FreshKey ==
  CHOOSE k \in Key :
    k \notin {file[s] : s \in Service} \cup {iam[s].client : s \in Service}
             \cup {pass[c].key : c \in Caller}

----------------------------------------------------------------------------
\* Beginning and ending a pass.

\* The setup run reaches step 7 (module Setup runs one of these at a time).
BeginSetup ==
  /\ phase = "window" /\ Working("setup", "idle")
  /\ Goto("setup", [Idle EXCEPT !.at = "object"])
  /\ UNCHANGED <<phase, conn, iam, file, registry, running, last, boot, patch, faults>>

\* The setup run went through the catalog; it locks Auth and records the identity.
EndSetup ==
  /\ Working("setup", "object") /\ pass["setup"].i > Len(Catalog)
  /\ Goto("setup", Idle)
  /\ phase' = "control"
  /\ UNCHANGED <<conn, iam, file, registry, running, last, boot, patch, faults>>

\* (Mutant: no single flight.)
tryBegin_Always == TRUE

tryBegin == ~running

\* (Mutant: only a pass that has a report to leave lets the next one begin.)
end_WithReport(rep) ==
  /\ running' = IF rep = "none" THEN running ELSE FALSE
  /\ last' = IF rep = "none" THEN last ELSE rep

\* Runner.end; a pass that could not connect leaves no report.
end(rep) == running' = FALSE /\ last' = IF rep = "none" THEN last ELSE rep

\* Runner.Run; an attempt of the boot loop that finds a pass running is spent.
Begin(c) ==
  /\ Working(c, "idle")
  /\ c = "boot" => boot.loop = "retrying" /\ boot.attempts < BootMaxAttempts
  /\ boot' = IF c = "boot" THEN [boot EXCEPT !.attempts = @ + 1] ELSE boot
  /\ \/ tryBegin /\ running' = TRUE /\ Goto(c, [Idle EXCEPT !.at = "connect"])
     \/ ~tryBegin /\ UNCHANGED <<running, pass>>
  /\ UNCHANGED <<phase, conn, iam, file, registry, last, patch, faults>>

\* RunWithRetry's last attempt ended and the catalog has not converged.
GiveUp ==
  /\ Working("boot", "idle") /\ boot.loop = "retrying" /\ boot.attempts = BootMaxAttempts
  /\ boot' = [boot EXCEPT !.loop = "gaveup"]
  /\ UNCHANGED <<phase, conn, iam, file, registry, running, pass, last, patch, faults>>

\* Client.Connect: at once when already connected; refused until the control
\* identity is on record, without an address, and when the identity or a file of
\* the transport's cannot be read.
Connect(c) ==
  LET refused == Goto(c, Idle) /\ end("none") /\ UNCHANGED conn
      connected == Goto(c, [pass[c] EXCEPT !.at = "object"]) /\ UNCHANGED <<running, last>>
  IN /\ Working(c, "connect")
     /\ \/ conn /\ connected /\ UNCHANGED <<conn, faults>>
        \/ /\ ~conn /\ (phase = "window" \/ ~LoadConfig.GRPCAddr)
           /\ refused /\ UNCHANGED faults
        \/ /\ ~conn /\ phase = "control" /\ LoadConfig.GRPCAddr
           /\ \E creds \in transportCreds \cup {"error"} :
                IF creds = "error" THEN refused /\ Fault
                ELSE conn' = TRUE /\ connected /\ UNCHANGED faults
     /\ UNCHANGED <<phase, iam, file, registry, boot, patch>>

\* (Mutant: a pass that ran counts as converged.)
Converged_AnyPass(c) == TRUE

\* What RunWithRetry takes for converged: no error and no failed object.
Converged(c) == ~pass[c].failed

\* Run's report; the boot loop returns when nothing failed.
EndPass(c) ==
  /\ c # "setup" /\ Working(c, "object") /\ pass[c].i > Len(Catalog)
  /\ Goto(c, Idle)
  /\ end(IF pass[c].failed THEN "failed" ELSE "clean")
  /\ boot' = IF c = "boot" /\ Converged(c) THEN [boot EXCEPT !.loop = "returned"] ELSE boot
  /\ UNCHANGED <<phase, conn, iam, file, registry, patch, faults>>

----------------------------------------------------------------------------
\* The regular surface: look up, create what is absent, never rewrite.

Regular(c, at, kind) == c # "setup" /\ Working(c, at) /\ pass[c].i <= Len(Catalog) /\ Object(c).kind = kind

\* The service must have been applied earlier in the same pass.
Applied(c) == Svc(c) \in pass[c].ids

\* What a pass does once the object is known to exist.
Found(c) ==
  LET next == CASE Object(c).kind = "Service"       -> "readRow"
                [] Object(c).kind = "ResourceAPI"   -> "permissions"
                [] Object(c).kind = "ServicePolicy" -> "attach"
  IN Goto(c, [pass[c] EXCEPT !.at = next,
                             !.ids = IF next = "readRow" THEN @ \cup {Svc(c)} ELSE @])

\* findService, findAPI, findPolicy: an exact match among the listed names.
Exists(c) ==
  CASE Object(c).kind = "Service"       -> iam[Svc(c)].service > 0
    [] Object(c).kind = "ResourceAPI"   -> iam[Svc(c)].api > 0
    [] Object(c).kind = "ServicePolicy" -> iam[Svc(c)].policy > 0

\* A service that calls nobody needs no policy: EnsureServicePolicy returns before
\* it does anything, on both paths.
Needless(o) == o.kind = "ServicePolicy" /\ o.svc \notin Granted

Find(c) ==
  /\ \E kind \in {"Service", "ResourceAPI", "ServicePolicy"} : Regular(c, "object", kind)
  /\ ~Needless(Object(c))
  /\ \/ /\ Object(c).kind # "Service" /\ ~Applied(c)
        /\ fail(c) /\ UNCHANGED faults
     \/ /\ Object(c).kind = "Service" \/ Applied(c)
        /\ \/ Exists(c) /\ Found(c) /\ UNCHANGED faults
           \/ ~Exists(c) /\ Goto(c, [pass[c] EXCEPT !.at = "create"]) /\ UNCHANGED faults
           \/ fail(c) /\ Fault
  /\ UNCHANGED <<phase, conn, iam, file, registry, running, last, boot, patch>>

NothingToGrant(c) ==
  /\ Working(c, "object") /\ pass[c].i <= Len(Catalog) /\ Needless(Object(c))
  /\ succeed(c)
  /\ UNCHANGED <<phase, conn, iam, file, registry, running, last, boot, patch, faults>>

\* CreateService, CreateAPI, CreatePolicy.
Create(c) ==
  /\ Working(c, "create")
  /\ Call(c, CASE Object(c).kind = "Service"       -> [iam[Svc(c)] EXCEPT !.service = @ + 1]
               [] Object(c).kind = "ResourceAPI"   -> [iam[Svc(c)] EXCEPT !.api = @ + 1]
               [] Object(c).kind = "ServicePolicy" -> [iam[Svc(c)] EXCEPT !.policy = @ + 1],
          Found(c))
  /\ UNCHANGED <<phase, conn, file, registry, running, last, boot, patch>>

\* EnsureRegistered, first statement: nothing to do for a row past 'pending'.
ReadRow(c) ==
  /\ Working(c, "readRow")
  /\ \/ LET row == registry[Svc(c)] IN
        /\ IF row.life /\ row.status # "pending" /\ row.stamped
             THEN succeed(c)
             ELSE Goto(c, [pass[c] EXCEPT !.at = "writeRow", !.row = row])
        /\ UNCHANGED faults
     \/ fail(c) /\ Fault
  /\ UNCHANGED <<phase, conn, iam, file, registry, running, last, boot, patch>>

\* Second statement: insert the row that was absent (setup's mirror may have
\* inserted it meanwhile), or write over the row what was computed from the read.
EnsureRegistered(c) ==
  /\ Working(c, "writeRow")
  /\ LET read == pass[c].row
         row == [life |-> TRUE, stamped |-> TRUE,
                 status |-> IF read.status = "pending" THEN "registered" ELSE read.status]
     IN \/ /\ ~read.life /\ registry[Svc(c)].life
           /\ fail(c) /\ UNCHANGED <<registry, faults>>
        \/ /\ read.life \/ ~registry[Svc(c)].life
           /\ \/ registry' = [registry EXCEPT ![Svc(c)] = row] /\ succeed(c) /\ UNCHANGED faults
              \/ /\ registry' \in {registry, [registry EXCEPT ![Svc(c)] = row]}
                 /\ fail(c) /\ Fault
  /\ UNCHANGED <<phase, conn, iam, file, running, last, boot, patch>>

\* ensurePermissions: the existing set is read once, the missing ones are created
\* one call at a time.
ListPermissions(c) ==
  /\ Working(c, "permissions")
  /\ \/ LET missing == Permission \ iam[Svc(c)].permissions IN
        /\ IF missing = {} THEN succeed(c)
                           ELSE Goto(c, [pass[c] EXCEPT !.at = "createPermission", !.todo = missing])
        /\ UNCHANGED faults
     \/ fail(c) /\ Fault
  /\ UNCHANGED <<phase, conn, iam, file, registry, running, last, boot, patch>>

\* (Mutant: the loop leaves after the first permission.)
CreatePermission_First(c) ==
  /\ Working(c, "createPermission")
  /\ \E p \in pass[c].todo :
       Call(c, [iam[Svc(c)] EXCEPT !.permissions = @ \cup {p}], succeed(c))
  /\ UNCHANGED <<phase, conn, file, registry, running, last, boot, patch>>

CreatePermission(c) ==
  /\ Working(c, "createPermission")
  /\ \E p \in pass[c].todo :
       Call(c, [iam[Svc(c)] EXCEPT !.permissions = @ \cup {p}],
            IF pass[c].todo = {p} THEN succeed(c)
                                  ELSE Goto(c, [pass[c] EXCEPT !.todo = @ \ {p}]))
  /\ UNCHANGED <<phase, conn, file, registry, running, last, boot, patch>>

\* AssignServicePolicy, on both paths; idempotent in Auth.
AssignServicePolicy(c) ==
  /\ Working(c, "attach")
  /\ Call(c, [iam[Svc(c)] EXCEPT !.attached = TRUE], succeed(c))
  /\ UNCHANGED <<phase, conn, file, registry, running, last, boot, patch>>

----------------------------------------------------------------------------
\* Service clients, whose private keys the key store holds.

\* findClient, then PrivateKey. An existing client needs a key file; otherwise a
\* stored key is registered, or a fresh one minted.
FindClient(c) ==
  /\ Regular(c, "object", "ServiceClient")
  /\ \/ /\ ~Applied(c)
        /\ fail(c) /\ UNCHANGED faults
     \/ /\ Applied(c)
        /\ IF iam[Svc(c)].clients > 0
             THEN IF file[Svc(c)] # NoFile THEN succeed(c) ELSE fail(c)
             ELSE Goto(c, [pass[c] EXCEPT !.at = "readKey"])
        /\ UNCHANGED faults
     \/ fail(c) /\ Fault
  /\ UNCHANGED <<phase, conn, iam, file, registry, running, last, boot, patch>>

\* A file without a PEM counts as existing, but a key is minted all the same
\* (bound: while Key has one left).
ReadKey(c) ==
  /\ Working(c, "readKey")
  /\ LET f == file[Svc(c)] IN
     IF f \in Key
       THEN Goto(c, [pass[c] EXCEPT !.at = "createClient", !.key = f, !.existed = TRUE])
       ELSE /\ FreshKey \in Key
            /\ Goto(c, [pass[c] EXCEPT !.at = "recordKey", !.key = FreshKey,
                                       !.generated = TRUE, !.existed = f # NoFile])
  /\ UNCHANGED <<phase, conn, iam, file, registry, running, last, boot, patch, faults>>

\* Record: create-exclusive, a file that exists is left alone.
Record(s, k) == [file EXCEPT ![s] = IF @ = NoFile THEN k ELSE @]

RecordKey(c) ==
  /\ Working(c, "recordKey")
  /\ \/ /\ file' = Record(Svc(c), pass[c].key)
        /\ Goto(c, [pass[c] EXCEPT !.at = "createClient"])
        /\ UNCHANGED faults
     \/ /\ file' \in {file, Record(Svc(c), EmptyFile)}
        /\ fail(c) /\ Fault
  /\ UNCHANGED <<phase, conn, iam, registry, running, last, boot, patch>>

Discard(s) == [file EXCEPT ![s] = NoFile]

\* CreateClient; on an error the key this pass minted is discarded. The second
\* Record of a fresh key, by Reconcile, finds the file there.
CreateClient(c) ==
  /\ c # "setup" /\ Working(c, "createClient")
  /\ LET s == Svc(c)
         effect == [iam EXCEPT ![s].clients = @ + 1, ![s].client = pass[c].key]
     IN \/ iam' = effect /\ succeed(c) /\ UNCHANGED <<file, faults>>
        \/ /\ iam' \in {iam, effect}
           /\ file' = IF pass[c].generated THEN Discard(s) ELSE file
           /\ fail(c) /\ Fault
  /\ UNCHANGED <<phase, conn, registry, running, last, boot, patch>>

----------------------------------------------------------------------------
\* The setup window: one idempotent call per object.

Window(kind) ==
  /\ Working("setup", "object")
  /\ pass["setup"].i <= Len(Catalog)
  /\ Object("setup").kind = kind

\* EnsureService only remembers the spec.
WindowService ==
  /\ Window("Service")
  /\ succeed("setup")
  /\ UNCHANGED <<phase, conn, iam, file, registry, running, last, boot, patch, faults>>

WindowResourceAPI ==
  /\ Window("ResourceAPI")
  /\ Call("setup", [iam[Svc("setup")] EXCEPT !.service = Idempotent(@), !.api = Idempotent(@),
                                             !.permissions = Permission],
          succeed("setup"))
  /\ UNCHANGED <<phase, conn, file, registry, running, last, boot, patch>>

WindowServicePolicy ==
  /\ Window("ServicePolicy") /\ ~Needless(Object("setup"))
  /\ Call("setup", [iam[Svc("setup")] EXCEPT !.service = Idempotent(@), !.policy = Idempotent(@),
                                             !.attached = TRUE],
          succeed("setup"))
  /\ UNCHANGED <<phase, conn, file, registry, running, last, boot, patch>>

WindowServiceClient ==
  /\ Window("ServiceClient")
  /\ Goto("setup", [pass["setup"] EXCEPT !.at = "readKey"])
  /\ UNCHANGED <<phase, conn, iam, file, registry, running, last, boot, patch, faults>>

\* (Mutant: an error discards the minted key, as on the regular surface.)
WindowCreateClient_Discards ==
  /\ Working("setup", "createClient")
  /\ LET s == Svc("setup")
         p == pass["setup"]
         effect == IF iam[s].clients > 0 THEN iam
                   ELSE [iam EXCEPT ![s].clients = 1, ![s].client = p.key]
     IN \/ iam' = effect /\ succeed("setup") /\ UNCHANGED <<file, faults>>
        \/ iam' \in {iam, effect} /\ fail("setup") /\ file' = Discard(s) /\ Fault
  /\ UNCHANGED <<phase, conn, registry, running, last, boot, patch>>

\* EnsureControlClient keeps an existing client's JWKS. A client that existed
\* while the key store had no file is refused, and the key minted for it dropped.
WindowCreateClient ==
  /\ Working("setup", "createClient")
  /\ LET s == Svc("setup")
         p == pass["setup"]
         effect == IF iam[s].clients > 0 THEN iam
                   ELSE [iam EXCEPT ![s].clients = 1, ![s].client = p.key]
     IN \/ /\ iam' = effect
           /\ IF iam[s].clients > 0 /\ ~p.existed
                THEN fail("setup") /\ file' = IF p.generated THEN Discard(s) ELSE file
                ELSE succeed("setup") /\ UNCHANGED file
           /\ UNCHANGED faults
        \/ iam' \in {iam, effect} /\ fail("setup") /\ UNCHANGED file /\ Fault
  /\ UNCHANGED <<phase, conn, registry, running, last, boot, patch>>

----------------------------------------------------------------------------
\* The other writers of the services table, and restarts.

\* (Bound: rows of the services in the catalog.)
Named(s) == [kind |-> "Service", svc |-> s] \in {Catalog[i] : i \in DOMAIN Catalog}

\* Setup's mirror inserts the row of a system service as 'pending'.
MirrorInserts(s) ==
  /\ Named(s) /\ ~registry[s].life
  /\ registry' = [registry EXCEPT ![s].life = TRUE]
  /\ UNCHANGED <<phase, conn, iam, file, running, pass, last, boot, patch, faults>>

\* Service.UpdateStatus, its read and its write. A request without a status (it
\* patches the endpoint) writes back the status it read.
PatchReads(s) ==
  /\ patch.at = "idle" /\ registry[s].life
  /\ \E status \in {"running", registry[s].status} :
       patch' = [at |-> s,
                 row |-> [registry[s] EXCEPT !.status = status,
                                             !.stamped = @ \/ status = "running"]]
  /\ UNCHANGED <<phase, conn, iam, file, registry, running, pass, last, boot, faults>>

PatchWrites ==
  /\ patch.at \in Service
  /\ registry' = [registry EXCEPT ![patch.at] = patch.row]
  /\ patch' = NoPatch
  /\ UNCHANGED <<phase, conn, iam, file, running, pass, last, boot, faults>>

CoreRestart ==
  /\ Fault
  /\ pass' = [c \in Caller |-> Idle]
  /\ running' = FALSE /\ conn' = FALSE /\ last' = "none" /\ patch' = NoPatch
  /\ boot' = [loop |-> "retrying", attempts |-> 0]
  /\ UNCHANGED <<phase, iam, file, registry>>

----------------------------------------------------------------------------
PassStep(c) ==
  \/ Connect(c) \/ EndPass(c) \/ NothingToGrant(c) \/ Find(c) \/ Create(c) \/ ReadRow(c)
  \/ EnsureRegistered(c) \/ ListPermissions(c) \/ CreatePermission(c)
  \/ AssignServicePolicy(c) \/ FindClient(c) \/ ReadKey(c) \/ RecordKey(c)
  \/ CreateClient(c)

SetupStep ==
  \/ BeginSetup \/ EndSetup \/ WindowService \/ WindowResourceAPI
  \/ WindowServicePolicy \/ WindowServiceClient \/ WindowCreateClient
  \/ ReadKey("setup") \/ RecordKey("setup") \/ NothingToGrant("setup")

Next ==
  \/ SetupStep
  \/ \E c \in {"boot", "post"} : Begin(c) \/ PassStep(c)
  \/ GiveUp
  \/ \E s \in Service : MirrorInserts(s) \/ PatchReads(s)
  \/ PatchWrites
  \/ CoreRestart

Spec == Init /\ [][Next]_vars

\* The boot loop and the setup loop go on by themselves and a started pass goes
\* on to its next call; nobody has to press "apply".
Fairness ==
  /\ WF_vars(SetupStep)
  /\ WF_vars(Begin("boot") \/ GiveUp)
  /\ \A c \in {"boot", "post"} : WF_vars(PassStep(c))

FairSpec == Spec /\ Fairness

----------------------------------------------------------------------------
\* CreatedOnce: no sequence of passes, failed calls, restarts and callers makes
\* the steward create an object of Auth twice (Runner's single flight and the
\* look-up before every create; Auth's regular surface is not idempotent).
CreatedOnce ==
  \A s \in Service :
    iam[s].service <= 1 /\ iam[s].api <= 1 /\ iam[s].clients <= 1 /\ iam[s].policy <= 1

\* An object of the catalog is in place in Auth, and on record in Core. The policy of
\* a service that is granted nothing is not there to be.
InPlace(o) ==
  CASE o.kind = "Service"       -> iam[o.svc].service > 0 /\ registry[o.svc].life
    [] o.kind = "ResourceAPI"   -> iam[o.svc].api > 0 /\ iam[o.svc].permissions = Permission
    [] o.kind = "ServiceClient" -> iam[o.svc].clients > 0 /\ file[o.svc] # NoFile
    [] o.kind = "ServicePolicy" -> o.svc \in Granted => iam[o.svc].policy > 0 /\ iam[o.svc].attached

AllInPlace == \A i \in 1..Len(Catalog) : InPlace(Catalog[i])

\* CleanMeansInPlace: a report without failures means that every object of the
\* catalog exists complete, and it stays so whatever later passes fail at
\* (Applier.fail swallows the errors; the report is all that is left of them).
CleanMeansInPlace == last = "clean" => AllInPlace

\* WindowKeepsKeys: in the setup window a client that reached Auth always has its
\* private key on file, whatever calls are lost and wherever a run is cut short
\* (recorded before the call, reused by the next run), except where the file
\* itself could be created but not written.
WindowKeepsKeys ==
  phase = "window" =>
    \A s \in Service : iam[s].client # NoKey => file[s] \in {iam[s].client, EmptyFile}

KeyLost == \E s \in Service : iam[s].clients > 0 /\ file[s] = NoFile

\* BootConverges: the boot loop goes on, through passes that could not start, could
\* not connect or left objects failed, until the whole catalog is in place. It ends
\* without that only when the last of its attempts has failed too, or when the
\* private key of a registered client is gone.
BootConverges == <>[](AllInPlace \/ boot.loop = "gaveup" \/ KeyLost)

\* ApplyConverges: what the boot loop gave up on is only left for later: whoever goes
\* on pressing "apply" gets the catalog into place, whatever state the passes and
\* restarts before left the runner, Auth and the key store in, unless a private key
\* is gone (RunWithRetry: it "leaves the work to POST /api/v1/steward/apply").
ApplyConverges == WF_vars(Begin("post")) => <>[](AllInPlace \/ KeyLost)
=============================================================================
