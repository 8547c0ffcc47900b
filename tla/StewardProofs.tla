--------------------------- MODULE StewardProofs ---------------------------
(***************************************************************************)
(* Theorems about the steward, for any catalog, any keys and any number of *)
(* faults.                                                                 *)
(*                                                                         *)
(* At most one pass is at work: the setup run's in the setup window, and   *)
(* after it one of the runner's two callers. So what a pass has looked up  *)
(* is still so when it acts on it, and what it has put in place stays.     *)
(***************************************************************************)
EXTENDS Steward, SequenceTheorems, TLAPS

----------------------------------------------------------------------------
\* The inductive invariant.

Stages == {"idle", "connect", "object", "create", "readRow", "writeRow", "permissions",
           "createPermission", "attach", "readKey", "recordKey", "createClient"}

Objects == [service: Nat, api: Nat, permissions: SUBSET Permission, clients: Nat,
            client: Key \cup {NoKey}, policy: Nat, attached: BOOLEAN]
Passes == [at: Stages, i: Nat \ {0}, ids: SUBSET Service, failed: BOOLEAN,
           key: Key \cup {NoKey}, generated: BOOLEAN, existed: BOOLEAN,
           todo: SUBSET Permission, row: Row]
Files == Key \cup {NoFile, EmptyFile}
Patches == [at: Service \cup {"idle"}, row: Row]

IamType == [Service -> Objects]
PassType == [Caller -> Passes]
FileType == [Service -> Files]
RegistryType == [Service -> Row]

Typed ==
  /\ iam \in IamType /\ pass \in PassType /\ file \in FileType
  /\ registry \in RegistryType /\ patch \in Patches

Active(c) == pass[c].at \notin {"idle", "connect"}

\* Who may be at work: the setup run in the window, one of the others after it.
SingleFlight ==
  /\ phase \in {"window", "control"}
  /\ phase = "window" => ~conn /\ last # "clean" /\ ~Active("boot") /\ ~Active("post")
  /\ phase = "control" => pass["setup"].at = "idle"
  /\ pass["setup"].at # "connect"
  /\ pass["boot"].at # "idle" => running /\ pass["post"].at = "idle"
  /\ pass["post"].at # "idle" => running /\ pass["boot"].at = "idle"

\* What is so of the objects and of the key file of a service, while pass p of c is
\* between two calls about an object of this kind.
Consistent(c, p, kind, has, f) ==
  /\ p.at = "connect" => p.i = 1
  /\ p.at \notin {"idle", "connect", "object"} => p.i \in 1 .. Len(Catalog)
  /\ p.at = "create" =>
       /\ c # "setup" /\ kind # "ServiceClient"
       /\ kind = "Service" => has.service = 0
       /\ kind = "ResourceAPI" => has.api = 0
       /\ kind = "ServicePolicy" => has.policy = 0
  /\ p.at \in {"readRow", "writeRow"} => kind = "Service" /\ has.service > 0
  /\ p.at \in {"permissions", "createPermission"} => kind = "ResourceAPI" /\ has.api > 0
  /\ p.at = "createPermission" => Permission \ p.todo \subseteq has.permissions
  /\ p.at = "attach" => c # "setup" /\ kind = "ServicePolicy" /\ has.policy > 0
  /\ p.at \in {"readKey", "recordKey", "createClient"} =>
       kind = "ServiceClient" /\ (c # "setup" => has.clients = 0)
  /\ p.at = "recordKey" => p.key \in Key /\ f \in {NoFile, EmptyFile}
  /\ p.at = "createClient" => p.key \in Key /\ f \in {p.key, EmptyFile}
  /\ c = "setup" /\ p.at \in {"recordKey", "createClient"} /\ ~p.existed => has.clients = 0

LookedUp(c) == Consistent(c, pass[c], Object(c).kind, iam[Svc(c)], file[Svc(c)])

\* What a pass that has not failed has behind it is in place.
Behind(c) ==
  c # "setup" /\ Active(c) /\ ~pass[c].failed =>
    \A j \in 1 .. Len(Catalog) : j < pass[c].i => InPlace(Catalog[j])

\* A client has a key exactly when it was created.
ClientsHaveKeys == \A s \in Service : iam[s].clients > 0 <=> iam[s].client # NoKey

StewardInv ==
  /\ Typed /\ SingleFlight
  /\ \A c \in Caller : LookedUp(c) /\ Behind(c)
  /\ CreatedOnce /\ ClientsHaveKeys /\ WindowKeepsKeys /\ CleanMeansInPlace
  /\ patch.at \in Service => patch.row.life

----------------------------------------------------------------------------
\* The catalog.

Kinds == {"Service", "ResourceAPI", "ServiceClient", "ServicePolicy"}
CatalogObject == [kind: Kinds, svc: Service]

\* Every object of the catalog is of one of the four kinds, and of a service.
LEMMA CatalogShape ==
  /\ Len(Catalog) \in Nat
  /\ \A j \in 1 .. Len(Catalog) : Catalog[j].kind \in Kinds /\ Catalog[j].svc \in Service
<1>0. From \in Nat \ {0} /\ To \in Int /\ From - 1 <= To /\ To <= 4 * Len(Services)
  BY CatalogAssumption
<1>1. ASSUME NEW i \in From .. To PROVE BuiltinCatalog[i] \in CatalogObject
  <2>0. Len(Services) \in Nat /\ i \in 1 .. 4 * Len(Services)
        /\ DOMAIN Services = 1 .. Len(Services)
    BY <1>0, CatalogAssumption
  <2>1. PICK n \in 1 .. Len(Services) : n = (i + 3) \div 4
    BY <2>0
  <2>2. PICK m \in 1 .. 4 : m = ((i - 1) % 4) + 1
    BY <2>0
  <2>3. Services[n] \in Service
    BY <2>0 DEF Service
  <2>4. \A s \in Service : /\ ObjectsOf(s)[1] \in CatalogObject /\ ObjectsOf(s)[2] \in CatalogObject
                           /\ ObjectsOf(s)[3] \in CatalogObject /\ ObjectsOf(s)[4] \in CatalogObject
    BY DEF ObjectsOf, CatalogObject, Kinds
  <2>5. BuiltinCatalog[i] = ObjectsOf(Services[n])[m]
    BY <2>0, <2>1, <2>2 DEF BuiltinCatalog
  <2>6. m = 1 \/ m = 2 \/ m = 3 \/ m = 4
    OBVIOUS
  <2> QED
    BY <2>3, <2>4, <2>5, <2>6
<1>2. From \in Int /\ To \in Int
  BY <1>0
<1>3. Catalog \in Seq(CatalogObject)
  BY <1>1, <1>2, SubSeqProperties DEF Catalog
<1>4. Len(Catalog) \in Nat /\ \A j \in 1 .. Len(Catalog) : Catalog[j] \in CatalogObject
  BY <1>3
<1>5. \A o \in CatalogObject : o.kind \in Kinds /\ o.svc \in Service
  BY DEF CatalogObject
<1> QED
  BY <1>4, <1>5

----------------------------------------------------------------------------
\* What a step of one pass does to the rest.

\* Nothing that was in place is lost.
KeepsPlaces == \A j \in 1 .. Len(Catalog) : InPlace(Catalog[j]) => InPlace(Catalog[j])'

Grows ==
  \A s \in Service :
    /\ iam[s].service > 0 => iam'[s].service > 0
    /\ iam[s].api > 0 => iam'[s].api > 0
    /\ iam[s].permissions = Permission => iam'[s].permissions = Permission
    /\ iam[s].clients > 0 => iam'[s].clients > 0
    /\ iam[s].policy > 0 => iam'[s].policy > 0
    /\ iam[s].attached => iam'[s].attached
    /\ iam[s].clients > 0 /\ file[s] # NoFile => file'[s] # NoFile
    /\ registry[s].life => registry'[s].life

\* Auth, the key store and the registry only grow, so what is in place stays.
LEMMA GrowsKeeps == Grows => KeepsPlaces
<1> SUFFICES ASSUME Grows, NEW j \in 1 .. Len(Catalog), InPlace(Catalog[j]) PROVE InPlace(Catalog[j])'
  BY DEF KeepsPlaces
<1>0. PICK o : o = Catalog[j]
  OBVIOUS
<1>1. o.kind \in Kinds /\ o.svc \in Service
  BY <1>0, CatalogShape
<1>2. CASE o.kind = "Service"
  BY <1>0, <1>1, <1>2 DEF InPlace, Grows
<1>3. CASE o.kind = "ResourceAPI"
  BY <1>0, <1>1, <1>3 DEF InPlace, Grows
<1>4. CASE o.kind = "ServiceClient"
  BY <1>0, <1>1, <1>4 DEF InPlace, Grows
<1>5. CASE o.kind = "ServicePolicy"
  BY <1>0, <1>1, <1>5 DEF InPlace, Grows
<1> QED
  BY <1>1, <1>2, <1>3, <1>4, <1>5 DEF Kinds

\* One pass at a time.
LEMMA OneActive ==
  ASSUME SingleFlight, NEW c \in Caller, NEW d \in Caller, Active(c), Active(d)
  PROVE  c = d
BY DEF SingleFlight, Active, Caller

\* Nothing is asked of a pass that is not at work.
LEMMA Inactive ==
  ASSUME NEW c, pass'[c].at \in {"idle", "connect"}, pass'[c].at = "connect" => pass'[c].i = 1
  PROVE  LookedUp(c)' /\ Behind(c)'
BY DEF LookedUp, Consistent, Behind, Active

\* A step of the pass at work keeps the invariant when it keeps it for that pass.
LEMMA WorkStep ==
  ASSUME StewardInv, NEW c \in Caller, Active(c), NEW q \in Passes, Goto(c, q),
         q.at # "connect", q.at = "idle" => c = "setup",
         iam' \in IamType, file' \in FileType, registry' \in RegistryType,
         UNCHANGED <<phase, conn, running, last, patch>>,
         KeepsPlaces, LookedUp(c)', Behind(c)',
         CreatedOnce', ClientsHaveKeys', WindowKeepsKeys'
  PROVE  StewardInv'
<1>1. pass \in [Caller -> Passes] /\ pass' = [pass EXCEPT ![c] = q] /\ patch \in Patches
  BY DEF StewardInv, Typed, PassType, Goto
<1>2. pass'[c] = q /\ pass' \in [Caller -> Passes] /\ \A d \in Caller : d # c => pass'[d] = pass[d]
  BY <1>1
<1>3. Typed'
  BY <1>1, <1>2 DEF Typed, PassType
<1>4. ASSUME NEW d \in Caller, d # c PROVE LookedUp(d)' /\ Behind(d)'
  <2>1. ~Active(d)
    BY <1>4, OneActive DEF StewardInv
  <2>2. pass[d].at = "connect" => pass[d].i = 1
    BY DEF StewardInv, LookedUp, Consistent
  <2> QED
    BY <1>2, <1>4, <2>1, <2>2, Inactive DEF Active
<1>5. SingleFlight'
  <2>1. \A d \in Caller : d # c => ~Active(d)
    BY OneActive DEF StewardInv
  <2> QED
    BY <1>2, <2>1 DEF StewardInv, SingleFlight, Active, Caller
<1>6. CleanMeansInPlace'
  BY DEF StewardInv, CleanMeansInPlace, AllInPlace, KeepsPlaces
<1>7. (patch.at \in Service => patch.row.life)'
  BY DEF StewardInv
<1> QED
  BY <1>3, <1>4, <1>5, <1>6, <1>7 DEF StewardInv

\* The types of a pass and of the object it is at.
LEMMA PassFacts ==
  ASSUME Typed, NEW c \in Caller
  PROVE  /\ pass[c] \in Passes /\ pass[c].i \in Nat \ {0} /\ pass[c].at \in Stages
         /\ pass[c].ids \subseteq Service /\ pass[c].failed \in BOOLEAN
         /\ pass[c].todo \subseteq Permission
         /\ pass[c].i \in 1 .. Len(Catalog) =>
              /\ Object(c).kind \in Kinds /\ Svc(c) \in Service
              /\ iam[Svc(c)] \in Objects /\ file[Svc(c)] \in Files /\ registry[Svc(c)] \in Row
<1>1. pass[c] \in Passes
  BY DEF Typed, PassType
<1>2. ASSUME pass[c].i \in 1 .. Len(Catalog)
      PROVE  Object(c).kind \in Kinds /\ Svc(c) \in Service
  BY <1>2, CatalogShape DEF Object, Svc
<1>3. ASSUME NEW t \in Service PROVE iam[t] \in Objects /\ file[t] \in Files /\ registry[t] \in Row
  BY DEF Typed, IamType, FileType, RegistryType
<1>4. /\ pass[c].i \in Nat \ {0} /\ pass[c].at \in Stages
      /\ pass[c].ids \subseteq Service /\ pass[c].failed \in BOOLEAN
      /\ pass[c].todo \subseteq Permission
  BY <1>1 DEF Passes
<1> QED
  BY <1>1, <1>2, <1>3, <1>4

\* A pass that goes on to q.
Moves(c, q) == q \in Passes /\ Goto(c, q) /\ q.at # "connect" /\ (q.at = "idle" => c = "setup")

\* The next object of a pass.
LEMMA NextObjectType ==
  ASSUME NEW c \in Caller, Typed
  PROVE  /\ NextObject(pass[c]) \in Passes /\ NextObject(pass[c]).at = "object"
         /\ NextObject(pass[c]).i = pass[c].i + 1
         /\ NextObject(pass[c]).failed = pass[c].failed
<1>1. Idle \in Passes
  BY DEF Idle, Passes, Stages, NoRow, Row, Status
<1>2. /\ pass[c].i + 1 \in Nat \ {0} /\ pass[c].ids \in SUBSET Service
      /\ pass[c].failed \in BOOLEAN
  BY PassFacts
<1>3. PICK n \in Nat \ {0} : n = pass[c].i + 1
  BY <1>2
<1>4. PICK ids \in SUBSET Service : ids = pass[c].ids
  BY <1>2
<1>5. PICK failed \in BOOLEAN : failed = pass[c].failed
  BY <1>2, Zenon
<1>6. "object" \in Stages
  BY DEF Stages
<1>7. PICK q : q = [Idle EXCEPT !.at = "object", !.i = n]
  OBVIOUS
<1>8. q \in Passes /\ q.at = "object" /\ q.i = n
  BY <1>1, <1>6, <1>7 DEF Passes
<1>9. NextObject(pass[c]) = [q EXCEPT !.ids = ids, !.failed = failed]
  BY <1>3, <1>4, <1>5, <1>7 DEF NextObject
<1> QED
  BY <1>3, <1>5, <1>8, <1>9 DEF Passes

\* A failed object is recorded, or ends the setup run's pass.
LEMMA FailStep ==
  ASSUME StewardInv, NEW c \in Caller, fail(c)
  PROVE  (\E q : Moves(c, q)) /\ LookedUp(c)' /\ Behind(c)'
<1>0. Typed /\ pass[c] \in Passes /\ pass[c].i \in Nat /\ pass[c].ids \subseteq Service
  BY PassFacts DEF StewardInv
<1>1. pass \in [Caller -> Passes]
  BY <1>0 DEF Typed, PassType
<1>2. CASE c = "setup"
  <2>1. Idle \in Passes /\ Idle.at = "idle" /\ Goto(c, Idle)
    BY <1>2 DEF fail, Idle, Passes, Stages, NoRow, Row, Status
  <2>2. pass'[c].at = "idle"
    BY <1>1, <2>1 DEF Goto
  <2> QED
    BY <1>2, <2>1, <2>2, Inactive DEF Moves
<1>3. CASE c # "setup"
  <2>1. PICK q : q = [NextObject(pass[c]) EXCEPT !.failed = TRUE]
    OBVIOUS
  <2>2. q \in Passes /\ q.at = "object" /\ q.failed = TRUE
    BY <1>0, <2>1, NextObjectType DEF Passes
  <2>3. Goto(c, q) /\ pass'[c] = q
    BY <1>1, <1>3, <2>1 DEF fail, Goto
  <2>4. LookedUp(c)' /\ Behind(c)'
    BY <2>2, <2>3 DEF LookedUp, Consistent, Behind
  <2> QED
    BY <2>2, <2>3, <2>4 DEF Moves
<1> QED
  BY <1>2, <1>3

\* A pass goes on to the next object when this one is in place.
LEMMA SucceedStep ==
  ASSUME StewardInv, NEW c \in Caller, Active(c), pass[c].i \in 1 .. Len(Catalog), succeed(c),
         KeepsPlaces, NEW o, o = Object(c), c # "setup" => InPlace(o)'
  PROVE  (\E q : Moves(c, q)) /\ LookedUp(c)' /\ Behind(c)'
<1>0. /\ Typed /\ pass[c] \in Passes /\ pass[c].i \in Nat /\ pass[c].ids \subseteq Service
      /\ pass[c].failed \in BOOLEAN
  BY PassFacts DEF StewardInv
<1>1. pass \in [Caller -> Passes]
  BY <1>0 DEF Typed, PassType
<1>2. PICK q : q = NextObject(pass[c])
  OBVIOUS
<1>3. q \in Passes /\ q.at = "object" /\ q.failed = pass[c].failed /\ q.i = pass[c].i + 1
  BY <1>0, <1>2, NextObjectType
<1>4. Goto(c, q) /\ pass'[c] = q
  BY <1>1, <1>2 DEF succeed, Goto
<1>5. LookedUp(c)'
  BY <1>3, <1>4 DEF LookedUp, Consistent
<1>6. Behind(c)'
  <2> SUFFICES ASSUME c # "setup", ~pass[c].failed, NEW j \in 1 .. Len(Catalog), j < pass[c].i + 1
               PROVE  InPlace(Catalog[j])'
    BY <1>3, <1>4 DEF Behind
  <2>1. CASE j = pass[c].i
    BY <2>1 DEF Object
  <2>2. CASE j # pass[c].i
    <3>1. j < pass[c].i
      BY <1>0, <2>2, CatalogShape
    <3>2. InPlace(Catalog[j])
      BY <3>1 DEF StewardInv, Behind
    <3> QED
      BY <3>2 DEF KeepsPlaces
  <2> QED
    BY <2>1, <2>2
<1> QED
  BY <1>3, <1>4, <1>5, <1>6 DEF Moves

\* A step of the pass that only looks, or writes Core's registry.
LEMMA ReadStep ==
  ASSUME StewardInv, NEW c \in Caller, Active(c), NEW q, Moves(c, q),
         UNCHANGED <<phase, conn, running, last, patch, iam, file>>,
         registry' \in RegistryType, \A s \in Service : registry[s].life => registry'[s].life,
         LookedUp(c)', Behind(c)'
  PROVE  StewardInv'
<1>1. KeepsPlaces
  BY GrowsKeeps DEF Grows
<1>2. iam' \in IamType /\ file' \in FileType
  BY DEF StewardInv, Typed
<1>3. CreatedOnce' /\ ClientsHaveKeys' /\ WindowKeepsKeys'
  BY DEF StewardInv, CreatedOnce, ClientsHaveKeys, WindowKeepsKeys
<1> QED
  BY <1>1, <1>2, <1>3, WorkStep DEF Moves

\* The objects of a service before and after a call that is not about its client.
Grown(old, new) ==
  /\ new \in Objects
  /\ new.service <= 1 /\ new.api <= 1 /\ new.policy <= 1
  /\ old.service > 0 => new.service > 0
  /\ old.api > 0 => new.api > 0
  /\ old.policy > 0 => new.policy > 0
  /\ old.permissions = Permission => new.permissions = Permission
  /\ old.attached => new.attached
  /\ new.clients = old.clients /\ new.client = old.client

\* Such a call loses nothing.
LEMMA CallGrows ==
  ASSUME StewardInv, NEW s \in Service, NEW e, Grown(iam[s], e),
         iam' \in {iam, [iam EXCEPT ![s] = e]}, UNCHANGED <<phase, file, registry>>
  PROVE  /\ KeepsPlaces /\ iam' \in IamType
         /\ CreatedOnce' /\ ClientsHaveKeys' /\ WindowKeepsKeys'
<1>1. iam \in [Service -> Objects] /\ e \in Objects
  BY DEF StewardInv, Typed, IamType, Grown
<1>2. CASE iam' = iam
  <2>1. Grows
    BY <1>2 DEF Grows
  <2> QED
    BY <1>1, <1>2, <2>1, GrowsKeeps DEF StewardInv, CreatedOnce, ClientsHaveKeys, WindowKeepsKeys, IamType
<1>3. CASE iam' = [iam EXCEPT ![s] = e]
  <2>1. iam'[s] = e /\ \A t \in Service : t # s => iam'[t] = iam[t]
    BY <1>1, <1>3
  <2>2. Grows
    BY <2>1 DEF Grows, Grown
  <2>3. iam' \in IamType
    BY <1>1, <1>3 DEF IamType
  <2>4. CreatedOnce'
    BY <2>1 DEF StewardInv, CreatedOnce, Grown
  <2>5. ClientsHaveKeys' /\ WindowKeepsKeys'
    BY <2>1 DEF StewardInv, ClientsHaveKeys, WindowKeepsKeys, Grown
  <2> QED
    BY <2>2, <2>3, <2>4, <2>5, GrowsKeeps
<1> QED
  BY <1>2, <1>3

\* A pass that stays at its object.
LEMMA StayStep ==
  ASSUME StewardInv, NEW c \in Caller, Active(c), pass[c].i \in 1 .. Len(Catalog),
         NEW q \in Passes, Goto(c, q), q.i = pass[c].i, q.failed = pass[c].failed,
         KeepsPlaces, q.at \notin {"idle", "connect"},
         Consistent(c, q, Object(c).kind, iam'[Svc(c)], file'[Svc(c)])
  PROVE  Moves(c, q) /\ LookedUp(c)' /\ Behind(c)'
<1>1. pass'[c] = q
  BY DEF StewardInv, Typed, PassType, Goto
<1>2. Object(c)' = Object(c) /\ Svc(c)' = Svc(c)
  BY <1>1 DEF Object, Svc
<1>3. LookedUp(c)'
  BY <1>1, <1>2 DEF LookedUp
<1>4. Behind(c)'
  BY <1>1 DEF StewardInv, Behind, KeepsPlaces
<1> QED
  BY <1>3, <1>4 DEF Moves

\* An object that exists is completed next.
LEMMA FoundStep ==
  ASSUME StewardInv, NEW c \in Caller, Active(c), pass[c].i \in 1 .. Len(Catalog), c # "setup",
         Object(c).kind \in {"Service", "ResourceAPI", "ServicePolicy"}, KeepsPlaces, Found(c),
         Object(c).kind = "Service" => iam'[Svc(c)].service > 0,
         Object(c).kind = "ResourceAPI" => iam'[Svc(c)].api > 0,
         Object(c).kind = "ServicePolicy" => iam'[Svc(c)].policy > 0
  PROVE  (\E q : Moves(c, q)) /\ LookedUp(c)' /\ Behind(c)'
<1>0. /\ Typed /\ pass[c] \in Passes /\ Svc(c) \in Service /\ pass[c].ids \subseteq Service
      /\ "readRow" \in Stages /\ "permissions" \in Stages /\ "attach" \in Stages
  BY PassFacts DEF StewardInv, Stages
<1>1. PICK next \in {"readRow", "permissions", "attach"} :
        /\ Object(c).kind = "Service" => next = "readRow"
        /\ Object(c).kind = "ResourceAPI" => next = "permissions"
        /\ Object(c).kind = "ServicePolicy" => next = "attach"
        /\ Goto(c, [pass[c] EXCEPT !.at = next,
                                   !.ids = IF next = "readRow" THEN @ \cup {Svc(c)} ELSE @])
  BY DEF Found
<1>2. PICK ids \in SUBSET Service : ids = IF next = "readRow" THEN pass[c].ids \cup {Svc(c)} ELSE pass[c].ids
  BY <1>0
<1>3. PICK q : q = [pass[c] EXCEPT !.at = next, !.ids = ids]
  OBVIOUS
<1>4. q \in Passes /\ q.at = next /\ q.i = pass[c].i /\ q.failed = pass[c].failed
  BY <1>0, <1>3 DEF Passes
<1>5. Goto(c, q)
  BY <1>1, <1>2, <1>3
<1>6. Consistent(c, q, Object(c).kind, iam'[Svc(c)], file'[Svc(c)])
  BY <1>1, <1>4 DEF Consistent
<1> QED
  BY <1>1, <1>4, <1>5, <1>6, StayStep

----------------------------------------------------------------------------
\* The regular surface.

\* findService, findAPI, findPolicy.
LEMMA FindKeeps ==
  ASSUME StewardInv, NEW c \in Caller, Find(c)
  PROVE  StewardInv'
<1>1. /\ c # "setup" /\ Active(c) /\ pass[c].at = "object" /\ pass[c].i \in 1 .. Len(Catalog)
      /\ Object(c).kind \in {"Service", "ResourceAPI", "ServicePolicy"}
  BY PassFacts, CatalogShape DEF Find, Regular, Working, Active, StewardInv
<1>2. /\ UNCHANGED <<phase, conn, running, last, patch, iam, file, registry>>
      /\ registry' \in RegistryType /\ KeepsPlaces
  <2>1. UNCHANGED <<phase, conn, running, last, patch, iam, file, registry>>
    BY DEF Find
  <2>2. Grows
    BY <2>1 DEF Grows
  <2> QED
    BY <2>1, <2>2, GrowsKeeps DEF StewardInv, Typed
<1>3. /\ Typed /\ pass[c] \in Passes /\ "create" \in Stages /\ iam[Svc(c)] \in Objects
  BY <1>1, PassFacts DEF StewardInv, Stages
<1>4. (\E q : Moves(c, q)) /\ LookedUp(c)' /\ Behind(c)'
  <2>1. CASE fail(c)
    BY <2>1, FailStep
  <2>2. CASE Exists(c) /\ Found(c)
    <3>1. /\ Object(c).kind = "Service" => iam'[Svc(c)].service > 0
          /\ Object(c).kind = "ResourceAPI" => iam'[Svc(c)].api > 0
          /\ Object(c).kind = "ServicePolicy" => iam'[Svc(c)].policy > 0
      BY <1>2, <2>2 DEF Exists
    <3> QED
      BY <1>1, <1>2, <2>2, <3>1, FoundStep
  <2>3. CASE ~Exists(c) /\ Goto(c, [pass[c] EXCEPT !.at = "create"])
    <3>0. PICK q : q = [pass[c] EXCEPT !.at = "create"]
      OBVIOUS
    <3>1. q \in Passes /\ q.at = "create" /\ q.i = pass[c].i /\ q.failed = pass[c].failed
      BY <1>3, <3>0 DEF Passes
    <3>2. iam[Svc(c)].service \in Nat /\ iam[Svc(c)].api \in Nat /\ iam[Svc(c)].policy \in Nat
      BY <1>3 DEF Objects
    <3>3. /\ Object(c).kind = "Service" => iam[Svc(c)].service = 0
          /\ Object(c).kind = "ResourceAPI" => iam[Svc(c)].api = 0
          /\ Object(c).kind = "ServicePolicy" => iam[Svc(c)].policy = 0
      <4>1. CASE Object(c).kind = "Service"
        <5>1. ~(iam[Svc(c)].service > 0)
          BY <2>3, <4>1 DEF Exists
        <5> QED
          BY <3>2, <4>1, <5>1
      <4>2. CASE Object(c).kind = "ResourceAPI"
        <5>1. ~(iam[Svc(c)].api > 0)
          BY <2>3, <4>2 DEF Exists
        <5> QED
          BY <3>2, <4>2, <5>1
      <4>3. CASE Object(c).kind = "ServicePolicy"
        <5>1. ~(iam[Svc(c)].policy > 0)
          BY <2>3, <4>3 DEF Exists
        <5> QED
          BY <3>2, <4>3, <5>1
      <4> QED
        BY <1>1, <4>1, <4>2, <4>3
    <3>4. Consistent(c, q, Object(c).kind, iam'[Svc(c)], file'[Svc(c)])
      BY <1>1, <1>2, <3>1, <3>3 DEF Consistent
    <3> QED
      BY <1>1, <1>2, <2>3, <3>0, <3>1, <3>4, StayStep
  <2> QED
    BY <2>1, <2>2, <2>3 DEF Find
<1> QED
  BY <1>1, <1>2, <1>4, ReadStep

\* Where a pass at work is.
LEMMA AtObject ==
  ASSUME StewardInv, NEW c \in Caller, pass[c].at \notin {"idle", "connect", "object"}
  PROVE  /\ Active(c) /\ pass[c].i \in 1 .. Len(Catalog) /\ pass[c] \in Passes
         /\ Object(c).kind \in Kinds /\ Svc(c) \in Service
         /\ iam[Svc(c)] \in Objects /\ file[Svc(c)] \in Files /\ registry[Svc(c)] \in Row
         /\ Consistent(c, pass[c], Object(c).kind, iam[Svc(c)], file[Svc(c)])
<1>1. Active(c) /\ Consistent(c, pass[c], Object(c).kind, iam[Svc(c)], file[Svc(c)])
  BY DEF Active, StewardInv, LookedUp
<1>2. pass[c].i \in 1 .. Len(Catalog)
  BY <1>1 DEF Consistent
<1> QED
  BY <1>1, <1>2, PassFacts DEF StewardInv

\* A call of the pass that is not about a client.
LEMMA CallStep ==
  ASSUME StewardInv, NEW c \in Caller, Active(c), Svc(c) \in Service, NEW e, Grown(iam[Svc(c)], e),
         iam' \in {iam, [iam EXCEPT ![Svc(c)] = e]},
         UNCHANGED <<phase, conn, file, registry, running, last, patch>>,
         NEW q, Moves(c, q), LookedUp(c)', Behind(c)'
  PROVE  StewardInv'
<1>1. /\ KeepsPlaces /\ iam' \in IamType
      /\ CreatedOnce' /\ ClientsHaveKeys' /\ WindowKeepsKeys'
  BY CallGrows
<1>2. file' \in FileType /\ registry' \in RegistryType
  BY DEF StewardInv, Typed
<1> QED
  BY <1>1, <1>2, WorkStep DEF Moves

\* What Call leaves, when the call failed and when it was answered.
LEMMA CallKeeps ==
  ASSUME StewardInv, NEW c \in Caller, Active(c), Svc(c) \in Service, NEW e, Grown(iam[Svc(c)], e),
         UNCHANGED <<phase, conn, file, registry, running, last, patch>>,
         \/ iam' \in {iam, [iam EXCEPT ![Svc(c)] = e]} /\ fail(c)
         \/ /\ iam' = [iam EXCEPT ![Svc(c)] = e]
            /\ iam'[Svc(c)] = e /\ KeepsPlaces => (\E q : Moves(c, q)) /\ LookedUp(c)' /\ Behind(c)'
  PROVE  StewardInv'
<1>1. CASE iam' \in {iam, [iam EXCEPT ![Svc(c)] = e]} /\ fail(c)
  <2>1. (\E q : Moves(c, q)) /\ LookedUp(c)' /\ Behind(c)'
    BY <1>1, FailStep
  <2> QED
    BY <1>1, <2>1, CallStep
<1>2. CASE /\ iam' = [iam EXCEPT ![Svc(c)] = e]
           /\ iam'[Svc(c)] = e /\ KeepsPlaces => (\E q : Moves(c, q)) /\ LookedUp(c)' /\ Behind(c)'
  <2>1. iam'[Svc(c)] = e
    BY <1>2 DEF StewardInv, Typed, IamType
  <2>2. KeepsPlaces
    BY <1>2, CallGrows
  <2>3. (\E q : Moves(c, q)) /\ LookedUp(c)' /\ Behind(c)'
    BY <1>2, <2>1, <2>2
  <2> QED
    BY <1>2, <2>3, CallStep
<1> QED
  BY <1>1, <1>2

\* CreateService, CreateAPI, CreatePolicy: only what was absent is created.
LEMMA CreateKeeps ==
  ASSUME StewardInv, NEW c \in Caller, Create(c)
  PROVE  StewardInv'
<1>0. pass[c].at = "create"
  BY DEF Create, Working
<1>1. /\ Active(c) /\ pass[c].i \in 1 .. Len(Catalog) /\ Svc(c) \in Service /\ c # "setup"
      /\ iam[Svc(c)] \in Objects /\ Object(c).kind \in {"Service", "ResourceAPI", "ServicePolicy"}
      /\ Object(c).kind = "Service" => iam[Svc(c)].service = 0
      /\ Object(c).kind = "ResourceAPI" => iam[Svc(c)].api = 0
      /\ Object(c).kind = "ServicePolicy" => iam[Svc(c)].policy = 0
  BY <1>0, AtObject DEF Consistent, Kinds
<1>2. iam[Svc(c)].service <= 1 /\ iam[Svc(c)].api <= 1 /\ iam[Svc(c)].policy <= 1
  BY <1>1 DEF StewardInv, CreatedOnce
<1>3. PICK e :
        /\ e = CASE Object(c).kind = "Service"       -> [iam[Svc(c)] EXCEPT !.service = @ + 1]
                 [] Object(c).kind = "ResourceAPI"   -> [iam[Svc(c)] EXCEPT !.api = @ + 1]
                 [] Object(c).kind = "ServicePolicy" -> [iam[Svc(c)] EXCEPT !.policy = @ + 1]
        /\ Call(c, e, Found(c))
  BY DEF Create
<1>4. /\ Grown(iam[Svc(c)], e)
      /\ Object(c).kind = "Service" => e.service > 0
      /\ Object(c).kind = "ResourceAPI" => e.api > 0
      /\ Object(c).kind = "ServicePolicy" => e.policy > 0
  <2>1. CASE Object(c).kind = "Service"
    <3>1. e = [iam[Svc(c)] EXCEPT !.service = 1]
      BY <1>1, <1>3, <2>1 DEF Objects
    <3> QED
      BY <1>1, <1>2, <2>1, <3>1 DEF Grown, Objects
  <2>2. CASE Object(c).kind = "ResourceAPI"
    <3>1. e = [iam[Svc(c)] EXCEPT !.api = 1]
      BY <1>1, <1>3, <2>2 DEF Objects
    <3> QED
      BY <1>1, <1>2, <2>2, <3>1 DEF Grown, Objects
  <2>3. CASE Object(c).kind = "ServicePolicy"
    <3>1. e = [iam[Svc(c)] EXCEPT !.policy = 1]
      BY <1>1, <1>3, <2>3 DEF Objects
    <3> QED
      BY <1>1, <1>2, <2>3, <3>1 DEF Grown, Objects
  <2> QED
    BY <1>1, <2>1, <2>2, <2>3
<1>5. UNCHANGED <<phase, conn, file, registry, running, last, patch>>
  BY DEF Create
<1>6. ASSUME Found(c), iam'[Svc(c)] = e, KeepsPlaces
      PROVE  (\E q : Moves(c, q)) /\ LookedUp(c)' /\ Behind(c)'
  BY <1>1, <1>4, <1>6, FoundStep
<1> QED
  BY <1>1, <1>3, <1>4, <1>5, <1>6, CallKeeps DEF Call

\* ReadRow: a row past 'pending' is on record.
LEMMA ReadRowKeeps ==
  ASSUME StewardInv, NEW c \in Caller, ReadRow(c)
  PROVE  StewardInv'
<1>0. pass[c].at = "readRow"
  BY DEF ReadRow, Working
<1>1. /\ Active(c) /\ pass[c].i \in 1 .. Len(Catalog) /\ Svc(c) \in Service /\ pass[c] \in Passes
      /\ Object(c).kind = "Service" /\ iam[Svc(c)].service > 0 /\ registry[Svc(c)] \in Row
  BY <1>0, AtObject DEF Consistent
<1>2. /\ UNCHANGED <<phase, conn, running, last, patch, iam, file, registry>>
      /\ registry' \in RegistryType /\ KeepsPlaces
  <2>1. UNCHANGED <<phase, conn, running, last, patch, iam, file, registry>>
    BY DEF ReadRow
  <2>2. Grows
    BY <2>1 DEF Grows
  <2> QED
    BY <2>1, <2>2, GrowsKeeps DEF StewardInv, Typed
<1>3. (\E q : Moves(c, q)) /\ LookedUp(c)' /\ Behind(c)'
  <2>1. CASE fail(c)
    BY <2>1, FailStep
  <2>2. CASE registry[Svc(c)].life /\ succeed(c)
    <3>1. PICK o : o = Object(c)
      OBVIOUS
    <3>2. o.kind = "Service" /\ o.svc = Svc(c)
      BY <1>1, <3>1 DEF Svc
    <3>3. InPlace(o)'
      BY <1>1, <1>2, <2>2, <3>2 DEF InPlace
    <3> QED
      BY <1>1, <1>2, <2>2, <3>1, <3>3, SucceedStep
  <2>3. CASE Goto(c, [pass[c] EXCEPT !.at = "writeRow", !.row = registry[Svc(c)]])
    <3>0. "writeRow" \in Stages
      BY DEF Stages
    <3>1. PICK q : q = [pass[c] EXCEPT !.at = "writeRow", !.row = registry[Svc(c)]]
      OBVIOUS
    <3>2. q \in Passes /\ q.at = "writeRow" /\ q.i = pass[c].i /\ q.failed = pass[c].failed
      BY <1>1, <3>0, <3>1 DEF Passes
    <3>3. Consistent(c, q, Object(c).kind, iam'[Svc(c)], file'[Svc(c)])
      BY <1>1, <1>2, <3>2 DEF Consistent
    <3> QED
      BY <1>1, <1>2, <2>3, <3>1, <3>2, <3>3, StayStep
  <2> QED
    BY <2>1, <2>2, <2>3 DEF ReadRow
<1> QED
  BY <1>1, <1>2, <1>3, ReadStep

\* EnsureRegistered: what is written is a row.
LEMMA EnsureRegisteredKeeps ==
  ASSUME StewardInv, NEW c \in Caller, EnsureRegistered(c)
  PROVE  StewardInv'
<1>0. pass[c].at = "writeRow"
  BY DEF EnsureRegistered, Working
<1>1. /\ Active(c) /\ pass[c].i \in 1 .. Len(Catalog) /\ Svc(c) \in Service /\ pass[c] \in Passes
      /\ Object(c).kind = "Service" /\ iam[Svc(c)].service > 0 /\ registry \in [Service -> Row]
  BY <1>0, AtObject DEF Consistent, StewardInv, Typed, RegistryType
<1>2. PICK row : row = [life |-> TRUE, stamped |-> TRUE,
                        status |-> IF pass[c].row.status = "pending" THEN "registered"
                                   ELSE pass[c].row.status]
  OBVIOUS
<1>3. row \in Row /\ row.life
  <2>1. pass[c].row.status \in Status
    BY <1>1 DEF Passes, Row
  <2> QED
    BY <1>2, <2>1 DEF Row, Status
<1>4. /\ UNCHANGED <<phase, conn, running, last, patch, iam, file>>
      /\ \/ registry' = registry /\ fail(c)
         \/ registry' = [registry EXCEPT ![Svc(c)] = row] /\ (succeed(c) \/ fail(c))
  BY <1>2 DEF EnsureRegistered
<1>5. /\ registry' \in [Service -> Row] /\ \A s \in Service : registry[s].life => registry'[s].life
      /\ registry' = [registry EXCEPT ![Svc(c)] = row] => registry'[Svc(c)].life
  BY <1>1, <1>3, <1>4
<1>6. KeepsPlaces
  BY <1>4, <1>5, GrowsKeeps DEF Grows
<1>7. (\E q : Moves(c, q)) /\ LookedUp(c)' /\ Behind(c)'
  <2>1. CASE fail(c)
    BY <2>1, FailStep
  <2>2. CASE registry'[Svc(c)].life /\ succeed(c)
    <3>1. PICK o : o = Object(c)
      OBVIOUS
    <3>2. o.kind = "Service" /\ o.svc = Svc(c)
      BY <1>1, <3>1 DEF Svc
    <3>3. InPlace(o)'
      BY <1>1, <1>4, <2>2, <3>2 DEF InPlace
    <3> QED
      BY <1>1, <1>6, <2>2, <3>1, <3>3, SucceedStep
  <2> QED
    BY <1>4, <1>5, <2>1, <2>2
<1> QED
  BY <1>1, <1>4, <1>5, <1>7, ReadStep DEF RegistryType

\* A step that only looks leaves everything in place.
LEMMA LookKeeps ==
  ASSUME StewardInv, UNCHANGED <<iam, file, registry>>
  PROVE  KeepsPlaces /\ registry' \in RegistryType /\ \A s \in Service : registry[s].life => registry'[s].life
<1>1. Grows
  BY DEF Grows
<1> QED
  BY <1>1, GrowsKeeps DEF StewardInv, Typed

\* ensurePermissions, the look-up.
LEMMA ListPermissionsKeeps ==
  ASSUME StewardInv, NEW c \in Caller, ListPermissions(c)
  PROVE  StewardInv'
<1>0. pass[c].at = "permissions"
  BY DEF ListPermissions, Working
<1>1. /\ Active(c) /\ pass[c].i \in 1 .. Len(Catalog) /\ Svc(c) \in Service /\ pass[c] \in Passes
      /\ Object(c).kind = "ResourceAPI" /\ iam[Svc(c)].api > 0 /\ iam[Svc(c)] \in Objects
  BY <1>0, AtObject DEF Consistent
<1>2. UNCHANGED <<phase, conn, running, last, patch, iam, file, registry>>
  BY DEF ListPermissions
<1>3. PICK missing : missing = Permission \ iam[Svc(c)].permissions
  OBVIOUS
<1>4. \/ missing = {} /\ succeed(c)
      \/ Goto(c, [pass[c] EXCEPT !.at = "createPermission", !.todo = missing])
      \/ fail(c)
  BY <1>3 DEF ListPermissions
<1>5. (\E q : Moves(c, q)) /\ LookedUp(c)' /\ Behind(c)'
  <2>1. CASE fail(c)
    BY <2>1, FailStep
  <2>2. CASE missing = {} /\ succeed(c)
    <3>1. PICK o : o = Object(c)
      OBVIOUS
    <3>2. o.kind = "ResourceAPI" /\ o.svc = Svc(c)
      BY <1>1, <3>1 DEF Svc
    <3>3. iam[Svc(c)].permissions \subseteq Permission
      BY <1>1 DEF Objects
    <3>4. iam[Svc(c)].permissions = Permission
      BY <1>3, <2>2, <3>3
    <3>5. InPlace(o)'
      BY <1>1, <1>2, <3>2, <3>4 DEF InPlace
    <3> QED
      BY <1>1, <1>2, <2>2, <3>1, <3>5, LookKeeps, SucceedStep
  <2>3. CASE Goto(c, [pass[c] EXCEPT !.at = "createPermission", !.todo = missing])
    <3>0. "createPermission" \in Stages /\ missing \in SUBSET Permission
      BY <1>3 DEF Stages
    <3>1. PICK q : q = [pass[c] EXCEPT !.at = "createPermission", !.todo = missing]
      OBVIOUS
    <3>2. /\ q \in Passes /\ q.at = "createPermission" /\ q.i = pass[c].i
          /\ q.failed = pass[c].failed /\ q.todo = missing
      BY <1>1, <3>0, <3>1 DEF Passes
    <3>3. Permission \ q.todo \subseteq iam'[Svc(c)].permissions
      BY <1>2, <1>3, <3>2
    <3>4. Consistent(c, q, Object(c).kind, iam'[Svc(c)], file'[Svc(c)])
      BY <1>1, <1>2, <3>2, <3>3 DEF Consistent
    <3> QED
      BY <1>1, <1>2, <2>3, <3>1, <3>2, <3>4, LookKeeps, StayStep
  <2> QED
    BY <1>4, <2>1, <2>2, <2>3
<1> QED
  BY <1>1, <1>2, <1>5, LookKeeps, ReadStep

\* CreatePermission: the last of the missing ones completes the resource API.
LEMMA CreatePermissionKeeps ==
  ASSUME StewardInv, NEW c \in Caller, CreatePermission(c)
  PROVE  StewardInv'
<1>0. pass[c].at = "createPermission"
  BY DEF CreatePermission, Working
<1>1. /\ Active(c) /\ pass[c].i \in 1 .. Len(Catalog) /\ Svc(c) \in Service /\ pass[c] \in Passes
      /\ Object(c).kind = "ResourceAPI" /\ iam[Svc(c)].api > 0 /\ iam[Svc(c)] \in Objects
      /\ Permission \ pass[c].todo \subseteq iam[Svc(c)].permissions
  BY <1>0, AtObject DEF Consistent
<1>2. PICK p \in pass[c].todo :
        Call(c, [iam[Svc(c)] EXCEPT !.permissions = @ \cup {p}],
             IF pass[c].todo = {p} THEN succeed(c)
                                   ELSE Goto(c, [pass[c] EXCEPT !.todo = @ \ {p}]))
  BY DEF CreatePermission
<1>3. pass[c].todo \subseteq Permission /\ p \in Permission /\ iam[Svc(c)].permissions \subseteq Permission
  BY <1>1 DEF Passes, Objects
<1>4. PICK perms \in SUBSET Permission : perms = iam[Svc(c)].permissions \cup {p}
  BY <1>3
<1>5. PICK e : e = [iam[Svc(c)] EXCEPT !.permissions = perms]
  OBVIOUS
<1>6. iam[Svc(c)].service <= 1 /\ iam[Svc(c)].api <= 1 /\ iam[Svc(c)].policy <= 1
  BY <1>1 DEF StewardInv, CreatedOnce
<1>7. /\ e \in Objects /\ e.permissions = perms /\ e.api = iam[Svc(c)].api
      /\ e.service = iam[Svc(c)].service /\ e.policy = iam[Svc(c)].policy
      /\ e.attached = iam[Svc(c)].attached
      /\ e.clients = iam[Svc(c)].clients /\ e.client = iam[Svc(c)].client
  BY <1>1, <1>5 DEF Objects
<1>8. iam[Svc(c)].permissions = Permission => perms = Permission
  BY <1>3, <1>4
<1>9. Grown(iam[Svc(c)], e)
  BY <1>6, <1>7, <1>8 DEF Grown
<1>10. UNCHANGED <<phase, conn, file, registry, running, last, patch>>
  BY DEF CreatePermission
<1>11. ASSUME iam'[Svc(c)] = e, KeepsPlaces, pass[c].todo = {p}, succeed(c)
       PROVE  (\E q : Moves(c, q)) /\ LookedUp(c)' /\ Behind(c)'
  <2>1. PICK o : o = Object(c)
    OBVIOUS
  <2>2. o.kind = "ResourceAPI" /\ o.svc = Svc(c)
    BY <1>1, <2>1 DEF Svc
  <2>3. perms = Permission
    BY <1>1, <1>3, <1>4, <1>11
  <2>4. InPlace(o)'
    BY <1>1, <1>7, <1>11, <2>2, <2>3 DEF InPlace
  <2> QED
    BY <1>1, <1>11, <2>1, <2>4, SucceedStep
<1>12. ASSUME iam'[Svc(c)] = e, KeepsPlaces, Goto(c, [pass[c] EXCEPT !.todo = @ \ {p}])
       PROVE  (\E q : Moves(c, q)) /\ LookedUp(c)' /\ Behind(c)'
  <2>1. PICK todo \in SUBSET Permission : todo = pass[c].todo \ {p}
    BY <1>3
  <2>2. PICK q : q = [pass[c] EXCEPT !.todo = todo]
    OBVIOUS
  <2>3. /\ q \in Passes /\ q.at = "createPermission" /\ q.i = pass[c].i
        /\ q.failed = pass[c].failed /\ q.todo = todo
    BY <1>0, <1>1, <2>2 DEF Passes
  <2>4. Permission \ q.todo \subseteq e.permissions
    BY <1>1, <1>4, <1>7, <2>1, <2>3
  <2>5. Consistent(c, q, Object(c).kind, iam'[Svc(c)], file'[Svc(c)])
    BY <1>1, <1>7, <1>12, <2>3, <2>4 DEF Consistent
  <2>6. Goto(c, q)
    BY <1>12, <2>1, <2>2
  <2> QED
    BY <1>1, <1>12, <2>3, <2>5, <2>6, StayStep
<1>13. Call(c, e, IF pass[c].todo = {p} THEN succeed(c)
                                        ELSE Goto(c, [pass[c] EXCEPT !.todo = @ \ {p}]))
  BY <1>2, <1>4, <1>5
<1>14. \/ iam' \in {iam, [iam EXCEPT ![Svc(c)] = e]} /\ fail(c)
       \/ /\ iam' = [iam EXCEPT ![Svc(c)] = e]
          /\ \/ pass[c].todo = {p} /\ succeed(c)
             \/ Goto(c, [pass[c] EXCEPT !.todo = @ \ {p}])
  BY <1>13 DEF Call
<1> QED
  BY <1>1, <1>9, <1>10, <1>11, <1>12, <1>14, CallKeeps

\* AssignServicePolicy.
LEMMA AssignServicePolicyKeeps ==
  ASSUME StewardInv, NEW c \in Caller, AssignServicePolicy(c)
  PROVE  StewardInv'
<1>0. pass[c].at = "attach"
  BY DEF AssignServicePolicy, Working
<1>1. /\ Active(c) /\ pass[c].i \in 1 .. Len(Catalog) /\ Svc(c) \in Service /\ pass[c] \in Passes
      /\ Object(c).kind = "ServicePolicy" /\ iam[Svc(c)].policy > 0 /\ iam[Svc(c)] \in Objects
  BY <1>0, AtObject DEF Consistent
<1>2. PICK e : e = [iam[Svc(c)] EXCEPT !.attached = TRUE]
  OBVIOUS
<1>3. iam[Svc(c)].service <= 1 /\ iam[Svc(c)].api <= 1 /\ iam[Svc(c)].policy <= 1
  BY <1>1 DEF StewardInv, CreatedOnce
<1>4. Grown(iam[Svc(c)], e) /\ e.policy > 0 /\ e.attached
  BY <1>1, <1>2, <1>3 DEF Grown, Objects
<1>5. UNCHANGED <<phase, conn, file, registry, running, last, patch>>
  BY DEF AssignServicePolicy
<1>6. ASSUME succeed(c), iam'[Svc(c)] = e, KeepsPlaces
      PROVE  (\E q : Moves(c, q)) /\ LookedUp(c)' /\ Behind(c)'
  <2>1. PICK o : o = Object(c)
    OBVIOUS
  <2>2. o.kind = "ServicePolicy" /\ o.svc = Svc(c)
    BY <1>1, <2>1 DEF Svc
  <2>3. InPlace(o)'
    BY <1>4, <1>6, <2>2 DEF InPlace
  <2> QED
    BY <1>1, <1>6, <2>1, <2>3, SucceedStep
<1>7. Call(c, e, succeed(c))
  BY <1>2 DEF AssignServicePolicy
<1> QED
  BY <1>1, <1>4, <1>5, <1>6, <1>7, CallKeeps DEF Call

\* findClient: a client with its key file is in place; only an absent one is created.
LEMMA FindClientKeeps ==
  ASSUME StewardInv, NEW c \in Caller, FindClient(c)
  PROVE  StewardInv'
<1>1. /\ c # "setup" /\ Active(c) /\ pass[c].at = "object" /\ pass[c].i \in 1 .. Len(Catalog)
      /\ Object(c).kind = "ServiceClient"
  BY PassFacts, CatalogShape DEF FindClient, Regular, Working, Active, StewardInv
<1>2. UNCHANGED <<phase, conn, running, last, patch, iam, file, registry>>
  BY DEF FindClient
<1>3. /\ pass[c] \in Passes /\ "readKey" \in Stages /\ iam[Svc(c)] \in Objects
  BY <1>1, PassFacts DEF StewardInv, Stages
<1>4. \/ fail(c)
      \/ iam[Svc(c)].clients > 0 /\ file[Svc(c)] # NoFile /\ succeed(c)
      \/ ~(iam[Svc(c)].clients > 0) /\ Goto(c, [pass[c] EXCEPT !.at = "readKey"])
  BY DEF FindClient
<1>5. (\E q : Moves(c, q)) /\ LookedUp(c)' /\ Behind(c)'
  <2>1. CASE fail(c)
    BY <2>1, FailStep
  <2>2. CASE iam[Svc(c)].clients > 0 /\ file[Svc(c)] # NoFile /\ succeed(c)
    <3>1. PICK o : o = Object(c)
      OBVIOUS
    <3>2. o.kind = "ServiceClient" /\ o.svc = Svc(c)
      BY <1>1, <3>1 DEF Svc
    <3>3. InPlace(o)'
      BY <1>2, <2>2, <3>2 DEF InPlace
    <3> QED
      BY <1>1, <1>2, <2>2, <3>1, <3>3, LookKeeps, SucceedStep
  <2>3. CASE ~(iam[Svc(c)].clients > 0) /\ Goto(c, [pass[c] EXCEPT !.at = "readKey"])
    <3>0. PICK q : q = [pass[c] EXCEPT !.at = "readKey"]
      OBVIOUS
    <3>1. q \in Passes /\ q.at = "readKey" /\ q.i = pass[c].i /\ q.failed = pass[c].failed
      BY <1>3, <3>0 DEF Passes
    <3>2. iam[Svc(c)].clients = 0
      BY <1>3, <2>3 DEF Objects
    <3>3. Consistent(c, q, Object(c).kind, iam'[Svc(c)], file'[Svc(c)])
      BY <1>1, <1>2, <3>1, <3>2 DEF Consistent
    <3> QED
      BY <1>1, <1>2, <2>3, <3>0, <3>1, <3>3, LookKeeps, StayStep
  <2> QED
    BY <1>4, <2>1, <2>2, <2>3
<1> QED
  BY <1>1, <1>2, <1>5, LookKeeps, ReadStep

\* The setup run's pass is only at work in the setup window.
LEMMA SetupIsAtWork ==
  ASSUME StewardInv, Active("setup")
  PROVE  phase = "window"
BY DEF StewardInv, SingleFlight, Active

----------------------------------------------------------------------------
\* The keys of the service clients.

\* PrivateKey: a stored key is reused, otherwise one is minted.
LEMMA ReadKeyKeeps ==
  ASSUME StewardInv, NEW c \in Caller, ReadKey(c)
  PROVE  StewardInv'
<1>0. pass[c].at = "readKey"
  BY DEF ReadKey, Working
<1>1. /\ Active(c) /\ pass[c].i \in 1 .. Len(Catalog) /\ Svc(c) \in Service /\ pass[c] \in Passes
      /\ Object(c).kind = "ServiceClient" /\ (c # "setup" => iam[Svc(c)].clients = 0)
      /\ iam[Svc(c)] \in Objects /\ file[Svc(c)] \in Files
  BY <1>0, AtObject DEF Consistent
<1>2. UNCHANGED <<phase, conn, running, last, patch, iam, file, registry>>
  BY DEF ReadKey
<1>3. "createClient" \in Stages /\ "recordKey" \in Stages
  BY DEF Stages
<1>4. (\E q : Moves(c, q)) /\ LookedUp(c)' /\ Behind(c)'
  <2>1. CASE file[Svc(c)] \in Key
    <3>1. PICK q : q = [pass[c] EXCEPT !.at = "createClient", !.key = file[Svc(c)], !.existed = TRUE]
      OBVIOUS
    <3>2. Goto(c, q)
      BY <2>1, <3>1 DEF ReadKey
    <3>3. /\ q \in Passes /\ q.at = "createClient" /\ q.i = pass[c].i
          /\ q.failed = pass[c].failed /\ q.key = file[Svc(c)] /\ q.existed = TRUE
      BY <1>1, <1>3, <2>1, <3>1 DEF Passes
    <3>4. Consistent(c, q, Object(c).kind, iam'[Svc(c)], file'[Svc(c)])
      BY <1>1, <1>2, <2>1, <3>3 DEF Consistent
    <3> QED
      BY <1>1, <1>2, <3>2, <3>3, <3>4, LookKeeps, StayStep
  <2>2. CASE file[Svc(c)] \notin Key
    <3>0. /\ FreshKey \in Key
          /\ Goto(c, [pass[c] EXCEPT !.at = "recordKey", !.key = FreshKey,
                                     !.generated = TRUE, !.existed = file[Svc(c)] # NoFile])
      BY <2>2 DEF ReadKey
    <3>1. PICK existed \in BOOLEAN : existed = (file[Svc(c)] # NoFile)
      BY Zenon
    <3>2. PICK k \in Key : k = FreshKey
      BY <3>0
    <3>3. PICK q : q = [pass[c] EXCEPT !.at = "recordKey", !.key = k,
                                       !.generated = TRUE, !.existed = existed]
      OBVIOUS
    <3>4. Goto(c, q)
      BY <3>0, <3>1, <3>2, <3>3, Zenon
    <3>5. /\ q \in Passes /\ q.at = "recordKey" /\ q.i = pass[c].i
          /\ q.failed = pass[c].failed /\ q.key = k /\ q.existed = existed
      BY <1>1, <1>3, <3>3 DEF Passes
    <3>6. file[Svc(c)] \in {NoFile, EmptyFile}
      BY <1>1, <2>2 DEF Files
    <3>7. ASSUME c = "setup", ~existed PROVE iam[Svc(c)].clients = 0
      <4>1. file[Svc(c)] = NoFile
        BY <3>1, <3>7
      <4>2. phase = "window"
        BY <1>1, <3>7, SetupIsAtWork
      <4>3. iam[Svc(c)].client \in Key \cup {NoKey} /\ iam[Svc(c)].clients \in Nat
        BY <1>1 DEF Objects
      <4>4. iam[Svc(c)].client = NoKey
        BY <1>1, <4>1, <4>2, <4>3, KeyAssumption DEF StewardInv, WindowKeepsKeys
      <4> QED
        BY <1>1, <4>3, <4>4 DEF StewardInv, ClientsHaveKeys
    <3>8. Consistent(c, q, Object(c).kind, iam'[Svc(c)], file'[Svc(c)])
      BY <1>1, <1>2, <3>5, <3>6, <3>7 DEF Consistent
    <3> QED
      BY <1>1, <1>2, <3>4, <3>5, <3>8, LookKeeps, StayStep
  <2> QED
    BY <2>1, <2>2
<1> QED
  BY <1>1, <1>2, <1>4, LookKeeps, ReadStep

\* A file that is created where there was none takes nothing away.
LEMMA FileGrows ==
  ASSUME StewardInv, NEW s \in Service, NEW k \in Key \cup {EmptyFile},
         file' \in {file, Record(s, k)}, UNCHANGED <<phase, iam, registry>>
  PROVE  KeepsPlaces /\ file' \in FileType /\ CreatedOnce' /\ ClientsHaveKeys' /\ WindowKeepsKeys'
<1>0. file \in [Service -> Files] /\ iam \in [Service -> Objects]
  BY DEF StewardInv, Typed, FileType, IamType
<1>1. /\ file' \in [Service -> Files]
      /\ \A t \in Service : file'[t] = file[t] \/ (file[t] = NoFile /\ file'[t] # NoFile)
  <2>1. CASE file' = file
    BY <1>0, <2>1
  <2>2. CASE file' = Record(s, k)
    <3>1. CASE file[s] = NoFile
      <4>1. file' = [file EXCEPT ![s] = k]
        BY <1>0, <2>2, <3>1 DEF Record
      <4> QED
        BY <1>0, <3>1, <4>1, KeyAssumption DEF Files
    <3>2. CASE file[s] # NoFile
      <4>1. file' = file
        BY <1>0, <2>2, <3>2 DEF Record
      <4> QED
        BY <1>0, <4>1
    <3> QED
      BY <3>1, <3>2
  <2> QED
    BY <2>1, <2>2
<1>2. Grows
  BY <1>1 DEF Grows
<1>3. CreatedOnce' /\ ClientsHaveKeys'
  BY DEF StewardInv, CreatedOnce, ClientsHaveKeys
<1>4. WindowKeepsKeys'
  <2> SUFFICES ASSUME phase = "window", NEW t \in Service, iam[t].client # NoKey
               PROVE  file'[t] \in {iam[t].client, EmptyFile}
    BY DEF WindowKeepsKeys
  <2>1. file[t] \in {iam[t].client, EmptyFile}
    BY DEF StewardInv, WindowKeepsKeys
  <2>2. iam[t].client \in Key
    BY <1>0 DEF Objects
  <2>3. file[t] # NoFile
    BY <2>1, <2>2, KeyAssumption
  <2> QED
    BY <1>1, <2>1, <2>3
<1> QED
  BY <1>1, <1>2, <1>3, <1>4, GrowsKeeps DEF FileType

\* Record: the key is on file, or a file is there that holds none.
LEMMA RecordKeyKeeps ==
  ASSUME StewardInv, NEW c \in Caller, RecordKey(c)
  PROVE  StewardInv'
<1>0. pass[c].at = "recordKey"
  BY DEF RecordKey, Working
<1>1. /\ Active(c) /\ pass[c].i \in 1 .. Len(Catalog) /\ Svc(c) \in Service /\ pass[c] \in Passes
      /\ Object(c).kind = "ServiceClient" /\ (c # "setup" => iam[Svc(c)].clients = 0)
      /\ file[Svc(c)] \in {NoFile, EmptyFile} /\ pass[c].key \in Key
      /\ c = "setup" /\ ~pass[c].existed => iam[Svc(c)].clients = 0
  BY <1>0, AtObject DEF Consistent
<1>2. UNCHANGED <<phase, conn, running, last, patch, iam, registry>>
  BY DEF RecordKey
<1>3. iam' \in IamType /\ registry' \in RegistryType
  BY <1>2 DEF StewardInv, Typed
<1>4. CASE /\ file' = Record(Svc(c), pass[c].key)
           /\ Goto(c, [pass[c] EXCEPT !.at = "createClient"])
  <2>1. KeepsPlaces /\ file' \in FileType /\ CreatedOnce' /\ ClientsHaveKeys' /\ WindowKeepsKeys'
    BY <1>1, <1>2, <1>4, FileGrows
  <2>2. file'[Svc(c)] \in {pass[c].key, EmptyFile}
    BY <1>1, <1>4 DEF Record, StewardInv, Typed, FileType
  <2>3. "createClient" \in Stages
    BY DEF Stages
  <2>0. PICK q : q = [pass[c] EXCEPT !.at = "createClient"]
    OBVIOUS
  <2>4. /\ q \in Passes /\ q.at = "createClient"
        /\ q.i = pass[c].i /\ q.failed = pass[c].failed
        /\ q.key = pass[c].key /\ q.existed = pass[c].existed
    BY <1>1, <2>0, <2>3 DEF Passes
  <2>5. Consistent(c, q, Object(c).kind, iam'[Svc(c)], file'[Svc(c)])
    BY <1>1, <1>2, <2>2, <2>4 DEF Consistent
  <2>6. Moves(c, q) /\ LookedUp(c)' /\ Behind(c)'
    BY <1>1, <1>4, <2>0, <2>1, <2>4, <2>5, StayStep
  <2> QED
    BY <1>1, <1>2, <1>3, <2>1, <2>6, WorkStep DEF Moves
<1>5. CASE file' \in {file, Record(Svc(c), EmptyFile)} /\ fail(c)
  <2>1. KeepsPlaces /\ file' \in FileType /\ CreatedOnce' /\ ClientsHaveKeys' /\ WindowKeepsKeys'
    BY <1>1, <1>2, <1>5, FileGrows
  <2>2. (\E q : Moves(c, q)) /\ LookedUp(c)' /\ Behind(c)'
    BY <1>5, FailStep
  <2> QED
    BY <1>1, <1>2, <1>3, <2>1, <2>2, WorkStep DEF Moves
<1> QED
  BY <1>4, <1>5 DEF RecordKey

\* Registering the first client of a service, and dropping the file of a service
\* without one, takes nothing away.
LEMMA ClientGrows ==
  ASSUME StewardInv, NEW s \in Service, iam[s].clients = 0, NEW k \in Key,
         iam' \in {iam, [iam EXCEPT ![s].clients = 1, ![s].client = k]},
         file' \in {file, Discard(s)},
         phase = "window" => file' = file /\ file[s] \in {k, EmptyFile},
         UNCHANGED <<phase, registry>>
  PROVE  /\ KeepsPlaces /\ iam' \in IamType /\ file' \in FileType
         /\ CreatedOnce' /\ ClientsHaveKeys' /\ WindowKeepsKeys'
<1>0. file \in [Service -> Files] /\ iam \in [Service -> Objects] /\ iam[s] \in Objects
  BY DEF StewardInv, Typed, FileType, IamType
<1>1. file' \in [Service -> Files] /\ \A t \in Service : t # s => file'[t] = file[t]
  BY <1>0 DEF Discard, Files
<1>2. PICK e : e = [iam[s] EXCEPT !.clients = 1, !.client = k]
  OBVIOUS
<1>3. /\ e \in Objects /\ e.clients = 1 /\ e.client = k /\ e.service = iam[s].service
      /\ e.api = iam[s].api /\ e.policy = iam[s].policy /\ e.permissions = iam[s].permissions
      /\ e.attached = iam[s].attached
  BY <1>0, <1>2 DEF Objects
<1>4. iam' = iam \/ iam' = [iam EXCEPT ![s] = e]
  BY <1>0, <1>2
<1>5. /\ iam' \in [Service -> Objects] /\ \A t \in Service : t # s => iam'[t] = iam[t]
      /\ iam'[s] = iam[s] \/ iam'[s] = e
  BY <1>0, <1>3, <1>4
<1>6. Grows
  BY <1>1, <1>3, <1>5 DEF Grows
<1>7. CreatedOnce'
  BY <1>3, <1>5 DEF StewardInv, CreatedOnce
<1>8. ClientsHaveKeys'
  BY <1>3, <1>5, KeyAssumption DEF StewardInv, ClientsHaveKeys
<1>9. WindowKeepsKeys'
  BY <1>3, <1>5 DEF StewardInv, WindowKeepsKeys
<1> QED
  BY <1>1, <1>5, <1>6, <1>7, <1>8, <1>9, GrowsKeeps DEF IamType, FileType

\* CreateClient on the regular surface: the client was absent.
LEMMA CreateClientKeeps ==
  ASSUME StewardInv, NEW c \in Caller, CreateClient(c)
  PROVE  StewardInv'
<1>0. pass[c].at = "createClient" /\ c # "setup"
  BY DEF CreateClient, Working
<1>1. /\ Active(c) /\ pass[c].i \in 1 .. Len(Catalog) /\ Svc(c) \in Service /\ pass[c] \in Passes
      /\ Object(c).kind = "ServiceClient" /\ iam[Svc(c)].clients = 0
      /\ pass[c].key \in Key /\ file[Svc(c)] \in {pass[c].key, EmptyFile}
  BY <1>0, AtObject DEF Consistent
<1>2. UNCHANGED <<phase, conn, running, last, patch, registry>>
  BY DEF CreateClient
<1>3. registry' \in RegistryType /\ phase # "window"
  BY <1>0, <1>1, <1>2 DEF StewardInv, Typed, SingleFlight, Caller
<1>4. PICK effect : effect = [iam EXCEPT ![Svc(c)].clients = 1, ![Svc(c)].client = pass[c].key]
  OBVIOUS
<1>5. effect = [iam EXCEPT ![Svc(c)].clients = @ + 1, ![Svc(c)].client = pass[c].key]
  BY <1>1, <1>4 DEF StewardInv, Typed, IamType, Objects
<1>6. \/ iam' = effect /\ succeed(c) /\ file' = file
      \/ iam' \in {iam, effect} /\ fail(c) /\ file' \in {file, Discard(Svc(c))}
  BY <1>5 DEF CreateClient
<1>7. /\ KeepsPlaces /\ iam' \in IamType /\ file' \in FileType
      /\ CreatedOnce' /\ ClientsHaveKeys' /\ WindowKeepsKeys'
  <2>1. iam' \in {iam, effect} /\ file' \in {file, Discard(Svc(c))}
    BY <1>6
  <2> QED
    BY <1>1, <1>2, <1>3, <1>4, <2>1, ClientGrows
<1>8. (\E q : Moves(c, q)) /\ LookedUp(c)' /\ Behind(c)'
  <2>1. CASE fail(c)
    BY <2>1, FailStep
  <2>2. CASE iam' = effect /\ succeed(c) /\ file' = file
    <3>1. PICK o : o = Object(c)
      OBVIOUS
    <3>2. o.kind = "ServiceClient" /\ o.svc = Svc(c)
      BY <1>1, <3>1 DEF Svc
    <3>3. iam'[Svc(c)].clients > 0
      BY <1>1, <1>4, <2>2 DEF StewardInv, Typed, IamType, Objects
    <3>4. file'[Svc(c)] # NoFile
      BY <1>1, <2>2, KeyAssumption
    <3>5. InPlace(o)'
      BY <3>2, <3>3, <3>4 DEF InPlace
    <3> QED
      BY <1>1, <1>7, <2>2, <3>1, <3>5, SucceedStep
  <2> QED
    BY <1>6, <2>1, <2>2
<1> QED
  BY <1>1, <1>2, <1>3, <1>7, <1>8, WorkStep DEF Moves

----------------------------------------------------------------------------
\* The setup window.

\* Where the setup run's pass is.
LEMMA AtWindow ==
  ASSUME StewardInv, NEW kind, Window(kind)
  PROVE  /\ Active("setup") /\ pass["setup"].i \in 1 .. Len(Catalog) /\ Object("setup").kind = kind
         /\ "setup" \in Caller /\ pass["setup"] \in Passes
         /\ Svc("setup") \in Service /\ iam[Svc("setup")] \in Objects
<1>1. "setup" \in Caller
  BY DEF Caller
<1>2. Active("setup") /\ pass["setup"].i \in 1 .. Len(Catalog) /\ Object("setup").kind = kind
  <2>1. Typed
    BY DEF StewardInv
  <2>2. pass["setup"].i \in Nat \ {0} /\ Len(Catalog) \in Nat
    BY <1>1, <2>1, PassFacts, CatalogShape
  <2>3. pass["setup"].at = "object" /\ pass["setup"].i <= Len(Catalog) /\ Object("setup").kind = kind
    BY DEF Window, Working
  <2>4. Active("setup")
    BY <2>3 DEF Active
  <2>5. pass["setup"].i \in 1 .. Len(Catalog)
    BY <2>2, <2>3
  <2> QED
    BY <2>3, <2>4, <2>5, Zenon
<1> QED
  BY <1>1, <1>2, PassFacts DEF StewardInv

\* EnsureServicePolicy of a service that is granted nothing returns at once.
LEMMA NothingToGrantKeeps ==
  ASSUME StewardInv, NEW c \in Caller, NothingToGrant(c)
  PROVE  StewardInv'
<1>1. /\ Active(c) /\ pass[c].i \in 1 .. Len(Catalog) /\ succeed(c)
      /\ Object(c).kind = "ServicePolicy" /\ Object(c).svc \notin Granted
  BY PassFacts, CatalogShape DEF NothingToGrant, Needless, Working, Active, StewardInv
<1>2. UNCHANGED <<phase, conn, running, last, patch, iam, file, registry>>
  BY DEF NothingToGrant
<1>3. PICK o : o = Object(c)
  OBVIOUS
<1>4. InPlace(o)'
  BY <1>1, <1>3 DEF InPlace
<1>5. (\E q : Moves(c, q)) /\ LookedUp(c)' /\ Behind(c)'
  BY <1>1, <1>2, <1>3, <1>4, LookKeeps, SucceedStep
<1> QED
  BY <1>1, <1>2, <1>5, LookKeeps, ReadStep

\* EnsureService.
LEMMA WindowServiceKeeps == StewardInv /\ WindowService => StewardInv'
<1> SUFFICES ASSUME StewardInv, WindowService PROVE StewardInv'
  OBVIOUS
<1>1. Active("setup") /\ pass["setup"].i \in 1 .. Len(Catalog) /\ "setup" \in Caller
  BY AtWindow DEF WindowService
<1>2. UNCHANGED <<phase, conn, running, last, patch, iam, file, registry>> /\ succeed("setup")
  BY DEF WindowService
<1>3. (\E q : Moves("setup", q)) /\ LookedUp("setup")' /\ Behind("setup")'
  BY <1>1, <1>2, LookKeeps, SucceedStep
<1> QED
  BY <1>1, <1>2, <1>3, LookKeeps, ReadStep

\* A service client of the window: its key is read first.
LEMMA WindowServiceClientKeeps == StewardInv /\ WindowServiceClient => StewardInv'
<1> SUFFICES ASSUME StewardInv, WindowServiceClient PROVE StewardInv'
  OBVIOUS
<1>1. /\ Active("setup") /\ pass["setup"].i \in 1 .. Len(Catalog) /\ "setup" \in Caller
      /\ Object("setup").kind = "ServiceClient" /\ pass["setup"] \in Passes
  BY AtWindow DEF WindowServiceClient
<1>2. UNCHANGED <<phase, conn, running, last, patch, iam, file, registry>>
  BY DEF WindowServiceClient
<1>3. PICK q : q = [pass["setup"] EXCEPT !.at = "readKey"]
  OBVIOUS
<1>4. "readKey" \in Stages
  BY DEF Stages
<1>5. q \in Passes /\ q.at = "readKey" /\ q.i = pass["setup"].i /\ q.failed = pass["setup"].failed
  BY <1>1, <1>3, <1>4 DEF Passes
<1>6. Consistent("setup", q, Object("setup").kind, iam'[Svc("setup")], file'[Svc("setup")])
  BY <1>1, <1>5 DEF Consistent
<1>7. Moves("setup", q) /\ LookedUp("setup")' /\ Behind("setup")'
  BY <1>1, <1>2, <1>3, <1>5, <1>6, LookKeeps, StayStep DEF WindowServiceClient
<1> QED
  BY <1>1, <1>2, <1>7, LookKeeps, ReadStep

\* EnsureControlResourceAPI is idempotent.
LEMMA WindowResourceAPIKeeps == StewardInv /\ WindowResourceAPI => StewardInv'
<1> SUFFICES ASSUME StewardInv, WindowResourceAPI PROVE StewardInv'
  OBVIOUS
<1>1. /\ Active("setup") /\ pass["setup"].i \in 1 .. Len(Catalog) /\ "setup" \in Caller
      /\ Svc("setup") \in Service /\ iam[Svc("setup")] \in Objects
  BY AtWindow DEF WindowResourceAPI
<1>2. /\ iam[Svc("setup")].service <= 1 /\ iam[Svc("setup")].api <= 1 /\ iam[Svc("setup")].policy <= 1
  BY <1>1 DEF StewardInv, CreatedOnce
<1>3. Idempotent(iam[Svc("setup")].service) = 1 /\ Idempotent(iam[Svc("setup")].api) = 1
  BY <1>1, <1>2 DEF Idempotent, Objects
<1>4. PICK e : e = [iam[Svc("setup")] EXCEPT !.service = 1, !.api = 1, !.permissions = Permission]
  OBVIOUS
<1>5. e = [iam[Svc("setup")] EXCEPT !.service = Idempotent(@), !.api = Idempotent(@),
                                    !.permissions = Permission]
  BY <1>1, <1>3, <1>4 DEF Objects
<1>6. Grown(iam[Svc("setup")], e)
  <2>1. /\ e \in Objects /\ e.service = 1 /\ e.api = 1 /\ e.permissions = Permission
        /\ e.policy = iam[Svc("setup")].policy /\ e.attached = iam[Svc("setup")].attached
        /\ e.clients = iam[Svc("setup")].clients /\ e.client = iam[Svc("setup")].client
    BY <1>1, <1>4 DEF Objects
  <2> QED
    BY <1>2, <2>1 DEF Grown
<1>7. /\ Call("setup", e, succeed("setup"))
      /\ UNCHANGED <<phase, conn, file, registry, running, last, patch>>
  BY <1>5 DEF WindowResourceAPI
<1>8. ASSUME succeed("setup"), KeepsPlaces
      PROVE  (\E q : Moves("setup", q)) /\ LookedUp("setup")' /\ Behind("setup")'
  BY <1>1, <1>8, SucceedStep
<1> QED
  BY <1>1, <1>6, <1>7, <1>8, CallKeeps DEF Call

\* EnsureControlPolicy is idempotent.
LEMMA WindowServicePolicyKeeps == StewardInv /\ WindowServicePolicy => StewardInv'
<1> SUFFICES ASSUME StewardInv, WindowServicePolicy PROVE StewardInv'
  OBVIOUS
<1>1. /\ Active("setup") /\ pass["setup"].i \in 1 .. Len(Catalog) /\ "setup" \in Caller
      /\ Svc("setup") \in Service /\ iam[Svc("setup")] \in Objects
  BY AtWindow DEF WindowServicePolicy
<1>2. /\ iam[Svc("setup")].service <= 1 /\ iam[Svc("setup")].api <= 1 /\ iam[Svc("setup")].policy <= 1
  BY <1>1 DEF StewardInv, CreatedOnce
<1>3. Idempotent(iam[Svc("setup")].service) = 1 /\ Idempotent(iam[Svc("setup")].policy) = 1
  BY <1>1, <1>2 DEF Idempotent, Objects
<1>4. PICK e : e = [iam[Svc("setup")] EXCEPT !.service = 1, !.policy = 1, !.attached = TRUE]
  OBVIOUS
<1>5. e = [iam[Svc("setup")] EXCEPT !.service = Idempotent(@), !.policy = Idempotent(@),
                                    !.attached = TRUE]
  BY <1>1, <1>3, <1>4 DEF Objects
<1>6. Grown(iam[Svc("setup")], e)
  <2>1. /\ e \in Objects /\ e.service = 1 /\ e.policy = 1 /\ e.attached
        /\ e.api = iam[Svc("setup")].api /\ e.permissions = iam[Svc("setup")].permissions
        /\ e.clients = iam[Svc("setup")].clients /\ e.client = iam[Svc("setup")].client
    BY <1>1, <1>4 DEF Objects
  <2> QED
    BY <1>2, <2>1 DEF Grown
<1>7. /\ Call("setup", e, succeed("setup"))
      /\ UNCHANGED <<phase, conn, file, registry, running, last, patch>>
  BY <1>5 DEF WindowServicePolicy
<1>8. ASSUME succeed("setup"), KeepsPlaces
      PROVE  (\E q : Moves("setup", q)) /\ LookedUp("setup")' /\ Behind("setup")'
  BY <1>1, <1>8, SucceedStep
<1> QED
  BY <1>1, <1>6, <1>7, <1>8, CallKeeps DEF Call

\* EnsureControlClient: the key was on file before the call, and stays there.
LEMMA WindowCreateClientKeeps == StewardInv /\ WindowCreateClient => StewardInv'
<1> SUFFICES ASSUME StewardInv, WindowCreateClient PROVE StewardInv'
  OBVIOUS
<1>0. pass["setup"].at = "createClient" /\ "setup" \in Caller
  BY DEF WindowCreateClient, Working, Caller
<1>1. /\ Active("setup") /\ pass["setup"].i \in 1 .. Len(Catalog) /\ Svc("setup") \in Service
      /\ iam[Svc("setup")] \in Objects /\ pass["setup"].key \in Key
      /\ file[Svc("setup")] \in {pass["setup"].key, EmptyFile}
      /\ ~pass["setup"].existed => iam[Svc("setup")].clients = 0
  BY <1>0, AtObject DEF Consistent
<1>2. UNCHANGED <<phase, conn, running, last, patch, registry>>
  BY DEF WindowCreateClient
<1>3. registry' \in RegistryType
  BY <1>2 DEF StewardInv, Typed
<1>4. PICK effect :
        effect = [iam EXCEPT ![Svc("setup")].clients = 1, ![Svc("setup")].client = pass["setup"].key]
  OBVIOUS
<1>5. iam[Svc("setup")].clients \in Nat
  BY <1>1 DEF Objects
<1>6. /\ iam' = iam \/ (iam[Svc("setup")].clients = 0 /\ iam' = effect)
      /\ file' = file /\ (succeed("setup") \/ fail("setup"))
  <2>1. CASE iam[Svc("setup")].clients > 0
    <3>1. pass["setup"].existed
      BY <1>1, <2>1
    <3> QED
      BY <2>1, <3>1 DEF WindowCreateClient
  <2>2. CASE ~(iam[Svc("setup")].clients > 0)
    <3>1. iam[Svc("setup")].clients = 0
      BY <1>5, <2>2
    <3> QED
      BY <1>4, <2>2, <3>1 DEF WindowCreateClient
  <2> QED
    BY <2>1, <2>2
<1>7. /\ KeepsPlaces /\ iam' \in IamType /\ file' \in FileType
      /\ CreatedOnce' /\ ClientsHaveKeys' /\ WindowKeepsKeys'
  <2>1. CASE iam' = iam
    BY <1>2, <1>6, <2>1, LookKeeps
    DEF StewardInv, Typed, CreatedOnce, ClientsHaveKeys, WindowKeepsKeys
  <2>2. CASE iam[Svc("setup")].clients = 0 /\ iam' = effect
    BY <1>1, <1>2, <1>4, <1>6, <2>2, ClientGrows
  <2> QED
    BY <1>6, <2>1, <2>2
<1>8. (\E q : Moves("setup", q)) /\ LookedUp("setup")' /\ Behind("setup")'
  <2>1. CASE fail("setup")
    BY <1>0, <2>1, FailStep
  <2>2. CASE succeed("setup")
    BY <1>0, <1>1, <1>7, <2>2, SucceedStep
  <2> QED
    BY <1>6, <2>1, <2>2
<1> QED
  BY <1>0, <1>1, <1>2, <1>3, <1>7, <1>8, WorkStep DEF Moves

----------------------------------------------------------------------------
\* Beginning and ending a pass, the registry's other writers, restarts.

\* A pass that is at rest, asks to connect or is about to look at its first object.
LEMMA RestStep ==
  ASSUME StewardInv, NEW c \in Caller, NEW q \in Passes, Goto(c, q),
         q.at \in {"idle", "connect", "object"}, c # "setup" => q.at = "idle" \/ q.i = 1,
         UNCHANGED <<iam, file, registry, patch>>,
         phase' = "window" => phase = "window", SingleFlight', CleanMeansInPlace'
  PROVE  StewardInv'
<1>1. pass \in [Caller -> Passes]
  BY DEF StewardInv, Typed, PassType
<1>2. pass'[c] = q /\ pass' \in [Caller -> Passes] /\ \A d \in Caller : d # c => pass'[d] = pass[d]
  BY <1>1 DEF Goto
<1>3. Typed'
  BY <1>2 DEF StewardInv, Typed, PassType
<1>4. KeepsPlaces
  BY LookKeeps
<1>5. ASSUME NEW d \in Caller, d # c PROVE LookedUp(d)' /\ Behind(d)'
  <2>1. pass'[d] = pass[d]
    BY <1>2, <1>5
  <2> QED
    BY <1>4, <2>1 DEF StewardInv, LookedUp, Behind, Active, Object, Svc, KeepsPlaces
<1>6. LookedUp(c)'
  <2>1. q.at = "connect" => q.i = 1
    BY <1>2 DEF SingleFlight, Caller
  <2> QED
    BY <1>2, <2>1 DEF LookedUp, Consistent
<1>7. Behind(c)'
  BY <1>2, CatalogShape DEF Behind, Active
<1>8. CreatedOnce' /\ ClientsHaveKeys' /\ WindowKeepsKeys'
  BY DEF StewardInv, CreatedOnce, ClientsHaveKeys, WindowKeepsKeys
<1>9. (patch.at \in Service => patch.row.life)'
  BY DEF StewardInv
<1> QED
  BY <1>3, <1>5, <1>6, <1>7, <1>8, <1>9 DEF StewardInv

\* The idle pass, and the two ways in which one begins.
LEMMA IdleType ==
  /\ Idle \in Passes /\ Idle.at = "idle"
  /\ \A at \in Stages : LET q == [Idle EXCEPT !.at = at]
                        IN  q \in Passes /\ q.at = at /\ q.i = 1
<1>1. Idle \in Passes /\ Idle.at = "idle" /\ Idle.i = 1
  BY DEF Idle, Passes, Stages, NoRow, Row, Status
<1>2. ASSUME NEW at \in Stages, NEW q, q = [Idle EXCEPT !.at = at]
      PROVE  q \in Passes /\ q.at = at /\ q.i = 1
  BY <1>1, <1>2 DEF Passes
<1> QED
  BY <1>1, <1>2

\* The setup run reaches step 7, or leaves it.
LEMMA SetupEndsKeep ==
  ASSUME StewardInv, BeginSetup \/ EndSetup
  PROVE  StewardInv'
<1>0. "setup" \in Caller /\ "object" \in Stages /\ pass \in [Caller -> Passes]
  BY DEF Caller, Stages, StewardInv, Typed, PassType
<1>1. CASE BeginSetup
  <2>1. PICK q : q = [Idle EXCEPT !.at = "object"]
    OBVIOUS
  <2>2. q \in Passes /\ q.at = "object"
    BY <1>0, <2>1, IdleType
  <2>3. Goto("setup", q) /\ phase = "window"
        /\ UNCHANGED <<phase, conn, iam, file, registry, running, last, patch>>
    BY <1>1, <2>1 DEF BeginSetup
  <2>4. SingleFlight'
    BY <1>0, <2>2, <2>3 DEF StewardInv, SingleFlight, Active, Goto, Caller
  <2>5. CleanMeansInPlace'
    BY <2>3 DEF StewardInv, SingleFlight, CleanMeansInPlace
  <2> QED
    BY <1>0, <2>2, <2>3, <2>4, <2>5, RestStep
<1>2. CASE EndSetup
  <2>1. /\ Goto("setup", Idle) /\ phase' = "control" /\ pass["setup"].at = "object"
        /\ UNCHANGED <<conn, iam, file, registry, running, last, patch>>
    BY <1>2 DEF EndSetup, Working
  <2>2. phase = "window"
    BY <2>1 DEF StewardInv, SingleFlight
  <2>5. pass'["setup"] = Idle /\ \A d \in Caller : d # "setup" => pass'[d] = pass[d]
    BY <1>0, <2>1 DEF Goto
  <2>3. SingleFlight'
    BY <2>1, <2>5, IdleType DEF StewardInv, SingleFlight, Active, Caller
  <2>4. CleanMeansInPlace'
    BY <2>1, <2>2 DEF StewardInv, SingleFlight, CleanMeansInPlace
  <2> QED
    BY <1>0, <2>1, <2>3, <2>4, IdleType, RestStep
<1> QED
  BY <1>1, <1>2

\* Nothing in Auth, the key store or a report changes.
LEMMA ReportStays ==
  ASSUME StewardInv, UNCHANGED <<iam, file, registry>>, last' = "clean" => last = "clean"
  PROVE  CleanMeansInPlace'
BY LookKeeps DEF StewardInv, CleanMeansInPlace, AllInPlace, KeepsPlaces

\* Runner.Run begins, when no pass is running.
LEMMA BeginKeeps ==
  ASSUME StewardInv, NEW c \in {"boot", "post"}, Begin(c)
  PROVE  StewardInv'
<1>0. c \in Caller /\ "connect" \in Stages /\ pass \in [Caller -> Passes]
  BY DEF Caller, Stages, StewardInv, Typed, PassType
<1>1. UNCHANGED <<phase, conn, iam, file, registry, last, patch>> /\ pass[c].at = "idle"
  BY DEF Begin, Working
<1>2. CleanMeansInPlace'
  BY <1>1, ReportStays
<1>3. CASE ~running /\ running' = TRUE /\ Goto(c, [Idle EXCEPT !.at = "connect"])
  <2>1. PICK q : q = [Idle EXCEPT !.at = "connect"]
    OBVIOUS
  <2>2. q \in Passes /\ q.at = "connect" /\ q.i = 1
    BY <1>0, <2>1, IdleType
  <2>3. pass'[c] = q /\ \A d \in Caller : d # c => pass'[d] = pass[d]
    BY <1>0, <1>3, <2>1 DEF Goto
  <2>4. SingleFlight'
    BY <1>1, <1>3, <2>2, <2>3 DEF StewardInv, SingleFlight, Active, Caller
  <2> QED
    BY <1>0, <1>1, <1>2, <1>3, <2>1, <2>2, <2>4, RestStep
<1>4. CASE UNCHANGED <<running, pass>>
  <2>1. Goto(c, pass[c]) /\ pass[c] \in Passes
    BY <1>0, <1>4 DEF Goto
  <2>2. SingleFlight'
    BY <1>1, <1>4 DEF StewardInv, SingleFlight, Active
  <2> QED
    BY <1>0, <1>1, <1>2, <2>1, <2>2, RestStep
<1> QED
  BY <1>3, <1>4 DEF Begin, tryBegin

\* Client.Connect: not before the control identity is on record.
LEMMA ConnectKeeps ==
  ASSUME StewardInv, NEW c \in {"boot", "post"}, Connect(c)
  PROVE  StewardInv'
<1>0. c \in Caller /\ "object" \in Stages /\ pass \in [Caller -> Passes] /\ pass[c] \in Passes
  BY DEF Caller, Stages, StewardInv, Typed, PassType
<1>1. UNCHANGED <<phase, iam, file, registry, last, patch>> /\ pass[c].at = "connect"
  BY DEF Connect, Working, end
<1>2. pass[c].i = 1
  BY <1>0, <1>1 DEF StewardInv, LookedUp, Consistent
<1>3. CleanMeansInPlace'
  BY <1>1, ReportStays
<1>4. \/ Goto(c, Idle) /\ running' = FALSE /\ conn' = conn
      \/ /\ conn \/ phase = "control"
         /\ conn' = TRUE \/ conn' = conn
         /\ Goto(c, [pass[c] EXCEPT !.at = "object"]) /\ running' = running
  BY DEF Connect, end
<1>5. CASE Goto(c, Idle) /\ running' = FALSE /\ conn' = conn
  <2>1. pass'[c] = Idle /\ \A d \in Caller : d # c => pass'[d] = pass[d]
    BY <1>0, <1>5 DEF Goto
  <2>2. SingleFlight'
    BY <1>1, <1>5, <2>1, IdleType DEF StewardInv, SingleFlight, Active, Caller
  <2> QED
    BY <1>0, <1>1, <1>3, <1>5, <2>2, IdleType, RestStep
<1>6. CASE /\ conn \/ phase = "control"
           /\ conn' = TRUE \/ conn' = conn
           /\ Goto(c, [pass[c] EXCEPT !.at = "object"]) /\ running' = running
  <2>1. PICK q : q = [pass[c] EXCEPT !.at = "object"]
    OBVIOUS
  <2>2. q \in Passes /\ q.at = "object" /\ q.i = 1
    BY <1>0, <1>2, <2>1 DEF Passes
  <2>3. pass'[c] = q /\ \A d \in Caller : d # c => pass'[d] = pass[d]
    BY <1>0, <1>6, <2>1 DEF Goto
  <2>4. phase = "control"
    BY <1>6 DEF StewardInv, SingleFlight
  <2>5. SingleFlight'
    BY <1>1, <1>6, <2>2, <2>3, <2>4 DEF StewardInv, SingleFlight, Active, Caller
  <2> QED
    BY <1>0, <1>1, <1>3, <1>6, <2>1, <2>2, <2>5, RestStep
<1> QED
  BY <1>4, <1>5, <1>6

\* Run's report is clean when everything is behind a pass that has not failed.
LEMMA EndPassKeeps ==
  ASSUME StewardInv, NEW c \in {"boot", "post"}, EndPass(c)
  PROVE  StewardInv'
<1>0. c \in Caller /\ pass \in [Caller -> Passes]
  BY DEF Caller, StewardInv, Typed, PassType
<1>1. /\ Goto(c, Idle) /\ running' = FALSE /\ pass[c].at = "object" /\ pass[c].i > Len(Catalog)
      /\ last' = IF pass[c].failed THEN "failed" ELSE "clean"
      /\ UNCHANGED <<phase, conn, iam, file, registry, patch>>
  BY DEF EndPass, Working, end
<1>2. pass'[c] = Idle /\ \A d \in Caller : d # c => pass'[d] = pass[d]
  BY <1>0, <1>1 DEF Goto
<1>3. phase = "control"
  BY <1>1 DEF StewardInv, SingleFlight, Active
<1>4. SingleFlight'
  BY <1>1, <1>2, <1>3, IdleType DEF StewardInv, SingleFlight, Active, Caller
<1>5. CleanMeansInPlace'
  <2> SUFFICES ASSUME last' = "clean", NEW j \in 1 .. Len(Catalog) PROVE InPlace(Catalog[j])'
    BY DEF CleanMeansInPlace, AllInPlace
  <2>1. ~pass[c].failed
    BY <1>1
  <2>2. pass[c].i \in Nat /\ Len(Catalog) \in Nat
    BY <1>0, PassFacts, CatalogShape DEF StewardInv
  <2>3. j < pass[c].i
    BY <1>1, <2>2
  <2>4. Behind(c) /\ c # "setup" /\ Active(c)
    BY <1>0, <1>1 DEF StewardInv, Active
  <2>5. InPlace(Catalog[j])
    BY <2>1, <2>3, <2>4 DEF Behind
  <2> QED
    BY <1>1, <2>5, LookKeeps DEF KeepsPlaces
<1> QED
  BY <1>0, <1>1, <1>4, <1>5, IdleType, RestStep

\* The registry's other writers only add rows or write over the row of a service.
LEMMA RegistryStep ==
  ASSUME StewardInv, UNCHANGED <<phase, conn, running, last, iam, file, pass>>,
         registry' \in RegistryType, \A s \in Service : registry[s].life => registry'[s].life,
         patch' \in Patches, patch'.at \in Service => patch'.row.life
  PROVE  StewardInv'
<1>1. KeepsPlaces
  BY GrowsKeeps DEF Grows
<1>2. Typed' /\ SingleFlight'
  BY DEF StewardInv, Typed, SingleFlight, Active
<1>3. ASSUME NEW d \in Caller PROVE LookedUp(d)' /\ Behind(d)'
  BY <1>1 DEF StewardInv, LookedUp, Behind, Active, Object, Svc, KeepsPlaces
<1>4. CleanMeansInPlace'
  BY <1>1 DEF StewardInv, CleanMeansInPlace, AllInPlace, KeepsPlaces
<1>5. CreatedOnce' /\ ClientsHaveKeys' /\ WindowKeepsKeys'
  BY DEF StewardInv, CreatedOnce, ClientsHaveKeys, WindowKeepsKeys
<1> QED
  BY <1>2, <1>3, <1>4, <1>5 DEF StewardInv

\* Setup's mirror, and the two halves of a PATCH.
LEMMA WritersKeep ==
  ASSUME StewardInv, PatchWrites \/ \E s \in Service : MirrorInserts(s) \/ PatchReads(s)
  PROVE  StewardInv'
<1>0. registry \in [Service -> Row] /\ patch \in Patches
  BY DEF StewardInv, Typed, RegistryType
<1>1. ASSUME NEW s \in Service, MirrorInserts(s) PROVE StewardInv'
  <2>1. /\ registry' = [registry EXCEPT ![s].life = TRUE]
        /\ UNCHANGED <<phase, conn, running, last, iam, file, pass, patch>>
    BY <1>1 DEF MirrorInserts
  <2>2. PICK row : row = [registry[s] EXCEPT !.life = TRUE]
    OBVIOUS
  <2>3. row \in Row /\ row.life
    BY <1>0, <2>2 DEF Row
  <2>4. registry' = [registry EXCEPT ![s] = row]
    BY <1>0, <2>1, <2>2
  <2>5. registry' \in RegistryType /\ \A t \in Service : registry[t].life => registry'[t].life
    BY <1>0, <2>3, <2>4 DEF RegistryType
  <2>6. patch' \in Patches /\ (patch'.at \in Service => patch'.row.life)
    BY <1>0, <2>1 DEF StewardInv
  <2> QED
    BY <2>1, <2>5, <2>6, RegistryStep
<1>2. ASSUME NEW s \in Service, PatchReads(s) PROVE StewardInv'
  <2>1. PICK status \in {"running", registry[s].status} :
          /\ registry[s].life
          /\ patch' = [at |-> s, row |-> [registry[s] EXCEPT !.status = status,
                                                             !.stamped = @ \/ status = "running"]]
          /\ UNCHANGED <<phase, conn, running, last, iam, file, pass, registry>>
    BY <1>2 DEF PatchReads
  <2>2. registry[s] \in Row /\ status \in Status
    BY <1>0, <2>1 DEF Row, Status
  <2>3. PICK stamped \in BOOLEAN : stamped = (registry[s].stamped \/ status = "running")
    BY Zenon
  <2>4. PICK row : row = [registry[s] EXCEPT !.status = status, !.stamped = stamped]
    OBVIOUS
  <2>5. row \in Row /\ row.life
    BY <2>1, <2>2, <2>4 DEF Row
  <2>6. patch' = [at |-> s, row |-> row]
    BY <2>1, <2>3, <2>4
  <2>7. patch' \in Patches /\ patch'.row.life
    BY <2>5, <2>6 DEF Patches
  <2>8. registry' \in RegistryType
    BY <1>0, <2>1 DEF RegistryType
  <2> QED
    BY <2>1, <2>7, <2>8, RegistryStep
<1>3. CASE PatchWrites
  <2>1. /\ patch.at \in Service /\ registry' = [registry EXCEPT ![patch.at] = patch.row]
        /\ patch' = NoPatch
        /\ UNCHANGED <<phase, conn, running, last, iam, file, pass>>
    BY <1>3 DEF PatchWrites
  <2>2. patch.row \in Row /\ patch.row.life
    BY <1>0, <2>1 DEF Patches, StewardInv
  <2>3. registry' \in RegistryType /\ \A t \in Service : registry[t].life => registry'[t].life
    BY <1>0, <2>1, <2>2 DEF RegistryType
  <2>4. patch' \in Patches /\ patch'.at \notin Service
    BY <2>1, CatalogAssumption DEF NoPatch, Patches, NoRow, Row, Status
  <2> QED
    BY <2>1, <2>3, <2>4, RegistryStep
<1> QED
  BY <1>1, <1>2, <1>3

\* A restart forgets the passes, and nothing else that matters.
LEMMA RestartKeeps ==
  ASSUME StewardInv, CoreRestart
  PROVE  StewardInv'
<1>1. /\ pass' = [c \in Caller |-> Idle]
      /\ conn' = FALSE /\ last' = "none" /\ patch' = NoPatch
      /\ UNCHANGED <<phase, iam, file, registry>>
  BY DEF CoreRestart
<1>2. patch' \in Patches /\ patch'.at \notin Service
  BY <1>1, CatalogAssumption DEF NoPatch, Patches, NoRow, Row, Status
<1>3. pass' \in PassType /\ \A c \in Caller : pass'[c].at = "idle"
  BY <1>1, IdleType DEF PassType
<1>4. Typed'
  BY <1>1, <1>2, <1>3 DEF StewardInv, Typed
<1>5. SingleFlight'
  BY <1>1, <1>3 DEF StewardInv, SingleFlight, Active, Caller
<1>6. \A c \in Caller : LookedUp(c)' /\ Behind(c)'
  BY <1>3, Inactive
<1>7. CleanMeansInPlace'
  BY <1>1 DEF CleanMeansInPlace
<1>8. CreatedOnce' /\ ClientsHaveKeys' /\ WindowKeepsKeys'
  BY <1>1 DEF StewardInv, CreatedOnce, ClientsHaveKeys, WindowKeepsKeys
<1> QED
  BY <1>2, <1>4, <1>5, <1>6, <1>7, <1>8 DEF StewardInv

----------------------------------------------------------------------------
\* The theorems.

\* A fresh install, and an upgraded Core.
LEMMA StewardInit == Init => StewardInv
<1> SUFFICES ASSUME Init PROVE StewardInv
  OBVIOUS
<1>1. /\ phase \in {"window", "control"} /\ iam = [s \in Service |-> NoObjects]
      /\ file = [s \in Service |-> NoFile] /\ registry = [s \in Service |-> NoRow]
      /\ conn = FALSE /\ pass = [c \in Caller |-> Idle]
      /\ last = "none" /\ patch = NoPatch
  BY DEF Init
<1>2. patch \in Patches /\ patch.at \notin Service
  BY <1>1, CatalogAssumption DEF NoPatch, Patches, NoRow, Row, Status
<1>3. pass \in PassType /\ \A c \in Caller : pass[c].at = "idle"
  BY <1>1, IdleType DEF PassType
<1>4. NoObjects \in Objects
  BY DEF NoObjects, Objects
<1>5. NoRow \in Row
  BY DEF NoRow, Row, Status
<1>6. Typed
  BY <1>1, <1>2, <1>3, <1>4, <1>5 DEF Typed, IamType, FileType, Files, RegistryType
<1>7. SingleFlight
  BY <1>1, <1>3 DEF SingleFlight, Active, Caller
<1>8. \A c \in Caller : LookedUp(c) /\ Behind(c)
  BY <1>3 DEF LookedUp, Consistent, Behind, Active
<1>9. \A s \in Service : /\ iam[s].service = 0 /\ iam[s].api = 0 /\ iam[s].clients = 0
                         /\ iam[s].policy = 0 /\ iam[s].client = NoKey
  BY <1>1 DEF NoObjects
<1>10. CreatedOnce /\ ClientsHaveKeys /\ WindowKeepsKeys /\ CleanMeansInPlace
  BY <1>1, <1>9 DEF CreatedOnce, ClientsHaveKeys, WindowKeepsKeys, CleanMeansInPlace
<1> QED
  BY <1>2, <1>6, <1>7, <1>8, <1>10 DEF StewardInv

\* Every step of the steward, of setup and of the registry's writers keeps it.
LEMMA StewardStep == StewardInv /\ [Next]_vars => StewardInv'
<1> SUFFICES ASSUME StewardInv, [Next]_vars PROVE StewardInv'
  OBVIOUS
<1>0. "setup" \in Caller /\ \A c \in {"boot", "post"} : c \in Caller
  BY DEF Caller
<1>1. CASE SetupStep
  BY <1>0, <1>1, SetupEndsKeep, WindowServiceKeeps, WindowResourceAPIKeeps,
     WindowServicePolicyKeeps, WindowServiceClientKeeps, WindowCreateClientKeeps,
     ReadKeyKeeps, RecordKeyKeeps, NothingToGrantKeeps
  DEF SetupStep
<1>2. ASSUME NEW c \in {"boot", "post"}, PassStep(c) PROVE StewardInv'
  <2>1. CASE Connect(c) \/ EndPass(c) \/ NothingToGrant(c) \/ Find(c) \/ Create(c)
             \/ ReadRow(c)
    BY <1>0, <2>1, ConnectKeeps, EndPassKeeps, NothingToGrantKeeps, FindKeeps, CreateKeeps,
       ReadRowKeeps
  <2>2. CASE EnsureRegistered(c) \/ ListPermissions(c) \/ CreatePermission(c)
             \/ AssignServicePolicy(c)
    BY <1>0, <2>2, EnsureRegisteredKeeps, ListPermissionsKeeps, CreatePermissionKeeps,
       AssignServicePolicyKeeps
  <2>3. CASE FindClient(c) \/ ReadKey(c) \/ RecordKey(c) \/ CreateClient(c)
    BY <1>0, <2>3, FindClientKeeps, ReadKeyKeeps, RecordKeyKeeps, CreateClientKeeps
  <2> QED
    BY <1>2, <2>1, <2>2, <2>3 DEF PassStep
<1>3. ASSUME NEW c \in {"boot", "post"}, Begin(c) PROVE StewardInv'
  BY <1>3, BeginKeeps
<1>4. CASE PatchWrites \/ \E s \in Service : MirrorInserts(s) \/ PatchReads(s)
  BY <1>4, WritersKeep
<1>5. CASE CoreRestart
  BY <1>5, RestartKeeps
<1>6. CASE GiveUp \/ UNCHANGED vars
  <2>1. /\ UNCHANGED <<phase, conn, running, last, iam, file, pass>>
        /\ registry' = registry /\ patch' = patch
    BY <1>6 DEF GiveUp, vars
  <2> QED
    BY <2>1, RegistryStep DEF StewardInv, Typed
<1> QED
  BY <1>1, <1>2, <1>3, <1>4, <1>5, <1>6 DEF Next

\* StewardInv holds of every behaviour of the steward.
LEMMA StewardIsInductive == Spec => []StewardInv
<1>1. Init => StewardInv
  BY StewardInit
<1>2. StewardInv /\ [Next]_vars => StewardInv'
  BY StewardStep
<1> QED
  BY <1>1, <1>2, PTL DEF Spec

\* No object of Auth is created twice, whatever passes overlap, fail, are cut
\* short or are asked for (Runner.tryBegin, and find before every create).
THEOREM CreatedAtMostOnce == Spec => []CreatedOnce
<1>1. StewardInv => CreatedOnce
  BY DEF StewardInv
<1> QED
  BY <1>1, StewardIsInductive, PTL

\* A clean report (Report.Failed = 0) means that the whole catalog is in place, and
\* it stays so under every later pass, failure and restart.
THEOREM CleanReportsAreTrue == Spec => []CleanMeansInPlace
<1>1. StewardInv => CleanMeansInPlace
  BY DEF StewardInv
<1> QED
  BY <1>1, StewardIsInductive, PTL

\* In the setup window the private key of every client that reached Auth is on file
\* (FileKeyStore.Record before the call, never discarded after one that may have
\* reached Auth).
THEOREM KeysSurviveTheWindow == Spec => []WindowKeepsKeys
<1>1. StewardInv => WindowKeepsKeys
  BY DEF StewardInv
<1> QED
  BY <1>1, StewardIsInductive, PTL
=============================================================================
