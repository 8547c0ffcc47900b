------------------------------- MODULE Console -------------------------------
(***************************************************************************)
(* The /api/v1 handlers and the domain services behind them                *)
(* (internal/{tenant,project,provider,service,agent,resource,event}), for  *)
(* callers that race each other. A request passes the guard, is parsed by  *)
(* its handler and runs its service method one SQL statement at a time:    *)
(* between two statements of a method others commit. No method opens a     *)
(* transaction.                                                            *)
(*                                                                         *)
(* Core itself runs one of the methods too: EnsureRegistered, called by    *)
(* the steward when a capability's wiring is in place.                     *)
(***************************************************************************)
EXTENDS Tables, Access, ResourceRow, AgentRow

CONSTANTS
  Tenant, Project, Provider, Service, Resource,   \* row ids; Agent is ResourceRow's
  SystemTenant,    \* the row setup made the system tenant
  Name, BadName,   \* names; BadName are those no MRN may contain
  Val,             \* values of the columns an update may change
  Seeds,           \* tables that earlier requests may have left
  SystemService,   \* the capabilities the steward registers
  MaxRequests      \* bound: calls made in a behaviour

ASSUME SystemTenantAssumption == SystemTenant \in Tenant
ASSUME BadNameAssumption == BadName \subseteq Name /\ "" \notin Name
ASSUME SystemServiceAssumption == SystemService \subseteq Name
ASSUME MaxRequestsAssumption == MaxRequests \in Nat

VARIABLES
  db,       \* the tables
  guard,    \* authz.Guard.Mode, resolved at boot
  gate,     \* setup.Gate, resolved with it
  open,     \* the REST server accepts requests
  req       \* req[c]: where the c-th call is, or how it ended

cvars == <<db, guard, gate, open, req>>

\* The calls of a behaviour, in the order they start: requests and the steward's.
Call == 1 .. MaxRequests

----------------------------------------------------------------------------
\* The route tables. A handler parses what its route carries (400 when it does
\* not parse), calls its service method and answers with ok or with
\* HandleServiceError.
Route(method, parses, ok) == [method |-> method, parses |-> parses, ok |-> ok]

TenantRoutes ==
  [list      |-> Route("GET", {}, 200),
   getSystem |-> Route("GET", {}, 200),
   create    |-> Route("POST", {"body"}, 201),
   get       |-> Route("GET", {"uuid"}, 200),
   update    |-> Route("PATCH", {"uuid", "body"}, 200),
   remove    |-> Route("DELETE", {"uuid"}, 200)]

ProjectRoutes ==
  [list   |-> Route("GET", {"tenant"}, 200),
   create |-> Route("POST", {"body"}, 201),
   get    |-> Route("GET", {"uuid"}, 200),
   update |-> Route("PATCH", {"uuid", "body"}, 200),
   remove |-> Route("DELETE", {"uuid"}, 200)]

ProviderRoutes ==
  [list   |-> Route("GET", {"tenant"}, 200),
   create |-> Route("POST", {"body"}, 201),
   get    |-> Route("GET", {"uuid"}, 200),
   update |-> Route("PATCH", {"uuid", "body"}, 200),
   remove |-> Route("DELETE", {"uuid"}, 200)]

ServiceRoutes ==
  [list         |-> Route("GET", {"tenant"}, 200),
   listSystem   |-> Route("GET", {}, 200),
   create       |-> Route("POST", {"body"}, 201),
   get          |-> Route("GET", {"uuid"}, 200),
   updateStatus |-> Route("PATCH", {"uuid", "body"}, 200),
   remove       |-> Route("DELETE", {"uuid"}, 200)]

AgentRoutes ==
  [list      |-> Route("GET", {"tenant"}, 200),
   create    |-> Route("POST", {"body"}, 201),
   get       |-> Route("GET", {"uuid"}, 200),
   update    |-> Route("PATCH", {"uuid", "body"}, 200),
   heartbeat |-> Route("POST", {"uuid"}, 200),
   remove    |-> Route("DELETE", {"uuid"}, 200)]

ResourceRoutes ==
  [list         |-> Route("GET", {"project"}, 200),
   create       |-> Route("POST", {"body"}, 201),
   get          |-> Route("GET", {"uuid"}, 200),
   updateSpec   |-> Route("PATCH", {"uuid", "body"}, 200),
   updateStatus |-> Route("PATCH", {"uuid", "body"}, 200),
   remove       |-> Route("DELETE", {"uuid"}, 200)]

\* Read-only: no mutating verb is registered.
EventRoutes == [list |-> Route("GET", {}, 200)]

SetupRoutes == [status |-> Route("GET", {}, 200), trigger |-> Route("POST", {"body"}, 200)]

StewardRoutes == [status |-> Route("GET", {}, 200), apply |-> Route("POST", {}, 200)]

\* server.Router: the segments of /api/v1.
Router ==
  [tenants |-> TenantRoutes, projects |-> ProjectRoutes, services |-> ServiceRoutes,
   providers |-> ProviderRoutes, agents |-> AgentRoutes, resources |-> ResourceRoutes,
   events |-> EventRoutes, setup |-> SetupRoutes, steward |-> StewardRoutes,
   capabilities |-> [serve |-> Route("GET", {}, 200)]]

----------------------------------------------------------------------------
\* Requests.

\* What a request carries: the uuid in its path, the parent it names, and of its
\* body what the services look at. "" is a field left out.
NoIn == [id |-> "", of |-> "", via |-> "", name |-> "", sys |-> FALSE, val |-> ""]

Ids == [tenants |-> Tenant, projects |-> Project, services |-> Service,
        providers |-> Provider, agents |-> Agent, resources |-> Resource]

\* The columns the model keeps of each table.
Columns ==
  [tenants |-> {"life", "name", "is_system", "val"},
   projects |-> {"life", "tenant", "name", "val"},
   providers |-> {"life", "tenant", "name", "val"},
   services |-> {"life", "tenant", "name", "kind", "is_system", "status", "stamped"},
   agents |-> DOMAIN AbsentAgent, resources |-> DOMAIN AbsentRow]

Columned(t, row) == row = [x \in Columns[t] |-> row[x]]

\* A table has a row for each of its ids, with the table's columns.
Shaped(d) ==
  /\ d = [t \in DOMAIN Ids \cup {"own"} |-> d[t]]
  /\ \A t \in DOMAIN Ids : /\ d[t] = [i \in Ids[t] |-> d[t][i]]
                           /\ \A i \in Ids[t] : Columned(t, d[t][i])

ASSUME SeedsAssumption == \A d \in Seeds : Shaped(d)

\* (Bound: a request that is refused for its own fields names the first parents.)
WithoutParents(in) ==
  [in EXCEPT !.of = IF @ \in Project THEN CHOOSE p \in Project : TRUE ELSE SystemTenant, !.via = ""]

Inputs(seg, op) ==
  CASE op \in {"get", "remove", "heartbeat"} -> {[NoIn EXCEPT !.id = i] : i \in Ids[seg]}
    [] op \in {"getSystem", "listSystem"} \/ seg \notin DOMAIN Ids -> {NoIn}
    [] op = "list" ->
         {[NoIn EXCEPT !.of = i] : i \in CASE seg = "tenants" -> {""}
                                          [] seg = "resources" -> Project
                                          [] OTHER -> Tenant}
    [] op = "create" ->
         {in \in [id: {""}, of: IF seg = "resources" THEN Project ELSE Tenant,
                  via: IF seg = "resources" THEN Provider \cup {""} ELSE {""},
                  name: Name \cup {""},
                  sys: IF seg \in {"tenants", "services"} THEN BOOLEAN ELSE {FALSE},
                  val: IF seg = "resources" THEN {"spec", "invalid"} ELSE Val] :
            /\ seg = "tenants" => in.of = SystemTenant
            /\ seg \in {"providers", "agents", "services"} => in.name \notin BadName
            /\ in.name = "" \/ in.val = "invalid" => in = WithoutParents(in)}
    [] op \in {"update", "updateSpec", "updateStatus"} ->
         {[NoIn EXCEPT !.id = i, !.val = v] :
            i \in Ids[seg],
            v \in CASE seg = "services" -> {"", "running", "failed"}
                    [] seg = "agents" -> {"", "offline"}
                    [] op = "updateSpec" -> {"spec", "invalid"}
                    [] op = "updateStatus" -> {"", "running"}
                    [] OTHER -> Val \cup {""}}

Idle == [pc |-> "idle", seg |-> "", op |-> "", in |-> NoIn, row |-> NoRow,
         may |-> FALSE, wrote |-> FALSE, code |-> 0]

\* A call that has reached its method, and one that has been answered.
Called(seg, op, in, may) ==
  [pc |-> "call", seg |-> seg, op |-> op, in |-> in, row |-> NoRow,
   may |-> may, wrote |-> FALSE, code |-> 0]

Answered(seg, code, wrote, may) ==
  [pc |-> "done", seg |-> seg, op |-> "", in |-> NoIn, row |-> NoRow,
   may |-> may, wrote |-> wrote, code |-> code]

Done(code, wrote, may) == Answered("", code, wrote, may)

AllWrites == {routePermissions[s].Write : s \in DOMAIN routePermissions}
AllReads == {routePermissions[s].Read : s \in DOMAIN routePermissions \ {"steward"}}

\* The callers told apart: no usable token, the setup token, read grants, every
\* grant.
Callers == {[bearer |-> "none", grants |-> {}, setup |-> "bad"],
            [bearer |-> "none", grants |-> {}, setup |-> "good"],
            [bearer |-> "bad", grants |-> AllWrites, setup |-> "none"],
            [bearer |-> "good", grants |-> AllReads, setup |-> "none"],
            [bearer |-> "good", grants |-> AllReads \cup AllWrites, setup |-> "none"]}

Starts(c) == \A d \in Call : req[d] = Idle <=> d >= c

\* May the caller have something written? On a mutating verb: with a good token that
\* carries the segment's write permission or on an open development server; to setup
\* with the setup token or as an administrator, or on a development server that has
\* no such token.
MayWrite(caller, seg, method) ==
  /\ method \notin ReadMethods
  /\ IF seg = "setup"
     THEN \/ gate = "open"
          \/ gate = "token" /\ caller.setup = "good"
          \/ caller.bearer = "good" /\ "core:admin" \in caller.grants
     ELSE \/ guard = "dev-open"
          \/ caller.bearer = "good" /\ HasPermission(caller, routePermissions[seg].Write)

\* A request arrives: the guard or the setup gate, then the handler's parsing.
Arrive(c) ==
  /\ open /\ Starts(c)
  /\ \E seg \in DOMAIN Router : \E op \in DOMAIN Router[seg] : \E caller \in Callers :
       LET route == Router[seg][op]
           code == IF seg = "setup" /\ op = "trigger" THEN trigger(gate, guard, caller)
                   ELSE Middleware(guard, caller, seg, route.method)
       IN \/ code # 0 /\ req' = [req EXCEPT ![c] = Done(code, FALSE, FALSE)]
          \/ code = 0 /\ route.parses # {} /\ req' = [req EXCEPT ![c] = Done(400, FALSE, FALSE)]
          \/ code = 0 /\ \E in \in Inputs(seg, op) :
               req' = [req EXCEPT ![c] =
                 Called(seg, op, in, MayWrite(caller, seg, route.method))]
  /\ UNCHANGED <<db, guard, gate, open>>

----------------------------------------------------------------------------
\* The statements of a method. At(c, seg, op, pc): c's request is about to run
\* the statement pc.
At(c, seg, op, pc) == req[c].seg = seg /\ req[c].op = op /\ req[c].pc = pc
In(c) == req[c].in
Cur(c) == req[c].row

Goto(c, pc, row) == req' = [req EXCEPT ![c].pc = pc, ![c].row = row]
Keep(c, pc, in, row) == req' = [req EXCEPT ![c].pc = pc, ![c].in = in, ![c].row = row]

Answer(c, err) ==
  IF err # "" THEN HandleServiceError(err)
  ELSE IF req[c].op = "ensure" THEN 200 ELSE Router[req[c].seg][req[c].op].ok

\* The method returns: success, or an error for HandleServiceError. (EnsureRegistered
\* has no route; its caller logs the error.)
Reply(c, err) ==
  req' = [req EXCEPT ![c] = Done(Answer(c, err), req[c].wrote, req[c].may)]

\* A row is read and kept; or only its being there matters.
Look(c, row, missing, pc) ==
  /\ IF row.life = "live" THEN Goto(c, pc, row) ELSE Reply(c, missing)
  /\ UNCHANGED db
Check(c, row, missing, pc) ==
  /\ CASE row.life # "live" -> Reply(c, missing)
       [] row.life = "live" /\ pc = "reply" -> Reply(c, "")
       [] OTHER -> Goto(c, pc, Cur(c))
  /\ UNCHANGED db

\* A row is written: the method returns, or goes on to resolve the row's parent.
Save(c, res, missing, pc) ==
  LET err == IF res.err = "norows" THEN missing ELSE res.err
  IN /\ db' = res.db
     /\ req' = [req EXCEPT ![c] =
          IF err = "" /\ pc # "reply" THEN [@ EXCEPT !.pc = pc, !.wrote = res.db # db]
          ELSE Done(Answer(c, err), res.db # db, @.may)]

\* An insert takes an id no row has had.
Inserted(c, seg, Stmt(_), pc) ==
  \E i \in Ids[seg] :
    /\ Stmt(i).err = "" => db[seg][i].life = "absent"
    /\ Save(c, Stmt(i), "untyped", pc)

\* A statement fails, or the caller has gone and its context is cancelled: the
\* error has no type.
StatementFails(c) ==
  /\ req[c].pc \notin {"idle", "done"}
  /\ req[c].seg \notin {"setup", "steward", "capabilities"}
  /\ Reply(c, "untyped")
  /\ UNCHANGED <<db, guard, gate, open>>

----------------------------------------------------------------------------
\* What the services have in common. A method's first statement runs at "call".

\* resolveTenantUUID, the last statement of a Get or an Update: the tenant's being
\* gone is no typed error. (Mutant: it is a 404, like the row's own absence.)
resolveTenantUUID_NotFound(c, t) == Check(c, GetTenantByID(db, t), "notfound", "reply")

resolveTenantUUID(c, t) == Check(c, GetTenantByID(db, t), "untyped", "reply")

TenantOf(seg, i) == IF seg = "agents" THEN db.own[i].of ELSE db[seg][i].tenant

\* Get: the row, then its tenant.
GetOwned(c, seg, row) ==
  \/ At(c, seg, "get", "call") /\ Look(c, row, "notfound", "resolve")
  \/ At(c, seg, "get", "resolve") /\ resolveTenantUUID(c, TenantOf(seg, In(c).id))

\* List: the tenant, its rows, their number. How a page is cut is not modelled.
Page(ids) == [life |-> "live", ids |-> ids]

ListOwned(c, seg, List) ==
  \/ At(c, seg, "list", "call")
     /\ Check(c, GetTenantByUUID(db, In(c).of), "notfound", "list")
  \/ At(c, seg, "list", "list") /\ Goto(c, "count", Page(List)) /\ UNCHANGED db
  \/ At(c, seg, "list", "count") /\ Reply(c, "") /\ UNCHANGED db

\* Create: a name, the tenant, the row.
CreateOwnedBy(c, seg, Stmt(_)) ==
  \/ /\ At(c, seg, "create", "call") /\ In(c).name = ""
     /\ Reply(c, "validation") /\ UNCHANGED db
  \/ /\ At(c, seg, "create", "call") /\ In(c).name # ""
     /\ Check(c, GetTenantByUUID(db, In(c).of), "notfound", "insert")
  \/ /\ At(c, seg, "create", "insert") /\ Inserted(c, seg, Stmt, "reply")

\* Update: the row, the write of every column, the tenant. What the request left
\* out is filled in from the row read before.
Filled(c) == IF In(c).val = "" THEN Cur(c).val ELSE In(c).val

UpdateOwned(c, seg, op, row, res, missing) ==
  \/ At(c, seg, op, "call") /\ Look(c, row, "notfound", "write")
  \/ At(c, seg, op, "write") /\ Save(c, res, missing, "resolve")
  \/ At(c, seg, op, "resolve") /\ resolveTenantUUID(c, TenantOf(seg, In(c).id))

----------------------------------------------------------------------------
\* tenant.Service
TenantCreate(c) ==
  /\ At(c, "tenants", "create", "call")
  /\ \/ In(c).name = "" /\ Reply(c, "validation") /\ UNCHANGED db
     \/ /\ In(c).name # ""
        /\ Inserted(c, "tenants",
             LAMBDA i : CreateTenant(db, i, In(c).name, In(c).sys, In(c).val), "reply")

TenantGet(c) ==
  At(c, "tenants", "get", "call") /\ Check(c, GetTenantByUUID(db, In(c).id), "notfound", "reply")

TenantList(c) ==
  \/ At(c, "tenants", "list", "call")
     /\ Goto(c, "count", Page(ListTenants(db))) /\ UNCHANGED db
  \/ At(c, "tenants", "list", "count") /\ Reply(c, "") /\ UNCHANGED db

TenantUpdate(c) ==
  \/ At(c, "tenants", "update", "call")
     /\ Look(c, GetTenantByUUID(db, In(c).id), "notfound", "write")
  \/ At(c, "tenants", "update", "write")
     /\ Save(c, UpdateTenant(db, In(c).id, Filled(c)), "notfound", "reply")

\* The system tenant is refused on the row as it was read.
TenantDelete(c) ==
  \/ /\ At(c, "tenants", "remove", "call") /\ GetTenantByUUID(db, In(c).id).life = "live"
     /\ db.tenants[In(c).id].is_system /\ Reply(c, "forbidden") /\ UNCHANGED db
  \/ /\ At(c, "tenants", "remove", "call")
     /\ db.tenants[In(c).id].life = "live" => ~db.tenants[In(c).id].is_system
     /\ Check(c, GetTenantByUUID(db, In(c).id), "notfound", "write")
  \/ /\ At(c, "tenants", "remove", "write")
     /\ Save(c, SoftDeleteTenant(db, In(c).id), "", "reply")

TenantGetSystem(c) ==
  /\ At(c, "tenants", "getSystem", "call")
  /\ Reply(c, IF GetSystemTenant(db) = {} THEN "notfound" ELSE "") /\ UNCHANGED db

----------------------------------------------------------------------------
\* project.Service and provider.Service
ProjectCreate(c) ==
  CreateOwnedBy(c, "projects",
    LAMBDA i : CreateProject(db, i, In(c).of, In(c).name, In(c).val))
ProjectGet(c) == GetOwned(c, "projects", GetProjectByUUID(db, In(c).id))
ProjectList(c) == ListOwned(c, "projects", ListProjectsByTenant(db, In(c).of))
ProjectUpdate(c) ==
  UpdateOwned(c, "projects", "update", GetProjectByUUID(db, In(c).id),
    UpdateProject(db, In(c).id, Filled(c)), "notfound")
ProjectDelete(c) ==
  /\ At(c, "projects", "remove", "call")
  /\ Save(c, SoftDeleteProject(db, In(c).id), "", "reply")

ProviderCreate(c) ==
  CreateOwnedBy(c, "providers",
    LAMBDA i : CreateProvider(db, i, In(c).of, In(c).name, In(c).val))
ProviderGet(c) == GetOwned(c, "providers", GetProviderByUUID(db, In(c).id))
ProviderList(c) == ListOwned(c, "providers", ListProvidersByTenant(db, In(c).of))
ProviderUpdate(c) ==
  UpdateOwned(c, "providers", "update", GetProviderByUUID(db, In(c).id),
    UpdateProvider(db, In(c).id, Filled(c)), "notfound")
ProviderDelete(c) ==
  /\ At(c, "providers", "remove", "call")
  /\ Save(c, SoftDeleteProvider(db, In(c).id), "", "reply")

----------------------------------------------------------------------------
\* service.Service
ServiceCreate(c) ==
  CreateOwnedBy(c, "services",
    LAMBDA i : CreateService(db, i, In(c).of, In(c).name, In(c).name, In(c).sys, "pending", FALSE))
ServiceGet(c) == GetOwned(c, "services", GetServiceByUUID(db, In(c).id))
ServiceListByTenant(c) == ListOwned(c, "services", ListServicesByTenant(db, In(c).of))

\* registered_at is stamped the first time the service reports running. That the
\* row went away since the read is no typed error here.
ServiceUpdateStatus(c) ==
  LET status == IF In(c).val = "" THEN Cur(c).status ELSE In(c).val
  IN UpdateOwned(c, "services", "updateStatus", GetServiceByUUID(db, In(c).id),
       UpdateServiceStatus(db, In(c).id, status, Cur(c).stamped \/ status = "running"), "untyped")

ServiceDelete(c) ==
  \/ /\ At(c, "services", "remove", "call") /\ GetServiceByUUID(db, In(c).id).life = "live"
     /\ db.services[In(c).id].is_system /\ Reply(c, "forbidden") /\ UNCHANGED db
  \/ /\ At(c, "services", "remove", "call")
     /\ db.services[In(c).id].life = "live" => ~db.services[In(c).id].is_system
     /\ Check(c, GetServiceByUUID(db, In(c).id), "notfound", "write")
  \/ /\ At(c, "services", "remove", "write")
     /\ Save(c, SoftDeleteService(db, In(c).id), "", "reply")

\* ListSystem resolves the tenant of each row; one that is gone fails the listing.
ServiceListSystem(c) ==
  \/ /\ At(c, "services", "listSystem", "call")
     /\ IF ListSystemServices(db) = {} THEN Reply(c, "")
        ELSE Goto(c, "resolve", Page(ListSystemServices(db)))
     /\ UNCHANGED db
  \/ /\ At(c, "services", "listSystem", "resolve")
     /\ \E i \in Cur(c).ids :
          /\ CASE GetTenantByID(db, db.services[i].tenant).life # "live" -> Reply(c, "untyped")
               [] Cur(c).ids = {i} -> Reply(c, "")
               [] OTHER -> Goto(c, "resolve", Page(Cur(c).ids \ {i}))
     /\ UNCHANGED db

\* (Mutant: the row is moved to registered whatever it was.)
RegisteredStatus_Always(cur) == "registered"

RegisteredStatus(cur) == IF cur.status = "pending" THEN "registered" ELSE cur.status

\* EnsureRegistered(name, kind, TRUE): the system tenant, its row of that name,
\* then the insert, nothing, or the write of what the read row implies.
EnsureRegistered(c) ==
  \/ /\ At(c, "services", "ensure", "call")
     /\ IF GetSystemTenant(db) = {} THEN Reply(c, "notfound")
        ELSE \E t \in GetSystemTenant(db) : Keep(c, "find", [In(c) EXCEPT !.of = t], Cur(c))
     /\ UNCHANGED db
  \/ /\ At(c, "services", "ensure", "find")
     /\ LET found == ServiceOfTenant(db, In(c).of, In(c).name)
        IN \/ found = {} /\ Goto(c, "insert", NoRow)
           \/ \E i \in found :
                IF db.services[i].status # "pending" /\ db.services[i].stamped THEN Reply(c, "")
                ELSE Keep(c, "write", [In(c) EXCEPT !.id = i], db.services[i])
     /\ UNCHANGED db
  \/ /\ At(c, "services", "ensure", "insert")
     /\ Inserted(c, "services", LAMBDA i :
          CreateService(db, i, In(c).of, In(c).name, In(c).name, TRUE, "registered", TRUE), "reply")
  \/ /\ At(c, "services", "ensure", "write")
     /\ Save(c, UpdateServiceStatus(db, In(c).id, RegisteredStatus(Cur(c)), TRUE),
             "untyped", "reply")

----------------------------------------------------------------------------
\* agent.Service, as the console reaches it; AgentRegistry has the gateway's side.
AgentCreate(c) ==
  CreateOwnedBy(c, "agents", LAMBDA i :
    CreateOwned(db, "agents", i, [of |-> In(c).of, name |-> In(c).name],
                CreateAgent(db.agents[i]),
                LAMBDA own : own = [of |-> In(c).of, name |-> In(c).name]))
AgentGet(c) == GetOwned(c, "agents", GetAgentByUUID(db, In(c).id))
AgentList(c) == ListOwned(c, "agents", ListAgentsByTenant(db, In(c).of))
AgentUpdate(c) ==
  UpdateOwned(c, "agents", "update", GetAgentByUUID(db, In(c).id),
    Update(db, "agents", In(c).id, UpdateAgentStatus(Cur(c), db.agents[In(c).id], In(c).val)),
    "notfound")
Heartbeat(c) ==
  \/ /\ At(c, "agents", "heartbeat", "call")
     /\ Save(c, Update(db, "agents", In(c).id, AgentHeartbeat(db.agents[In(c).id])),
             "notfound", "resolve")
  \/ /\ At(c, "agents", "heartbeat", "resolve")
     /\ resolveTenantUUID(c, TenantOf("agents", In(c).id))
AgentDelete(c) ==
  /\ At(c, "agents", "remove", "call")
  /\ Save(c, SoftDelete(db, "agents", In(c).id), "", "reply")

----------------------------------------------------------------------------
\* resource.Service, as the console reaches it; ResourceFeed has the rest.
resolveProjectUUID(c, p) == Check(c, GetProjectByID(db, p), "untyped", "reply")

\* buildMRN puts the names of tenant, project and resource into one name, and none
\* of them was checked when its row was created.
buildMRN(p, name) ==
  {db.tenants[db.projects[p].tenant].name, db.projects[p].name, name} \cap BadName = {}

\* The project, its tenant, the provider if there is one, the spec and the MRN,
\* the row.
ResourceCreate(c) ==
  LET own == [of |-> In(c).of, name |-> In(c).name]
  IN \/ /\ At(c, "resources", "create", "call") /\ In(c).name = ""
        /\ Reply(c, "validation") /\ UNCHANGED db
     \/ /\ At(c, "resources", "create", "call") /\ In(c).name # ""
        /\ Look(c, GetProjectByUUID(db, In(c).of), "notfound", "tenant")
     \/ /\ At(c, "resources", "create", "tenant")
        /\ Check(c, GetTenantByID(db, Cur(c).tenant), "untyped",
                 IF In(c).via = "" THEN "validate" ELSE "provider")
     \/ /\ At(c, "resources", "create", "provider")
        /\ Check(c, GetProviderByUUID(db, In(c).via), "notfound", "validate")
     \/ /\ At(c, "resources", "create", "validate")
        /\ \/ /\ In(c).val = "invalid" \/ ~buildMRN(In(c).of, In(c).name)
              /\ Reply(c, "validation") /\ UNCHANGED db
           \/ /\ In(c).val # "invalid" /\ buildMRN(In(c).of, In(c).name)
              /\ Inserted(c, "resources", LAMBDA i :
                   CreateOwned(db, "resources", i, own, CreateResource(db.resources[i]),
                               LAMBDA o : o = own), "reply")

ResourceGet(c) ==
  \/ At(c, "resources", "get", "call")
     /\ Look(c, GetResourceByUUID(db, In(c).id), "notfound", "resolve")
  \/ At(c, "resources", "get", "resolve") /\ resolveProjectUUID(c, db.own[In(c).id].of)

ResourceListByProject(c) ==
  \/ At(c, "resources", "list", "call")
     /\ Check(c, GetProjectByUUID(db, In(c).of), "notfound", "list")
  \/ /\ At(c, "resources", "list", "list")
     /\ Goto(c, "count", Page(ListResourcesByProject(db, In(c).of))) /\ UNCHANGED db
  \/ At(c, "resources", "list", "count") /\ Reply(c, "") /\ UNCHANGED db

\* The row, the spec, project and tenant for the MRN, the write, the project again.
ResourceUpdateSpec(c) ==
  LET i == In(c).id p == db.own[i].of
  IN \/ /\ At(c, "resources", "updateSpec", "call")
        /\ IF In(c).val = "invalid" /\ GetResourceByUUID(db, i).life = "live"
           THEN Reply(c, "validation") /\ UNCHANGED db
           ELSE Look(c, GetResourceByUUID(db, i), "notfound", "project")
     \/ /\ At(c, "resources", "updateSpec", "project")
        /\ Check(c, GetProjectByID(db, p), "untyped", "tenant")
     \/ /\ At(c, "resources", "updateSpec", "tenant")
        /\ IF GetTenantByID(db, db.projects[p].tenant).life = "live" /\ ~buildMRN(p, db.own[i].name)
           THEN Reply(c, "validation") /\ UNCHANGED db
           ELSE Check(c, GetTenantByID(db, db.projects[p].tenant), "untyped", "write")
     \/ /\ At(c, "resources", "updateSpec", "write")
        /\ Save(c, Update(db, "resources", i, UpdateResourceSpec(db.resources[i])),
                "untyped", "resolve")
     \/ At(c, "resources", "updateSpec", "resolve") /\ resolveProjectUUID(c, p)

ResourceUpdateStatus(c) ==
  LET i == In(c).id
      rep == [state |-> In(c).val, observed |-> 0, status |-> "none"]
  IN \/ /\ At(c, "resources", "updateStatus", "call")
        /\ Look(c, GetResourceByUUID(db, i), "notfound", "write")
     \/ /\ At(c, "resources", "updateStatus", "write")
        /\ Save(c, Update(db, "resources", i, UpdateResourceStatus(Cur(c), db.resources[i], rep)),
                "untyped", "resolve")
     \/ At(c, "resources", "updateStatus", "resolve") /\ resolveProjectUUID(c, db.own[i].of)

ResourceDelete(c) ==
  LET i == In(c).id
  IN /\ At(c, "resources", "remove", "call")
     /\ Save(c, [Update(db, "resources", i, MarkResourceDeleting(db.resources[i])) EXCEPT !.err = ""],
             "", "reply")

\* event.Service.List
EventList(c) ==
  /\ req[c].seg = "events"
  /\ \/ req[c].pc = "call" /\ Goto(c, "count", NoRow)
     \/ req[c].pc = "count" /\ Reply(c, "")
  /\ UNCHANGED db

\* setup.Handler and authctrl.Handler. What a run of theirs does is in Setup and in
\* Steward. A setup run that finds another one running (409) has written nothing. One
\* that ends otherwise may have: a call that Auth refuses is answered 400 wherever in
\* the run it is made, CreateAdmin after the tenant, the clients and their keys.
SetupStatus(c) == At(c, "setup", "status", "call") /\ Reply(c, "") /\ UNCHANGED db
SetupTrigger(c) ==
  /\ At(c, "setup", "trigger", "call")
  /\ \E code \in {200, 400, 409, 502}, wrote \in BOOLEAN :
       /\ code = 409 => ~wrote
       /\ req' = [req EXCEPT ![c] = Answered("setup", code, wrote, @.may)]
  /\ UNCHANGED db
StewardStatus(c) == At(c, "steward", "status", "call") /\ Reply(c, "") /\ UNCHANGED db
StewardApply(c) ==
  /\ At(c, "steward", "apply", "call")
  /\ \E code \in {200, 409, 502} :
       req' = [req EXCEPT ![c] = Answered("steward", code, code = 200, @.may)]
  /\ UNCHANGED db
Capabilities(c) == req[c].seg = "capabilities" /\ Reply(c, "") /\ UNCHANGED db

ControlMethod(c) ==
  /\ req[c].pc = "call"
  /\ \/ SetupStatus(c) \/ SetupTrigger(c) \/ StewardStatus(c) \/ StewardApply(c)
     \/ Capabilities(c)

----------------------------------------------------------------------------
\* The steward calls EnsureRegistered once a capability's Auth objects are in place.
StewardCalls(c) ==
  /\ Starts(c)
  /\ \E name \in SystemService :
       req' = [req EXCEPT ![c] =
         Called("services", "ensure", [NoIn EXCEPT !.name = name], TRUE)]
  /\ UNCHANGED <<db, guard, gate, open>>

TenantMethod(c) ==
  \/ TenantCreate(c) \/ TenantGet(c) \/ TenantList(c) \/ TenantUpdate(c)
  \/ TenantDelete(c) \/ TenantGetSystem(c)
ProjectMethod(c) ==
  ProjectCreate(c) \/ ProjectGet(c) \/ ProjectList(c) \/ ProjectUpdate(c) \/ ProjectDelete(c)
ProviderMethod(c) ==
  ProviderCreate(c) \/ ProviderGet(c) \/ ProviderList(c) \/ ProviderUpdate(c) \/ ProviderDelete(c)
ServiceMethod(c) ==
  \/ ServiceCreate(c) \/ ServiceGet(c) \/ ServiceListByTenant(c) \/ ServiceUpdateStatus(c)
  \/ ServiceDelete(c) \/ ServiceListSystem(c) \/ EnsureRegistered(c)
AgentMethod(c) ==
  \/ AgentCreate(c) \/ AgentGet(c) \/ AgentList(c) \/ AgentUpdate(c)
  \/ Heartbeat(c) \/ AgentDelete(c)
ResourceMethod(c) ==
  \/ ResourceCreate(c) \/ ResourceGet(c) \/ ResourceListByProject(c)
  \/ ResourceUpdateSpec(c) \/ ResourceUpdateStatus(c) \/ ResourceDelete(c)

\* One statement of the method c's request called.
Statement(c) ==
  /\ \/ TenantMethod(c) \/ ProjectMethod(c) \/ ProviderMethod(c) \/ ServiceMethod(c)
     \/ AgentMethod(c) \/ ResourceMethod(c) \/ EventList(c)
     \/ ControlMethod(c)
  /\ UNCHANGED <<guard, gate, open>>

\* The tables hold what earlier requests left; no request is in flight.
ConsoleInit ==
  /\ db \in Seeds /\ guard = "unresolved" /\ open = FALSE
  /\ gate = "disabled"
  /\ req = [c \in Call |-> Idle]

----------------------------------------------------------------------------
\* A deleted row stays as it was: a write whose row was read before the deletion
\* finds no row, whichever of the two commits first (every UPDATE filters on
\* deleted_at IS NULL).
DeletedStaysDeleted ==
  [][\A t \in DOMAIN Ids : \A i \in Ids[t] :
       db[t][i].life = "deleted" => db'[t][i] = db[t][i]]_cvars

\* A caller that is told the request was wrong (4xx) may repeat it: nothing was
\* written, whatever the other calls did between this one's statements
\* (HandleServiceError, the services' methods). Setup's trigger promises that only
\* with its 409: its 400 can come from the middle of a run.
RefusedWroteNothing ==
  \A c \in Call :
    req[c].pc = "done" /\ req[c].code \in 400 .. 499
      /\ (req[c].seg = "setup" => req[c].code = 409) => ~req[c].wrote

\* Tables change, and a setup run or a steward pass is driven, only on a mutating
\* verb whose caller may (authz.Middleware; setup's Gate, which the platform guard
\* exempts).
WritesNeedPermission == \A c \in Call : req[c].wrote => req[c].may

\* A write made from a row that is still what it was when it was read changes
\* nothing the request left out, and never takes a service back from what its
\* agent reported (EnsureRegistered: "it never downgrades a status the agent has
\* already advanced past"). From a stale row it can do both.
FreshWriteKeepsTheRest ==
  [][\A c \in Call :
       req[c].pc = "write" /\ req[c].op \in {"update", "updateStatus", "ensure"}
         /\ req'[c] # req[c] /\ db[req[c].seg][In(c).id] = Cur(c) =>
         LET now == db'[req[c].seg][In(c).id]
         IN /\ req[c].op = "ensure" /\ now.status # Cur(c).status => Cur(c).status = "pending"
            /\ req[c].op # "ensure" /\ In(c).val = "" =>
                 IF req[c].seg = "services" THEN now.status = Cur(c).status ELSE now = Cur(c)]_cvars
=============================================================================
