------------------------------- MODULE Tables -------------------------------
(***************************************************************************)
(* The inventory tables and the statements that read and write them        *)
(* (internal/storage). A table maps row ids to rows. Rows are never        *)
(* removed: a deleted one keeps its columns and its deleted_at stamp, and  *)
(* every statement filters on deleted_at IS NULL. A row's uuid and its     *)
(* bigint key are one id here.                                             *)
(*                                                                         *)
(* A reading statement is the row it finds, NoRow for pgx.ErrNoRows; a     *)
(* listing one is the set of ids of its rows; a writing one is the error   *)
(* and the database it leaves. The columns no statement or guard looks at  *)
(* are one column, 'val'.                                                  *)
(***************************************************************************)
EXTENDS FiniteSets, Integers

NoRow == [life |-> "absent"]

LiveRows(T) == {i \in DOMAIN T : T[i].life = "live"}

Find(T, i) == IF i \in LiveRows(T) THEN T[i] ELSE NoRow

\* INSERT ... RETURNING, where clash(r) says that the live row r holds a key of
\* the new one in a unique index.
Insert(db, table, i, row, Clash(_)) ==
  IF \E j \in LiveRows(db[table]) : Clash(db[table][j])
  THEN [err |-> "23505", db |-> db]
  ELSE [err |-> "", db |-> [db EXCEPT ![table][i] = row]]

\* UPDATE ... WHERE uuid = $1 AND deleted_at IS NULL RETURNING.
Update(db, table, i, row) ==
  IF i \in LiveRows(db[table])
  THEN [err |-> "", db |-> [db EXCEPT ![table][i] = row]]
  ELSE [err |-> "norows", db |-> db]

\* UPDATE ... SET deleted_at = NOW(), an :exec statement: no row is no error.
SoftDelete(db, table, i) ==
  [err |-> "", db |-> IF i \in LiveRows(db[table])
                      THEN [db EXCEPT ![table][i].life = "deleted"] ELSE db]

----------------------------------------------------------------------------
\* tenants. The unique live indexes: the name, and the one system tenant.
TenantRow(name, system, val) ==
  [life |-> "live", name |-> name, is_system |-> system, val |-> val]

CreateTenant(db, i, name, system, val) ==
  Insert(db, "tenants", i, TenantRow(name, system, val),
         LAMBDA r : r.name = name \/ (r.is_system /\ system))

GetTenantByUUID(db, i) == Find(db.tenants, i)
GetTenantByID(db, i) == Find(db.tenants, i)
GetSystemTenant(db) == {i \in LiveRows(db.tenants) : db.tenants[i].is_system}
ListTenants(db) == LiveRows(db.tenants)

\* The name and is_system are not among the columns it sets.
UpdateTenant(db, i, val) ==
  Update(db, "tenants", i, [db.tenants[i] EXCEPT !.val = val])

SoftDeleteTenant(db, i) == SoftDelete(db, "tenants", i)

----------------------------------------------------------------------------
\* projects and providers: unique live names within a tenant.
ProjectRow(tenant, name, val) ==
  [life |-> "live", tenant |-> tenant, name |-> name, val |-> val]
ProviderRow(tenant, name, val) ==
  [life |-> "live", tenant |-> tenant, name |-> name, val |-> val]

InsertOwned(db, table, i, row) ==
  Insert(db, table, i, row, LAMBDA r : r.tenant = row.tenant /\ r.name = row.name)

OfTenant(T, t) == {i \in LiveRows(T) : T[i].tenant = t}

CreateProject(db, i, t, name, val) == InsertOwned(db, "projects", i, ProjectRow(t, name, val))
GetProjectByUUID(db, i) == Find(db.projects, i)
GetProjectByID(db, i) == Find(db.projects, i)
ListProjectsByTenant(db, t) == OfTenant(db.projects, t)

\* (Mutant: the WHERE clause without deleted_at IS NULL, setting every column.)
UpdateProject_Deleted(db, i, val) ==
  [err |-> "", db |-> [db EXCEPT !.projects[i].val = val, !.projects[i].life = "live"]]

UpdateProject(db, i, val) ==
  Update(db, "projects", i, [db.projects[i] EXCEPT !.val = val])

SoftDeleteProject(db, i) == SoftDelete(db, "projects", i)

CreateProvider(db, i, t, name, val) == InsertOwned(db, "providers", i, ProviderRow(t, name, val))
GetProviderByUUID(db, i) == Find(db.providers, i)
ListProvidersByTenant(db, t) == OfTenant(db.providers, t)
UpdateProvider(db, i, val) ==
  Update(db, "providers", i, [db.providers[i] EXCEPT !.val = val])
SoftDeleteProvider(db, i) == SoftDelete(db, "providers", i)

----------------------------------------------------------------------------
\* agents and resources: the columns AgentRow and ResourceRow keep, in db.agents
\* and db.resources, and the ones set once at the insert, in db.own.
CreateOwned(db, table, i, own, row, Clash(_)) ==
  IF \E j \in LiveRows(db[table]) : Clash(db.own[j])
  THEN [err |-> "23505", db |-> db]
  ELSE [err |-> "", db |-> [db EXCEPT ![table][i] = row, !.own[i] = own]]

GetAgentByUUID(db, i) == Find(db.agents, i)
GetResourceByUUID(db, i) == Find(db.resources, i)
ListAgentsByTenant(db, t) == {i \in LiveRows(db.agents) : db.own[i].of = t}
ListResourcesByProject(db, p) == {i \in LiveRows(db.resources) : db.own[i].of = p}

----------------------------------------------------------------------------
\* services: unique live names within a tenant, one live system service a kind.
\* 'stamped' says that registered_at is set.
ServiceRow(t, name, kind, system, status, stamped) ==
  [life |-> "live", tenant |-> t, name |-> name, kind |-> kind,
   is_system |-> system, status |-> status, stamped |-> stamped]

CreateService(db, i, t, name, kind, system, status, stamped) ==
  Insert(db, "services", i, ServiceRow(t, name, kind, system, status, stamped),
         LAMBDA r : \/ r.tenant = t /\ r.name = name
                    \/ r.kind = kind /\ r.is_system /\ system)

GetServiceByUUID(db, i) == Find(db.services, i)
ServiceOfTenant(db, t, name) ==
  {i \in LiveRows(db.services) : db.services[i].tenant = t /\ db.services[i].name = name}
ListServicesByTenant(db, t) == OfTenant(db.services, t)
ListSystemServices(db) == {i \in LiveRows(db.services) : db.services[i].is_system}
UpdateServiceStatus(db, i, status, stamped) ==
  Update(db, "services", i,
         [db.services[i] EXCEPT !.status = status, !.stamped = stamped])
SoftDeleteService(db, i) == SoftDelete(db, "services", i)
=============================================================================
