------------------------------- MODULE Access -------------------------------
(***************************************************************************)
(* Who may call what, and what a failed call is answered with: the HTTP    *)
(* guard (internal/platform/authz), the gRPC interceptors                  *)
(* (internal/grpcserver), and the translation of a service's error into a  *)
(* status (internal/platform/apperror, internal/platform/response).        *)
(*                                                                         *)
(* A caller is a record: what its bearer token is ("none", "bad", "good"), *)
(* the permissions a good one carries in either claim, the setup token it  *)
(* presents, and its client certificate ("none", "untrusted", "trusted").  *)
(***************************************************************************)
EXTENDS Integers

RW(read, write) == [Read |-> read, Write |-> write]

\* The allowlist: a segment that is not here is denied to everybody.
routePermissions ==
  [tenants   |-> RW("core:tenant:read", "core:tenant:write"),
   projects  |-> RW("core:project:read", "core:project:write"),
   services  |-> RW("core:service:read", "core:service:write"),
   providers |-> RW("core:provider:read", "core:provider:write"),
   agents    |-> RW("core:agent:read", "core:agent:write"),
   resources |-> RW("core:resource:read", "core:resource:write"),
   events    |-> RW("core:event:read", "core:event:write"),
   steward   |-> RW("core:admin", "core:admin")]

GatewayPermission == "core:agent:gateway"

ReadMethods == {"GET", "HEAD"}

\* exemptSegments: setup carries its own gate, capabilities is read-only.
exempt(segment, method) ==
  \/ segment = "setup"
  \/ segment = "capabilities" /\ method \in ReadMethods

HasPermission(caller, perm) == perm \in caller.grants

\* (Mutant: one permission per segment, whatever the verb.)
Required_ReadOnly(segment, method) == routePermissions[segment].Read

Required(segment, method) ==
  IF method \in ReadMethods THEN routePermissions[segment].Read
                            ELSE routePermissions[segment].Write

\* Guard.Middleware: 0 when the request goes on to its handler.
Middleware(mode, caller, segment, method) ==
  CASE exempt(segment, method) -> 0
    [] mode = "dev-open" -> 0
    [] mode = "unavailable" -> 503
    [] caller.bearer # "good" -> 401
    [] segment \notin DOMAIN routePermissions -> 403
    [] ~HasPermission(caller, Required(segment, method)) -> 403
    [] OTHER -> 0

----------------------------------------------------------------------------
\* The setup surface's own gate (internal/setup/handler.go): CORE_SETUP_TOKEN if it
\* is set, else open in development and disabled elsewhere.
Gate(token, dev) == CASE token -> "token" [] dev /\ ~token -> "open" [] OTHER -> "disabled"

tokenMatches(gate, caller) == gate = "token" /\ caller.setup = "good"

\* The setup token, or a bearer token with core:admin if the guard has a verifier.
authorized(gate, mode, caller) ==
  \/ tokenMatches(gate, caller)
  \/ mode = "enforced" /\ caller.bearer = "good" /\ HasPermission(caller, "core:admin")

\* trigger, before it reads the body: disabled, refused, or 0.
trigger(gate, mode, caller) ==
  CASE gate = "disabled" -> 403
    [] gate = "token" /\ ~authorized(gate, mode, caller) -> 401
    [] OTHER -> 0

----------------------------------------------------------------------------
\* The gateway's methods and what each demands; "" is Enroll, guarded by its
\* join token. Anything else is denied.
methodPermissions ==
  [m \in {"Enroll", "Register", "Heartbeat", "PullWork", "ReportStatus"} |->
     IF m = "Enroll" THEN "" ELSE GatewayPermission]

Unguarded(method) == method \in {"Health", "Enroll"}

\* RequireClientCertUnaryInterceptor, in front of the next one.
RequireClientCert(caller, method) ==
  IF Unguarded(method) \/ caller.cert = "trusted" THEN "OK" ELSE "Unauthenticated"

AuthInterceptor(caller, method) ==
  CASE Unguarded(method) -> "OK"
    [] caller.bearer # "good" -> "Unauthenticated"
    [] method \notin DOMAIN methodPermissions -> "PermissionDenied"
    [] ~HasPermission(caller, methodPermissions[method]) -> "PermissionDenied"
    [] OTHER -> "OK"

\* The chain grpcserver.Serve builds for the guard's posture. A service that is
\* not registered answers Unimplemented.
GatewayCall(mode, mtls, caller, method) ==
  CASE mode = "health-only" -> IF method = "Health" THEN "OK" ELSE "Unimplemented"
    [] mode = "dev-open" -> "OK"
    [] mode = "enforced" /\ mtls /\ RequireClientCert(caller, method) # "OK" ->
         RequireClientCert(caller, method)
    [] OTHER -> AuthInterceptor(caller, method)

----------------------------------------------------------------------------
\* The typed errors of apperror, with the status each stands for. An InternalError
\* is what it wraps.
AppError ==
  [notfound |-> 404, conflict |-> 409, forbidden |-> 403, unauthorized |-> 401,
   validation |-> 400, throttled |-> 429, unavailable |-> 503]

\* response.HandleServiceError: the typed errors, the two Postgres codes it knows,
\* and the untyped rest (pgx.ErrNoRows among them).
HandleServiceError(err) ==
  CASE err \in DOMAIN AppError -> AppError[err]
    [] err = "23505" -> 409
    [] err = "23503" -> 400
    [] OTHER -> 500
=============================================================================
