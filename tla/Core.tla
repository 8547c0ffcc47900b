-------------------------------- MODULE Core --------------------------------
(***************************************************************************)
(* One Core process from start to exit: it boots (Boot), resolves how it   *)
(* guards its two listeners, serves the console's requests (Console) and   *)
(* the agents' calls, writes to the vault with the tokens it mints         *)
(* (TokenCache), and drains when it is told to stop or when one of the     *)
(* listeners fails (cmd/server/bootstrap.go run, internal/server           *)
(* StartRESTServer, internal/grpcserver Serve).                            *)
(***************************************************************************)
EXTENDS Console, Boot, TokenCache

VARIABLES
  grpcGuard,   \* grpcserver.Guard.Mode
  rest, grpc   \* the members of the errgroup: "off", "serving", "draining", "down"

lvars == <<grpcGuard, rest, grpc>>
vars == <<cvars, bvars, lvars, tvars>>

Init ==
  /\ ConsoleInit /\ BootInit /\ TokenInit
  /\ grpcGuard = "unresolved" /\ rest = "off" /\ grpc = "off"

\* The posture is resolved once, before anything listens; the background loops
\* start after it.
ResolveGuards ==
  /\ Stage("guards")
  /\ \E verifier \in buildVerifier(boot.auth) :
       /\ guard' = resolveHTTPGuard(verifier, boot.appEnv)
       /\ grpcGuard' = resolveGRPCGuard(verifier, boot.appEnv)
       /\ \E set \in BOOLEAN : gate' = Gate(set, IsDevelopment(boot))
  /\ boot' = [stage |-> "files"]
  /\ UNCHANGED <<db, open, req, cancelled, rest, grpc, tvars>>

\* readOptionalFile, for the agents' CA: an unreadable file ends the process.
ReadFiles ==
  /\ Stage("files")
  /\ Fail \/ GoOn("running")
  /\ UNCHANGED <<cvars, cancelled, lvars, tvars>>

----------------------------------------------------------------------------
\* The listeners.

\* A listener that returns an error cancels the group's context.
RESTListens ==
  /\ Stage("running") /\ rest = "off"
  /\ \/ rest' = "serving" /\ open' = TRUE /\ UNCHANGED cancelled
     \/ rest' = "down" /\ cancelled' = TRUE /\ UNCHANGED open
  /\ UNCHANGED <<db, guard, gate, req, boot, grpcGuard, grpc, tvars>>

requireClientCert == "ca" \in TLSFiles /\ grpcGuard = "enforced"

GRPCListens ==
  /\ Stage("running") /\ grpc = "off"
  /\ \/ /\ serverTLSConfig(requireClientCert) # "error"
        /\ grpc' = "serving" /\ UNCHANGED cancelled
     \/ grpc' = "down" /\ cancelled' = TRUE
  /\ UNCHANGED <<cvars, boot, grpcGuard, rest, tvars>>

\* Shutdown stops the intake, waits for the requests in flight, and for at most
\* 15 seconds; what is still running then goes on without its listener.
RESTShutdown ==
  /\ rest = "serving" /\ cancelled
  /\ rest' = "draining" /\ open' = FALSE
  /\ UNCHANGED <<db, guard, gate, req, bvars, grpcGuard, grpc, tvars>>

\* (Bound: without a setup token the only request is one to setup, while both
\* listeners serve, and no signal comes.)
OnlySetup ==
  /\ rest = "serving" /\ grpc = "serving"
  /\ \E c \in Call : req'[c] # req[c] /\ (req'[c].pc = "done" \/ req'[c].seg = "setup")

\* (Bound: a second console call only behind an enforced guard, with a setup
\* token, while both listeners serve, with no setup run or steward pass before or
\* beside it, and no signal after it.)
Busy == Cardinality({c \in Call : req[c] # Idle /\ req[c].seg # "grpc"}) > 1

\* (Bound: a behaviour has requests or calls to the vault, which share no state.)
NoVaultCalls == TokenInit
NoRequests == \A c \in Call : req[c] = Idle

InFlight(c) == req[c].pc \notin {"idle", "done"}

\* (Mutant: Shutdown is given a context without a deadline.)
RESTDown_NoDeadline ==
  /\ rest = "draining" /\ \A c \in Call : InFlight(c) => req[c].seg = "grpc"
  /\ rest' = "down"
  /\ UNCHANGED <<cvars, bvars, grpcGuard, grpc, tvars>>

RESTDown ==
  /\ rest = "draining"
  /\ rest' = "down"
  /\ UNCHANGED <<cvars, bvars, grpcGuard, grpc, tvars>>

\* GracefulStop stops the intake and waits for the calls in flight, streams
\* included, for as long as they take.
GracefulStop ==
  /\ grpc = "serving" /\ cancelled
  /\ grpc' = "draining"
  /\ UNCHANGED <<cvars, bvars, grpcGuard, rest, tvars>>

GRPCDown ==
  /\ grpc = "draining" /\ \A c \in Call : InFlight(c) => req[c].seg # "grpc"
  /\ grpc' = "down"
  /\ UNCHANGED <<cvars, bvars, grpcGuard, rest, tvars>>

\* A request that may have a connection of the pool.
UsesPool(c) == InFlight(c) /\ req[c].seg \notin {"grpc", "capabilities"}

\* g.Wait returns and the deferred pool.Close begins: no connection is handed out any
\* more. 'held' are the requests it finds in the middle of a statement.
ClosePool ==
  /\ Stage("running") /\ rest = "down" /\ grpc = "down"
  /\ \E held \in SUBSET {c \in Call : UsesPool(c)} :
       boot' = [stage |-> "closing", held |-> held]
  /\ UNCHANGED <<cvars, cancelled, lvars, tvars>>

\* Close returns once every connection is back, however long that takes; the process
\* ends, and with it the requests that held none.
Exit ==
  /\ Stage("closing") /\ boot.held = {}
  /\ boot' = [stage |-> "exited"]
  /\ UNCHANGED <<cvars, cancelled, lvars, tvars>>

\* SIGINT or SIGTERM. Before NotifyContext it ends the process at once.
Signal ==
  /\ ~cancelled /\ ~Busy /\ NoVaultCalls
  /\ gate = "token" \/ guard = "unresolved"
  /\ \/ boot.stage \in {"provider", "environment", "secrets", "dependencies"} /\ Fail
        /\ UNCHANGED cancelled
     \/ boot.stage \in {"pool", "migrate", "mode", "guards", "files", "running"}
        /\ cancelled' = TRUE /\ UNCHANGED boot
  /\ UNCHANGED <<cvars, lvars, tvars>>

----------------------------------------------------------------------------
\* The gateway's calls: the interceptors, then the handler (AgentRegistry and
\* ResourceFeed have what it does). Watch is grpc-health's stream, which no unary
\* interceptor sees.
GatewayArrives(c) ==
  /\ grpc = "serving" /\ Starts(c) /\ NoVaultCalls /\ gate = "token"
  /\ \/ req' = [req EXCEPT ![c] = Called("grpc", "Watch", NoIn, FALSE)]
     \/ \E caller \in Callers, cert \in {"none", "untrusted", "trusted"},
           method \in DOMAIN methodPermissions \cup {"Health", "Other"} :
          IF GatewayCall(grpcGuard, requireClientCert,
               [bearer |-> caller.bearer, grants |-> caller.grants, cert |-> cert], method) = "OK"
          THEN req' = [req EXCEPT ![c] = Called("grpc", "unary", NoIn, FALSE)]
          ELSE req' = [req EXCEPT ![c] = Done(0, FALSE, FALSE)]
  /\ UNCHANGED <<db, guard, gate, open, bvars, lvars, tvars>>

GatewayAnswers(c) ==
  /\ req[c].pc = "call" /\ req[c].seg = "grpc" /\ req[c].op # "Watch"
  /\ req' = [req EXCEPT ![c] = Done(0, FALSE, FALSE)]
  /\ UNCHANGED <<db, guard, gate, open, bvars, lvars, tvars>>

\* Only the client ends a stream.
WatchEnds(c) ==
  /\ req[c].pc = "call" /\ req[c].op = "Watch"
  /\ req' = [req EXCEPT ![c] = Done(0, FALSE, FALSE)]
  /\ UNCHANGED <<db, guard, gate, open, bvars, lvars, tvars>>

----------------------------------------------------------------------------
ServeRequest(c) ==
  /\ Stage("running") /\ req[c].seg # "grpc"
  /\ Statement(c) \/ StatementFails(c)
  /\ UNCHANGED <<bvars, lvars, tvars>>

\* While the pool closes, a statement that was under way ends and gives its connection
\* back; any other fails, and what needs none goes on.
ServeWhileClosing(c) ==
  /\ Stage("closing") /\ req[c].seg # "grpc"
  /\ \/ c \in boot.held /\ (Statement(c) \/ StatementFails(c))
     \/ /\ c \notin boot.held
        /\ StatementFails(c) \/ (ControlMethod(c) /\ UNCHANGED <<guard, gate, open>>)
  /\ boot' = [boot EXCEPT !.held = @ \ {c}]
  /\ UNCHANGED <<cancelled, lvars, tvars>>

CallStarts(c) ==
  /\ Stage("running") /\ NoVaultCalls
  /\ c > 1 => guard = "enforced" /\ gate = "token" /\ rest = "serving" /\ grpc = "serving" /\ ~cancelled
  /\ Arrive(c) \/ StewardCalls(c)
  /\ gate = "token" \/ OnlySetup
  /\ c > 1 => \A d \in {1, c} : req'[d].seg \notin {"setup", "steward", "capabilities"}
  /\ UNCHANGED <<bvars, lvars, tvars>>

\* A step of the calls to the vault, which renders make in a running process.
Vault(step) ==
  /\ Stage("running") /\ rest = "serving" /\ grpc = "serving" /\ guard = "enforced"
  /\ ~cancelled /\ NoRequests /\ gate = "token"
  /\ step
  /\ UNCHANGED <<cvars, bvars, lvars>>

BootStep == BootNext /\ UNCHANGED <<cvars, lvars, tvars>>

Listeners ==
  \/ RESTListens \/ GRPCListens \/ RESTShutdown \/ RESTDown \/ GracefulStop \/ GRPCDown
  \/ ClosePool \/ Exit

\* The process is gone, or serves and is asked for nothing.
Rests ==
  /\ boot.stage \in {"failed", "exited"} \/ (rest = "serving" /\ grpc = "serving" /\ ~cancelled)
  /\ UNCHANGED vars

Next ==
  \/ BootStep \/ ResolveGuards \/ ReadFiles \/ Listeners \/ Signal \/ Rests
  \/ \E c \in Call : \/ CallStarts(c) \/ ServeRequest(c) \/ ServeWhileClosing(c)
                     \/ GatewayArrives(c) \/ GatewayAnswers(c) \/ WatchEnds(c)
  \/ Vault(TokenNext)

\* The process goes on with what it has to do, its handlers of unary calls answer,
\* and a mutex is handed to everybody who waits long enough. Nobody has to send a
\* signal, make a call or close a stream, and no console request has to end.
Spec ==
  /\ Init /\ [][Next]_vars
  /\ WF_vars(BootStep \/ ResolveGuards \/ ReadFiles)
  /\ WF_vars(Listeners)
  /\ \A c \in Call : WF_vars(GatewayAnswers(c))
  /\ \A c \in Caller : WF_vars(Vault(Answers(c))) /\ SF_vars(Vault(Token(c)))

----------------------------------------------------------------------------
\* A process that is told to stop, or one of whose listeners cannot listen, ends: it
\* does not stay up with half of its surface, and requests in flight hold back the
\* listener that serves them for its deadline only. Two waits have no deadline, and
\* only they can keep a process that has stopped listening: GracefulStop's for a
\* health stream, until its client closes it, and pool.Close's for a statement, until
\* the database answers it (StartRESTServer, Serve: "stops it gracefully when ctx is
\* cancelled", run's deferred calls).
Stops ==
  (cancelled \/ rest = "down" \/ grpc = "down") ~>
    \/ boot.stage \in {"failed", "exited"}
    \/ /\ rest = "down" /\ grpc = "draining"
       /\ \E c \in Call : InFlight(c) /\ req[c].op = "Watch"
    \/ Stage("closing") /\ boot.held # {}
=============================================================================
