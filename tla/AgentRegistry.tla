--------------------------- MODULE AgentRegistry ---------------------------
(***************************************************************************)
(* The agents' identity and liveness: created with a one-time join token,  *)
(* enrolled for a client certificate, bound to the subject of the first    *)
(* authenticated Register, kept online by heartbeats and swept offline     *)
(* when they stop. Each gateway or REST handler runs as the sequence of    *)
(* its database statements; handlers interleave, and may die in between.   *)
(***************************************************************************)
EXTENDS AgentRow, FiniteSets, Naturals

CONSTANTS
  AgentId,         \* agent_uuid values
  EnforceBinding,  \* gateway Options.EnforceBinding
  PatchStatuses,   \* status of a PATCH request, "" when it is left out
  MaxHandlers      \* bound: handlers running at once

ASSUME PatchStatusesAssumption == PatchStatuses \subseteq {"", "pending", "online", "offline"}

VARIABLES
  agents,    \* the agents table
  handlers,  \* handlers between two statements
  certs,     \* certs[u]: client certificates handed out for u
  acted      \* acted[u]: the subjects whose calls took effect as agent u

vars == <<agents, handlers, certs, acted>>

Handler == [op: {"enroll", "register", "update", "heartbeat"}, id: AgentId,
            subject: Subject, step: {"bound", "checked", "read"},
            cur: AgentRecord]

Init ==
  /\ agents = [u \in AgentId |-> AbsentAgent]
  /\ handlers = {}
  /\ certs = [u \in AgentId |-> 0]
  /\ acted = [u \in AgentId |-> {}]

Live(u) == agents[u].life = "live"
Write(u, row) == agents' = [agents EXCEPT ![u] = row]

\* A handler goes on to its next statement.
Continue(h, step, cur) ==
  handlers' = (handlers \ {h}) \cup {[h EXCEPT !.step = step, !.cur = cur]}
Begin(op, u, s, step) ==
  /\ Cardinality(handlers) < MaxHandlers
  /\ handlers' = handlers \cup {[op |-> op, id |-> u, subject |-> s,
                                 step |-> step, cur |-> agents[u]]}
End(h) == handlers' = handlers \ {h}

----------------------------------------------------------------------------
\* REST: create, delete and PATCH.

Create(u) ==
  /\ agents[u].life = "absent"
  /\ Write(u, CreateAgent(agents[u]))
  /\ UNCHANGED <<handlers, certs, acted>>

Delete(u) ==
  /\ Live(u)
  /\ Write(u, SoftDeleteAgent(agents[u]))
  /\ UNCHANGED <<handlers, certs, acted>>

UpdateRead(u) ==
  /\ Live(u)
  /\ \E s \in Subject : Begin("update", u, s, "read")
  /\ UNCHANGED <<agents, certs, acted>>

UpdateWrite(h) ==
  /\ h.op = "update"
  /\ IF Live(h.id)
     THEN \E status \in PatchStatuses :
            Write(h.id, UpdateAgentStatus(h.cur, agents[h.id], status))
     ELSE UNCHANGED agents
  /\ End(h)
  /\ UNCHANGED <<certs, acted>>

\* Enroll: check the token on the row read, sign, then consume the token.
EnrollRead(u) ==
  /\ Enrollable(agents[u])
  /\ \E s \in Subject : Begin("enroll", u, s, "checked")
  /\ UNCHANGED <<agents, certs, acted>>

\* A certificate for the request, which leaves Core with the answer.
SignAgentCSR(u) == certs' = [certs EXCEPT ![u] = @ + 1]

EnrollMark(h) ==
  /\ h.op = "enroll"
  /\ IF Enrollable(agents[h.id])
     THEN /\ Write(h.id, MarkAgentEnrolled(agents[h.id]))
          /\ SignAgentCSR(h.id)
     ELSE UNCHANGED <<agents, certs>>
  /\ End(h)
  /\ UNCHANGED acted

----------------------------------------------------------------------------
\* Register: bind the caller's subject, then mark the agent online.

RegisterBind(u, s) ==
  /\ IF EnforceBinding
     THEN /\ Bindable(agents[u], s)
          /\ Write(u, BindAgentSubject(agents[u], s))
     ELSE UNCHANGED agents
  /\ Begin("register", u, s, "bound")
  /\ UNCHANGED <<certs, acted>>

RegisterRead(h) ==
  /\ h.op = "register" /\ h.step = "bound"
  /\ IF Live(h.id) THEN Continue(h, "read", agents[h.id]) ELSE End(h)
  /\ UNCHANGED <<agents, certs, acted>>

RegisterWrite(h) ==
  /\ h.op = "register" /\ h.step = "read"
  /\ IF Live(h.id)
     THEN /\ Write(h.id, UpdateAgentStatus(h.cur, agents[h.id], "online"))
          /\ acted' = [acted EXCEPT ![h.id] = @ \cup {h.subject}]
     ELSE UNCHANGED <<agents, acted>>
  /\ End(h)
  /\ UNCHANGED certs

\* requireAgent: with binding enforced, only the bound subject passes.
Required(u, s) == Live(u) /\ (EnforceBinding => agents[u].subject = s)

HeartbeatCheck(u, s) ==
  /\ Required(u, s)
  /\ Begin("heartbeat", u, s, "checked")
  /\ UNCHANGED <<agents, certs, acted>>

HeartbeatWrite(h) ==
  /\ h.op = "heartbeat"
  /\ IF Live(h.id)
     THEN /\ Write(h.id, AgentHeartbeat(agents[h.id]))
          /\ acted' = [acted EXCEPT ![h.id] = @ \cup {h.subject}]
     ELSE UNCHANGED <<agents, acted>>
  /\ End(h)
  /\ UNCHANGED certs

\* The request is cancelled, or Core stops, between two statements.
HandlerDies(h) ==
  /\ End(h)
  /\ UNCHANGED <<agents, certs, acted>>

----------------------------------------------------------------------------
\* The heartbeat threshold passes without a beat.
GoesSilent(u) ==
  /\ Live(u) /\ agents[u].seen = "fresh"
  /\ agents' = [agents EXCEPT ![u].seen = "stale"]
  /\ UNCHANGED <<handlers, certs, acted>>

\* SweepOffline: one statement over the whole table.
SweepOffline ==
  /\ \E u \in AgentId : Sweepable(agents[u])
  /\ agents' = [u \in AgentId |->
                  IF Sweepable(agents[u]) THEN MarkOffline(agents[u]) ELSE agents[u]]
  /\ UNCHANGED <<handlers, certs, acted>>

AgentNext(u) ==
  \/ Create(u) \/ Delete(u) \/ UpdateRead(u) \/ EnrollRead(u) \/ GoesSilent(u)
  \/ \E s \in Subject : RegisterBind(u, s) \/ HeartbeatCheck(u, s)

HandlerNext(h) ==
  \/ UpdateWrite(h) \/ EnrollMark(h) \/ RegisterRead(h) \/ RegisterWrite(h)
  \/ HeartbeatWrite(h) \/ HandlerDies(h)

Next ==
  \/ \E u \in AgentId : AgentNext(u)
  \/ \E h \in handlers : HandlerNext(h)
  \/ SweepOffline

Spec == Init /\ [][Next]_vars

\* The supervisor sweeps on its ticker.
FairSpec == Spec /\ WF_vars(SweepOffline)

----------------------------------------------------------------------------
\* Type invariant.
TypeOK ==
  /\ agents \in [AgentId -> AgentRecord]
  /\ handlers \subseteq Handler
  /\ certs \in [AgentId -> Nat]
  /\ acted \in [AgentId -> SUBSET Subject]

\* A join token buys one certificate, however many enrolments race on it
\* (Enroll: "consumes a one-time join token").
OneCertificate ==
  \A u \in AgentId : certs[u] <= 1 /\ (certs[u] = 1 => agents[u].token = "used")

\* With binding enforced only one subject ever acts as an agent, the one it is
\* bound to (BindSubject: "first-writer-wins and sticky").
OneIdentity ==
  EnforceBinding =>
    \A u \in AgentId : acted[u] # {} => acted[u] = {agents[u].subject}

\* A host that stays silent does not stay online: the sweeper gets to it.
SilentGoesOffline ==
  \A u \in AgentId :
    (Live(u) /\ agents[u].seen = "stale") ~>
      (~Live(u) \/ agents[u].seen = "fresh" \/ agents[u].status = "offline")
=============================================================================
