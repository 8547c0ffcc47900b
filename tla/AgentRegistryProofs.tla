------------------------ MODULE AgentRegistryProofs ------------------------
(***************************************************************************)
(* For any number of agents, subjects and concurrent handlers: a join      *)
(* token buys at most one certificate, and with binding enforced only one  *)
(* subject ever acts as an agent.                                          *)
(***************************************************************************)
EXTENDS AgentRegistry, TLAPS

\* A status update writes a well-formed row and leaves subject and token alone.
LEMMA UpdateRow ==
  ASSUME NEW cur \in AgentRecord, NEW row \in AgentRecord,
         NEW st \in {"", "pending", "online", "offline"}
  PROVE  /\ UpdateAgentStatus(cur, row, st) \in AgentRecord
         /\ UpdateAgentStatus(cur, row, st).subject = row.subject
         /\ UpdateAgentStatus(cur, row, st).token = row.token
<1>1. (IF st = "" THEN cur.status ELSE st) \in {"pending", "online", "offline"}
  BY DEF AgentRecord
<1>2. QED BY <1>1 DEF AgentRecord, UpdateAgentStatus

\* So does a heartbeat.
LEMMA HeartbeatRow ==
  ASSUME NEW row \in AgentRecord
  PROVE  /\ AgentHeartbeat(row) \in AgentRecord
         /\ AgentHeartbeat(row).subject = row.subject
         /\ AgentHeartbeat(row).token = row.token
  BY DEF AgentRecord, AgentHeartbeat

\* Starting a handler keeps the set of handlers typed.
LEMMA BeginType ==
  ASSUME TypeOK, NEW op \in {"enroll", "register", "update", "heartbeat"},
         NEW u \in AgentId, NEW s \in Subject, NEW step \in {"bound", "checked", "read"},
         Begin(op, u, s, step)
  PROVE  handlers' \subseteq Handler
  BY DEF TypeOK, Begin, Handler

\* So does taking one a statement further, or ending it.
LEMMA ContinueType ==
  ASSUME TypeOK, NEW h \in handlers, End(h) \/ Continue(h, "read", agents[h.id])
  PROVE  handlers' \subseteq Handler
<1>1. CASE End(h) BY <1>1 DEF TypeOK, End
<1>2. CASE Continue(h, "read", agents[h.id])
  <2>1. h \in Handler /\ agents[h.id] \in AgentRecord BY DEF TypeOK, Handler
  <2>2. [h EXCEPT !.step = "read", !.cur = agents[h.id]] \in Handler BY <2>1 DEF Handler
  <2>3. QED BY <1>2, <2>2 DEF TypeOK, Continue
<1>3. QED BY <1>1, <1>2

\* A step of the registry leaves the state well-formed.
LEMMA TypeStep ==
  ASSUME TypeOK, [Next]_vars
  PROVE  TypeOK'
<1> USE DEF TypeOK
<1>h. \A h \in handlers : h \in Handler /\ h.id \in AgentId /\ h.cur \in AgentRecord
                          /\ h.subject \in Subject
  BY DEF Handler
<1>1. ASSUME NEW u \in AgentId, AgentNext(u) PROVE TypeOK'
  <2>1. CASE Create(u) BY <2>1 DEF Create, Write, CreateAgent, AgentRecord
  <2>2. CASE Delete(u) BY <2>2 DEF Delete, Write, SoftDeleteAgent, AgentRecord
  <2>3. CASE UpdateRead(u) BY <2>3, BeginType DEF UpdateRead
  <2>4. CASE EnrollRead(u) BY <2>4, BeginType DEF EnrollRead
  <2>5. CASE GoesSilent(u)
    BY <2>5 DEF GoesSilent, AgentRecord
  <2>6. ASSUME NEW s \in Subject, RegisterBind(u, s) PROVE TypeOK'
    <3>1. handlers' \subseteq Handler
      BY <2>6, BeginType DEF RegisterBind
    <3>2. BindAgentSubject(agents[u], s) \in AgentRecord
      BY <2>6 DEF BindAgentSubject, AgentRecord
    <3>3. agents' \in [AgentId -> AgentRecord]
      BY <2>6, <3>2 DEF RegisterBind, Write
    <3> QED
      BY <2>6, <3>1, <3>3 DEF RegisterBind
  <2>7. ASSUME NEW s \in Subject, HeartbeatCheck(u, s) PROVE TypeOK'
    BY <2>7, BeginType DEF HeartbeatCheck
  <2>8. QED BY <1>1, <2>1, <2>2, <2>3, <2>4, <2>5, <2>6, <2>7 DEF AgentNext
<1>2. ASSUME NEW h \in handlers, HandlerNext(h) PROVE TypeOK'
  <2>r. agents[h.id] \in AgentRecord BY <1>h
  <2>1. CASE UpdateWrite(h)
    <3>1. handlers' \subseteq Handler BY <2>1, ContinueType DEF UpdateWrite
    <3>2. CASE Live(h.id)
      <4>1. PICK st \in PatchStatuses :
              agents' = [agents EXCEPT ![h.id] = UpdateAgentStatus(h.cur, agents[h.id], st)]
        BY <2>1, <3>2 DEF UpdateWrite, Write
      <4>2. UpdateAgentStatus(h.cur, agents[h.id], st) \in AgentRecord
        BY <1>h, <2>r, UpdateRow, PatchStatusesAssumption
      <4>3. QED BY <2>1, <3>1, <4>1, <4>2 DEF UpdateWrite
    <3>3. CASE ~Live(h.id) BY <2>1, <3>1, <3>3 DEF UpdateWrite
    <3>4. QED BY <3>2, <3>3
  <2>2. CASE EnrollMark(h)
    <3>1. handlers' \subseteq Handler BY <2>2, ContinueType DEF EnrollMark, SignAgentCSR
    <3>2. MarkAgentEnrolled(agents[h.id]) \in AgentRecord
      BY <2>r DEF AgentRecord, MarkAgentEnrolled
    <3>3. QED BY <1>h, <2>2, <3>1, <3>2 DEF EnrollMark, SignAgentCSR, Write
  <2>3. CASE RegisterRead(h) BY <2>3, ContinueType DEF RegisterRead
  <2>4. CASE RegisterWrite(h)
    <3>1. handlers' \subseteq Handler BY <2>4, ContinueType DEF RegisterWrite
    <3>2. UpdateAgentStatus(h.cur, agents[h.id], "online") \in AgentRecord
      BY <1>h, <2>r, UpdateRow
    <3>3. QED BY <1>h, <2>4, <3>1, <3>2 DEF RegisterWrite, Write
  <2>5. CASE HeartbeatWrite(h)
    <3>1. handlers' \subseteq Handler BY <2>5, ContinueType DEF HeartbeatWrite
    <3>2. AgentHeartbeat(agents[h.id]) \in AgentRecord BY <2>r, HeartbeatRow
    <3>3. QED BY <1>h, <2>5, <3>1, <3>2 DEF HeartbeatWrite, Write
  <2>6. CASE HandlerDies(h) BY <2>6, ContinueType DEF HandlerDies
  <2>7. QED BY <1>2, <2>1, <2>2, <2>3, <2>4, <2>5, <2>6 DEF HandlerNext
<1>3. CASE SweepOffline
  <2>1. ASSUME NEW u \in AgentId PROVE MarkOffline(agents[u]) \in AgentRecord
    <3>1. agents[u] \in AgentRecord
      OBVIOUS
    <3> QED
      BY <3>1 DEF MarkOffline, AgentRecord
  <2>2. agents' \in [AgentId -> AgentRecord]
    BY <1>3, <2>1 DEF SweepOffline
  <2> QED
    BY <1>3, <2>2 DEF SweepOffline
<1>4. CASE UNCHANGED vars BY <1>4 DEF vars
<1>5. QED BY <1>1, <1>2, <1>3, <1>4 DEF Next

\* The initial registry is well-formed.
LEMMA TypeInit == Init => TypeOK
  BY DEF Init, TypeOK, AbsentAgent, AgentRecord

\* Type correctness of the registry: no handler, however it interleaves with
\* others, writes a malformed row.
THEOREM TypeCorrect == Spec => []TypeOK
  BY TypeInit, TypeStep, PTL DEF Spec

----------------------------------------------------------------------------
\* A row's token is only ever consumed, by an enrolment that finds it unused, and
\* then exactly one certificate is handed out.
LEMMA CertificateStep ==
  ASSUME TypeOK, OneCertificate, [Next]_vars
  PROVE  OneCertificate'
<1> USE DEF TypeOK, OneCertificate
<1>h. \A h \in handlers : h \in Handler /\ h.id \in AgentId /\ h.cur \in AgentRecord
  BY DEF Handler
<1>1. ASSUME NEW u \in AgentId, AgentNext(u) PROVE OneCertificate'
  <2>1. CASE Create(u) BY <2>1 DEF Create, Write, CreateAgent, AgentRecord
  <2>2. CASE Delete(u) BY <2>2 DEF Delete, Write, SoftDeleteAgent, AgentRecord
  <2>3. CASE UpdateRead(u) BY <2>3 DEF UpdateRead
  <2>4. CASE EnrollRead(u) BY <2>4 DEF EnrollRead
  <2>5. CASE GoesSilent(u) BY <2>5 DEF GoesSilent, AgentRecord
  <2>6. ASSUME NEW s \in Subject, RegisterBind(u, s) PROVE OneCertificate'
    BY <2>6 DEF RegisterBind, Write, BindAgentSubject, AgentRecord
  <2>7. ASSUME NEW s \in Subject, HeartbeatCheck(u, s) PROVE OneCertificate'
    BY <2>7 DEF HeartbeatCheck
  <2>8. QED BY <1>1, <2>1, <2>2, <2>3, <2>4, <2>5, <2>6, <2>7 DEF AgentNext
<1>2. ASSUME NEW h \in handlers, HandlerNext(h) PROVE OneCertificate'
  <2>1. CASE UpdateWrite(h)
    <3>1. ASSUME NEW st \in PatchStatuses
          PROVE  UpdateAgentStatus(h.cur, agents[h.id], st).token = agents[h.id].token
      <4>1. h.cur \in AgentRecord /\ agents[h.id] \in AgentRecord BY <1>h
      <4>2. st \in {"", "pending", "online", "offline"} BY PatchStatusesAssumption
      <4>3. QED BY <4>1, <4>2, UpdateRow
    <3>2. QED BY <1>h, <2>1, <3>1 DEF UpdateWrite, Write
  <2>2. CASE EnrollMark(h)
    <3>1. CASE ~Enrollable(agents[h.id]) BY <2>2, <3>1 DEF EnrollMark, SignAgentCSR
    <3>2. CASE Enrollable(agents[h.id])
      <4>1. agents[h.id].token = "unused" BY <3>2 DEF Enrollable
      <4>2. certs[h.id] = 0 BY <1>h, <4>1
      <4>3. QED BY <1>h, <2>2, <3>2, <4>2 DEF EnrollMark, SignAgentCSR, Write, MarkAgentEnrolled, AgentRecord
    <3>3. QED BY <3>1, <3>2
  <2>3. CASE RegisterRead(h) BY <2>3 DEF RegisterRead
  <2>4. CASE RegisterWrite(h) BY <1>h, <2>4 DEF RegisterWrite, Write, UpdateAgentStatus, AgentRecord
  <2>5. CASE HeartbeatWrite(h)
    <3>1. AgentHeartbeat(agents[h.id]).token = agents[h.id].token BY <1>h, HeartbeatRow
    <3>2. QED BY <1>h, <2>5, <3>1 DEF HeartbeatWrite, Write
  <2>6. CASE HandlerDies(h) BY <2>6 DEF HandlerDies
  <2>7. QED BY <1>2, <2>1, <2>2, <2>3, <2>4, <2>5, <2>6 DEF HandlerNext
<1>3. CASE SweepOffline BY <1>3 DEF SweepOffline, MarkOffline, AgentRecord
<1>4. CASE UNCHANGED vars BY <1>4 DEF vars
<1>5. QED BY <1>1, <1>2, <1>3, <1>4 DEF Next

\* However many enrolments race on one join token, one certificate is issued:
\* MarkAgentEnrolled's WHERE clause is what makes the check-then-sign safe.
THEOREM TokenBuysOne == Spec => []OneCertificate
<1>1. Init => OneCertificate BY DEF Init, OneCertificate
<1>2. QED BY <1>1, TypeCorrect, CertificateStep, PTL DEF Spec

----------------------------------------------------------------------------
\* With binding enforced, a bound subject is never replaced.
LEMMA SubjectSticks ==
  ASSUME TypeOK, [Next]_vars, EnforceBinding
  PROVE  \A v \in AgentId :
           agents[v].subject \in Subject => agents'[v].subject = agents[v].subject
<1> USE DEF TypeOK
<1>h. \A h \in handlers : h \in Handler /\ h.id \in AgentId /\ h.cur \in AgentRecord
  BY DEF Handler
<1> DEFINE Sticks == \A v \in AgentId :
             agents[v].subject \in Subject => agents'[v].subject = agents[v].subject
<1>1. ASSUME NEW u \in AgentId, AgentNext(u) PROVE Sticks
  <2>1. CASE Create(u) BY <2>1 DEF Create, Write, CreateAgent, AgentRecord
  <2>2. CASE Delete(u) BY <2>2 DEF Delete, Write, SoftDeleteAgent, AgentRecord
  <2>3. CASE UpdateRead(u) BY <2>3 DEF UpdateRead
  <2>4. CASE EnrollRead(u) BY <2>4 DEF EnrollRead
  <2>5. CASE GoesSilent(u) BY <2>5 DEF GoesSilent, AgentRecord
  <2>6. ASSUME NEW s \in Subject, RegisterBind(u, s) PROVE Sticks
    BY <2>6, NoSubjectAssumption DEF RegisterBind, Write, Bindable, BindAgentSubject, AgentRecord
  <2>7. ASSUME NEW s \in Subject, HeartbeatCheck(u, s) PROVE Sticks
    BY <2>7 DEF HeartbeatCheck
  <2>8. QED BY <1>1, <2>1, <2>2, <2>3, <2>4, <2>5, <2>6, <2>7 DEF AgentNext
<1>2. ASSUME NEW h \in handlers, HandlerNext(h) PROVE Sticks
  <2>1. CASE UpdateWrite(h)
    <3>1. ASSUME NEW st \in PatchStatuses
          PROVE  UpdateAgentStatus(h.cur, agents[h.id], st).subject = agents[h.id].subject
      <4>1. h.cur \in AgentRecord /\ agents[h.id] \in AgentRecord BY <1>h
      <4>2. st \in {"", "pending", "online", "offline"} BY PatchStatusesAssumption
      <4>3. QED BY <4>1, <4>2, UpdateRow
    <3>2. QED BY <1>h, <2>1, <3>1 DEF UpdateWrite, Write
  <2>2. CASE EnrollMark(h) BY <1>h, <2>2 DEF EnrollMark, SignAgentCSR, Write, MarkAgentEnrolled, AgentRecord
  <2>3. CASE RegisterRead(h) BY <2>3 DEF RegisterRead
  <2>4. CASE RegisterWrite(h) BY <1>h, <2>4 DEF RegisterWrite, Write, UpdateAgentStatus, AgentRecord
  <2>5. CASE HeartbeatWrite(h)
    <3>1. AgentHeartbeat(agents[h.id]).subject = agents[h.id].subject BY <1>h, HeartbeatRow
    <3>2. QED BY <1>h, <2>5, <3>1 DEF HeartbeatWrite, Write
  <2>6. CASE HandlerDies(h) BY <2>6 DEF HandlerDies
  <2>7. QED BY <1>2, <2>1, <2>2, <2>3, <2>4, <2>5, <2>6 DEF HandlerNext
<1>3. CASE SweepOffline BY <1>3 DEF SweepOffline, MarkOffline, AgentRecord
<1>4. CASE UNCHANGED vars BY <1>4 DEF vars
<1>5. QED BY <1>1, <1>2, <1>3, <1>4 DEF Next

\* A handler past its identity check runs for the bound subject. It needs saying
\* because the check and the write are two statements.
CheckedInv ==
  EnforceBinding =>
    \A h \in handlers :
      h.op \in {"register", "heartbeat"} => agents[h.id].subject = h.subject

\* A step keeps every checked handler bound: the subject it was checked against
\* sticks, and a new handler is bound or checked as it starts.
LEMMA CheckedStep ==
  ASSUME TypeOK, CheckedInv, [Next]_vars
  PROVE  CheckedInv'
<1> SUFFICES ASSUME EnforceBinding, NEW g \in handlers',
                    g.op \in {"register", "heartbeat"}
             PROVE  agents'[g.id].subject = g.subject
  BY DEF CheckedInv
<1> DEFINE Old == \E h \in handlers : h.op = g.op /\ h.id = g.id /\ h.subject = g.subject
<1>1. CASE Old
  <2>1. PICK h \in handlers : h.op = g.op /\ h.id = g.id /\ h.subject = g.subject BY <1>1
  <2>2. h.id \in AgentId /\ h.subject \in Subject BY DEF TypeOK, Handler
  <2>3. agents[h.id].subject = h.subject BY <2>1 DEF CheckedInv
  <2>4. QED BY <2>1, <2>2, <2>3, SubjectSticks
<1>2. CASE ~Old
  <2>1. ASSUME NEW u \in AgentId, NEW s \in Subject, RegisterBind(u, s)
        PROVE  agents'[g.id].subject = g.subject
    <3>1. g.id = u /\ g.subject = s BY <1>2, <2>1 DEF RegisterBind, Begin
    <3>2. QED BY <2>1, <3>1 DEF RegisterBind, Write, TypeOK, BindAgentSubject, AgentRecord
  <2>2. ASSUME NEW u \in AgentId, NEW s \in Subject, HeartbeatCheck(u, s)
        PROVE  agents'[g.id].subject = g.subject
    <3>1. g.id = u /\ g.subject = s BY <1>2, <2>2 DEF HeartbeatCheck, Begin
    <3>2. QED BY <2>2, <3>1 DEF HeartbeatCheck, Required
  <2>3. ASSUME NEW u \in AgentId, UpdateRead(u) \/ EnrollRead(u) PROVE FALSE
    BY <1>2, <2>3 DEF UpdateRead, EnrollRead, Begin
  <2>4. ASSUME NEW u \in AgentId, Create(u) \/ Delete(u) \/ GoesSilent(u) PROVE FALSE
    BY <1>2, <2>4 DEF Create, Delete, GoesSilent
  <2>5. ASSUME NEW h \in handlers, RegisterRead(h) PROVE FALSE
    BY <1>2, <2>5 DEF RegisterRead, Continue, End, TypeOK, Handler
  <2>6. ASSUME NEW h \in handlers,
               \/ UpdateWrite(h) \/ EnrollMark(h) \/ RegisterWrite(h)
               \/ HeartbeatWrite(h) \/ HandlerDies(h)
        PROVE  FALSE
    BY <1>2, <2>6 DEF UpdateWrite, EnrollMark, RegisterWrite, HeartbeatWrite, HandlerDies, End
  <2>7. CASE SweepOffline BY <1>2, <2>7 DEF SweepOffline
  <2>8. CASE UNCHANGED vars BY <1>2, <2>8 DEF vars
  <2>9. QED BY <2>1, <2>2, <2>3, <2>4, <2>5, <2>6, <2>7, <2>8
            DEF Next, AgentNext, HandlerNext
<1>3. QED BY <1>1, <1>2

\* Only a checked handler acts, so it acts for the bound subject.
LEMMA IdentityStep ==
  ASSUME TypeOK, CheckedInv, OneIdentity, [Next]_vars
  PROVE  OneIdentity'
<1> SUFFICES ASSUME EnforceBinding, NEW v \in AgentId, acted'[v] # {}
             PROVE  acted'[v] = {agents'[v].subject}
  BY DEF OneIdentity
<1>1. CASE acted'[v] = acted[v]
  <2>1. acted[v] = {agents[v].subject} BY <1>1 DEF OneIdentity
  <2>2. agents[v].subject \in Subject BY <2>1 DEF TypeOK
  <2>3. QED BY <1>1, <2>1, <2>2, SubjectSticks
<1>2. CASE acted'[v] # acted[v]
  <2>1. PICK h \in handlers : RegisterWrite(h) \/ HeartbeatWrite(h)
    BY <1>2 DEF Next, AgentNext, HandlerNext, Create, Delete, UpdateRead, EnrollRead,
       GoesSilent, RegisterBind, HeartbeatCheck, UpdateWrite, EnrollMark, RegisterRead,
       HandlerDies, SweepOffline, vars
  <2>2. /\ h.op \in {"register", "heartbeat"}
        /\ acted' = [acted EXCEPT ![h.id] = @ \cup {h.subject}]
    BY <1>2, <2>1 DEF RegisterWrite, HeartbeatWrite
  <2>3. h.id = v /\ acted'[v] = acted[v] \cup {h.subject} BY <1>2, <2>2 DEF TypeOK
  <2>4. agents[v].subject = h.subject /\ h.subject \in Subject
    BY <2>2, <2>3 DEF CheckedInv, TypeOK, Handler
  <2>5. acted[v] \subseteq {h.subject} BY <2>4 DEF OneIdentity
  <2>6. agents'[v].subject = h.subject BY <2>4, SubjectSticks
  <2>7. QED BY <2>3, <2>5, <2>6
<1>3. QED BY <1>1, <1>2

\* With binding enforced, whoever registers an agent first is the only subject
\* whose Register or Heartbeat ever takes effect for it.
THEOREM IdentityIsSticky == Spec => []OneIdentity
<1>1. Init => CheckedInv /\ OneIdentity BY DEF Init, CheckedInv, OneIdentity
<1>2. TypeOK /\ CheckedInv /\ OneIdentity /\ [Next]_vars => (CheckedInv /\ OneIdentity)'
  BY CheckedStep, IdentityStep
<1>3. QED BY <1>1, <1>2, TypeCorrect, PTL DEF Spec
=============================================================================
