------------------------- MODULE ResourceFeedProofs -------------------------
(***************************************************************************)
(* What holds of the work feed for every number of resources, agents and   *)
(* calls, every retry budget and every bound: first custody and orphans,   *)
(* late calls and patches included; then, as long as agents wait for their *)
(* calls, what the rows say about the hosts: the feed implements           *)
(* FeedContract, "running at the current generation" is true, the retry    *)
(* budget bounds the feed, and parked rows stay parked.                    *)
(***************************************************************************)
EXTENDS ResourceFeed, TLAPS

----------------------------------------------------------------------------
\* The statements on the resources table leave well-typed rows.

\* The operator's and the supervisor's statements, and the claim, keep a row
\* well typed.
LEMMA StatementTypes ==
  ASSUME NEW row \in Row
  PROVE  /\ CreateResource(row) \in Row
         /\ UpdateResourceSpec(row) \in Row
         /\ MarkResourceDeleting(row) \in Row
         /\ RedispatchSystemResource(row) \in Row
         /\ \A a \in Agent : ClaimAgentWork(row, a) \in Row
         /\ FlagResourceHostUnreachable(row) \in Row
<1>1. CreateResource(row) \in Row
  BY DEF CreateResource, Row
<1>2. UpdateResourceSpec(row) \in Row
  <2>1. row.generation + 1 \in Nat
    BY DEF Row
  <2>2. "pending" \in State
    BY DEF State
  <2> QED
    BY <2>1, <2>2 DEF UpdateResourceSpec, Row
<1>3. MarkResourceDeleting(row) \in Row
  BY DEF MarkResourceDeleting, Row, State
<1>4. RedispatchSystemResource(row) \in Row
  <2>1. row.generation + 1 \in Nat
    BY DEF Row
  <2>2. "pending" \in State
    BY DEF State
  <2> QED
    BY <2>1, <2>2 DEF RedispatchSystemResource, Row
<1>5. \A a \in Agent : ClaimAgentWork(row, a) \in Row
  BY DEF ClaimAgentWork, Row
<1>6. FlagResourceHostUnreachable(row) \in Row
  BY DEF FlagResourceHostUnreachable, Row, Health
<1> QED
  BY <1>1, <1>2, <1>3, <1>4, <1>5, <1>6

\* ApplyAgentReport writes a well-typed row whatever it read before.
LEMMA ReportType ==
  ASSUME NEW cur \in Row, NEW row \in Row, NEW rep \in Report
  PROVE  ApplyAgentReport(cur, row, rep) \in Row
<1>0. /\ cur.state \in State /\ cur.health \in Health
      /\ cur.attempts \in Nat /\ cur.generation \in Nat
      /\ cur.backoff \in BOOLEAN /\ cur.unreachable \in BOOLEAN
      /\ row.observed \in Nat /\ row.life \in {"absent", "live", "deleted"}
      /\ rep.state \in State \cup {""} /\ rep.observed \in Nat
      /\ rep.status \in {"none", "plain"} \cup (Health \ {""})
  BY DEF Row, Report
<1>1. ReportedState(cur, rep) \in State
  BY <1>0 DEF ReportedState, State
<1>2. resolveHealth(cur, rep) \in Health
  BY <1>0 DEF resolveHealth, Health
<1>3. ReportedObserved(cur, rep) \in Nat
  BY <1>0 DEF ReportedObserved
<1>4. ReportedAttempts(cur, rep) \in Nat
  <2>1. cur.attempts + 1 \in Nat
    BY DEF Row
  <2>2. CASE rep.state = "running"
    BY <2>2 DEF ReportedAttempts
  <2>3. CASE rep.state = "failed"
    BY <2>1, <2>3 DEF ReportedAttempts
  <2>4. CASE rep.state \notin {"running", "failed"}
    BY <1>0, <2>4 DEF ReportedAttempts
  <2> QED
    BY <2>2, <2>3, <2>4
<1>5. ReportedBackoff(cur, rep) \in BOOLEAN
  BY <1>0 DEF ReportedBackoff
<1>6. Greatest(row.observed, ReportedObserved(cur, rep)) \in Nat
  BY <1>0, <1>3 DEF Greatest
<1>7. (IF rep.status = "none" THEN cur.unreachable ELSE FALSE) \in BOOLEAN
  BY <1>0
<1>8. (IF Finalizes(cur, rep) THEN "deleted" ELSE row.life)
         \in {"absent", "live", "deleted"}
  BY <1>0
<1> QED
  <2> DEFINE st == ReportedState(cur, rep)
             h == resolveHealth(cur, rep)
             u == IF rep.status = "none" THEN cur.unreachable ELSE FALSE
             o == Greatest(row.observed, ReportedObserved(cur, rep))
             n == ReportedAttempts(cur, rep)
             b == ReportedBackoff(cur, rep)
             lf == IF Finalizes(cur, rep) THEN "deleted" ELSE row.life
  <2>1. /\ st \in State /\ h \in Health /\ u \in BOOLEAN /\ o \in Nat /\ n \in Nat
        /\ b \in BOOLEAN /\ lf \in {"absent", "live", "deleted"}
    BY <1>1, <1>2, <1>4, <1>5, <1>6, <1>7, <1>8
  <2>2. ApplyAgentReport(cur, row, rep) =
          [row EXCEPT !.state = st, !.health = h, !.unreachable = u, !.observed = o,
                      !.attempts = n, !.backoff = b, !.leased = FALSE, !.life = lf]
    BY DEF ApplyAgentReport, UpdateFromReport, ReportParams
  <2> HIDE DEF st, h, u, o, n, b, lf
  <2> QED
    BY <2>1, <2>2 DEF Row

\* So does Service.UpdateStatus.
LEMMA PatchType ==
  ASSUME NEW cur \in Row, NEW row \in Row, NEW in \in Report
  PROVE  UpdateResourceStatus(cur, row, in) \in Row
<1>1. (IF in.state = "" THEN cur.state ELSE in.state) \in State
  BY DEF Report, Row, State
<1>2. (IF in.observed > 0 THEN in.observed ELSE cur.observed) \in Nat
  BY DEF Report, Row
<1>3. (IF in.status = "none" THEN cur.unreachable ELSE FALSE) \in BOOLEAN
  BY DEF Row
<1> QED
  BY <1>1, <1>2, <1>3 DEF UpdateResourceStatus, Row

----------------------------------------------------------------------------
\* Types.

\* PullWork's envelope.
LEMMA EnvelopeType == ASSUME NEW row \in Row PROVE Envelope(row) \in Work
BY DEF Envelope, Work, Row

\* Restamping updated_at keeps the order it induces a relation on resources.
LEMMA StampType ==
  ASSUME TypeOK, NEW S \in SUBSET Resource, Stamp(S)
  PROVE  older' \subseteq Resource \X Resource
BY DEF TypeOK, Stamp

\* Writing a well-typed row keeps the table well typed.
LEMMA WriteType ==
  ASSUME TypeOK, NEW r \in Resource, NEW row \in Row, Write(r, row)
  PROVE  rows' \in [Resource -> Row] /\ older' \subseteq Resource \X Resource
<1>1. Stamp({r}) /\ {r} \in SUBSET Resource
  BY DEF Write
<1> QED
  BY <1>1, StampType DEF Write, TypeOK

\* Sending puts one more well-formed call in flight.
LEMMA SendType ==
  ASSUME TypeOK, NEW x \in Agent \cup {Operator}, NEW r \in Resource,
         NEW rep \in Report, Send(x, r, rep)
  PROVE  calls' \subseteq Call
<1>1. AbsentRow \in Row
  BY DEF AbsentRow, Row, State, Health
<1>2. [caller |-> x, res |-> r, rep |-> rep, phase |-> "sent",
       cur |-> AbsentRow, awaited |-> TRUE] \in Call
  BY <1>1 DEF Call
<1> QED
  BY <1>2 DEF Send, TypeOK

----------------------------------------------------------------------------
\* Type correctness.

\* The empty table, idle agents and no calls are well typed.
LEMMA TypeInit == Init => TypeOK
<1>1. AbsentRow \in Row
  BY DEF AbsentRow, Row, State, Health
<1> QED
  BY <1>1 DEF Init, TypeOK, NoWork, Work

\* The operator's REST calls, the supervisor's re-dispatch and time keep the types.
LEMMA TypeResourceStep ==
  ASSUME TypeOK, NEW r \in Resource, ResourceStep(r) \/ PatchStatus(r)
  PROVE  TypeOK'
<1>0. rows[r] \in Row
  BY DEF TypeOK
<1>1. CASE Create(r)
  BY <1>0, <1>1, StatementTypes, WriteType DEF Create, TypeOK
<1>2. CASE UpdateSpec(r)
  BY <1>0, <1>2, StatementTypes, WriteType DEF UpdateSpec, TypeOK
<1>3. CASE Delete(r)
  BY <1>0, <1>3, StatementTypes, WriteType DEF Delete, TypeOK
<1>4. CASE RedispatchSystem(r)
  BY <1>0, <1>4, StatementTypes, WriteType DEF RedispatchSystem, TypeOK
<1>5. CASE LeaseExpires(r)
  <2>1. [rows[r] EXCEPT !.leased = FALSE] \in Row
    BY <1>0 DEF Row
  <2> QED
    BY <1>5, <2>1 DEF LeaseExpires, TypeOK
<1>6. CASE BackoffElapses(r)
  <2>1. [rows[r] EXCEPT !.backoff = FALSE] \in Row
    BY <1>0 DEF Row
  <2>2. rows' \in [Resource -> Row]
    BY <1>6, <2>1 DEF BackoffElapses, TypeOK
  <2>3. ASSUME NEW c \in calls
        PROVE  [c EXCEPT !.cur.backoff = @ /\ c.res # r] \in Call
    <3>1. c \in Call /\ c.cur \in Row
      BY DEF TypeOK, Call
    <3>2. [c.cur EXCEPT !.backoff = @ /\ c.res # r] \in Row
      BY <3>1 DEF Row
    <3> QED
      BY <3>1, <3>2 DEF Call
  <2> QED
    BY <1>6, <2>2, <2>3 DEF BackoffElapses, TypeOK
<1>7. CASE PatchStatus(r)
  <2>1. PICK in \in StatusPatches : Send(Operator, r, in)
    BY <1>7 DEF PatchStatus
  <2>2. calls' \subseteq Call
    BY <2>1, StatusPatchesAssumption, SendType
  <2> QED
    BY <1>7, <2>2 DEF PatchStatus, TypeOK
<1> QED
  BY <1>1, <1>2, <1>3, <1>4, <1>5, <1>6, <1>7 DEF ResourceStep

\* ClaimAgentWork over a batch keeps the table well typed.
LEMMA ClaimType ==
  ASSUME TypeOK, NEW a \in Agent, NEW S \in SUBSET Resource, ClaimForAgent(a, S)
  PROVE  rows' \in [Resource -> Row] /\ older' \subseteq Resource \X Resource
<1>1. older' \subseteq Resource \X Resource
  BY StampType DEF ClaimForAgent
<1>2. ASSUME NEW r \in Resource
      PROVE  ClaimAgentWork(rows[r], a) \in Row /\ rows[r] \in Row
  BY StatementTypes, EnvelopeType DEF TypeOK
<1> QED
  BY <1>1, <1>2 DEF ClaimForAgent

\* Pulls, what an agent does to its host, and the reports it sends keep the types.
LEMMA TypeAgentStep ==
  ASSUME TypeOK, NEW a \in Agent, AgentStep(a)
  PROVE  TypeOK'
<1>0. Batches(a) \subseteq SUBSET Resource
  BY DEF Batches
<1>1. CASE PullWork(a)
  <2>1. PICK S \in SUBSET Resource :
          /\ ClaimForAgent(a, S)
          /\ work' = [work EXCEPT ![a] =
                        [r \in Resource |->
                           IF r \in S THEN Envelope(rows[r]) ELSE work[a][r]]]
    BY <1>0, <1>1 DEF PullWork
  <2>2. ASSUME NEW r \in Resource
        PROVE  Envelope(rows[r]) \in Work /\ work[a][r] \in Work
    BY StatementTypes, EnvelopeType DEF TypeOK
  <2>3. work' \in [Agent -> [Resource -> Work]]
    BY <2>1, <2>2 DEF TypeOK
  <2> QED
    BY <1>1, <2>1, <2>3, ClaimType DEF PullWork, TypeOK
<1>2. CASE PullWorkLost(a)
  BY <1>0, <1>2, ClaimType DEF PullWorkLost, TypeOK
<1>3. CASE AgentRestart(a)
  BY <1>3 DEF AgentRestart, TypeOK, NoWork, Work
<1>4. ASSUME NEW r \in Resource, Converge(a, r)
      PROVE  TypeOK'
  <2>1. PICK doc \in StatusDocs :
          Send(a, r, [state |-> IF work[a][r].teardown THEN "removed" ELSE "running",
                      observed |-> work[a][r].generation, status |-> doc])
    BY <1>4 DEF Converge
  <2>2. work[a][r] \in Work
    BY DEF TypeOK
  <2>3. [state |-> IF work[a][r].teardown THEN "removed" ELSE "running",
         observed |-> work[a][r].generation, status |-> doc] \in Report
    BY <2>2, StatusDocsAssumption DEF Report, Work, State
  <2>4. calls' \subseteq Call
    BY <2>1, <2>3, SendType
  <2>5. host' \in [Agent -> [Resource -> Nat]]
    BY <1>4, <2>2 DEF Converge, TypeOK, Work
  <2>6. work' \in [Agent -> [Resource -> Work]]
    BY <1>4 DEF Converge, TypeOK, Work, NoWork
  <2> QED
    BY <1>4, <2>4, <2>5, <2>6 DEF Converge, TypeOK
<1>5. ASSUME NEW r \in Resource, FailToConverge(a, r)
      PROVE  TypeOK'
  <2>1. work[a][r] \in Work
    BY DEF TypeOK
  <2>2. [state |-> "failed", observed |-> work[a][r].generation,
         status |-> "plain"] \in Report
    BY <2>1 DEF Report, Work, State
  <2>3. calls' \subseteq Call
    BY <1>5, <2>2, SendType DEF FailToConverge
  <2>4. work' \in [Agent -> [Resource -> Work]]
    BY <1>5 DEF FailToConverge, TypeOK, Work, NoWork
  <2> QED
    BY <1>5, <2>3, <2>4 DEF FailToConverge, TypeOK
<1>6. ASSUME NEW r \in Resource, ObserveDrift(a, r)
      PROVE  TypeOK'
  <2>1. PICK d \in Drift :
          Send(a, r, [state |-> d, observed |-> host[a][r], status |-> "plain"])
    BY <1>6 DEF ObserveDrift
  <2>2. [state |-> d, observed |-> host[a][r], status |-> "plain"] \in Report
    BY DEF Report, State, TypeOK
  <2>3. calls' \subseteq Call
    BY <2>1, <2>2, SendType
  <2> QED
    BY <1>6, <2>3 DEF ObserveDrift, TypeOK
<1> QED
  BY <1>1, <1>2, <1>3, <1>4, <1>5, <1>6 DEF AgentStep

\* Both statements of a report or a patch, and the loss of a call, keep the types.
LEMMA TypeCallStep ==
  ASSUME TypeOK, NEW c \in calls, CallStep(c) \/ GiveUpWaiting(c)
  PROVE  TypeOK'
<1>0. c \in Call /\ c.res \in Resource /\ rows[c.res] \in Row
  BY DEF TypeOK, Call
<1>1. CASE ReadRow(c)
  <2>1. [c EXCEPT !.phase = "read", !.cur = rows[c.res]] \in Call
    BY <1>0 DEF Call
  <2> QED
    BY <1>1, <2>1 DEF ReadRow, TypeOK
<1>2. CASE WriteRow(c)
  <2>1. CASE Live(c.res)
    <3>1. ApplyAgentReport(c.cur, rows[c.res], c.rep) \in Row
      BY <1>0, ReportType DEF Call
    <3>2. UpdateResourceStatus(c.cur, rows[c.res], c.rep) \in Row
      BY <1>0, PatchType DEF Call
    <3>3. PICK row \in Row : Write(c.res, row)
      BY <1>2, <2>1, <3>1, <3>2 DEF WriteRow
    <3> QED
      BY <1>0, <1>2, <3>3, WriteType DEF WriteRow, TypeOK
  <2>2. CASE ~Live(c.res)
    BY <1>2, <2>2 DEF WriteRow, TypeOK
  <2> QED
    BY <2>1, <2>2
<1>3. CASE LoseCall(c)
  BY <1>3 DEF LoseCall, TypeOK
<1>4. CASE GiveUpWaiting(c)
  <2>1. [c EXCEPT !.awaited = FALSE] \in Call
    BY <1>0 DEF Call
  <2> QED
    BY <1>4, <2>1 DEF GiveUpWaiting, TypeOK
<1> QED
  BY <1>1, <1>2, <1>3, <1>4 DEF CallStep

\* The table, the agents' holdings and the calls in flight stay well typed.
THEOREM TypeCorrect == LateSpec => []TypeOK
<1>1. TypeOK /\ [LateNext]_vars => TypeOK'
  <2> SUFFICES ASSUME TypeOK, [LateNext]_vars PROVE TypeOK'
    OBVIOUS
  <2>1. CASE LateNext
    BY <2>1, TypeResourceStep, TypeAgentStep, TypeCallStep DEF LateNext, PatchedNext, Next
  <2>2. CASE UNCHANGED vars
    BY <2>2 DEF vars, TypeOK
  <2> QED
    BY <2>1, <2>2
<1> QED
  BY <1>1, TypeInit, PTL DEF LateSpec

----------------------------------------------------------------------------
\* No split brain.

\* A statement other than the claim leaves the assignment alone, and so does a
\* report, whatever it read before.
LEMMA AssignmentKept ==
  ASSUME NEW row \in Row, NEW cur, NEW rep
  PROVE  /\ CreateResource(row).agent = row.agent
         /\ UpdateResourceSpec(row).agent = row.agent
         /\ MarkResourceDeleting(row).agent = row.agent
         /\ RedispatchSystemResource(row).agent = row.agent
         /\ ApplyAgentReport(cur, row, rep).agent = row.agent
         /\ UpdateResourceStatus(cur, row, rep).agent = row.agent
BY DEF Row, CreateResource, UpdateResourceSpec, MarkResourceDeleting,
       RedispatchSystemResource, ApplyAgentReport, UpdateFromReport, UpdateResourceStatus

\* No REST call, re-dispatch or timer changes which agent a row is assigned to.
LEMMA ResourceAssignment ==
  ASSUME TypeOK, NEW r \in Resource, ResourceStep(r) \/ PatchStatus(r)
  PROVE  \A q \in Resource : rows'[q].agent = rows[q].agent
<1>0. rows \in [Resource -> Row] /\ rows[r] \in Row
  BY DEF TypeOK
<1>1. CASE PatchStatus(r)
  BY <1>1 DEF PatchStatus
<1>2. CASE LeaseExpires(r) \/ BackoffElapses(r)
  BY <1>0, <1>2 DEF LeaseExpires, BackoffElapses, Row
<1>3. CASE Create(r) \/ UpdateSpec(r) \/ Delete(r) \/ RedispatchSystem(r)
  <2>1. PICK row : row.agent = rows[r].agent /\ rows' = [rows EXCEPT ![r] = row]
    BY <1>0, <1>3, AssignmentKept
    DEF Create, UpdateSpec, Delete, RedispatchSystem, Write
  <2> QED
    BY <1>0, <2>1
<1> QED
  BY <1>1, <1>2, <1>3 DEF ResourceStep

\* No statement of a report or a patch does, whatever it read before.
LEMMA CallAssignment ==
  ASSUME TypeOK, NEW c \in calls, CallStep(c) \/ GiveUpWaiting(c)
  PROVE  \A q \in Resource : rows'[q].agent = rows[q].agent
<1>0. rows \in [Resource -> Row] /\ rows[c.res] \in Row /\ c.res \in Resource
  BY DEF TypeOK, Call
<1>1. CASE WriteRow(c) /\ Live(c.res)
  <2>1. PICK row : row.agent = rows[c.res].agent
                   /\ rows' = [rows EXCEPT ![c.res] = row]
    BY <1>0, <1>1, AssignmentKept DEF WriteRow, Write
  <2> QED
    BY <1>0, <2>1
<1>2. CASE ~(WriteRow(c) /\ Live(c.res))
  BY <1>2 DEF CallStep, ReadRow, WriteRow, LoseCall, GiveUpWaiting
<1> QED
  BY <1>1, <1>2

\* Only a claim changes an assignment.
LEMMA AssignmentStep ==
  ASSUME TypeOK, [LateNext]_vars
  PROVE  \/ \A r \in Resource : rows'[r].agent = rows[r].agent
         \/ \E a \in Agent : PullWork(a) \/ PullWorkLost(a)
<1>1. ASSUME NEW a \in Agent, AgentStep(a), ~PullWork(a), ~PullWorkLost(a)
      PROVE  rows' = rows
  BY <1>1 DEF AgentStep, AgentRestart, Converge, FailToConverge, ObserveDrift
<1>2. CASE UNCHANGED vars
  BY <1>2 DEF vars
<1> QED
  BY <1>1, <1>2, ResourceAssignment, CallAssignment DEF LateNext, PatchedNext, Next

\* A claim by a only takes rows that are a's already or nobody's, and only a's
\* holdings can grow by it.
LEMMA ClaimStep ==
  ASSUME TypeOK, NEW a \in Agent, PullWork(a) \/ PullWorkLost(a)
  PROVE  \E S \in SUBSET Resource :
           /\ \A r \in S : rows[r].agent \in {a, NoAgent}
           /\ rows' = [r \in Resource |->
                         IF r \in S THEN ClaimAgentWork(rows[r], a) ELSE rows[r]]
           /\ host' = host
           /\ \A b \in Agent, r \in Resource :
                work'[b][r] # work[b][r] => b = a /\ r \in S
<1>1. PICK S \in Batches(a) :
        /\ ClaimForAgent(a, S)
        /\ \/ work' = work
           \/ work' = [work EXCEPT ![a] =
                         [r \in Resource |->
                            IF r \in S THEN Envelope(rows[r]) ELSE work[a][r]]]
  BY DEF PullWork, PullWorkLost
<1>2. S \in SUBSET Resource /\ \A r \in S : rows[r].agent \in {a, NoAgent}
  BY DEF Batches, Claimable
<1>3. host' = host
  BY DEF PullWork, PullWorkLost
<1>4. \A b \in Agent, r \in Resource :
        work'[b][r] # work[b][r] => b = a /\ r \in S
  BY <1>1 DEF TypeOK
<1> QED
  BY <1>1, <1>2, <1>3, <1>4 DEF ClaimForAgent

\* Every other step gives no agent anything it did not hold before.
LEMMA HoldersStep ==
  ASSUME TypeOK, [LateNext]_vars, \A a \in Agent : ~PullWork(a) /\ ~PullWorkLost(a),
         NEW b \in Agent, NEW q \in Resource,
         work'[b][q] # NoWork \/ host'[b][q] # 0
  PROVE  work[b][q] # NoWork \/ host[b][q] # 0
<1>1. ASSUME NEW r \in Resource, ResourceStep(r) \/ PatchStatus(r)
      PROVE  work' = work /\ host' = host
  BY <1>1 DEF ResourceStep, Create, UpdateSpec, Delete, RedispatchSystem,
              LeaseExpires, BackoffElapses, PatchStatus
<1>2. ASSUME NEW c \in calls, CallStep(c) \/ GiveUpWaiting(c)
      PROVE  work' = work /\ host' = host
  BY <1>2 DEF CallStep, ReadRow, WriteRow, LoseCall, GiveUpWaiting
<1>3. ASSUME NEW a \in Agent, AgentRestart(a)
      PROVE  work[b][q] # NoWork \/ host[b][q] # 0
  BY <1>3 DEF AgentRestart, TypeOK
<1>4. ASSUME NEW a \in Agent, NEW r \in Resource, Converge(a, r)
      PROVE  work[b][q] # NoWork \/ host[b][q] # 0
  BY <1>4 DEF Converge, TypeOK
<1>5. ASSUME NEW a \in Agent, NEW r \in Resource, FailToConverge(a, r)
      PROVE  work[b][q] # NoWork \/ host[b][q] # 0
  BY <1>5 DEF FailToConverge, TypeOK
<1>6. ASSUME NEW a \in Agent, NEW r \in Resource, ObserveDrift(a, r)
      PROVE  work[b][q] # NoWork \/ host[b][q] # 0
  BY <1>6 DEF ObserveDrift
<1>7. CASE UNCHANGED vars
  BY <1>7 DEF vars
<1> QED
  BY <1>1, <1>2, <1>3, <1>4, <1>5, <1>6, <1>7 DEF LateNext, PatchedNext, Next, AgentStep

\* Sole custody is inductive: a claim takes over only what nobody else can hold, and
\* every other step adds no holder.
LEMMA CustodyStep ==
  ASSUME TypeOK, SoleCustody, [LateNext]_vars
  PROVE  SoleCustody'
<1> SUFFICES ASSUME NEW b \in Agent, NEW q \in Resource,
                    work'[b][q] # NoWork \/ host'[b][q] # 0
             PROVE  rows'[q].agent = b
  BY DEF SoleCustody
<1>1. ASSUME NEW a \in Agent, PullWork(a) \/ PullWorkLost(a)
      PROVE  rows'[q].agent = b
  <2>1. PICK S \in SUBSET Resource :
           /\ \A r \in S : rows[r].agent \in {a, NoAgent}
           /\ rows' = [r \in Resource |->
                         IF r \in S THEN ClaimAgentWork(rows[r], a) ELSE rows[r]]
           /\ host' = host
           /\ \A x \in Agent, r \in Resource :
                work'[x][r] # work[x][r] => x = a /\ r \in S
    BY <1>1, ClaimStep
  <2>2. CASE q \in S
    <3>1. rows'[q].agent = a
      <4>1. rows[q] \in Row
        BY DEF TypeOK
      <4>2. ClaimAgentWork(rows[q], a).agent = a
        BY <4>1 DEF ClaimAgentWork, Row
      <4> QED
        BY <2>1, <2>2, <4>2
    <3>2. ASSUME b # a PROVE FALSE
      <4>1. work[b][q] # NoWork \/ host[b][q] # 0
        BY <2>1, <3>2
      <4> QED
        BY <2>1, <2>2, <3>2, <4>1, NoAgentAssumption DEF SoleCustody
    <3> QED
      BY <3>1, <3>2
  <2>3. CASE q \notin S
    <3>1. rows'[q] = rows[q] /\ (work[b][q] # NoWork \/ host[b][q] # 0)
      BY <2>1, <2>3
    <3> QED
      BY <3>1 DEF SoleCustody
  <2> QED
    BY <2>2, <2>3
<1>2. CASE \A a \in Agent : ~PullWork(a) /\ ~PullWorkLost(a)
  <2>1. work[b][q] # NoWork \/ host[b][q] # 0
    BY <1>2, HoldersStep
  <2>2. rows'[q].agent = rows[q].agent
    BY <1>2, AssignmentStep
  <2> QED
    BY <2>1, <2>2 DEF SoleCustody
<1> QED
  BY <1>1, <1>2

\* No split brain: at any time at most one agent, the one the row is assigned
\* to, has work for a resource or a workload of it (ClaimAgentWork's sticky
\* assignment), for any number of agents, lost messages and expired leases.
THEOREM NoSplitBrain == LateSpec => []SoleCustody
<1>1. Init => SoleCustody
  BY DEF Init, SoleCustody
<1>2. TypeOK /\ SoleCustody /\ [LateNext]_vars => SoleCustody'
  BY CustodyStep
<1> QED
  BY <1>1, <1>2, TypeCorrect, PTL DEF LateSpec

----------------------------------------------------------------------------
\* No orphans, as long as no call outlives its caller's wait.

\* A report in flight comes from the agent the row is assigned to, and that
\* agent, blocked on it, still has what it reports: after "removed", nothing.
CallInv ==
  \A c \in calls :
    /\ c.awaited
    /\ c.caller \in Agent =>
         /\ rows[c.res].agent = c.caller
         /\ c.rep.state = "removed" =>
              work[c.caller][c.res] = NoWork /\ host[c.caller][c.res] = 0

\* NoOrphan strengthened by the work that could still recreate the workload.
GoneInv ==
  \A r \in Resource : rows[r].life = "deleted" =>
    \A a \in Agent : work[a][r] = NoWork /\ host[a][r] = 0

OrphanInv == TypeOK /\ SoleCustody /\ CallInv /\ GoneInv

\* A claim leaves lives alone and takes only live rows.
LEMMA ClaimLife ==
  ASSUME OrphanInv, NEW a \in Agent, PullWork(a) \/ PullWorkLost(a)
  PROVE  OrphanInv'
<1> USE DEF OrphanInv
<1>0. TypeOK' /\ SoleCustody'
  BY CustodyStep, TypeAgentStep DEF LateNext, PatchedNext, Next, AgentStep
<1>1. PICK S \in Batches(a) :
        /\ ClaimForAgent(a, S)
        /\ \/ work' = work
           \/ work' = [work EXCEPT ![a] =
                         [r \in Resource |->
                            IF r \in S THEN Envelope(rows[r]) ELSE work[a][r]]]
  BY DEF PullWork, PullWorkLost
<1>2. S \in SUBSET Resource /\ \A r \in S : rows[r].life = "live"
                           /\ rows[r].agent \in {a, NoAgent}
  BY DEF Batches, Claimable, InFeed, NeedsWork
<1>3. /\ host' = host /\ calls' = calls /\ ~Busy(a)
      /\ rows' = [r \in Resource |->
                    IF r \in S THEN ClaimAgentWork(rows[r], a) ELSE rows[r]]
  BY <1>1 DEF PullWork, PullWorkLost, ClaimForAgent
<1>4. ASSUME NEW r \in Resource
      PROVE  /\ rows'[r].life = rows[r].life
             /\ r \notin S => rows'[r].agent = rows[r].agent
  <2>1. rows[r] \in Row
    BY DEF TypeOK
  <2>2. ClaimAgentWork(rows[r], a).life = rows[r].life
    BY <2>1 DEF ClaimAgentWork, Row
  <2> QED
    BY <1>3, <2>2
<1>5. GoneInv'
  <2> SUFFICES ASSUME NEW r \in Resource, rows'[r].life = "deleted", NEW b \in Agent
               PROVE  work'[b][r] = NoWork /\ host'[b][r] = 0
    BY DEF GoneInv
  <2>1. rows[r].life = "deleted" /\ r \notin S
    BY <1>2, <1>4
  <2>2. work[b][r] = NoWork /\ host[b][r] = 0
    BY <2>1 DEF GoneInv
  <2>3. work'[b][r] = work[b][r]
    BY <1>1, <2>1 DEF TypeOK
  <2> QED
    BY <1>3, <2>2, <2>3
<1>6. CallInv'
  <2> SUFFICES ASSUME NEW c \in calls
               PROVE  /\ c.awaited
                      /\ c.caller \in Agent =>
                           /\ rows'[c.res].agent = c.caller
                           /\ c.rep.state = "removed" =>
                                /\ work'[c.caller][c.res] = NoWork
                                /\ host'[c.caller][c.res] = 0
    BY <1>3 DEF CallInv
  <2>1. c.res \in Resource /\ c.awaited /\ c.caller # a
    BY <1>3 DEF TypeOK, Call, CallInv, Busy
  <2>2. ASSUME c.caller \in Agent
        PROVE  /\ c.res \notin S
               /\ work'[c.caller][c.res] = work[c.caller][c.res]
    BY <1>1, <1>2, <2>1, <2>2, NoAgentAssumption DEF CallInv, TypeOK
  <2> QED
    BY <1>3, <1>4, <2>1, <2>2 DEF CallInv
<1> QED
  BY <1>0, <1>5, <1>6

\* Operators, the supervisor and time never erase a row.
LEMMA ResourceLife ==
  ASSUME TypeOK, NEW r \in Resource, ResourceStep(r) \/ PatchStatus(r), NEW q \in Resource
  PROVE  rows'[q].life = "deleted" => rows[q].life = "deleted"
<1>0. rows \in [Resource -> Row] /\ rows[r] \in Row
  BY DEF TypeOK
<1>1. CASE PatchStatus(r)
  BY <1>1 DEF PatchStatus
<1>2. CASE LeaseExpires(r) \/ BackoffElapses(r)
  BY <1>0, <1>2 DEF LeaseExpires, BackoffElapses, Row
<1>3. CASE Create(r) \/ UpdateSpec(r) \/ Delete(r) \/ RedispatchSystem(r)
  <2>1. /\ CreateResource(rows[r]).life = "live"
        /\ UpdateResourceSpec(rows[r]).life = rows[r].life
        /\ MarkResourceDeleting(rows[r]).life = rows[r].life
        /\ RedispatchSystemResource(rows[r]).life = rows[r].life
    BY <1>0 DEF Row, CreateResource, UpdateResourceSpec, MarkResourceDeleting,
                RedispatchSystemResource
  <2>2. PICK row : row.life \in {"live", rows[r].life}
                   /\ rows' = [rows EXCEPT ![r] = row]
    BY <1>3, <2>1 DEF Create, UpdateSpec, Delete, RedispatchSystem, Write
  <2> QED
    BY <1>0, <2>2
<1> QED
  BY <1>1, <1>2, <1>3 DEF ResourceStep

\* REST calls, re-dispatches and timers keep the invariant: they erase no
\* row and touch neither agents nor calls.
LEMMA ResourceOrphan ==
  ASSUME OrphanInv, NEW r \in Resource, ResourceStep(r) \/ PatchStatus(r)
  PROVE  CallInv' /\ GoneInv'
<1> USE DEF OrphanInv
<1>1. work' = work /\ host' = host
  BY DEF ResourceStep, Create, UpdateSpec, Delete, RedispatchSystem,
         LeaseExpires, BackoffElapses, PatchStatus
<1>2. \A c \in calls' : \/ c.awaited /\ c.caller = Operator
                       \/ \E d \in calls : /\ c.awaited = d.awaited
                                           /\ c.caller = d.caller
                                           /\ c.res = d.res
                                           /\ c.rep = d.rep
  <2>1. CASE BackoffElapses(r)
    <3>1. \A d \in calls : d \in Call
      BY DEF TypeOK
    <3> QED
      BY <2>1, <3>1 DEF BackoffElapses, Call
  <2>2. CASE ~BackoffElapses(r)
    BY <2>2 DEF ResourceStep, Create, UpdateSpec, Delete, RedispatchSystem,
                LeaseExpires, PatchStatus, Send
  <2> QED
    BY <2>1, <2>2
<1>3. \A q \in Resource : rows'[q].agent = rows[q].agent
  BY ResourceAssignment
<1>4. CallInv'
  <2> SUFFICES ASSUME NEW c, c \in calls'
               PROVE  /\ c.awaited
                      /\ c.caller \in Agent =>
                           /\ rows'[c.res].agent = c.caller
                           /\ c.rep.state = "removed" =>
                                /\ work[c.caller][c.res] = NoWork
                                /\ host[c.caller][c.res] = 0
    BY <1>1 DEF CallInv
  <2>1. CASE c.awaited /\ c.caller = Operator
    BY <2>1, NoAgentAssumption DEF Operator
  <2>2. ASSUME NEW d \in calls, c.awaited = d.awaited, c.caller = d.caller,
               c.res = d.res, c.rep = d.rep
        PROVE  /\ c.awaited
               /\ c.caller \in Agent =>
                    /\ rows'[c.res].agent = c.caller
                    /\ c.rep.state = "removed" =>
                         /\ work[c.caller][c.res] = NoWork
                         /\ host[c.caller][c.res] = 0
    <3>1. d.res \in Resource
      BY DEF TypeOK, Call
    <3> QED
      BY <1>3, <2>2, <3>1 DEF CallInv
  <2> QED
    BY <1>2, <2>1, <2>2
<1> QED
  BY <1>1, <1>4, ResourceLife DEF GoneInv

\* The agent's own steps: it only acts when no call of its is in flight, and a
\* "removed" report leaves with the workload and the work gone.
LEMMA AgentOrphan ==
  ASSUME OrphanInv, NEW a \in Agent, AgentStep(a), ~PullWork(a), ~PullWorkLost(a)
  PROVE  CallInv' /\ GoneInv'
<1> USE DEF OrphanInv
<1>0. /\ rows' = rows /\ ~Busy(a)
      /\ \A b \in Agent : b # a => work'[b] = work[b] /\ host'[b] = host[b]
  BY DEF AgentStep, AgentRestart, Converge, FailToConverge, ObserveDrift, TypeOK
<1>1. \A c \in calls : c.caller # a
  BY <1>0 DEF CallInv, Busy
<1>2. ASSUME NEW q \in Resource, rows[q].life = "deleted"
      PROVE  work'[a][q] = NoWork /\ host'[a][q] = 0
  <2>0. work[a][q] = NoWork /\ host[a][q] = 0
    BY <1>2 DEF GoneInv
  <2>1. CASE AgentRestart(a)
    BY <2>0, <2>1 DEF AgentRestart, TypeOK
  <2>2. ASSUME NEW r \in Resource, Converge(a, r) \/ FailToConverge(a, r)
        PROVE  work'[a][q] = NoWork /\ host'[a][q] = 0
    <3>1. r # q
      BY <2>0, <2>2 DEF Converge, FailToConverge
    <3> QED
      BY <2>0, <2>2, <3>1 DEF Converge, FailToConverge, TypeOK
  <2>3. ASSUME NEW r \in Resource, ObserveDrift(a, r)
        PROVE  work'[a][q] = NoWork /\ host'[a][q] = 0
    BY <2>0, <2>3 DEF ObserveDrift
  <2> QED
    BY <2>1, <2>2, <2>3 DEF AgentStep
<1>3. GoneInv'
  BY <1>0, <1>2 DEF GoneInv
<1> DEFINE Backed(c) ==
      /\ c.awaited /\ c.caller = a /\ c.res \in Resource
      /\ work[a][c.res] # NoWork \/ host[a][c.res] # 0
      /\ c.rep.state = "removed" =>
           work'[a][c.res] = NoWork /\ host'[a][c.res] = 0
<1>4. \A c \in calls' \ calls : Backed(c)
  <2>1. CASE AgentRestart(a)
    BY <2>1 DEF AgentRestart
  <2>2. ASSUME NEW r \in Resource, Converge(a, r)
        PROVE  \A c \in calls' \ calls : Backed(c)
    BY <2>2 DEF Converge, Send, TypeOK
  <2>3. ASSUME NEW r \in Resource, FailToConverge(a, r)
        PROVE  \A c \in calls' \ calls : Backed(c)
    BY <2>3 DEF FailToConverge, Send
  <2>4. ASSUME NEW r \in Resource, ObserveDrift(a, r)
        PROVE  \A c \in calls' \ calls : Backed(c)
    BY <2>4, DriftAssumption DEF ObserveDrift, Send
  <2> QED
    BY <2>1, <2>2, <2>3, <2>4 DEF AgentStep
<1> HIDE DEF Backed
<1>5. CallInv'
  <2> SUFFICES ASSUME NEW c \in calls'
               PROVE  /\ c.awaited
                      /\ c.caller \in Agent =>
                           /\ rows'[c.res].agent = c.caller
                           /\ c.rep.state = "removed" =>
                                /\ work'[c.caller][c.res] = NoWork
                                /\ host'[c.caller][c.res] = 0
    BY DEF CallInv
  <2>1. CASE c \in calls
    BY <1>0, <1>1, <2>1 DEF CallInv
  <2>2. CASE c \notin calls
    <3>1. /\ c.awaited /\ c.caller = a /\ c.res \in Resource
          /\ work[a][c.res] # NoWork \/ host[a][c.res] # 0
          /\ c.rep.state = "removed" => work'[a][c.res] = NoWork /\ host'[a][c.res] = 0
      BY <1>4, <2>2 DEF Backed
    <3>2. rows[c.res].agent = a
      BY <3>1 DEF SoleCustody
    <3> QED
      BY <1>0, <3>1, <3>2
  <2> QED
    BY <2>1, <2>2
<1> QED
  BY <1>3, <1>5

\* A call in flight: only the write of a "removed" report erases the row.
LEMMA CallOrphan ==
  ASSUME OrphanInv, NEW c \in calls, CallStep(c)
  PROVE  CallInv' /\ GoneInv'
<1> USE DEF OrphanInv
<1>0. /\ c \in Call /\ c.res \in Resource /\ rows[c.res] \in Row
      /\ work' = work /\ host' = host
      /\ \A q \in Resource : rows'[q].agent = rows[q].agent
  BY CallAssignment
  DEF TypeOK, Call, CallStep, ReadRow, WriteRow, LoseCall
<1>1. \A d \in calls' : \E e \in calls : /\ d.awaited = e.awaited /\ d.caller = e.caller
                                      /\ d.res = e.res /\ d.rep = e.rep
  <2>1. CASE ReadRow(c)
    <3>1. LET d == [c EXCEPT !.phase = "read", !.cur = rows[c.res]]
          IN  /\ d.awaited = c.awaited /\ d.caller = c.caller
              /\ d.res = c.res /\ d.rep = c.rep
      BY <1>0 DEF Call
    <3> QED
      BY <2>1, <3>1 DEF ReadRow
  <2>2. CASE WriteRow(c) \/ LoseCall(c)
    BY <2>2 DEF WriteRow, LoseCall
  <2> QED
    BY <2>1, <2>2 DEF CallStep
<1>2. CallInv'
  <2> SUFFICES ASSUME NEW d \in calls'
               PROVE  /\ d.awaited
                      /\ d.caller \in Agent =>
                           /\ rows'[d.res].agent = d.caller
                           /\ d.rep.state = "removed" =>
                                /\ work'[d.caller][d.res] = NoWork
                                /\ host'[d.caller][d.res] = 0
    BY DEF CallInv
  <2>1. PICK e \in calls : /\ d.awaited = e.awaited /\ d.caller = e.caller
                           /\ d.res = e.res /\ d.rep = e.rep
    BY <1>1
  <2>2. e.res \in Resource
    BY DEF TypeOK, Call
  <2>3. /\ e.awaited
        /\ e.caller \in Agent =>
             /\ rows[e.res].agent = e.caller
             /\ e.rep.state = "removed" =>
                  work[e.caller][e.res] = NoWork /\ host[e.caller][e.res] = 0
    BY DEF CallInv
  <2> QED
    BY <1>0, <2>1, <2>2, <2>3
<1>3. ASSUME NEW q \in Resource, rows'[q].life = "deleted", NEW a \in Agent
      PROVE  work[a][q] = NoWork /\ host[a][q] = 0
  <2>1. CASE rows[q].life = "deleted"
    BY <2>1 DEF GoneInv
  <2>2. CASE rows[q].life # "deleted"
    <3>1. WriteRow(c) /\ Live(c.res) /\ q = c.res
      BY <1>0, <1>3, <2>2
      DEF CallStep, ReadRow, WriteRow, LoseCall, Write, TypeOK
    <3>2. UpdateResourceStatus(c.cur, rows[q], c.rep).life = rows[q].life
      BY <1>0, <3>1 DEF UpdateResourceStatus, Row
    <3>3. c.caller \in Agent /\ rows'[q] = ApplyAgentReport(c.cur, rows[q], c.rep)
      BY <1>0, <1>3, <2>2, <3>1, <3>2 DEF WriteRow, Write, TypeOK, Call, Operator
    <3>4. ApplyAgentReport(c.cur, rows[q], c.rep).life =
            IF Finalizes(c.cur, c.rep) THEN "deleted" ELSE rows[q].life
      BY <1>0, <3>1 DEF ApplyAgentReport, UpdateFromReport, ReportParams, Row
    <3>5. c.rep.state = "removed"
      BY <1>3, <2>2, <3>3, <3>4 DEF Finalizes
    <3>6. /\ rows[q].agent = c.caller
          /\ work[c.caller][q] = NoWork /\ host[c.caller][q] = 0
      BY <3>1, <3>3, <3>5 DEF CallInv
    <3> QED
      BY <3>6 DEF SoleCustody
  <2> QED
    BY <2>1, <2>2
<1>4. GoneInv'
  BY <1>0, <1>3 DEF GoneInv
<1> QED
  BY <1>2, <1>4

\* A finalized delete leaves no workload behind, as long as agents wait for
\* their calls to end: whatever operators, leases, retries and crashes do
\* between the read and the write of a report.
THEOREM NothingLeftBehind == PatchedSpec => []NoOrphan
<1>1. Init => OrphanInv
  <2> SUFFICES ASSUME Init PROVE OrphanInv
    OBVIOUS
  <2>1. SoleCustody /\ CallInv
    BY DEF Init, SoleCustody, CallInv
  <2>2. GoneInv
    BY DEF Init, GoneInv, AbsentRow
  <2> QED
    BY <2>1, <2>2, TypeInit DEF OrphanInv
<1>2. OrphanInv /\ [PatchedNext]_vars => OrphanInv'
  <2> SUFFICES ASSUME OrphanInv, [PatchedNext]_vars PROVE OrphanInv'
    OBVIOUS
  <2>1. TypeOK' /\ SoleCustody'
    <3>1. CASE PatchedNext
      BY <3>1, TypeResourceStep, TypeAgentStep, TypeCallStep, CustodyStep
      DEF LateNext, PatchedNext, Next, OrphanInv
    <3>2. CASE UNCHANGED vars
      BY <3>2, CustodyStep DEF vars, TypeOK, OrphanInv
    <3> QED
      BY <3>1, <3>2
  <2>2. CASE UNCHANGED vars
    BY <2>1, <2>2 DEF vars, OrphanInv, CallInv, GoneInv
  <2>3. CASE PatchedNext
    BY <2>1, <2>3, ResourceOrphan, AgentOrphan, ClaimLife, CallOrphan
    DEF LateNext, PatchedNext, Next, OrphanInv
  <2> QED
    BY <2>2, <2>3
<1>3. OrphanInv => NoOrphan
  BY DEF OrphanInv, GoneInv, NoOrphan
<1> QED
  BY <1>1, <1>2, <1>3, PTL DEF PatchedSpec

----------------------------------------------------------------------------
\* The invariant: rows, what agents hold, and calls in flight, with one another.

\* States a row is in while it has attempts left.
Trying == {"pending", "error", "running"}

\* What an agent says of the work it was handed.
Verdict == {"running", "failed", "removed"}

\* A row: progress does not overtake the revision asked for, and "running at the
\* current generation" is what the assigned host has.
RowInv(r) ==
  LET row == rows[r] IN
  /\ 1 <= row.generation /\ row.observed <= row.generation
  /\ row.state \in Trying => row.attempts < Budget
  /\ row.state = "running" => row.agent \in Agent
  /\ row.state = "running" /\ row.observed = row.generation =>
       host[row.agent][r] = row.generation

\* What agent a has of r: a workload is as new as what is known of it, work is as
\* new as both, and a teardown is not held for a row that runs again.
HeldInv(a, r) ==
  LET row == rows[r] IN
  /\ host[a][r] <= row.generation
  /\ host[a][r] # 0 => row.observed <= host[a][r]
  /\ work[a][r] # NoWork =>
       /\ 1 <= work[a][r].generation /\ work[a][r].generation <= row.generation
       /\ row.observed <= work[a][r].generation /\ host[a][r] <= work[a][r].generation
       /\ row.state = "running" /\ work[a][r].teardown => work[a][r].generation < row.generation
       /\ row.state # "failed"

\* A report on its way: its agent is blocked on it, so what it says is still so.
FlightInv(c) ==
  LET row == rows[c.res]  w == work[c.caller][c.res]  h == host[c.caller][c.res] IN
  /\ c.awaited /\ c.caller \in Agent /\ row.agent = c.caller
  /\ c.rep.state \in Verdict \cup Drift
  /\ c.rep.observed <= row.generation
  /\ c.rep.state \in Verdict => w = NoWork /\ row.state # "failed"
  /\ c.rep.state \notin {"failed", "removed"} => h = c.rep.observed /\ h # 0
  /\ c.rep.state = "removed" => h = 0

\* The row it read before is older than the row, but it was a row.
ReadInv(c) ==
  LET row == rows[c.res]  w == work[c.caller][c.res] IN
  c.phase = "read" =>
    /\ c.cur.generation <= row.generation
    /\ c.cur.state \in Trying => c.cur.attempts < Budget
    /\ c.cur.state = "running" /\ w # NoWork /\ w.teardown => w.generation < row.generation
    /\ row.state = "failed" => c.cur.state = "failed"
    /\ c.cur.state = "failed" => w = NoWork

\* An agent makes one call at a time.
OneCall == \A c, d \in calls : c.caller = d.caller => c = d

FeedInv ==
  /\ TypeOK /\ SoleCustody /\ OneCall
  /\ \A r \in Resource : RowInv(r)
  /\ \A a \in Agent, r \in Resource : HeldInv(a, r)
  /\ \A c \in calls : FlightInv(c) /\ ReadInv(c)

\* The numbers the invariant compares are numbers.
LEMMA RowTypes ==
  ASSUME TypeOK, NEW r \in Resource
  PROVE  /\ rows[r] \in Row
         /\ rows[r].generation \in Nat /\ rows[r].observed \in Nat /\ rows[r].attempts \in Nat
         /\ rows[r].agent \in Agent \cup {NoAgent} /\ rows[r].state \in State
         /\ \A a \in Agent : /\ host[a][r] \in Nat
                             /\ work[a][r] \in Work /\ work[a][r].generation \in Nat
BY DEF TypeOK, Row, Work

\* And so are those of a call.
LEMMA CallTypes ==
  ASSUME TypeOK, NEW c \in calls
  PROVE  /\ c \in Call /\ c.res \in Resource /\ c.rep \in Report /\ c.cur \in Row
         /\ c.rep.observed \in Nat /\ c.cur.generation \in Nat /\ c.cur.attempts \in Nat
BY DEF TypeOK, Call, Report, Row

\* The empty table.
LEMMA FeedInit == ASSUME Init PROVE FeedInv
<1>1. TypeOK /\ SoleCustody /\ OneCall /\ calls = {}
  BY TypeInit DEF Init, SoleCustody, OneCall
<1>2. Budget \in Nat /\ 0 < Budget
  BY AttemptBudgetAssumption DEF Budget
<1>3. ASSUME NEW r \in Resource
      PROVE  /\ rows[r].generation = 1 /\ rows[r].observed = 0 /\ rows[r].attempts = 0
             /\ rows[r].state = "pending"
             /\ \A a \in Agent : work[a][r] = NoWork /\ host[a][r] = 0
  BY DEF Init, AbsentRow
<1>4. ASSUME NEW r \in Resource PROVE RowInv(r)
  BY <1>2, <1>3 DEF RowInv
<1>5. ASSUME NEW a \in Agent, NEW r \in Resource PROVE HeldInv(a, r)
  BY <1>3 DEF HeldInv
<1> QED
  BY <1>1, <1>4, <1>5 DEF FeedInv

----------------------------------------------------------------------------
\* Steps of operators, the supervisor and time.

\* What they do to a row: nothing the invariant sees, ask for a new revision with a
\* fresh budget, or ask for a teardown.
Moved(row, new) ==
  /\ new.agent = row.agent /\ new.observed = row.observed
  /\ \/ new.state = row.state /\ new.attempts = row.attempts /\ new.generation = row.generation
     \/ new.state = "pending" /\ new.attempts = 0 /\ new.generation = row.generation + 1
     \/ new.state = "deleting" /\ new.generation = row.generation

\* A row's generation only grows on the way, and a row that has failed or runs did so before.
LEMMA MovedFacts ==
  ASSUME NEW row, NEW new, row.generation \in Nat, Moved(row, new)
  PROVE  /\ new.agent = row.agent /\ new.observed = row.observed
         /\ new.generation \in Nat /\ row.generation <= new.generation
         /\ new.state = "failed" => row.state = "failed"
         /\ new.state = "running" => row.state = "running"
BY DEF Moved

\* A call before and after time passed.
Same(d, c) ==
  /\ d.awaited = c.awaited /\ d.caller = c.caller /\ d.res = c.res
  /\ d.rep = c.rep /\ d.phase = c.phase
  /\ d.cur.generation = c.cur.generation /\ d.cur.state = c.cur.state
  /\ d.cur.attempts = c.cur.attempts

\* A step that moves rows this way and starts no call keeps the invariant.
LEMMA QuietStep ==
  ASSUME FeedInv, TypeOK', SoleCustody', OneCall', work' = work, host' = host,
         \A q \in Resource : Moved(rows[q], rows'[q]),
         \A d \in calls' : \E c \in calls : Same(d, c)
  PROVE  FeedInv'
<1> USE DEF FeedInv
<1>0. Budget \in Nat /\ 0 < Budget
  BY AttemptBudgetAssumption DEF Budget
<1>1. ASSUME NEW r \in Resource PROVE RowInv(r)'
  <2>1. /\ RowInv(r) /\ Moved(rows[r], rows'[r])
        /\ rows[r].generation \in Nat /\ rows[r].observed \in Nat /\ rows[r].attempts \in Nat
    BY RowTypes
  <2> HIDE DEF FeedInv
  <2> QED
    BY <1>0, <2>1 DEF RowInv, Moved, Trying
<1>2. ASSUME NEW a \in Agent, NEW r \in Resource PROVE HeldInv(a, r)'
  <2>1. /\ HeldInv(a, r) /\ Moved(rows[r], rows'[r])
        /\ rows[r].generation \in Nat /\ rows[r].observed \in Nat
        /\ host[a][r] \in Nat /\ work[a][r].generation \in Nat
    BY RowTypes
  <2> HIDE DEF FeedInv
  <2>2. PICK row \in {rows[r]}, new \in {rows'[r]}, w \in {work[a][r]}, h \in {host[a][r]} :
          /\ row = rows[r] /\ new = rows'[r] /\ w = work[a][r] /\ h = host[a][r]
          /\ w = work'[a][r] /\ h = host'[a][r]
    OBVIOUS
  <2>3. /\ new.observed = row.observed /\ row.generation <= new.generation
        /\ new.generation \in Nat /\ row.generation \in Nat
        /\ new.state = "failed" => row.state = "failed"
        /\ new.state = "running" => row.state = "running"
    BY <2>1, <2>2, MovedFacts
  <2>4. /\ h \in Nat /\ w.generation \in Nat /\ h <= row.generation
        /\ h # 0 => row.observed <= h
    BY <2>1, <2>2 DEF HeldInv
  <2>5. w # NoWork =>
          /\ 1 <= w.generation /\ w.generation <= row.generation
          /\ row.observed <= w.generation /\ h <= w.generation
          /\ row.state = "running" /\ w.teardown => w.generation < row.generation
          /\ row.state # "failed"
    BY <2>1, <2>2 DEF HeldInv
  <2>6. h <= new.generation /\ (h # 0 => new.observed <= h)
    BY <2>3, <2>4
  <2>7. w # NoWork =>
          /\ 1 <= w.generation /\ w.generation <= new.generation
          /\ new.observed <= w.generation /\ h <= w.generation
          /\ new.state = "running" /\ w.teardown => w.generation < new.generation
          /\ new.state # "failed"
    BY <2>3, <2>4, <2>5
  <2> QED
    BY <2>2, <2>6, <2>7, Zenon DEF HeldInv
<1>3. ASSUME NEW d \in calls' PROVE FlightInv(d)' /\ ReadInv(d)'
  <2>1. PICK c \in calls : Same(d, c)
    OBVIOUS
  <2>2. /\ c.res \in Resource /\ c.caller \in Agent
        /\ rows[c.res].generation \in Nat /\ c.rep.observed \in Nat /\ c.cur.generation \in Nat
        /\ work[c.caller][c.res].generation \in Nat
        /\ Moved(rows[c.res], rows'[c.res])
    BY CallTypes, RowTypes DEF FlightInv
  <2>3. FlightInv(d)'
    <3>1. FlightInv(c)
      OBVIOUS
    <3> HIDE DEF FeedInv
    <3> DEFINE row == rows[c.res]  new == rows'[c.res]
    <3>2. /\ new.agent = row.agent /\ new.generation \in Nat /\ row.generation <= new.generation
          /\ new.state = "failed" => row.state = "failed"
      BY <2>2, MovedFacts
    <3>3. /\ rows'[d.res] = new /\ work'[d.caller][d.res] = work[c.caller][c.res]
          /\ host'[d.caller][d.res] = host[c.caller][c.res]
          /\ d.awaited = c.awaited /\ d.caller = c.caller /\ d.rep = c.rep
      BY <2>1 DEF Same
    <3>4. c.rep.observed <= row.generation
      BY <3>1 DEF FlightInv
    <3>5. c.rep.observed <= new.generation
      BY <2>2, <3>2, <3>4
    <3>6. /\ c.awaited /\ c.caller \in Agent /\ new.agent = c.caller
          /\ c.rep.state \in Verdict \cup Drift
          /\ c.rep.state \in Verdict => work[c.caller][c.res] = NoWork /\ new.state # "failed"
          /\ c.rep.state \notin {"failed", "removed"} =>
               host[c.caller][c.res] = c.rep.observed /\ host[c.caller][c.res] # 0
          /\ c.rep.state = "removed" => host[c.caller][c.res] = 0
      BY <3>1, <3>2 DEF FlightInv
    <3> HIDE DEF row, new
    <3> QED
      BY <3>3, <3>5, <3>6 DEF FlightInv
  <2>4. ReadInv(d)'
    <3>1. ReadInv(c)
      OBVIOUS
    <3> HIDE DEF FeedInv
    <3> DEFINE row == rows[c.res]  new == rows'[c.res]
    <3>2. /\ new.generation \in Nat /\ row.generation <= new.generation
          /\ new.state = "failed" => row.state = "failed"
      BY <2>2, MovedFacts
    <3>3. /\ rows'[d.res] = new /\ work'[d.caller][d.res] = work[c.caller][c.res]
          /\ d.phase = c.phase /\ d.cur.generation = c.cur.generation
          /\ d.cur.state = c.cur.state /\ d.cur.attempts = c.cur.attempts
      BY <2>1 DEF Same
    <3>4. PICK w : w = work[c.caller][c.res]
      OBVIOUS
    <3>5. ASSUME c.phase = "read"
          PROVE  /\ c.cur.generation <= row.generation
                 /\ c.cur.state \in Trying => c.cur.attempts < Budget
                 /\ c.cur.state = "running" /\ w # NoWork /\ w.teardown =>
                      w.generation < row.generation
                 /\ row.state = "failed" => c.cur.state = "failed"
                 /\ c.cur.state = "failed" => w = NoWork
      BY <3>1, <3>4, <3>5 DEF ReadInv
    <3>6. row.generation \in Nat /\ c.cur.generation \in Nat /\ w.generation \in Nat
      BY <2>2, <3>4
    <3> HIDE DEF row, new
    <3>7. ASSUME c.phase = "read"
          PROVE  /\ c.cur.generation <= new.generation
                 /\ c.cur.state = "running" /\ w # NoWork /\ w.teardown =>
                      w.generation < new.generation
                 /\ new.state = "failed" => c.cur.state = "failed"
      BY <3>2, <3>5, <3>6, <3>7
    <3> QED
      BY <3>3, <3>4, <3>5, <3>7 DEF ReadInv
  <2> QED
    BY <2>3, <2>4
<1> QED
  BY <1>1, <1>2, <1>3

\* Operators, the supervisor and time take such steps.
LEMMA ResourceMoves ==
  ASSUME TypeOK, NEW r \in Resource, ResourceStep(r)
  PROVE  /\ work' = work /\ host' = host
         /\ \A q \in Resource : q # r => rows'[q] = rows[q]
         /\ Moved(rows[r], rows'[r])
<1>0. rows \in [Resource -> Row] /\ rows[r] \in Row
  BY DEF TypeOK
<1>1. work' = work /\ host' = host
  BY DEF ResourceStep, Create, UpdateSpec, Delete, RedispatchSystem, LeaseExpires, BackoffElapses
<1>2. ASSUME NEW row, Moved(rows[r], row), rows' = [rows EXCEPT ![r] = row]
      PROVE  (\A q \in Resource : q # r => rows'[q] = rows[q]) /\ Moved(rows[r], rows'[r])
  BY <1>0, <1>2
<1>3. /\ Moved(rows[r], CreateResource(rows[r])) /\ Moved(rows[r], UpdateResourceSpec(rows[r]))
      /\ Moved(rows[r], MarkResourceDeleting(rows[r]))
      /\ Moved(rows[r], RedispatchSystemResource(rows[r]))
  BY <1>0 DEF Row, Moved, CreateResource, UpdateResourceSpec, MarkResourceDeleting,
              RedispatchSystemResource
<1>4. /\ Moved(rows[r], [rows[r] EXCEPT !.leased = FALSE])
      /\ Moved(rows[r], [rows[r] EXCEPT !.backoff = FALSE])
  BY <1>0 DEF Row, Moved
<1>5. \E row : Moved(rows[r], row) /\ rows' = [rows EXCEPT ![r] = row]
  BY <1>3, <1>4 DEF ResourceStep, Create, UpdateSpec, Delete, RedispatchSystem, LeaseExpires,
                    BackoffElapses, Write
<1> QED
  BY <1>1, <1>2, <1>5

\* They keep the calls, whose copies of a row may see its backoff pass.
LEMMA ResourceCalls ==
  ASSUME TypeOK, OneCall, NEW r \in Resource, ResourceStep(r)
  PROVE  OneCall' /\ \A d \in calls' : \E c \in calls : Same(d, c)
<1>1. CASE BackoffElapses(r)
  <2> DEFINE f(c) == [c EXCEPT !.cur.backoff = @ /\ c.res # r]
  <2>1. calls' = {f(c) : c \in calls}
    BY <1>1 DEF BackoffElapses
  <2>2. ASSUME NEW c \in calls PROVE Same(f(c), c)
    <3>1. c \in Call /\ c.cur \in Row
      BY DEF TypeOK, Call
    <3> QED
      BY <3>1 DEF Same, Call, Row
  <2> HIDE DEF f
  <2>3. OneCall'
    BY <2>1, <2>2 DEF OneCall, Same
  <2> QED
    BY <2>1, <2>2, <2>3
<1>2. CASE ~BackoffElapses(r)
  <2>1. calls' = calls
    BY <1>2 DEF ResourceStep, Create, UpdateSpec, Delete, RedispatchSystem, LeaseExpires
  <2> QED
    BY <2>1 DEF OneCall, Same
<1> QED
  BY <1>1, <1>2

\* So they keep the invariant.
LEMMA FeedResourceStep ==
  ASSUME FeedInv, NEW r \in Resource, ResourceStep(r)
  PROVE  FeedInv'
<1> USE DEF FeedInv
<1>1. TypeOK' /\ SoleCustody'
  BY TypeResourceStep, CustodyStep DEF LateNext, PatchedNext, Next
<1>2. OneCall' /\ \A d \in calls' : \E c \in calls : Same(d, c)
  BY ResourceCalls
<1>3. \A q \in Resource : Moved(rows[q], rows'[q])
  BY ResourceMoves DEF Moved
<1> QED
  BY <1>1, <1>2, <1>3, ResourceMoves, QuietStep

----------------------------------------------------------------------------
\* Claims and the agent's own steps.

\* An agent that is not waiting has no call in flight.
LEMMA NotBusy ==
  ASSUME FeedInv, NEW a \in Agent, ~Busy(a)
  PROVE  \A c \in calls : c.caller # a
BY DEF FeedInv, FlightInv, Busy

\* A call of another agent does not notice what a does to its own holdings.
LEMMA OthersCalls ==
  ASSUME FeedInv, NEW a \in Agent, NEW c \in calls, c.caller # a,
         rows'[c.res] = rows[c.res],
         work'[c.caller] = work[c.caller], host'[c.caller] = host[c.caller]
  PROVE  FlightInv(c)' /\ ReadInv(c)'
BY DEF FeedInv, FlightInv, ReadInv

\* A claim takes live rows that need work, none of them under report.
LEMMA FeedClaim ==
  ASSUME FeedInv, NEW a \in Agent, PullWork(a) \/ PullWorkLost(a)
  PROVE  FeedInv'
<1> USE DEF FeedInv
<1>0. TypeOK' /\ SoleCustody'
  BY TypeAgentStep, CustodyStep DEF AgentStep, LateNext, PatchedNext, Next
<1>1. PICK S \in Batches(a) :
        /\ ClaimForAgent(a, S)
        /\ \/ work' = work
           \/ work' = [work EXCEPT ![a] =
                         [r \in Resource |->
                            IF r \in S THEN Envelope(rows[r]) ELSE work[a][r]]]
  BY DEF PullWork, PullWorkLost
<1>2. S \in SUBSET Resource /\ \A r \in S : /\ rows[r].state # "failed"
                                            /\ rows[r].agent \in {a, NoAgent}
  BY DEF Batches, Claimable, InFeed, NeedsWork
<1>3. host' = host /\ calls' = calls /\ ~Busy(a)
  BY DEF PullWork, PullWorkLost
<1>4. ASSUME NEW r \in Resource
      PROVE  /\ rows'[r].generation = rows[r].generation /\ rows'[r].observed = rows[r].observed
             /\ rows'[r].state = rows[r].state /\ rows'[r].attempts = rows[r].attempts
             /\ rows'[r].agent = IF r \in S THEN a ELSE rows[r].agent
             /\ r \notin S => rows'[r] = rows[r]
  <2>1. rows'[r] = IF r \in S THEN ClaimAgentWork(rows[r], a) ELSE rows[r]
    BY <1>1 DEF ClaimForAgent
  <2>2. rows[r] \in Row
    BY RowTypes
  <2> QED
    BY <2>1, <2>2 DEF ClaimAgentWork, Row
<1>5. ASSUME NEW r \in Resource PROVE RowInv(r)'
  <2>1. RowInv(r)
    OBVIOUS
  <2>2. rows[r].state = "running" => rows'[r].agent = rows[r].agent
    BY <1>2, <1>4, <2>1, NoAgentAssumption DEF RowInv
  <2> QED
    BY <1>3, <1>4, <2>1, <2>2 DEF RowInv
<1>6. ASSUME NEW b \in Agent, NEW r \in Resource PROVE HeldInv(b, r)'
  <2>0. HeldInv(b, r) /\ RowInv(r)
    OBVIOUS
  <2>1. CASE work'[b][r] = work[b][r]
    BY <1>3, <1>4, <2>0, <2>1 DEF HeldInv
  <2>2. CASE r \in S /\ work'[b][r] = Envelope(rows[r])
    <3>1. /\ work'[b][r].generation = rows[r].generation
          /\ work'[b][r].teardown => rows[r].state = "deleting"
      <4>1. PICK t \in BOOLEAN : t = (rows[r].state = "deleting")
        OBVIOUS
      <4>2. work'[b][r] = [generation |-> rows[r].generation, teardown |-> t]
        BY <2>2, <4>1, Zenon DEF Envelope
      <4>3. work'[b][r].generation = rows[r].generation /\ work'[b][r].teardown = t
        BY <4>2
      <4> QED
        BY <4>1, <4>3
    <3>2. rows[r].generation \in Nat
      BY RowTypes
    <3> HIDE DEF FeedInv
    <3>3. /\ 1 <= rows[r].generation /\ rows[r].observed <= rows[r].generation
          /\ host[b][r] <= rows[r].generation
          /\ host[b][r] # 0 => rows[r].observed <= host[b][r]
          /\ rows[r].state # "failed"
      BY <1>2, <2>0, <2>2 DEF HeldInv, RowInv
    <3>4. /\ host'[b][r] = host[b][r] /\ rows'[r].generation = rows[r].generation
          /\ rows'[r].observed = rows[r].observed /\ rows'[r].state = rows[r].state
      BY <1>3, <1>4
    <3>5. PICK w \in {work'[b][r]}, h \in {host[b][r]}, row \in {rows[r]}, new \in {rows'[r]} :
            /\ w = work'[b][r] /\ h = host[b][r] /\ h = host'[b][r]
            /\ row = rows[r] /\ new = rows'[r]
      BY <3>4
    <3>6. h <= new.generation /\ (h # 0 => new.observed <= h)
      BY <3>3, <3>4, <3>5
    <3>7. /\ 1 <= w.generation /\ w.generation <= new.generation
          /\ new.observed <= w.generation /\ h <= w.generation
          /\ ~(new.state = "running" /\ w.teardown) /\ new.state # "failed"
      BY <3>1, <3>2, <3>3, <3>4, <3>5
    <3> QED
      BY <3>5, <3>6, <3>7, Zenon DEF HeldInv
  <2> QED
    BY <1>1, <2>1, <2>2 DEF TypeOK
<1>7. ASSUME NEW c \in calls PROVE FlightInv(c)' /\ ReadInv(c)'
  <2>1. c.caller # a /\ c.caller \in Agent /\ c.res \in Resource /\ rows[c.res].agent = c.caller
    BY <1>3, NotBusy, CallTypes DEF FlightInv
  <2>2. c.res \notin S
    BY <1>2, <2>1, NoAgentAssumption
  <2>3. work'[c.caller] = work[c.caller]
    BY <1>1, <2>1 DEF TypeOK
  <2> QED
    BY <1>3, <1>4, <2>1, <2>2, <2>3, OthersCalls
<1> QED
  BY <1>0, <1>3, <1>5, <1>6, <1>7 DEF OneCall

\* An agent that reports says what is so, and says it about a row that is its own.
LEMMA FeedReport ==
  ASSUME FeedInv, TypeOK', SoleCustody', NEW a \in Agent, NEW r \in Resource, NEW rep,
         ~Busy(a), rows' = rows, Send(a, r, rep),
         \A b \in Agent : b # a => work'[b] = work[b] /\ host'[b] = host[b],
         \A q \in Resource : q # r => work'[a][q] = work[a][q] /\ host'[a][q] = host[a][q],
         RowInv(r)', HeldInv(a, r)',
         rows[r].agent = a, rep.state \in Verdict \cup Drift, rep.observed <= rows[r].generation,
         rep.state \in Verdict => work'[a][r] = NoWork /\ rows[r].state # "failed",
         rep.state \notin {"failed", "removed"} => host'[a][r] = rep.observed /\ host'[a][r] # 0,
         rep.state = "removed" => host'[a][r] = 0
  PROVE  FeedInv'
<1> USE DEF FeedInv
<1> DEFINE new == [caller |-> a, res |-> r, rep |-> rep,
                   phase |-> "sent", cur |-> AbsentRow, awaited |-> TRUE]
<1>1. calls' = calls \cup {new}
  BY DEF Send
<1>2. new.caller = a /\ new.res = r /\ new.rep = rep /\ new.phase = "sent" /\ new.awaited = TRUE
  OBVIOUS
<1> HIDE DEF new
<1>3. \A c \in calls : c.caller # a
  BY NotBusy
<1>4. OneCall'
  <2> SUFFICES ASSUME NEW c \in calls', NEW d \in calls', c.caller = d.caller PROVE c = d
    BY DEF OneCall
  <2>0. OneCall
    OBVIOUS
  <2>1. CASE c \in calls /\ d \in calls
    BY <2>0, <2>1, Zenon DEF OneCall
  <2>2. CASE c = new
    BY <1>1, <1>2, <1>3, <2>2
  <2>3. CASE d = new
    BY <1>1, <1>2, <1>3, <2>3
  <2> QED
    BY <1>1, <2>1, <2>2, <2>3
<1>5. ASSUME NEW q \in Resource PROVE RowInv(q)'
  <2>1. CASE q # r
    <3>1. RowInv(q) /\ rows'[q] = rows[q]
      OBVIOUS
    <3>2. ASSUME NEW b \in Agent PROVE host'[b][q] = host[b][q]
      BY <2>1
    <3> QED
      BY <3>1, <3>2 DEF RowInv
  <2> QED
    BY <2>1
<1>6. ASSUME NEW b \in Agent, NEW q \in Resource PROVE HeldInv(b, q)'
  <2>1. CASE b # a \/ q # r
    <3>1. HeldInv(b, q) /\ rows'[q] = rows[q] /\ work'[b][q] = work[b][q] /\ host'[b][q] = host[b][q]
      BY <2>1
    <3> QED
      BY <3>1 DEF HeldInv
  <2> QED
    BY <2>1
<1>7. ASSUME NEW c \in calls PROVE FlightInv(c)' /\ ReadInv(c)'
  <2>1. c.caller \in Agent
    BY DEF FlightInv
  <2> QED
    BY <1>3, <2>1, OthersCalls
<1>8. FlightInv(new)' /\ ReadInv(new)'
  BY <1>2 DEF FlightInv, ReadInv
<1> QED
  BY <1>1, <1>4, <1>5, <1>6, <1>7, <1>8

\* What an agent does with its work keeps the invariant.
LEMMA FeedAgentStep ==
  ASSUME FeedInv, NEW a \in Agent, AgentStep(a)
  PROVE  FeedInv'
<1> USE DEF FeedInv
<1>0. TypeOK' /\ SoleCustody'
  BY TypeAgentStep, CustodyStep DEF LateNext, PatchedNext, Next
<1>1. CASE AgentRestart(a)
  <2>1. /\ rows' = rows /\ host' = host /\ calls' = calls /\ ~Busy(a)
        /\ \A b \in Agent : b # a => work'[b] = work[b]
        /\ \A r \in Resource : work'[a][r] = NoWork
    BY <1>1 DEF AgentRestart, TypeOK
  <2>2. ASSUME NEW r \in Resource PROVE RowInv(r)'
    <3>1. RowInv(r)
      OBVIOUS
    <3> QED
      BY <2>1, <3>1 DEF RowInv
  <2>3. ASSUME NEW b \in Agent, NEW r \in Resource PROVE HeldInv(b, r)'
    <3>1. HeldInv(b, r) /\ (work'[b][r] = work[b][r] \/ work'[b][r] = NoWork)
      BY <2>1
    <3> QED
      BY <2>1, <3>1 DEF HeldInv
  <2>4. ASSUME NEW c \in calls PROVE FlightInv(c)' /\ ReadInv(c)'
    <3>1. c.caller # a /\ c.caller \in Agent
      BY <2>1, NotBusy DEF FlightInv
    <3> QED
      BY <2>1, <3>1, OthersCalls
  <2> QED
    BY <1>0, <2>1, <2>2, <2>3, <2>4 DEF OneCall
<1>2. ASSUME NEW r \in Resource, Converge(a, r) \/ FailToConverge(a, r) \/ ObserveDrift(a, r)
      PROVE  FeedInv'
  <2>0. /\ RowInv(r) /\ HeldInv(a, r)
        /\ rows[r].generation \in Nat /\ rows[r].observed \in Nat
        /\ host[a][r] \in Nat /\ work[a][r].generation \in Nat
    BY RowTypes
  <2>1. /\ rows' = rows /\ ~Busy(a) /\ rows[r].agent = a
        /\ \A b \in Agent : b # a => work'[b] = work[b] /\ host'[b] = host[b]
        /\ \A q \in Resource : q # r => work'[a][q] = work[a][q] /\ host'[a][q] = host[a][q]
    <3>1. rows' = rows /\ ~Busy(a) /\ (work[a][r] # NoWork \/ host[a][r] # 0)
      BY <1>2 DEF Converge, FailToConverge, ObserveDrift
    <3>2. rows[r].agent = a
      BY <3>1 DEF SoleCustody
    <3>3. \A b \in Agent : b # a => work'[b] = work[b] /\ host'[b] = host[b]
      BY <1>2 DEF Converge, FailToConverge, ObserveDrift, TypeOK
    <3>4. \A q \in Resource : q # r => work'[a][q] = work[a][q] /\ host'[a][q] = host[a][q]
      <4>1. \/ work' = work \/ work' = [work EXCEPT ![a][r] = NoWork]
        BY <1>2 DEF Converge, FailToConverge, ObserveDrift
      <4>2. PICK h : h = IF work[a][r].teardown THEN 0 ELSE work[a][r].generation
        OBVIOUS
      <4>3. \/ host' = host \/ host' = [host EXCEPT ![a][r] = h]
        BY <1>2, <4>2 DEF Converge, FailToConverge, ObserveDrift
      <4>4. work \in [Agent -> [Resource -> Work]] /\ host \in [Agent -> [Resource -> Nat]]
        BY DEF TypeOK
      <4> HIDE DEF FeedInv
      <4> QED
        BY <4>1, <4>3, <4>4
    <3> QED
      BY <3>1, <3>2, <3>3, <3>4
  <2>2. CASE Converge(a, r)
    <3> DEFINE t == work[a][r].teardown
               g == work[a][r].generation
    <3>1. /\ work[a][r] # NoWork /\ work'[a][r] = NoWork
          /\ host'[a][r] = IF t THEN 0 ELSE g
      BY <2>2 DEF Converge, TypeOK
    <3>2. PICK doc \in StatusDocs :
            Send(a, r, [state |-> IF t THEN "removed" ELSE "running", observed |-> g, status |-> doc])
      BY <2>2 DEF Converge
    <3>3. RowInv(r)'
      <4> HIDE DEF FeedInv
      <4>1. PICK row : row = rows[r]
        OBVIOUS
      <4>2. rows'[r] = row /\ row.agent = a /\ row.generation \in Nat /\ row.observed \in Nat
        BY <2>0, <2>1, <4>1
      <4>3. /\ 1 <= row.generation /\ row.observed <= row.generation
            /\ row.state \in Trying => row.attempts < Budget
            /\ row.state = "running" => row.agent \in Agent
        BY <2>0, <4>1 DEF RowInv
      <4>4. /\ g \in Nat /\ g <= row.generation /\ row.observed <= g
            /\ row.state = "running" /\ t => g < row.generation
        BY <2>0, <3>1, <4>1 DEF HeldInv
      <4> HIDE DEF t, g
      <4>5. ASSUME row.state = "running", row.observed = row.generation
            PROVE  host'[a][r] = row.generation
        BY <3>1, <4>2, <4>4, <4>5
      <4> QED
        BY <4>2, <4>3, <4>5 DEF RowInv
    <3>4. HeldInv(a, r)'
      <4> HIDE DEF FeedInv
      <4> QED
        <5>1. g <= rows[r].generation /\ rows[r].observed <= g
          BY <2>0, <3>1 DEF HeldInv
        <5>2. /\ rows' = rows /\ work'[a][r] = NoWork
              /\ host'[a][r] = 0 \/ host'[a][r] = g
          BY <2>1, <3>1
        <5>3. /\ host'[a][r] <= rows'[r].generation
              /\ host'[a][r] # 0 => rows'[r].observed <= host'[a][r]
          <6>1. PICK h \in {host'[a][r]}, row \in {rows[r]}, k \in {g} :
                  h = host'[a][r] /\ row = rows[r] /\ row = rows'[r] /\ k = g
            BY <5>2
          <6>2. /\ row.generation \in Nat /\ row.observed \in Nat /\ k \in Nat
                /\ k <= row.generation /\ row.observed <= k /\ h \in {0, k}
            BY <2>0, <5>1, <5>2, <6>1
          <6>3. h <= row.generation /\ (h # 0 => row.observed <= h)
            BY <6>2
          <6> QED
            BY <6>1, <6>3, Zenon
        <5> QED
          BY <5>2, <5>3 DEF HeldInv
    <3>5. PICK s : s = IF t THEN "removed" ELSE "running"
      OBVIOUS
    <3>6. PICK rep : rep = [state |-> s, observed |-> g, status |-> doc]
      OBVIOUS
    <3>7. Send(a, r, rep)
      BY <3>2, <3>5, <3>6
    <3>8. /\ rep.state \in Verdict
          /\ rep.observed <= rows[r].generation /\ rows[r].state # "failed"
          /\ rep.state \notin {"failed", "removed"} => host'[a][r] = rep.observed /\ host'[a][r] # 0
          /\ rep.state = "removed" => host'[a][r] = 0
      <4> HIDE DEF FeedInv
      <4>1. 1 <= g /\ g <= rows[r].generation /\ rows[r].state # "failed"
        BY <2>0, <3>1 DEF HeldInv
      <4>2. rep.state = s /\ rep.observed = g
        BY <3>6
      <4>3. CASE t
        <5>1. s = "removed" /\ host'[a][r] = 0
          BY <3>1, <3>5, <4>3
        <5> QED
          BY <4>1, <4>2, <5>1 DEF Verdict
      <4>4. CASE ~t
        <5>1. s = "running"
          BY <3>5, <4>4
        <5>2. host'[a][r] = g
          BY <3>1, <4>4
        <5>3. g # 0
          BY <4>1
        <5> QED
          BY <4>1, <4>2, <5>1, <5>2, <5>3 DEF Verdict
      <4> QED
        BY <4>3, <4>4
    <3> QED
      BY <1>0, <2>1, <3>1, <3>3, <3>4, <3>7, <3>8, FeedReport
  <2>3. CASE FailToConverge(a, r)
    <3>1. work[a][r] # NoWork /\ work'[a][r] = NoWork /\ host'[a][r] = host[a][r]
      BY <2>3 DEF FailToConverge, TypeOK
    <3>2. RowInv(r)'
      BY <2>0, <2>1, <2>3 DEF RowInv, FailToConverge
    <3>3. HeldInv(a, r)'
      BY <2>0, <2>1, <3>1 DEF HeldInv
    <3>4. PICK rep : rep = [state |-> "failed", observed |-> work[a][r].generation, status |-> "plain"]
      OBVIOUS
    <3>5. Send(a, r, rep)
      BY <2>3, <3>4 DEF FailToConverge
    <3>6. rep.state = "failed" /\ rep.observed <= rows[r].generation /\ rows[r].state # "failed"
      BY <2>0, <3>1, <3>4 DEF HeldInv
    <3> QED
      BY <1>0, <2>1, <3>1, <3>2, <3>3, <3>5, <3>6, FeedReport DEF Verdict
  <2>4. CASE ObserveDrift(a, r)
    <3>1. work' = work /\ host' = host /\ host[a][r] # 0
      BY <2>4 DEF ObserveDrift
    <3>2. RowInv(r)' /\ HeldInv(a, r)'
      BY <2>0, <2>1, <3>1 DEF RowInv, HeldInv
    <3>3. PICK d \in Drift : Send(a, r, [state |-> d, observed |-> host[a][r], status |-> "plain"])
      BY <2>4 DEF ObserveDrift
    <3>4. PICK rep : rep = [state |-> d, observed |-> host[a][r], status |-> "plain"]
      OBVIOUS
    <3>5. /\ Send(a, r, rep) /\ rep.state \in Drift /\ rep.observed = host[a][r]
          /\ rep.observed <= rows[r].generation
      BY <2>0, <3>3, <3>4 DEF HeldInv
    <3>6. rep.state \notin Verdict /\ rep.state # "removed"
      BY <3>5, DriftAssumption DEF Verdict
    <3> QED
      BY <1>0, <2>1, <3>1, <3>2, <3>5, <3>6, FeedReport
  <2> QED
    BY <1>2, <2>2, <2>3, <2>4
<1> QED
  BY <1>1, <1>2, FeedClaim DEF AgentStep

----------------------------------------------------------------------------
\* A report at Core.

\* The row is read.
LEMMA FeedRead ==
  ASSUME FeedInv, NEW c \in calls, ReadRow(c)
  PROVE  FeedInv'
<1> USE DEF FeedInv
<1>0. TypeOK' /\ SoleCustody'
  BY TypeCallStep, CustodyStep DEF CallStep, LateNext, PatchedNext, Next
<1>1. rows' = rows /\ work' = work /\ host' = host
  BY DEF ReadRow
<1>d. PICK d : d = [c EXCEPT !.phase = "read", !.cur = rows[c.res]]
  OBVIOUS
<1>2. calls' \subseteq (calls \ {c}) \cup {d}
  BY <1>d DEF ReadRow
<1>3. /\ d.caller = c.caller /\ d.res = c.res /\ d.rep = c.rep /\ d.awaited = c.awaited
      /\ d.cur = rows[c.res]
  BY <1>d, CallTypes DEF Call
<1>4. OneCall'
  BY <1>2, <1>3 DEF OneCall
<1>5. ASSUME NEW r \in Resource PROVE RowInv(r)'
  <2>1. RowInv(r)
    OBVIOUS
  <2> QED
    BY <1>1, <2>1 DEF RowInv
<1>6. ASSUME NEW a \in Agent, NEW r \in Resource PROVE HeldInv(a, r)'
  <2>1. HeldInv(a, r)
    OBVIOUS
  <2> QED
    BY <1>1, <2>1 DEF HeldInv
<1>7. ASSUME NEW e \in calls PROVE FlightInv(e)' /\ ReadInv(e)'
  <2>1. FlightInv(e) /\ ReadInv(e)
    OBVIOUS
  <2> QED
    BY <1>1, <2>1 DEF FlightInv, ReadInv
<1>8. FlightInv(d)' /\ ReadInv(d)'
  <2>1. /\ FlightInv(c) /\ c.res \in Resource /\ c.caller \in Agent
        /\ rows[c.res].generation \in Nat
    BY CallTypes, RowTypes DEF FlightInv
  <2>2. RowInv(c.res) /\ HeldInv(c.caller, c.res)
    BY <2>1
  <2>3. FlightInv(d)'
    BY <1>1, <1>3, <2>1 DEF FlightInv
  <2>4. ReadInv(d)'
    <3> HIDE DEF FeedInv
    <3>1. PICK row : row = rows[c.res]
      OBVIOUS
    <3>2. PICK w : w = work[c.caller][c.res]
      OBVIOUS
    <3>3. row.state \in Trying => row.attempts < Budget
      BY <2>2, <3>1 DEF RowInv
    <3>4. /\ row.state = "running" /\ w # NoWork /\ w.teardown => w.generation < row.generation
          /\ row.state = "failed" => w = NoWork
      BY <2>2, <3>1, <3>2, Zenon DEF HeldInv
    <3>5. row.generation <= row.generation
      BY <2>1, <3>1
    <3>6. d.cur = row /\ rows'[d.res] = row /\ work'[d.caller][d.res] = w
      BY <1>1, <1>3, <3>1, <3>2
    <3> QED
      BY <3>3, <3>4, <3>5, <3>6 DEF ReadInv
  <2> QED
    BY <2>3, <2>4
<1> QED
  BY <1>0, <1>2, <1>4, <1>5, <1>6, <1>7, <1>8

\* What ApplyAgentReport writes, field by field.
LEMMA ReportFields ==
  ASSUME NEW cur, NEW row \in Row, NEW rep, NEW new, new = ApplyAgentReport(cur, row, rep)
  PROVE  /\ new.agent = row.agent /\ new.generation = row.generation
         /\ new.state = ReportedState(cur, rep)
         /\ new.attempts = ReportedAttempts(cur, rep)
         /\ new.observed = Greatest(row.observed, ReportedObserved(cur, rep))
BY DEF ApplyAgentReport, UpdateFromReport, ReportParams, Row

\* A report is written over a live row.
LEMMA FeedWrite ==
  ASSUME FeedInv, NEW c \in calls, WriteRow(c), Live(c.res)
  PROVE  FeedInv'
<1> USE DEF FeedInv
<1>0. TypeOK' /\ SoleCustody'
  BY TypeCallStep, CustodyStep DEF CallStep, LateNext, PatchedNext, Next
<1>1. PICK r \in Resource, a \in Agent, cur \in {c.cur}, rep \in {c.rep} :
        r = c.res /\ a = c.caller /\ cur = c.cur /\ rep = c.rep
  BY CallTypes DEF FlightInv
<1>2. /\ FlightInv(c) /\ ReadInv(c) /\ c.phase = "read" /\ RowInv(r) /\ HeldInv(a, r)
      /\ rows[r].agent = a
  BY <1>1 DEF FlightInv, WriteRow
<1>3. /\ rows[r] \in Row /\ rows[r].generation \in Nat /\ rows[r].observed \in Nat
      /\ rep.observed \in Nat /\ cur.generation \in Nat /\ cur.attempts \in Nat
      /\ host[a][r] \in Nat /\ work[a][r].generation \in Nat
      /\ Budget \in Nat /\ 0 < Budget
  <2>1. rep.observed \in Nat /\ cur.generation \in Nat /\ cur.attempts \in Nat
    BY <1>1, CallTypes
  <2>2. Budget \in Nat /\ 0 < Budget
    BY AttemptBudgetAssumption DEF Budget
  <2> QED
    BY <2>1, <2>2, RowTypes
<1>4. PICK new : new = ApplyAgentReport(cur, rows[r], rep)
  OBVIOUS
<1>5. /\ work' = work /\ host' = host /\ calls' = calls \ {c}
      /\ rows' = [rows EXCEPT ![r] = new]
  BY <1>1, <1>4, NoAgentAssumption DEF WriteRow, Write, Operator
<1>6. rows'[r] = new /\ \A q \in Resource : q # r => rows'[q] = rows[q]
  BY <1>5 DEF TypeOK
<1>7. /\ new.agent = a /\ new.generation = rows[r].generation
      /\ new.state = ReportedState(cur, rep) /\ new.attempts = ReportedAttempts(cur, rep)
      /\ new.observed = Greatest(rows[r].observed, ReportedObserved(cur, rep))
  <2> HIDE DEF FeedInv
  <2> QED
    <3>1. rows[r] \in Row /\ rows[r].agent = a
      BY <1>2, <1>3
    <3>2. ASSUME NEW row \in Row, new = ApplyAgentReport(cur, row, rep)
          PROVE  /\ new.agent = row.agent /\ new.generation = row.generation
                 /\ new.state = ReportedState(cur, rep) /\ new.attempts = ReportedAttempts(cur, rep)
                 /\ new.observed = Greatest(row.observed, ReportedObserved(cur, rep))
      BY ONLY <3>2, ReportFields
    <3> QED
      BY <1>4, <3>1, <3>2, Zenon
<1>8. /\ rep.state \in Verdict \cup Drift /\ rep.observed <= rows[r].generation
      /\ rep.state \in Verdict => work[a][r] = NoWork /\ rows[r].state # "failed"
      /\ rep.state \notin {"failed", "removed"} => host[a][r] = rep.observed /\ host[a][r] # 0
      /\ rep.state = "removed" => host[a][r] = 0
      /\ cur.generation <= rows[r].generation
      /\ cur.state \in Trying => cur.attempts < Budget
      /\ cur.state = "running" /\ work[a][r] # NoWork /\ work[a][r].teardown =>
           work[a][r].generation < rows[r].generation
      /\ cur.state = "failed" => work[a][r] = NoWork
  BY <1>1, <1>2 DEF FlightInv, ReadInv
\* The workload is as new as what is now known of it.
<1>9. /\ new.observed \in Nat /\ new.observed <= new.generation
      /\ host[a][r] # 0 => new.observed <= host[a][r]
      /\ work[a][r] # NoWork => new.observed <= work[a][r].generation
      /\ rep.state \notin {"failed", "removed"} /\ new.observed = new.generation =>
           host[a][r] = new.generation
  BY <1>2, <1>3, <1>7, <1>8 DEF Greatest, ReportedObserved, Finalizes, HeldInv, RowInv, Verdict
\* A row that is tried again has attempts left.
<1>10. new.state \in Trying => new.attempts < Budget
  <2>1. CASE rep.state = "failed"
    <3>1. new.state \in Trying => ~Exhausted(cur)
      BY <1>7, <2>1 DEF Trying, ReportedState
    <3>2. new.attempts = cur.attempts + 1
      BY <1>7, <2>1 DEF ReportedAttempts
    <3> QED
      BY <1>3, <3>1, <3>2 DEF Exhausted
  <2>2. CASE rep.state = "running"
    BY <1>3, <1>7, <2>2 DEF ReportedAttempts
  <2>3. CASE rep.state = "removed" \/ (rep.state \in Drift /\ rep.state # "")
    BY <1>7, <2>3, DriftAssumption DEF ReportedState, Trying
  <2>4. CASE rep.state = ""
    BY <1>7, <1>8, <2>4 DEF ReportedState, ReportedAttempts
  <2> QED
    BY <1>8, <2>1, <2>2, <2>3, <2>4 DEF Verdict
\* It says "running" for a workload it has seen.
<1>11. new.state = "running" =>
         /\ rep.state \notin {"failed", "removed"}
         /\ work[a][r] # NoWork => cur.state = "running"
  BY <1>7, <1>8, DriftAssumption DEF Verdict, ReportedState
\* A parked row has no work with an agent.
<1>12. new.state = "failed" => work[a][r] = NoWork
  BY <1>7, <1>8, DriftAssumption DEF Verdict, ReportedState
<1>13. ASSUME NEW q \in Resource PROVE RowInv(q)'
  <2>1. CASE q = r
    <3> HIDE DEF FeedInv
    <3>1. rows'[q] = new /\ host'[a][q] = host[a][r] /\ 1 <= new.generation
      BY <1>2, <1>5, <1>6, <1>7, <2>1 DEF RowInv
    <3>2. /\ new.agent = a /\ new.observed <= new.generation
          /\ new.state \in Trying => new.attempts < Budget
      BY <1>7, <1>9, <1>10
    <3>3. new.state = "running" /\ new.observed = new.generation => host[a][r] = new.generation
      BY <1>9, <1>11
    <3> QED
      BY <3>1, <3>2, <3>3, Zenon DEF RowInv
  <2>2. CASE q # r
    <3>1. RowInv(q)
      OBVIOUS
    <3> QED
      BY <1>5, <1>6, <2>2, <3>1 DEF RowInv
  <2> QED
    BY <2>1, <2>2
<1>14. ASSUME NEW b \in Agent, NEW q \in Resource PROVE HeldInv(b, q)'
  <2>0. HeldInv(b, q)
    OBVIOUS
  <2>1. CASE q = r /\ b = a
    <3> HIDE DEF FeedInv
    <3>1. PICK w : w = work[a][r]
      OBVIOUS
    <3>2. PICK h : h = host[a][r]
      OBVIOUS
    <3>3. work'[b][q] = w /\ host'[b][q] = h /\ rows'[q] = new
          /\ new.generation = rows[r].generation
      BY <1>5, <1>6, <1>7, <2>1, <3>1, <3>2
    <3>4. /\ h <= new.generation
          /\ w # NoWork => /\ 1 <= w.generation /\ w.generation <= new.generation
                          /\ h <= w.generation
      BY <2>0, <2>1, <3>1, <3>2, <3>3 DEF HeldInv
    <3>5. /\ h # 0 => new.observed <= h
          /\ w # NoWork => new.observed <= w.generation
          /\ w # NoWork => new.state # "failed"
      BY <1>9, <1>12, <3>1, <3>2
    <3>6. ASSUME w # NoWork, new.state = "running", w.teardown PROVE w.generation < new.generation
      BY <1>8, <1>11, <3>1, <3>3, <3>6
    <3> QED
      BY <3>3, <3>4, <3>5, <3>6 DEF HeldInv
  <2>2. CASE q = r /\ b # a
    <3>1. work[b][q] = NoWork /\ host[b][q] = 0
      BY <1>2, <2>2 DEF SoleCustody
    <3> HIDE DEF FeedInv
    <3> QED
      <4>1. /\ work'[b][q] = NoWork /\ host'[b][q] = 0
            /\ rows'[q].generation = rows[r].generation
        BY <1>5, <1>6, <1>7, <2>2, <3>1
      <4>2. 0 <= rows'[q].generation
        BY <1>3, <4>1
      <4> QED
        BY <4>1, <4>2, Zenon DEF HeldInv
  <2>3. CASE q # r
    BY <1>5, <1>6, <2>0, <2>3 DEF HeldInv
  <2> QED
    BY <2>1, <2>2, <2>3
<1>15. ASSUME NEW d \in calls' PROVE FlightInv(d)' /\ ReadInv(d)'
  <2>1. d \in calls /\ d # c
    BY <1>5
  <2>2. FlightInv(d) /\ ReadInv(d) /\ d.caller # a /\ d.res \in Resource
    BY <1>1, <2>1, CallTypes DEF OneCall
  <2>3. d.res # r
    BY <1>2, <2>2 DEF FlightInv
  <2>4. rows'[d.res] = rows[d.res]
    BY <1>6, <2>2, <2>3
  <2> QED
    BY <1>5, <2>1, <2>2, <2>4, OthersCalls
<1>16. OneCall'
  BY <1>5 DEF OneCall
<1> QED
  BY <1>0, <1>13, <1>14, <1>15, <1>16

\* A report that is read, written, lost, or comes too late.
LEMMA FeedCallStep ==
  ASSUME FeedInv, NEW c \in calls, CallStep(c)
  PROVE  FeedInv'
<1>1. CASE LoseCall(c) \/ (WriteRow(c) /\ ~Live(c.res))
  <2>1. rows' = rows /\ work' = work /\ host' = host /\ calls' = calls \ {c}
    BY <1>1 DEF LoseCall, WriteRow
  <2>2. TypeOK' /\ SoleCustody'
    BY TypeCallStep, CustodyStep DEF FeedInv, LateNext, PatchedNext, Next
  <2>3. OneCall'
    BY <2>1 DEF FeedInv, OneCall
  <2>4. \A q \in Resource : Moved(rows[q], rows'[q])
    BY <2>1 DEF Moved
  <2>5. \A d \in calls' : \E e \in calls : Same(d, e)
    BY <2>1 DEF Same
  <2> QED
    BY <2>1, <2>2, <2>3, <2>4, <2>5, QuietStep
<1> QED
  BY <1>1, FeedRead, FeedWrite DEF CallStep

\* The invariant is inductive.
LEMMA FeedStep ==
  ASSUME FeedInv, [Next]_vars
  PROVE  FeedInv'
<1>1. CASE UNCHANGED vars
  <2>1. rows' = rows /\ work' = work /\ host' = host /\ calls' = calls /\ older' = older
    BY <1>1 DEF vars
  <2>2. TypeOK' /\ SoleCustody' /\ OneCall'
    BY <2>1 DEF FeedInv, TypeOK, SoleCustody, OneCall
  <2>3. \A q \in Resource : Moved(rows[q], rows'[q])
    BY <2>1 DEF Moved
  <2>4. \A d \in calls' : \E e \in calls : Same(d, e)
    BY <2>1 DEF Same
  <2> QED
    BY <2>1, <2>2, <2>3, <2>4, QuietStep
<1> QED
  BY <1>1, FeedResourceStep, FeedAgentStep, FeedCallStep DEF Next

----------------------------------------------------------------------------
\* What follows.

\* What the table calls converged is what the host has, for any number of agents and
\* resources, whatever is lost, retried, re-dispatched or changed between the two
\* statements of a report (Service.ApplyAgentReport).
THEOREM ConvergedForReal == Spec => []ConvergedIsReal
<1>1. FeedInv => ConvergedIsReal
  BY NoAgentAssumption DEF FeedInv, RowInv, ConvergedIsReal
<1> QED
  BY <1>1, FeedInit, FeedStep, PTL DEF Spec

\* For any budget, a row that waits for an attempt has one left, although a report
\* counts from the attempts it read (Service.ApplyAgentReport).
THEOREM BudgetHolds == Spec => []FeedWithinBudget
<1>1. FeedInv => FeedWithinBudget
  BY DEF FeedInv, RowInv, Trying, FeedWithinBudget
<1> QED
  BY <1>1, FeedInit, FeedStep, PTL DEF Spec

\* Agents' steps leave the table alone but for claims, which leave states alone.
LEMMA AgentRows ==
  ASSUME TypeOK, NEW a \in Agent, AgentStep(a), NEW r \in Resource
  PROVE  /\ rows'[r].state = rows[r].state /\ rows'[r].generation = rows[r].generation
         /\ rows'[r].observed = rows[r].observed
<1>1. CASE PullWork(a) \/ PullWorkLost(a)
  <2>1. PICK S : rows'[r] = IF r \in S THEN ClaimAgentWork(rows[r], a) ELSE rows[r]
    BY <1>1, ClaimStep
  <2> QED
    BY <2>1, RowTypes DEF ClaimAgentWork, Row
<1>2. CASE ~(PullWork(a) \/ PullWorkLost(a))
  BY <1>2 DEF AgentStep, AgentRestart, Converge, FailToConverge, ObserveDrift
<1> QED
  BY <1>1, <1>2

\* A call writes at most the row it is about, and what it writes is a report's.
LEMMA CallRows ==
  ASSUME FeedInv, NEW c \in calls, CallStep(c), rows' # rows
  PROVE  /\ c.phase = "read" /\ c.res \in Resource /\ c.caller \in Agent
         /\ rows' = [rows EXCEPT ![c.res] = ApplyAgentReport(c.cur, rows[c.res], c.rep)]
<1>1. WriteRow(c) /\ Live(c.res)
  BY DEF CallStep, ReadRow, WriteRow, LoseCall
<1>2. c.res \in Resource /\ c.caller \in Agent
  BY CallTypes DEF FeedInv, FlightInv
<1> QED
  BY <1>1, <1>2, NoAgentAssumption DEF WriteRow, Write, Operator

\* A parked row leaves 'failed' only through a new generation, a delete or a drift
\* report, although a report writes the state it computed from an earlier row.
THEOREM ParkedStaysParked == Spec => ParkedUntilSpecChange
<1>1. ASSUME FeedInv, [Next]_vars, NEW r \in Resource,
             rows[r].state = "failed", rows'[r].state \notin {"failed", "deleting"}
      PROVE  rows'[r].generation > rows[r].generation \/ rows'[r].state \in Drift
  <2>1. ASSUME NEW q \in Resource, ResourceStep(q)
        PROVE  rows'[r].generation > rows[r].generation
    <3>1. Moved(rows[r], rows'[r])
      BY <1>1, <2>1, ResourceMoves DEF FeedInv, Moved
    <3>2. rows[r].generation \in Nat
      BY <1>1, RowTypes DEF FeedInv
    <3> QED
      BY <1>1, <3>1, <3>2 DEF Moved
  <2>2. ASSUME NEW c \in calls, CallStep(c)
        PROVE  rows'[r].state \in Drift
    <3>1. rows' # rows
      BY <1>1
    <3>2. /\ c.phase = "read" /\ c.res \in Resource
          /\ rows' = [rows EXCEPT ![c.res] = ApplyAgentReport(c.cur, rows[c.res], c.rep)]
      BY <1>1, <2>2, <3>1, CallRows
    <3>3. r = c.res /\ rows[r] \in Row
      BY <1>1, <3>2, RowTypes DEF FeedInv, TypeOK
    <3>4. rows'[r].state = ReportedState(c.cur, c.rep)
      BY <1>1, <3>2, <3>3, ReportFields DEF FeedInv, TypeOK
    <3>5. FlightInv(c) /\ ReadInv(c)
      BY <1>1 DEF FeedInv
    <3> QED
      BY <1>1, <3>2, <3>3, <3>4, <3>5 DEF FlightInv, ReadInv, ReportedState, Verdict
  <2>3. CASE UNCHANGED vars
    BY <1>1, <2>3 DEF vars
  <2> QED
    BY <1>1, <2>1, <2>2, <2>3, AgentRows DEF Next, FeedInv
<1>2. FeedInv /\ [Next]_vars =>
        [\A r \in Resource :
           rows[r].state = "failed" /\ rows'[r].state \notin {"failed", "deleting"} =>
             rows'[r].generation > rows[r].generation \/ rows'[r].state \in Drift]_vars
  BY <1>1
<1> QED
  BY <1>2, FeedInit, FeedStep, PTL DEF Spec, ParkedUntilSpecChange

----------------------------------------------------------------------------
\* The feed implements FeedContract.

\* The contract's variables, as functions of the feed's.
owner == [r \in Resource |-> rows[r].agent]
holders == [r \in Resource |-> Holders(r)]
desired == [r \in Resource |-> rows[r].generation]
observed == [r \in Resource |-> rows[r].observed]

\* A step of a resource asks for at most one new revision of it.
LEMMA ResourceContract ==
  ASSUME TypeOK, NEW r \in Resource, ResourceStep(r)
  PROVE  /\ owner' = owner /\ holders' = holders /\ observed' = observed
         /\ desired' = desired \/ desired' = [desired EXCEPT ![r] = @ + 1]
<1>1. /\ work' = work /\ host' = host /\ Moved(rows[r], rows'[r])
      /\ \A q \in Resource : q # r => rows'[q] = rows[q]
  BY ResourceMoves
<1>2. holders' = holders
  BY <1>1 DEF holders, Holders
<1>3. owner' = owner /\ observed' = observed
  BY <1>1 DEF owner, observed, Moved
<1>4. desired' = desired \/ desired' = [desired EXCEPT ![r] = @ + 1]
  <2>1. CASE rows'[r].generation = rows[r].generation
    BY <1>1, <2>1 DEF desired
  <2>2. CASE rows'[r].generation = rows[r].generation + 1
    BY <1>1, <2>2 DEF desired
  <2> QED
    BY <1>1, <2>1, <2>2 DEF Moved
<1> QED
  BY <1>2, <1>3, <1>4

\* A claim places resources, and everything else an agent does only releases some.
LEMMA AgentContract ==
  ASSUME TypeOK, NEW a \in Agent, AgentStep(a)
  PROVE  /\ holders' \in [Resource -> SUBSET Agent]
         /\ desired' = desired /\ observed' = observed
         /\ \E S \in SUBSET Resource :
              /\ \A r \in S : owner[r] \in {a, NoAgent}
              /\ owner' = [r \in Resource |-> IF r \in S THEN a ELSE owner[r]]
              /\ \A r \in Resource :
                   holders'[r] \subseteq holders[r] \cup (IF r \in S THEN {a} ELSE {})
<1>1. holders' \in [Resource -> SUBSET Agent]
  BY DEF holders, Holders
<1>2. desired' = desired /\ observed' = observed
  BY AgentRows DEF desired, observed
<1>3. CASE PullWork(a) \/ PullWorkLost(a)
  <2>1. PICK S \in SUBSET Resource :
           /\ \A r \in S : rows[r].agent \in {a, NoAgent}
           /\ rows' = [r \in Resource |->
                         IF r \in S THEN ClaimAgentWork(rows[r], a) ELSE rows[r]]
           /\ host' = host
           /\ \A b \in Agent, r \in Resource :
                work'[b][r] # work[b][r] => b = a /\ r \in S
    BY <1>3, ClaimStep
  <2>2. ASSUME NEW r \in Resource PROVE ClaimAgentWork(rows[r], a).agent = a
    BY RowTypes DEF ClaimAgentWork, Row
  <2>3. owner' = [r \in Resource |-> IF r \in S THEN a ELSE owner[r]]
    BY <2>1, <2>2 DEF owner
  <2>4. \A r \in Resource :
          holders'[r] \subseteq holders[r] \cup (IF r \in S THEN {a} ELSE {})
    BY <2>1 DEF holders, Holders
  <2> QED
    BY <1>1, <1>2, <2>1, <2>3, <2>4 DEF owner
<1>4. CASE ~PullWork(a) /\ ~PullWorkLost(a)
  <2>1. rows' = rows
    BY <1>4 DEF AgentStep, AgentRestart, Converge, FailToConverge, ObserveDrift
  <2>2. ASSUME NEW b \in Agent, NEW q \in Resource, work'[b][q] # NoWork \/ host'[b][q] # 0
        PROVE  work[b][q] # NoWork \/ host[b][q] # 0
    <3>1. CASE AgentRestart(a)
      BY <2>2, <3>1 DEF AgentRestart, TypeOK
    <3>2. ASSUME NEW r \in Resource, Converge(a, r) \/ FailToConverge(a, r)
          PROVE  work[b][q] # NoWork \/ host[b][q] # 0
      <4>1. CASE q = r /\ b = a
        BY <3>2, <4>1 DEF Converge, FailToConverge
      <4>2. CASE ~(q = r /\ b = a)
        <5>1. work' = [work EXCEPT ![a][r] = NoWork]
          BY <3>2 DEF Converge, FailToConverge
        <5>2. host' = host \/ host' = [host EXCEPT ![a][r] = host'[a][r]]
          <6>1. PICK n : host' = host \/ host' = [host EXCEPT ![a][r] = n]
            BY <3>2 DEF Converge, FailToConverge
          <6> QED
            BY <6>1 DEF FeedInv, TypeOK
        <5>3. work'[b][q] = work[b][q]
          BY <4>2, <5>1 DEF FeedInv, TypeOK
        <5>4. host'[b][q] = host[b][q]
          BY <4>2, <5>2 DEF FeedInv, TypeOK
        <5> QED
          BY <2>2, <5>3, <5>4
      <4> QED
        BY <4>1, <4>2
    <3>3. ASSUME NEW r \in Resource, ObserveDrift(a, r)
          PROVE  work[b][q] # NoWork \/ host[b][q] # 0
      BY <2>2, <3>3 DEF ObserveDrift
    <3> QED
      BY <1>4, <3>1, <3>2, <3>3 DEF AgentStep
  <2>3. \A r \in Resource : holders'[r] \subseteq holders[r]
    BY <2>2 DEF holders, Holders
  <2>4. PICK S \in SUBSET Resource : \A r \in Resource : r \notin S
    <3>1. {} \in SUBSET Resource /\ \A r \in Resource : r \notin {}
      OBVIOUS
    <3> QED
      BY <3>1, Zenon
  <2>5. owner' = [r \in Resource |-> IF r \in S THEN a ELSE owner[r]]
    BY <2>1, <2>4 DEF owner
  <2> QED
    BY <1>1, <1>2, <2>3, <2>4, <2>5
<1> QED
  BY <1>3, <1>4

\* A report moves what is known of its resource forward, within what was asked for.
LEMMA CallContract ==
  ASSUME FeedInv, FeedInv', NEW c \in calls, CallStep(c)
  PROVE  /\ owner' = owner /\ holders' = holders /\ desired' = desired
         /\ \/ observed' = observed
            \/ \E r \in Resource : \E n \in observed[r] .. desired[r] :
                 observed' = [observed EXCEPT ![r] = n]
<1>1. work' = work /\ host' = host
  BY DEF CallStep, ReadRow, WriteRow, LoseCall
<1>2. holders' = holders
  BY <1>1 DEF holders, Holders
<1>3. CASE rows' = rows
  BY <1>2, <1>3 DEF owner, desired, observed
<1>4. CASE rows' # rows
  <2>0. PICK r \in Resource : r = c.res
    BY <1>4, CallRows
  <2>n. PICK new : new = ApplyAgentReport(c.cur, rows[r], c.rep)
    OBVIOUS
  <2>1. rows' = [rows EXCEPT ![r] = new] /\ new = ApplyAgentReport(c.cur, rows[r], c.rep)
    BY <1>4, <2>0, <2>n, CallRows
  <2>2. /\ rows[r] \in Row /\ rows[r].observed \in Nat /\ rows[r].generation \in Nat
        /\ rows'[r] = new /\ \A q \in Resource : q # r => rows'[q] = rows[q]
    BY <2>1, RowTypes DEF FeedInv, TypeOK
  <2>3. /\ new.agent = rows[r].agent /\ new.generation = rows[r].generation
        /\ new.observed = Greatest(rows[r].observed, ReportedObserved(c.cur, c.rep))
    BY <2>1, <2>2, ReportFields
  <2>4. owner' = owner /\ desired' = desired
    BY <2>2, <2>3 DEF owner, desired
  <2>5. new.observed \in Nat /\ new.observed <= rows[r].generation
    <3>1. rows'[r].observed \in Nat /\ rows'[r].observed <= rows'[r].generation
      BY DEF FeedInv, RowInv, TypeOK, Row
    <3> QED
      BY <2>2, <2>3, <3>1
  <2>6. new.observed \in rows[r].observed .. rows[r].generation
    <3>1. PICK n : n = ReportedObserved(c.cur, c.rep)
      OBVIOUS
    <3>2. new.observed = rows[r].observed \/ (new.observed = n /\ ~(rows[r].observed > n))
      BY <2>3, <3>1 DEF Greatest
    <3> QED
      BY <2>2, <2>5, <3>2
  <2>7. observed' = [observed EXCEPT ![r] = new.observed]
    BY <2>2 DEF observed
  <2>8. observed[r] = rows[r].observed /\ desired[r] = rows[r].generation
    BY DEF observed, desired
  <2> QED
    BY <1>2, <2>4, <2>6, <2>7, <2>8
<1> QED
  BY <1>3, <1>4

\* Every step of the feed is a step of the contract: the first claim decides on the
\* placement, and progress only moves forward within the revisions handed out
\* (ClaimAgentWork, ApplyAgentReport's GREATEST).
THEOREM FeedKeepsContract == Spec => KeepsContract
<1>1. Init => Contract!Init
  <2> SUFFICES ASSUME Init PROVE Contract!Init
    OBVIOUS
  <2>1. ASSUME NEW r \in Resource
        PROVE  /\ rows[r].agent = NoAgent /\ rows[r].generation = 1 /\ rows[r].observed = 0
               /\ Holders(r) = {}
    BY DEF Init, AbsentRow, Holders
  <2> QED
    BY <2>1 DEF Contract!Init
<1>2. ASSUME FeedInv, FeedInv', [Next]_vars
      PROVE  [Contract!Next]_(Contract!vars)
  <2> USE DEF owner, holders, desired, observed
  <2>1. ASSUME NEW r \in Resource, ResourceStep(r)
        PROVE  Contract!Demand(r) \/ UNCHANGED Contract!vars
    BY <1>2, <2>1, ResourceContract DEF FeedInv, Contract!Demand, Contract!vars
  <2>2. ASSUME NEW a \in Agent, AgentStep(a)
        PROVE  \E S \in SUBSET Resource : Contract!Place(a, S)
    BY <1>2, <2>2, AgentContract DEF FeedInv, Contract!Place
  <2>3. ASSUME NEW c \in calls, CallStep(c)
        PROVE  (\E r \in Resource : Contract!Advance(r)) \/ UNCHANGED Contract!vars
    BY <1>2, <2>3, CallContract DEF Contract!Advance, Contract!vars
  <2>4. CASE UNCHANGED vars
    BY <2>4 DEF vars, Contract!vars, Holders
  <2> QED
    BY <1>2, <2>1, <2>2, <2>3, <2>4 DEF Next, Contract!Next
<1>3. FeedInv /\ FeedInv' /\ [Next]_vars => [Contract!Next]_(Contract!vars)
  BY <1>2
<1> QED
  BY <1>1, <1>3, FeedInit, FeedStep, PTL DEF Spec, KeepsContract, Contract!Spec
=============================================================================
