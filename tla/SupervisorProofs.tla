-------------------------- MODULE SupervisorProofs --------------------------
(***************************************************************************)
(* Theorems about the availability loop, for any number of services,       *)
(* agents and faults, and any threshold of the configuration.              *)
(***************************************************************************)
EXTENDS Supervisor, FiniteSetTheorems, TLAPS

----------------------------------------------------------------------------
\* The statements on the resources table leave well-typed rows.

\* The operator's and the supervisor's statements, and the claim, keep a row
\* well typed.
LEMMA StatementTypes ==
  ASSUME NEW row \in Row
  PROVE  /\ CreateResource(row) \in Row
         /\ UpdateResourceSpec(row) \in Row
         /\ MarkResourceDeleting(row) \in Row
         /\ RedispatchSystemResource(row) \in Row
         /\ \A a \in Agent : ClaimAgentWork(row, a) \in Row
         /\ FlagResourceHostUnreachable(row) \in Row
<1>1. CreateResource(row) \in Row
  BY DEF CreateResource, Row
<1>2. UpdateResourceSpec(row) \in Row
  <2>1. row.generation + 1 \in Nat
    BY DEF Row
  <2>2. "pending" \in State
    BY DEF State
  <2> QED
    BY <2>1, <2>2 DEF UpdateResourceSpec, Row
<1>3. MarkResourceDeleting(row) \in Row
  BY DEF MarkResourceDeleting, Row, State
<1>4. RedispatchSystemResource(row) \in Row
  <2>1. row.generation + 1 \in Nat
    BY DEF Row
  <2>2. "pending" \in State
    BY DEF State
  <2> QED
    BY <2>1, <2>2 DEF RedispatchSystemResource, Row
<1>5. \A a \in Agent : ClaimAgentWork(row, a) \in Row
  BY DEF ClaimAgentWork, Row
<1>6. FlagResourceHostUnreachable(row) \in Row
  BY DEF FlagResourceHostUnreachable, Row, Health
<1> QED
  BY <1>1, <1>2, <1>3, <1>4, <1>5, <1>6

\* What ApplyAgentReport computes from the row it read is well typed.
LEMMA ParamsType ==
  ASSUME NEW cur \in Row, NEW rep \in Report
  PROVE  ReportParams(cur, rep) \in Params
<1>0. /\ cur.state \in State /\ cur.health \in Health
      /\ cur.attempts \in Nat /\ cur.generation \in Nat
      /\ cur.backoff \in BOOLEAN /\ cur.unreachable \in BOOLEAN
      /\ rep.state \in State \cup {""} /\ rep.observed \in Nat
      /\ rep.status \in {"none", "plain"} \cup (Health \ {""})
  BY DEF Row, Report
<1>1. ReportedState(cur, rep) \in State
  BY <1>0 DEF ReportedState, State
<1>2. resolveHealth(cur, rep) \in Health
  BY <1>0 DEF resolveHealth, Health
<1>3. ReportedObserved(cur, rep) \in Nat
  BY <1>0 DEF ReportedObserved
<1>4. ReportedAttempts(cur, rep) \in Nat
  <2>1. cur.attempts + 1 \in Nat
    BY DEF Row
  <2>2. CASE rep.state = "running"
    BY <2>2 DEF ReportedAttempts
  <2>3. CASE rep.state = "failed"
    BY <2>1, <2>3 DEF ReportedAttempts
  <2>4. CASE rep.state \notin {"running", "failed"}
    BY <1>0, <2>4 DEF ReportedAttempts
  <2> QED
    BY <2>2, <2>3, <2>4
<1>5. ReportedBackoff(cur, rep) \in BOOLEAN
  BY <1>0 DEF ReportedBackoff
<1>6. (IF rep.status = "none" THEN cur.unreachable ELSE FALSE) \in BOOLEAN
  BY <1>0
<1>7. Finalizes(cur, rep) \in BOOLEAN
  BY DEF Finalizes
<1> QED
  <2> DEFINE st == ReportedState(cur, rep)
             h == resolveHealth(cur, rep)
             u == IF rep.status = "none" THEN cur.unreachable ELSE FALSE
             o == ReportedObserved(cur, rep)
             n == ReportedAttempts(cur, rep)
             b == ReportedBackoff(cur, rep)
             f == Finalizes(cur, rep)
  <2>1. /\ st \in State /\ h \in Health /\ u \in BOOLEAN /\ o \in Nat /\ n \in Nat
        /\ b \in BOOLEAN /\ f \in BOOLEAN
    BY <1>1, <1>2, <1>3, <1>4, <1>5, <1>6, <1>7
  <2>2. ReportParams(cur, rep) =
          [state |-> st, health |-> h, unreachable |-> u, observed |-> o, attempts |-> n,
           backoff |-> b, finalize |-> f]
    BY DEF ReportParams
  <2> HIDE DEF st, h, u, o, n, b, f
  <2> QED
    BY <2>1, <2>2 DEF Params

\* Written over any row, it leaves a well-typed one.
LEMMA UpdateType ==
  ASSUME NEW row \in Row, NEW p \in Params
  PROVE  UpdateFromReport(row, p) \in Row
<1>1. PICK o \in Nat : o = Greatest(row.observed, p.observed)
  BY DEF Greatest, Row, Params
<1>2. PICK lf \in {"absent", "live", "deleted"} : lf = IF p.finalize THEN "deleted" ELSE row.life
  BY DEF Row
<1>3. /\ p.state \in State /\ p.health \in Health /\ p.unreachable \in BOOLEAN
      /\ p.attempts \in Nat /\ p.backoff \in BOOLEAN
  BY DEF Params
<1>4. UpdateFromReport(row, p) =
        [row EXCEPT !.state = p.state, !.health = p.health, !.unreachable = p.unreachable,
                    !.observed = o, !.attempts = p.attempts, !.backoff = p.backoff,
                    !.leased = FALSE, !.life = lf]
  BY <1>1, <1>2 DEF UpdateFromReport
<1> QED
  BY <1>3, <1>4 DEF Row

----------------------------------------------------------------------------
\* Revisions as ranks.

\* A rank is a number, and 0 is the rank of 0.
LEMMA RankType ==
  ASSUME NEW R \in SUBSET Nat, IsFiniteSet(R)
  PROVE  Rank(R, 0) = 0 /\ \A n : Rank(R, n) \in Nat
<1>1. ASSUME NEW n PROVE Rank(R, n) \in Nat
  BY FS_Subset, FS_CardinalityType DEF Rank
<1>2. {m \in R : m < 0} = {}
  <2>1. \A m \in R : m \in Nat
    OBVIOUS
  <2>2. \A m \in R : ~(m < 0)
    BY <2>1
  <2> QED
    BY <2>2, Zenon
<1> QED
  BY <1>1, <1>2, FS_EmptySet DEF Rank

\* Ranks are ordered as the revisions are.
LEMMA RankOrder ==
  ASSUME NEW R \in SUBSET Nat, IsFiniteSet(R), NEW m \in R, NEW n \in R
  PROVE  m < n <=> Rank(R, m) < Rank(R, n)
<1>1. ASSUME NEW a \in R, NEW b \in R, a < b PROVE Rank(R, a) < Rank(R, b)
  <2>1. PICK A : A = {k \in R : k < a}
    OBVIOUS
  <2>2. PICK B : B = {k \in R : k < b}
    OBVIOUS
  <2>3. IsFiniteSet(A) /\ IsFiniteSet(B) /\ a \notin A /\ A \cup {a} \in SUBSET B
    <3>1. A \in SUBSET R /\ B \in SUBSET R
      BY <2>1, <2>2
    <3>2. a \in Nat /\ b \in Nat /\ \A k \in R : k \in Nat
      OBVIOUS
    <3>3. a \notin A /\ \A k \in A \cup {a} : k \in B
      BY <1>1, <2>1, <2>2, <3>2
    <3> QED
      BY <3>1, <3>3, FS_Subset
  <2>4. Cardinality(A) \in Nat /\ Cardinality(B) \in Nat
    BY <2>3, FS_CardinalityType
  <2>5. Cardinality(A \cup {a}) = Cardinality(A) + 1
    BY <2>3, FS_AddElement
  <2>6. Cardinality(A \cup {a}) <= Cardinality(B)
    BY <2>3, FS_Subset
  <2> QED
    BY <2>1, <2>2, <2>4, <2>5, <2>6 DEF Rank
<1>2. Rank(R, m) \in Nat /\ Rank(R, n) \in Nat /\ m \in Nat /\ n \in Nat
  BY RankType
<1>3. m < n \/ m = n \/ n < m
  BY <1>2
<1> QED
  BY <1>1, <1>2, <1>3

\* A set of revisions that are their own ranks.
Normal(R) == R \subseteq Nat /\ IsFiniteSet(R) /\ \A n \in R : Rank(R, n) = n

\* Ranks are their own ranks.
LEMMA RanksAreNormal ==
  ASSUME NEW R \in SUBSET Nat, IsFiniteSet(R), NEW T, T = {Rank(R, n) : n \in R}
  PROVE  Normal(T)
<1>1. T \subseteq Nat
  BY RankType
<1>2. IsFiniteSet(T)
  <2>1. PICK f : f = [n \in R |-> Rank(R, n)]
    OBVIOUS
  <2>2. f \in Surjection(R, T)
    BY <2>1 DEF Surjection
  <2> QED
    BY <2>2, FS_Surjection
<1>3. ASSUME NEW t \in T PROVE Rank(T, t) = t
  <2>1. PICK n \in R : t = Rank(R, n)
    OBVIOUS
  <2>2. PICK A : A = {m \in R : m < n}
    OBVIOUS
  <2>3. PICK B : B = {u \in T : u < t}
    OBVIOUS
  <2>4. PICK f : f = [m \in A |-> Rank(R, m)]
    OBVIOUS
  <2>5. \A m \in A : m \in R /\ m \in Nat /\ f[m] \in B
    BY <2>1, <2>2, <2>3, <2>4, RankOrder
  <2>6. \A u \in B : \E m \in A : f[m] = u
    <3> SUFFICES ASSUME NEW u \in B PROVE \E m \in A : f[m] = u
      OBVIOUS
    <3>1. PICK m \in R : u = Rank(R, m)
      BY <2>3
    <3>2. m < n
      BY <2>1, <2>3, <3>1, RankOrder
    <3> QED
      BY <2>2, <2>4, <3>1, <3>2
  <2>7. \A l, m \in A : f[l] = f[m] => l = m
    <3> SUFFICES ASSUME NEW l \in A, NEW m \in A, f[l] = f[m] PROVE l = m
      OBVIOUS
    <3>1. Rank(R, l) = Rank(R, m) /\ l \in R /\ m \in R /\ Rank(R, l) \in Nat
      BY <2>4, <2>5, RankType
    <3>2. ~(l < m) /\ ~(m < l)
      BY <3>1, RankOrder
    <3> QED
      BY <2>5, <3>2
  <2>8. f \in Bijection(A, B)
    <3>1. f \in [A -> B]
      BY <2>4, <2>5
    <3>2. f \in Injection(A, B)
      BY <2>7, <3>1 DEF Injection, IsInjective
    <3>3. f \in Surjection(A, B)
      BY <2>6, <3>1 DEF Surjection
    <3> QED
      BY <3>2, <3>3 DEF Bijection
  <2>9. IsFiniteSet(A) /\ ExistsBijection(A, B)
    BY <2>2, <2>8, FS_Subset DEF ExistsBijection
  <2>10. Cardinality(B) = Cardinality(A)
    BY <2>9, FS_Bijection
  <2> QED
    BY <2>1, <2>2, <2>3, <2>10 DEF Rank
<1> QED
  BY <1>1, <1>2, <1>3 DEF Normal

\* The revisions in play are finitely many.
LEMMA FiniteRevisions ==
  ASSUME NEW a \in Nat, NEW b \in Nat, NEW c \in Nat, NEW d \in Nat
  PROVE  {0, a, b, c, d} \in SUBSET Nat /\ IsFiniteSet({0, a, b, c, d})
<1>1. IsFiniteSet({} \cup {0})
  BY FS_EmptySet, FS_AddElement
<1>2. IsFiniteSet(({} \cup {0}) \cup {a})
  BY <1>1, FS_AddElement
<1>3. IsFiniteSet((({} \cup {0}) \cup {a}) \cup {b})
  BY <1>2, FS_AddElement
<1>4. IsFiniteSet(((({} \cup {0}) \cup {a}) \cup {b}) \cup {c})
  BY <1>3, FS_AddElement
<1>5. IsFiniteSet((((({} \cup {0}) \cup {a}) \cup {b}) \cup {c}) \cup {d})
  BY <1>4, FS_AddElement
<1>6. (((({} \cup {0}) \cup {a}) \cup {b}) \cup {c}) \cup {d} = {0, a, b, c, d}
  OBVIOUS
<1> QED
  BY <1>5, <1>6

----------------------------------------------------------------------------
\* Types.

Work == [agent: Agent \cup {NoAgent}, generation: Nat, teardown: BOOLEAN, done: BOOLEAN]
Episode == [missing: BOOLEAN, redispatches: 0 .. withDefaults(EscalateAfter) + 1,
            escalated: BOOLEAN]
History == [asked: BOOLEAN, stranded: {"no", "raised", "lost"}, escalations: 0 .. 2]
Verdicts == {"missing", "terminating", "deferred", "fine", "redispatch"}
Tick == [pc: {"idle", "standing", "list", "strand", "keep"}, offline: SUBSET Agent,
         todo: SUBSET Service, verdict: [Service -> Verdicts]]
Calls == Params \cup {NoCall}

RowsType == [Service -> Row]
WorksType == [Service -> Work]
CallsType == [Service -> Calls]
AgentsType == [Agent -> AgentRecord]
EpisodesType == [Service -> Episode]
HistType == [Service -> History]

\* TypeOK, one named type per variable.
Typed ==
  /\ rows \in RowsType /\ quiet \subseteq Service /\ agents \in AgentsType
  /\ up \subseteq Agent /\ hold \in WorksType /\ call \in CallsType
  /\ registered \subseteq Service
  /\ tick \in Tick /\ episodes \in EpisodesType /\ hist \in HistType
  /\ faults \in 0 .. MaxFaults

\* It is the type invariant.
LEMMA TypedIsTypeOK == Typed <=> TypeOK
BY DEF TypeOK, Typed, Work, Episode, History, Tick, Verdicts, Calls, RowsType, WorksType,
       CallsType, AgentsType, EpisodesType, HistType

\* And so it is after a step.
LEMMA TypedPrimed == Typed' <=> TypeOK'
BY TypedIsTypeOK, PTL

\* No report is about no revision, and ranking that leaves it as it is.
LEMMA NoCallObserved ==
  NoCall.observed = 0 /\ [NoCall EXCEPT !.observed = 0] = NoCall
<1>1. NoCall.observed = 0
  BY DEF NoCall
<1>2. PICK x, y : x = "" /\ y = FALSE
  OBVIOUS
<1>3. NoCall = [state |-> x, health |-> x, unreachable |-> y, observed |-> 0,
                attempts |-> 0, backoff |-> y, finalize |-> y]
  BY <1>2 DEF NoCall
<1>4. [NoCall EXCEPT !.observed = 0] = NoCall
  BY <1>3
<1> QED
  BY <1>1, <1>4

\* The revision a report in flight is about.
LEMMA CallObserved == \A c \in Calls : c.observed \in Nat
<1>1. \A c \in Params : c.observed \in Nat
  BY DEF Params
<1> QED
  BY <1>1, NoCallObserved DEF Calls

\* Ranking it keeps the type of what the report will write.
LEMMA CallRanked ==
  ASSUME NEW c \in Calls, NEW n \in Nat, c = NoCall => n = 0
  PROVE  [c EXCEPT !.observed = n] \in Calls /\ [c EXCEPT !.observed = n].observed = n
<1>1. CASE c = NoCall
  <2>1. [c EXCEPT !.observed = n] = NoCall
    BY <1>1, NoCallObserved
  <2> QED
    BY <1>1, <2>1, NoCallObserved DEF Calls
<1>2. CASE c \in Params
  BY <1>2 DEF Params, Calls
<1> QED
  BY <1>1, <1>2 DEF Calls

\* So does ranking the revisions of a row and of the work on it.
LEMMA RankedTypes ==
  ASSUME NEW R \in SUBSET Nat, IsFiniteSet(R), NEW row \in Row, NEW work \in Work
  PROVE  /\ RankRow(R, row) \in Row /\ RankWork(R, work) \in Work
         /\ RankRow(R, row).generation = Rank(R, row.generation)
         /\ RankRow(R, row).observed = Rank(R, row.observed)
         /\ RankRow(R, row).state = row.state /\ RankRow(R, row).life = row.life
         /\ RankWork(R, work).generation = Rank(R, work.generation)
<1>1. PICK x \in Nat, y \in Nat, z \in Nat :
        /\ x = Rank(R, row.generation) /\ y = Rank(R, row.observed)
        /\ z = Rank(R, work.generation)
  BY RankType
<1>2. /\ RankRow(R, row) = [row EXCEPT !.generation = x, !.observed = y]
      /\ RankWork(R, work) = [work EXCEPT !.generation = z]
  BY <1>1 DEF RankRow, RankWork
<1> QED
  BY <1>1, <1>2 DEF Row, Work

\* Settling a row, the work on it and the report about it keeps their types; the
\* revisions get ranks.
LEMMA SettleTypes ==
  ASSUME TypeOK, NEW s \in Service, NEW row \in Row, NEW work \in Work, NEW c \in Calls,
         Settle(s, row, work, c), NEW R, R = Revisions(row, work, c)
  PROVE  /\ rows' \in RowsType /\ hold' \in WorksType /\ call' \in CallsType
         /\ R \in SUBSET Nat /\ IsFiniteSet(R)
         /\ \A t \in Service : t # s => /\ rows'[t] = rows[t] /\ hold'[t] = hold[t]
                                        /\ call'[t] = call[t]
         /\ rows'[s].generation = Rank(R, row.generation)
         /\ rows'[s].observed = Rank(R, row.observed)
         /\ hold'[s].generation = Rank(R, work.generation)
         /\ call'[s].observed = Rank(R, c.observed)
         /\ rows'[s].state = row.state
<1>1. /\ row.generation \in Nat /\ row.observed \in Nat /\ work.generation \in Nat
      /\ c.observed \in Nat
  BY CallObserved DEF Row, Work
<1>2. R \in SUBSET Nat /\ IsFiniteSet(R)
  BY <1>1, FiniteRevisions DEF Revisions
<1>3. PICK newRow \in Row, newWork \in Work :
        /\ newRow = RankRow(R, row) /\ newWork = RankWork(R, work)
        /\ newRow.generation = Rank(R, row.generation)
        /\ newRow.observed = Rank(R, row.observed)
        /\ newRow.state = row.state
        /\ newWork.generation = Rank(R, work.generation)
  BY <1>2, RankedTypes
<1>4. PICK w \in Nat : w = Rank(R, c.observed)
  BY <1>2, RankType
<1>5. PICK newCall \in Calls : newCall = [c EXCEPT !.observed = w] /\ newCall.observed = w
  <2>1. c = NoCall => w = 0
    BY <1>2, <1>4, RankType, NoCallObserved
  <2> QED
    BY <2>1, CallRanked
<1>6. /\ rows' = [rows EXCEPT ![s] = newRow] /\ hold' = [hold EXCEPT ![s] = newWork]
      /\ call' = [call EXCEPT ![s] = newCall]
  BY <1>3, <1>4, <1>5 DEF Settle
<1>7. rows \in RowsType /\ hold \in WorksType /\ call \in CallsType
  BY TypedIsTypeOK DEF Typed
<1>8. /\ rows'[s] = newRow /\ hold'[s] = newWork /\ call'[s] = newCall
      /\ rows' \in RowsType /\ hold' \in WorksType /\ call' \in CallsType
  BY <1>6, <1>7 DEF RowsType, WorksType, CallsType
<1>9. \A t \in Service : t # s => /\ rows'[t] = rows[t] /\ hold'[t] = hold[t]
                                 /\ call'[t] = call[t]
  BY <1>6, <1>7 DEF RowsType, WorksType, CallsType
<1> QED
  BY <1>2, <1>3, <1>4, <1>5, <1>8, <1>9

\* What is left when a report is lost is well typed, too.
LEMMA SettledTypes ==
  ASSUME TypeOK, NEW s \in Service, NEW R, R = Revisions(rows[s], hold[s], NoCall)
  PROVE  /\ R \in SUBSET Nat /\ IsFiniteSet(R)
         /\ RankRow(R, rows[s]) \in Row /\ RankWork(R, hold[s]) \in Work
         /\ RankRow(R, rows[s]).generation = Rank(R, rows[s].generation)
         /\ RankRow(R, rows[s]).observed = Rank(R, rows[s].observed)
         /\ RankWork(R, hold[s]).generation = Rank(R, hold[s].generation)
<1>1. rows[s] \in Row /\ hold[s] \in Work
  BY TypedIsTypeOK DEF Typed, RowsType, WorksType
<1>2. /\ rows[s].generation \in Nat /\ rows[s].observed \in Nat
      /\ hold[s].generation \in Nat /\ NoCall.observed = 0
  BY <1>1, NoCallObserved DEF Row, Work
<1>3. R \in SUBSET Nat /\ IsFiniteSet(R)
  BY <1>2, FiniteRevisions DEF Revisions
<1> QED
  BY <1>1, <1>3, RankedTypes

\* A write settles them, and stamps the row.
LEMMA WriteTypes ==
  ASSUME TypeOK, NEW s \in Service, NEW row \in Row, NEW work \in Work, NEW c \in Calls,
         WriteAll(s, row, work, c)
  PROVE  /\ rows' \in RowsType /\ hold' \in WorksType /\ call' \in CallsType
         /\ quiet' \subseteq Service
<1>1. Settle(s, row, work, c) /\ quiet' = quiet \ {s}
  BY DEF WriteAll
<1>2. quiet \subseteq Service
  BY TypedIsTypeOK DEF Typed
<1> QED
  BY <1>1, <1>2, SettleTypes

\* So does one of the row alone.
LEMMA WriteRowTypes ==
  ASSUME TypeOK, NEW s \in Service, NEW row \in Row, Write(s, row)
  PROVE  /\ rows' \in RowsType /\ hold' \in WorksType /\ call' \in CallsType
         /\ quiet' \subseteq Service
<1>1. hold[s] \in Work /\ call[s] \in Calls
  BY TypedIsTypeOK DEF Typed, WorksType, CallsType
<1> QED
  BY <1>1, WriteTypes DEF Write

\* The bound counter keeps its type, and so do the variables a step leaves alone.
LEMMA FaultType == TypeOK /\ (Fault \/ UNCHANGED faults) => faults' \in 0 .. MaxFaults
BY MaxFaultsAssumption DEF TypeOK, Fault

\* An event of a known kind keeps the log's type, recorded or not.
LEMMA EventTypes ==
  ASSUME TypeOK, NEW s \in Service, NEW log \in History,
         \/ Emit(s, log, "system.host_unreachable") \/ Emit(s, log, "system.recovered")
         \/ Emit(s, log, "system.redispatch_escalated") \/ Emit(s, log, "system.instance_missing")
  PROVE  hist' \in HistType /\ faults' \in 0 .. MaxFaults
<1>1. hist \in [Service -> History]
  BY TypedIsTypeOK DEF Typed, HistType
<1>2. /\ CreatePlatformEvent(log, "system.host_unreachable") \in History
      /\ CreatePlatformEvent(log, "system.recovered") \in History
      /\ CreatePlatformEvent(log, "system.instance_missing") \in History
  <2>1. /\ CreatePlatformEvent(log, "system.host_unreachable") = [log EXCEPT !.stranded = "raised"]
        /\ CreatePlatformEvent(log, "system.recovered") = log
        /\ CreatePlatformEvent(log, "system.instance_missing") = log
    BY DEF CreatePlatformEvent
  <2>2. [log EXCEPT !.stranded = "raised"] \in History
    BY DEF History
  <2> QED
    BY <2>1, <2>2
<1>3. CreatePlatformEvent(log, "system.redispatch_escalated") \in History
  <2>1. Min2(log.escalations + 1, 2) \in 0 .. 2
    BY DEF Min2, History
  <2> QED
    BY <2>1 DEF CreatePlatformEvent, History
<1>4. \E new \in History : hist' = [hist EXCEPT ![s] = new]
  BY <1>2, <1>3 DEF Emit
<1>5. Fault \/ UNCHANGED faults
  BY DEF Emit
<1> QED
  BY <1>1, <1>4, <1>5, FaultType DEF HistType

\* The steps of a pass that write no row.
LEMMA PassTypes ==
  ASSUME TypeOK, Pass, ~(\E s \in Service : FlagHostUnreachable(s) \/ Redispatch(s))
  PROVE  TypeOK'
<1> USE TypedIsTypeOK, TypedPrimed
<1>1. tick \in Tick /\ Idle \in Tick
  BY DEF Typed, Idle, Tick, Verdicts
<1>3. CASE TickSweep
  <2>1. agents' \in AgentsType
    <3>1. \A a \in Agent : MarkOffline(agents[a]) \in AgentRecord /\ agents[a] \in AgentRecord
      BY DEF Typed, AgentsType, MarkOffline, AgentRecord
    <3> QED
      BY <1>3, <3>1 DEF TickSweep, Typed, AgentsType
  <2>2. tick' \in Tick
    BY <1>1, <1>3 DEF TickSweep, Tick
  <2> QED
    BY <1>3, <2>1, <2>2, FaultType DEF TickSweep, Typed
<1>4. CASE TickStanding
  <2>1. tick' \in Tick
    BY <1>1, <1>4 DEF TickStanding, Tick
  <2> QED
    BY <1>4, <2>1, FaultType DEF TickStanding, Typed, world
<1>5. CASE TickList
  <2>1. tick' \in Tick
    <3>1. PICK todo \in SUBSET Service : todo = Stranded(tick.offline, rows)
      BY DEF Stranded
    <3>2. \A offline, row, stale : Verdict(offline, row, stale) \in Verdicts
      BY DEF Verdict, Verdicts
    <3>3. PICK v \in [Service -> Verdicts] :
            v = [s \in Service |-> Verdict(tick.offline, rows[s], s \in quiet)]
      BY <3>2
    <3>4. \/ tick' = Idle
          \/ tick' = [tick EXCEPT !.pc = "strand", !.offline = {}, !.todo = todo, !.verdict = v]
      BY <1>5, <3>1, <3>3 DEF TickList
    <3> QED
      BY <1>1, <3>4 DEF Tick
  <2> QED
    BY <1>5, <2>1, FaultType DEF TickList, Typed, world
<1>6. CASE TickRegistry
  <2>1. tick' \in Tick
    <3>1. {s \in registered : supervises(s)} \in SUBSET Service
      BY DEF Typed
    <3> QED
      BY <1>1, <1>6, <3>1 DEF TickRegistry, Tick
  <2> QED
    BY <1>6, <2>1, FaultType DEF TickRegistry, Typed, world
<1>7. NoEpisode \in Episode /\ \A s \in Service : episodes[s] \in Episode
  BY EscalateAfterAssumption DEF NoEpisode, Episode, Typed, EpisodesType, withDefaults
<1>8. CASE TickEnd
  <2>1. episodes' \in EpisodesType
    BY <1>7, <1>8 DEF TickEnd, EpisodesType
  <2> QED
    BY <1>1, <1>8, <2>1 DEF TickEnd, Typed, world
<1>9. ASSUME NEW s \in Service, ReportMissing(s) \/ StandDown(s) \/ Defer(s) \/ NoteRecovered(s)
      PROVE  TypeOK'
  <2>1. tick' \in Tick
    <3>1. tick' = [tick EXCEPT !.todo = @ \ {s}]
      BY <1>9 DEF ReportMissing, StandDown, Defer, NoteRecovered, Keep
    <3> QED
      BY <1>1, <3>1 DEF Tick
  <2>2. episodes' \in EpisodesType
    <3>1. /\ [episodes[s] EXCEPT !.missing = TRUE] \in Episode
          /\ [episodes[s] EXCEPT !.missing = FALSE] \in Episode
      BY <1>7 DEF Episode
    <3>2. \E e \in Episode : episodes' = [episodes EXCEPT ![s] = e]
      BY <1>7, <1>9, <3>1 DEF ReportMissing, StandDown, Defer, NoteRecovered
    <3> QED
      BY <3>2 DEF Typed, EpisodesType
  <2>3. PICK log \in History : log = [hist[s] EXCEPT !.escalations = 0]
    <3>1. hist[s] \in History
      BY DEF Typed, HistType
    <3>2. [hist[s] EXCEPT !.escalations = 0] \in History
      BY <3>1 DEF History
    <3> QED
      BY <3>2
  <2>4. hist[s] \in History /\ hist \in [Service -> History]
    BY DEF Typed, HistType
  <2>5. \/ hist' = hist /\ UNCHANGED faults
        \/ hist' = [hist EXCEPT ![s] = log] /\ UNCHANGED faults
        \/ Emit(s, hist[s], "system.instance_missing") \/ Emit(s, log, "system.recovered")
    BY <1>9, <2>3 DEF ReportMissing, StandDown, Defer, NoteRecovered
  <2>6. hist' \in HistType /\ faults' \in 0 .. MaxFaults
    BY <2>4, <2>5, EventTypes, FaultType DEF HistType
  <2> QED
    BY <1>9, <2>1, <2>2, <2>6
       DEF ReportMissing, StandDown, Defer, NoteRecovered, Typed, world
<1> QED
  BY <1>3, <1>4, <1>5, <1>6, <1>8, <1>9 DEF Pass

\* flagStranded and redispatch.
LEMMA PassWriteTypes ==
  ASSUME TypeOK, NEW s \in Service, FlagHostUnreachable(s) \/ Redispatch(s)
  PROVE  TypeOK'
<1> USE TypedIsTypeOK, TypedPrimed
<1>1. tick' \in Tick
  <2>1. tick' = [tick EXCEPT !.todo = @ \ {s}]
    BY DEF FlagHostUnreachable, Redispatch, Keep
  <2>2. tick \in Tick
    BY DEF Typed
  <2> QED
    BY <2>1, <2>2 DEF Tick
<1>2. rows[s] \in Row
  BY DEF Typed, RowsType
<1>3. /\ rows' \in RowsType /\ hold' \in WorksType /\ call' \in CallsType
      /\ quiet' \subseteq Service
  <2>1. CASE UNCHANGED <<rows, quiet, hold, call>>
    BY <2>1 DEF Typed
  <2>2. CASE \E row \in Row : Write(s, row)
    BY <2>2, WriteRowTypes
  <2> QED
    BY <1>2, <2>1, <2>2, StatementTypes DEF FlagHostUnreachable, Redispatch
<1>4. PICK log \in History : log = [hist[s] EXCEPT !.stranded = "lost"]
  <2>1. hist[s] \in History
    BY DEF Typed, HistType
  <2> QED
    BY <2>1 DEF History
<1>5. hist' \in HistType /\ faults' \in 0 .. MaxFaults
  <2>1. hist[s] \in History /\ hist \in HistType
    BY DEF Typed, HistType
  <2>2. \/ hist' = hist /\ (Fault \/ UNCHANGED faults)
        \/ Emit(s, log, "system.host_unreachable")
        \/ Emit(s, hist[s], "system.redispatch_escalated")
    BY <1>4 DEF FlagHostUnreachable, Redispatch
  <2> QED
    BY <2>1, <2>2, EventTypes, FaultType
<1>6. episodes' \in EpisodesType
  <2>1. episodes \in [Service -> Episode] /\ episodes[s] \in Episode
    BY DEF Typed, EpisodesType
  <2>2. [episodes[s] EXCEPT !.missing = FALSE] \in Episode
    BY <2>1 DEF Episode
  <2>3. PICK e \in BOOLEAN : e = (episodes[s].escalated \/ Escalates(episodes[s]))
    <3>1. (episodes[s].escalated \/ Escalates(episodes[s])) \in BOOLEAN
      BY DEF Escalates
    <3> QED
      BY <3>1, Zenon
  <2>4. PICK n \in 0 .. withDefaults(EscalateAfter) + 1 :
          n = Min2(episodes[s].redispatches + 1, withDefaults(EscalateAfter) + 1)
    BY <2>1, EscalateAfterAssumption DEF Episode, Min2, withDefaults
  <2>5. [missing |-> FALSE, redispatches |-> n, escalated |-> e] \in Episode
    BY DEF Episode
  <2>6. \/ episodes' = episodes
        \/ episodes' = [episodes EXCEPT ![s] = [episodes[s] EXCEPT !.missing = FALSE]]
        \/ episodes' = [episodes EXCEPT ![s] =
             [missing |-> FALSE,
              redispatches |-> Min2(episodes[s].redispatches + 1, withDefaults(EscalateAfter) + 1),
              escalated |-> episodes[s].escalated \/ Escalates(episodes[s])]]
    BY Zenon DEF FlagHostUnreachable, Redispatch
  <2>7. \/ episodes' = episodes
        \/ episodes' = [episodes EXCEPT ![s] = [episodes[s] EXCEPT !.missing = FALSE]]
        \/ episodes' = [episodes EXCEPT ![s] = [missing |-> FALSE, redispatches |-> n, escalated |-> e]]
    BY <2>3, <2>4, <2>6, Zenon
  <2> QED
    BY <2>1, <2>2, <2>5, <2>7 DEF EpisodesType
<1> QED
  BY <1>1, <1>3, <1>5, <1>6 DEF FlagHostUnreachable, Redispatch, Typed

\* A restart of Core.
LEMMA RestartTypes ==
  ASSUME TypeOK, CoreRestart
  PROVE  TypeOK'
<1> USE TypedIsTypeOK, TypedPrimed
<1>1. Idle \in Tick /\ NoEpisode \in Episode
  BY EscalateAfterAssumption DEF Idle, Tick, Verdicts, NoEpisode, Episode, withDefaults
<1>2. hist' \in HistType
  <2>1. ASSUME NEW s \in Service PROVE [hist[s] EXCEPT !.escalations = 0] \in History
    <3>1. hist[s] \in History
      BY DEF Typed, HistType
    <3> QED
      BY <3>1 DEF History
  <2> QED
    BY <2>1 DEF CoreRestart, HistType
<1>3. episodes' \in EpisodesType /\ tick' \in Tick
  BY <1>1 DEF CoreRestart, EpisodesType
<1>4. rows' \in RowsType /\ hold' \in WorksType /\ call' \in CallsType
  <2>1. ASSUME NEW s \in Service
        PROVE  /\ RankRow(Revisions(rows[s], hold[s], NoCall), rows[s]) \in Row
               /\ RankWork(Revisions(rows[s], hold[s], NoCall), hold[s]) \in Work
    BY SettledTypes
  <2>2. NoCall \in Calls
    BY DEF Calls
  <2> QED
    BY <2>1, <2>2 DEF CoreRestart, RowsType, WorksType, CallsType
<1> QED
  BY <1>2, <1>3, <1>4, FaultType DEF CoreRestart, Typed

\* A report of the agent that works on s.
LEMMA SendTypes ==
  ASSUME TypeOK, NEW s \in Service, NEW rep \in Report, Send(s, rep),
         Fault \/ UNCHANGED faults
  PROVE  TypeOK'
<1> USE TypedIsTypeOK, TypedPrimed
<1>1. rows[s] \in Row /\ hold[s] \in Work
  BY DEF Typed, RowsType, WorksType
<1>2. ReportParams(rows[s], rep) \in Calls
  BY <1>1, ParamsType DEF Calls
<1>3. [hold[s] EXCEPT !.done = TRUE] \in Work
  BY <1>1 DEF Work
<1>4. call' \in CallsType /\ hold' \in WorksType
  BY <1>2, <1>3 DEF Send, Typed, CallsType, WorksType
<1> QED
  BY <1>4, FaultType DEF Send, Typed

\* Its update, or its loss.
LEMMA WriteReportTypes ==
  ASSUME TypeOK, NEW s \in Service, WriteReport(s)
  PROVE  TypeOK'
<1> USE TypedIsTypeOK, TypedPrimed
<1>1. rows[s] \in Row /\ hold[s] \in Work /\ hist[s] \in History /\ call[s] \in Params
  BY DEF Typed, RowsType, WorksType, HistType, CallsType, Calls, WriteReport
<1>2. PICK row \in Row : row = UpdateFromReport(rows[s], call[s])
  BY <1>1, UpdateType
<1>3. NoCall \in Calls
  BY DEF Calls
<1>4. /\ rows' \in RowsType /\ hold' \in WorksType /\ call' \in CallsType
      /\ quiet' \subseteq Service
  <2>1. CASE WriteAll(s, row, hold[s], NoCall)
    BY <1>1, <1>3, <2>1, WriteTypes
  <2>2. CASE Settle(s, rows[s], hold[s], NoCall) /\ UNCHANGED quiet
    <3>1. rows' \in RowsType /\ hold' \in WorksType /\ call' \in CallsType
      BY <1>1, <1>3, <2>2, SettleTypes
    <3> QED
      BY <2>2, <3>1 DEF Typed
  <2> QED
    BY <1>2, <2>1, <2>2 DEF WriteReport
<1>5. hist' \in HistType
  <2>1. [hist[s] EXCEPT !.stranded = "no"] \in History /\ [hist[s] EXCEPT !.stranded = @] = hist[s]
    BY <1>1 DEF History
  <2>2. \/ hist' = hist
        \/ hist' = [hist EXCEPT ![s] = [hist[s] EXCEPT !.stranded = "no"]]
        \/ hist' = [hist EXCEPT ![s] = [hist[s] EXCEPT !.stranded = @]]
    BY <1>2 DEF WriteReport
  <2> QED
    BY <1>1, <2>1, <2>2 DEF Typed, HistType
<1> QED
  BY <1>4, <1>5, FaultType DEF WriteReport, Typed

\* Setup, operators, agents and time, on one service.
LEMMA ServiceTypes ==
  ASSUME TypeOK, NEW s \in Service, ServiceStep(s)
  PROVE  TypeOK'
<1> USE TypedIsTypeOK, TypedPrimed
<1>1. rows[s] \in Row /\ hold[s] \in Work /\ hist[s] \in History /\ call[s] \in Calls
  BY DEF Typed, RowsType, WorksType, HistType, CallsType
<1>2. CASE EnsureRegistered(s)
  BY <1>2 DEF EnsureRegistered, Typed
<1>3. CASE Publish(s)
  <2>1. CreateResource(rows[s]) \in Row
    BY <1>1, StatementTypes
  <2>2. /\ rows' \in RowsType /\ hold' \in WorksType /\ call' \in CallsType
        /\ quiet' \subseteq Service
    BY <1>3, <2>1, WriteRowTypes DEF Publish
  <2> QED
    BY <1>3, <2>2 DEF Publish, Typed
<1>4. CASE Delete(s)
  <2>1. MarkResourceDeleting(rows[s]) \in Row
    BY <1>1, StatementTypes
  <2>2. /\ rows' \in RowsType /\ hold' \in WorksType /\ call' \in CallsType
        /\ quiet' \subseteq Service
    BY <1>4, <2>1, WriteRowTypes DEF Delete
  <2>3. [hist[s] EXCEPT !.asked = TRUE] \in History
    BY <1>1 DEF History
  <2>4. hist' \in HistType
    BY <1>4, <2>3 DEF Delete, Typed, HistType
  <2> QED
    BY <1>4, <2>2, <2>4, FaultType DEF Delete, Typed
<1>5. ASSUME NEW rep \in Report, Send(s, rep), Fault \/ UNCHANGED faults PROVE TypeOK'
  BY <1>5, SendTypes
<1>6. hold[s].generation \in Nat /\ hold[s].teardown \in BOOLEAN
  BY <1>1 DEF Work
<1>7. CASE Converge(s)
  <2>1. PICK status \in Answers :
          Send(s, [state |-> IF hold[s].teardown THEN "removed" ELSE "running",
                   observed |-> hold[s].generation, status |-> status])
    BY <1>7 DEF Converge
  <2>2. [state |-> IF hold[s].teardown THEN "removed" ELSE "running",
         observed |-> hold[s].generation, status |-> status] \in Report
    BY <1>6, AnswersAssumption DEF Report, State, Health
  <2> QED
    BY <1>5, <1>7, <2>1, <2>2 DEF Converge
<1>8. CASE FailToConverge(s)
  <2>1. [state |-> "failed", observed |-> hold[s].generation, status |-> "plain"] \in Report
    BY <1>6 DEF Report, State
  <2> QED
    BY <1>5, <1>8, <2>1 DEF FailToConverge
<1>9. CASE ObserveDrift(s)
  <2>1. \A d \in Drift :
          [state |-> d, observed |-> hold[s].generation, status |-> "plain"] \in Report
    BY <1>6 DEF Report, State
  <2>2. [state |-> "running", observed |-> hold[s].generation, status |-> "unhealthy"] \in Report
    BY <1>6 DEF Report, State, Health
  <2> QED
    BY <1>5, <1>9, <2>1, <2>2 DEF ObserveDrift
<1>10. CASE GoesQuiet(s)
  BY <1>10 DEF GoesQuiet, Typed
<1>11. CASE TimerRuns(s)
  <2>1. [rows[s] EXCEPT !.leased = FALSE] \in Row /\ [rows[s] EXCEPT !.backoff = FALSE] \in Row
    BY <1>1 DEF Row
  <2>2. rows' \in RowsType
    BY <1>11, <2>1 DEF TimerRuns, Typed, RowsType
  <2> QED
    BY <1>11, <2>2 DEF TimerRuns, Typed
<1>12. ASSUME NEW a \in Agent, Pull(a, s) PROVE TypeOK'
  <2>1. ClaimAgentWork(rows[s], a) \in Row
    BY <1>1, StatementTypes
  <2>2. PICK t \in BOOLEAN : t = (rows[s].state = "deleting")
    OBVIOUS
  <2>3. [agent |-> a, generation |-> rows[s].generation, teardown |-> t, done |-> FALSE] \in Work
    BY <1>1 DEF Work, Row
  <2>4. WriteAll(s, ClaimAgentWork(rows[s], a),
                 [agent |-> a, generation |-> rows[s].generation, teardown |-> t, done |-> FALSE],
                 call[s])
    BY <1>12, <2>2, Zenon DEF Pull
  <2>5. /\ rows' \in RowsType /\ hold' \in WorksType /\ call' \in CallsType
        /\ quiet' \subseteq Service
    BY <1>1, <2>1, <2>3, <2>4, WriteTypes
  <2> QED
    BY <1>12, <2>5 DEF Pull, Typed
<1> QED
  BY <1>2, <1>3, <1>4, <1>7, <1>8, <1>9, <1>10, <1>11, <1>12, WriteReportTypes DEF ServiceStep

\* The agents' hosts and heartbeats.
LEMMA AgentTypes ==
  ASSUME TypeOK, NEW a \in Agent, AgentStep(a)
  PROVE  TypeOK'
<1> USE TypedIsTypeOK, TypedPrimed
<1>1. agents[a] \in AgentRecord
  BY DEF Typed, AgentsType
<1>2. AgentHeartbeat(agents[a]) \in AgentRecord /\ [agents[a] EXCEPT !.seen = "stale"] \in AgentRecord
  BY <1>1 DEF AgentHeartbeat, AgentRecord
<1>3. CASE Heartbeat(a) \/ GoesSilent(a)
  <2>1. agents' \in AgentsType
    BY <1>2, <1>3 DEF Heartbeat, GoesSilent, Typed, AgentsType
  <2> QED
    BY <1>3, <2>1 DEF Heartbeat, GoesSilent, Typed
<1>4. CASE HostDown(a) \/ HostUp(a)
  BY <1>4, FaultType DEF HostDown, HostUp, Typed
<1> QED
  BY <1>3, <1>4 DEF AgentStep

\* The types of the first state.
LEMMA TypeInit == Init => TypeOK
<1> SUFFICES ASSUME Init PROVE Typed
  BY TypedIsTypeOK
<1>1. AbsentRow \in Row
  BY DEF AbsentRow, Row, State, Health
<1>2. AgentHeartbeat(CreateAgent(AbsentAgent)) \in AgentRecord
  BY DEF AgentHeartbeat, CreateAgent, AbsentAgent, AgentRecord
<1>3. NoWork \in Work /\ NoEpisode \in Episode /\ NoHist \in History /\ Idle \in Tick
  BY EscalateAfterAssumption DEF NoWork, Work, NoEpisode, Episode, NoHist, History, Idle,
                                 Tick, Verdicts, withDefaults
<1>4. /\ rows \in RowsType /\ agents \in AgentsType /\ hold \in WorksType
      /\ call \in CallsType
  BY <1>1, <1>2, <1>3 DEF Init, RowsType, AgentsType, WorksType, CallsType, Calls
<1>5. episodes \in EpisodesType /\ hist \in HistType /\ tick \in Tick
  BY <1>3 DEF Init, EpisodesType, HistType
<1> QED
  BY <1>4, <1>5, MaxFaultsAssumption DEF Init, Typed

\* Type correctness: no pass, report, restart or outage leaves a malformed row,
\* episode or event log.
THEOREM TypeCorrect == Spec => []TypeOK
<1>1. TypeOK /\ [Next]_vars => TypeOK'
  <2> SUFFICES ASSUME TypeOK, [Next]_vars PROVE TypeOK'
    OBVIOUS
  <2>1. CASE UNCHANGED vars
    BY <2>1, TypedIsTypeOK, TypedPrimed DEF vars, world, Typed
  <2> QED
    BY <2>1, PassTypes, PassWriteTypes, RestartTypes, ServiceTypes, AgentTypes DEF Next
<1> QED
  BY <1>1, TypeInit, PTL DEF Spec

----------------------------------------------------------------------------
\* Escalations.

\* A recorded escalation is of a registered service that is supervised, and its
\* episode remembers it; keep-alive looks at no other services.
EscalationInv ==
  /\ \A s \in Service :
       /\ hist[s].escalations <= 1
       /\ hist[s].escalations = 1 => /\ episodes[s].escalated
                                     /\ s \in registered /\ supervises(s)
  /\ tick.pc = "keep" => tick.todo \subseteq {s \in registered : supervises(s)}

\* A step that touches one service's episode and log, and keeps that service's
\* part of the invariant, keeps it.
LEMMA OneService ==
  ASSUME TypeOK, EscalationInv, NEW s \in Service,
         registered' = registered, tick' = [tick EXCEPT !.todo = @ \ {s}],
         \A t \in Service : t # s => episodes'[t] = episodes[t] /\ hist'[t] = hist[t],
         hist'[s].escalations <= 1,
         hist'[s].escalations = 1 => episodes'[s].escalated /\ s \in registered /\ supervises(s)
  PROVE  EscalationInv'
<1>1. tick'.pc = tick.pc /\ tick'.todo = tick.todo \ {s}
  BY DEF TypeOK
<1> QED
  BY <1>1 DEF EscalationInv, supervises

\* Keep-alive's verdict on one service.
LEMMA KeepEscalation ==
  ASSUME TypeOK, EscalationInv, NEW s \in Service,
         \/ ReportMissing(s) \/ StandDown(s) \/ Defer(s) \/ NoteRecovered(s) \/ Redispatch(s)
  PROVE  EscalationInv'
<1>0. /\ hist \in [Service -> History] /\ episodes \in [Service -> Episode]
      /\ hist[s] \in History /\ episodes[s] \in Episode
      /\ hist[s].escalations \in 0 .. 2
  BY DEF TypeOK, History, Episode
<1>1. /\ registered' = registered /\ tick' = [tick EXCEPT !.todo = @ \ {s}]
      /\ s \in registered /\ supervises(s)
  BY DEF ReportMissing, StandDown, Defer, NoteRecovered, Redispatch, Keep, world,
         EscalationInv
<1>2. /\ hist[s].escalations <= 1
      /\ hist[s].escalations = 1 => episodes[s].escalated
  BY DEF EscalationInv
<1>3. CASE \/ hist' = hist /\ episodes' = [episodes EXCEPT ![s].missing = TRUE]
           \/ hist' = hist /\ episodes' = [episodes EXCEPT ![s].missing = FALSE]
  <2>1. /\ \A t \in Service : t # s => episodes'[t] = episodes[t]
        /\ episodes'[s].escalated = episodes[s].escalated
    BY <1>0, <1>3 DEF Episode
  <2> QED
    BY <1>1, <1>2, <1>3, <2>1, OneService
<1>4. CASE ReportMissing(s)
  <2>1. hist' = hist
    BY <1>0, <1>4 DEF ReportMissing, Emit, CreatePlatformEvent
  <2> QED
    BY <1>3, <1>4, <2>1 DEF ReportMissing
<1>5. CASE StandDown(s)
  <2>1. /\ \A t \in Service : t # s => episodes'[t] = episodes[t] /\ hist'[t] = hist[t]
        /\ hist'[s].escalations = 0
    BY <1>0, <1>5 DEF StandDown, History
  <2> QED
    BY <1>1, <2>1, OneService
<1>6. CASE Defer(s)
  BY <1>3, <1>6 DEF Defer
<1>7. CASE NoteRecovered(s)
  <2>1. /\ \A t \in Service : t # s => episodes'[t] = episodes[t]
    BY <1>0, <1>7 DEF NoteRecovered
  <2>2. hist' = [hist EXCEPT ![s] = [hist[s] EXCEPT !.escalations = 0]]
    BY <1>7 DEF NoteRecovered, Emit, CreatePlatformEvent
  <2>3. (\A t \in Service : t # s => hist'[t] = hist[t]) /\ hist'[s].escalations = 0
    BY <1>0, <2>2 DEF History
  <2> QED
    BY <1>1, <2>1, <2>3, OneService
<1>8. CASE Redispatch(s)
  <2>1. CASE hist' = hist /\ episodes' = [episodes EXCEPT ![s].missing = FALSE]
    BY <1>3, <2>1
  <2>2. CASE /\ IF Escalates(episodes[s]) THEN Emit(s, hist[s], "system.redispatch_escalated")
                                          ELSE UNCHANGED <<hist, faults>>
             /\ episodes' = [episodes EXCEPT ![s] =
                  [missing |-> FALSE,
                   redispatches |-> Min2(@.redispatches + 1, withDefaults(EscalateAfter) + 1),
                   escalated |-> @.escalated \/ Escalates(@)]]
    <3>1. PICK e \in BOOLEAN : e = (episodes[s].escalated \/ Escalates(episodes[s]))
      <4>1. (episodes[s].escalated \/ Escalates(episodes[s])) \in BOOLEAN
        BY DEF Escalates
      <4> QED
        BY <4>1, Zenon
    <3>2. PICK n : n = Min2(episodes[s].redispatches + 1, withDefaults(EscalateAfter) + 1)
      OBVIOUS
    <3>3. episodes' = [episodes EXCEPT ![s] = [missing |-> FALSE, redispatches |-> n, escalated |-> e]]
      BY <2>2, <3>1, <3>2, Zenon
    <3>4. episodes'[s].escalated = e /\ \A t \in Service : t # s => episodes'[t] = episodes[t]
      BY <1>0, <3>3
    <3>5. CASE Escalates(episodes[s])
      <4>1. \/ hist' = [hist EXCEPT ![s] = [hist[s] EXCEPT !.escalations = Min2(@ + 1, 2)]]
            \/ hist' = [hist EXCEPT ![s] = hist[s]]
        BY <2>2, <3>5 DEF Emit, CreatePlatformEvent
      <4>2. hist[s].escalations = 0
        BY <1>0, <1>2, <3>5 DEF Escalates
      <4>3. hist'[s].escalations \in {0, 1} /\ \A t \in Service : t # s => hist'[t] = hist[t]
        BY <1>0, <4>1, <4>2 DEF History, Min2
      <4>4. episodes'[s].escalated
        BY <3>1, <3>4, <3>5, Zenon
      <4> QED
        BY <1>1, <3>4, <4>3, <4>4, OneService
    <3>6. CASE ~Escalates(episodes[s])
      <4>1. hist' = hist
        BY <2>2, <3>6
      <4>2. hist'[s].escalations = 1 => episodes'[s].escalated
        BY <1>2, <3>1, <3>4, <4>1
      <4> QED
        BY <1>1, <1>2, <3>4, <4>1, <4>2, OneService
    <3> QED
      BY <3>5, <3>6
  <2> QED
    BY <1>8, <2>1, <2>2, Zenon DEF Redispatch
<1> QED
  BY <1>4, <1>5, <1>6, <1>7, <1>8

\* What a step leaves of the logs and of the registry when it is not keep-alive's.
LEMMA LogsStay ==
  ASSUME TypeOK, NEW s \in Service, ServiceStep(s) \/ FlagHostUnreachable(s)
  PROVE  /\ \A t \in Service : hist'[t].escalations = hist[t].escalations
         /\ episodes' = episodes /\ registered \subseteq registered'
         /\ tick' = tick \/ (tick' = [tick EXCEPT !.todo = @ \ {s}] /\ registered' = registered)
<1>0. hist \in [Service -> History]
  BY DEF TypeOK, History
<1>1. ASSUME NEW log, log.escalations = hist[s].escalations,
             hist' = hist \/ hist' = [hist EXCEPT ![s] = log]
      PROVE  \A t \in Service : hist'[t].escalations = hist[t].escalations
  BY <1>0, <1>1
<1>2. CASE FlagHostUnreachable(s)
  <2>1. PICK lost \in History : /\ lost = [hist[s] EXCEPT !.stranded = "lost"]
                                /\ lost.escalations = hist[s].escalations
    <3>1. hist[s] \in History
      BY <1>0
    <3>2. /\ [hist[s] EXCEPT !.stranded = "lost"] \in History
          /\ [hist[s] EXCEPT !.stranded = "lost"].escalations = hist[s].escalations
      BY <3>1 DEF History
    <3> QED
      BY <3>2, Zenon
  <2>2. PICK raised : /\ raised = [lost EXCEPT !.stranded = "raised"]
                      /\ raised.escalations = hist[s].escalations
    BY <2>1 DEF History
  <2>3. \/ hist' = hist \/ hist' = [hist EXCEPT ![s] = lost]
        \/ hist' = [hist EXCEPT ![s] = raised]
    BY <1>2, <2>1, <2>2 DEF FlagHostUnreachable, Emit, CreatePlatformEvent
  <2>4. \A t \in Service : hist'[t].escalations = hist[t].escalations
    BY <1>1, <2>1, <2>2, <2>3
  <2> QED
    BY <1>2, <2>4 DEF FlagHostUnreachable
<1>6. CASE WriteReport(s)
  <2>1. hist' = hist \/ \E x : hist' = [hist EXCEPT ![s] = [hist[s] EXCEPT !.stranded = x]]
    BY <1>6 DEF WriteReport
  <2>2. \A x : [hist[s] EXCEPT !.stranded = x].escalations = hist[s].escalations
    BY <1>0 DEF History
  <2>3. \A t \in Service : hist'[t].escalations = hist[t].escalations
    BY <1>1, <2>1, <2>2
  <2> QED
    BY <1>6, <2>3 DEF WriteReport
<1>3. CASE Converge(s) \/ FailToConverge(s) \/ ObserveDrift(s)
  BY <1>3 DEF Converge, FailToConverge, ObserveDrift, Send
<1>4. CASE Delete(s)
  <2>1. \A t \in Service : hist'[t].escalations = hist[t].escalations
    BY <1>0, <1>4 DEF Delete, History
  <2> QED
    BY <1>4, <2>1 DEF Delete
<1>5. CASE EnsureRegistered(s) \/ Publish(s) \/ GoesQuiet(s) \/ TimerRuns(s)
           \/ \E a \in Agent : Pull(a, s)
  BY <1>5 DEF EnsureRegistered, Publish, GoesQuiet, TimerRuns, Pull
<1> QED
  BY <1>2, <1>3, <1>4, <1>5, <1>6 DEF ServiceStep

\* Every step keeps the invariant of the escalations: the registry only grows, and
\* prune, a restart, a recovery and a teardown close the incident in both places.
LEMMA EscalationStep ==
  ASSUME TypeOK, EscalationInv, [Next]_vars
  PROVE  EscalationInv'
<1>0. Idle.pc = "idle"
  BY DEF Idle
<1>1. ASSUME NEW s \in Service, ServiceStep(s) \/ FlagHostUnreachable(s) PROVE EscalationInv'
  <2>1. /\ \A t \in Service : hist'[t].escalations = hist[t].escalations
        /\ episodes' = episodes /\ registered \subseteq registered'
        /\ tick' = tick \/ (tick' = [tick EXCEPT !.todo = @ \ {s}] /\ registered' = registered)
    BY <1>1, LogsStay
  <2>2. (tick'.pc = tick.pc) /\ tick'.todo \subseteq tick.todo
    BY <2>1 DEF TypeOK
  <2> QED
    BY <2>1, <2>2 DEF EscalationInv, supervises
<1>2. ASSUME NEW s \in Service,
             \/ ReportMissing(s) \/ StandDown(s) \/ Defer(s) \/ NoteRecovered(s) \/ Redispatch(s)
      PROVE  EscalationInv'
  BY <1>2, KeepEscalation
<1>3. CASE TickSweep \/ TickStanding \/ TickList
  <2>1. hist' = hist /\ episodes' = episodes /\ registered' = registered
    BY <1>3 DEF TickSweep, TickStanding, TickList, world
  <2>2. TickSweep => tick'.pc = "standing"
    BY DEF TickSweep, TypeOK
  <2>3. TickStanding => tick'.pc = "list"
    BY DEF TickStanding, TypeOK
  <2>4. TickList => tick'.pc \in {"strand", "idle"}
    BY <1>0 DEF TickList, TypeOK
  <2>5. tick'.pc # "keep"
    BY <1>3, <2>2, <2>3, <2>4
  <2> QED
    BY <2>1, <2>5 DEF EscalationInv, supervises
<1>4. CASE TickRegistry
  <2> DEFINE supervised == {s \in registered : supervises(s)}
  <2>1. /\ hist' = hist /\ episodes' = episodes /\ registered' = registered
        /\ tick' = Idle \/ tick' = [tick EXCEPT !.pc = "keep", !.todo = supervised]
    BY <1>4 DEF TickRegistry, world
  <2> HIDE DEF supervised
  <2>2. tick'.pc # "keep" \/ tick'.todo = supervised
    BY <1>0, <2>1 DEF TypeOK
  <2> QED
    BY <2>1, <2>2 DEF EscalationInv, supervises, supervised
<1>5. CASE TickEnd
  <2>1. hist' = hist /\ registered' = registered /\ tick'.pc = "idle"
    BY <1>5 DEF TickEnd, Idle, world
  <2>2. \A s \in Service : s \in registered /\ supervises(s) => episodes'[s] = episodes[s]
    BY <1>5 DEF TickEnd
  <2> QED
    BY <2>1, <2>2 DEF EscalationInv, supervises
<1>6. CASE CoreRestart
  <2>1. tick'.pc = "idle" /\ \A s \in Service : hist'[s].escalations = 0
    BY <1>6 DEF CoreRestart, Idle, TypeOK
  <2> QED
    BY <2>1 DEF EscalationInv
<1>7. CASE (\E a \in Agent : AgentStep(a)) \/ UNCHANGED vars
  <2>1. hist' = hist /\ episodes' = episodes /\ registered' = registered /\ tick' = tick
    BY <1>7 DEF AgentStep, Heartbeat, HostDown, HostUp, GoesSilent, vars, world
  <2> QED
    BY <2>1 DEF EscalationInv, supervises
<1> QED
  BY <1>1, <1>2, <1>3, <1>4, <1>5, <1>6, <1>7 DEF Next, Pass

\* An incident is escalated at most once, for any threshold, however passes fail,
\* are cut short by a restart, or work from stale lists (redispatch, noteRecovered,
\* prune).
THEOREM EscalatedOnce == Spec => []OneEscalation
<1>1. Init => EscalationInv
  BY DEF Init, EscalationInv, NoHist, Idle
<1>2. EscalationInv => OneEscalation
  BY DEF EscalationInv, OneEscalation
<1> QED
  BY <1>1, <1>2, EscalationStep, TypeCorrect, PTL DEF Spec

----------------------------------------------------------------------------
\* Teardowns.

\* The revisions of a service in play are ranks already, so a write that ranks them
\* anew leaves those it does not change as they are.
RankInv ==
  \A s \in Service : Normal(Revisions(rows[s], hold[s], call[s]))

\* What is settled is normal.
LEMMA SettledNormal ==
  ASSUME NEW R \in SUBSET Nat, IsFiniteSet(R), NEW row, NEW work, NEW c,
         NEW row2, NEW work2, NEW c2, R = Revisions(row, work, c),
         row2.generation = Rank(R, row.generation), row2.observed = Rank(R, row.observed),
         work2.generation = Rank(R, work.generation), c2.observed = Rank(R, c.observed)
  PROVE  Normal(Revisions(row2, work2, c2))
<1>1. Rank(R, 0) = 0
  BY RankType
<1>2. Revisions(row2, work2, c2) = {Rank(R, n) : n \in R}
  BY <1>1 DEF Revisions
<1> QED
  BY <1>2, RanksAreNormal

\* A report about the revision an agent holds brings no other revision into play.
LEMMA SendRevisions ==
  ASSUME TypeOK, NEW s \in Service, NEW rep, Send(s, rep), rep.observed = hold[s].generation,
         NEW t \in Service
  PROVE  Revisions(rows'[t], hold'[t], call'[t]) = Revisions(rows[t], hold[t], call[t])
<1>1. /\ rows' = rows /\ call[s] = NoCall /\ call' = [call EXCEPT ![s] = ReportParams(rows[s], rep)]
      /\ hold' = [hold EXCEPT ![s].done = TRUE]
  BY DEF Send
<1>2. hold \in [Service -> Work] /\ call \in [Service -> Calls]
  BY TypedIsTypeOK DEF Typed, WorksType, CallsType
<1>3. hold'[t].generation = hold[t].generation
  BY <1>1, <1>2 DEF Work
<1>4. ReportParams(rows[s], rep).observed \in {0, rows[s].generation, hold[s].generation}
  BY DEF ReportParams, ReportedObserved
<1>5. call[s].observed = 0
  BY <1>1, NoCallObserved
<1>6. CASE t = s
  <2>1. call'[t].observed \in {0, rows[s].generation, hold[s].generation}
    BY <1>1, <1>2, <1>4, <1>6
  <2> QED
    BY <1>1, <1>3, <1>5, <1>6, <2>1 DEF Revisions
<1>7. CASE t # s
  BY <1>1, <1>2, <1>3, <1>7 DEF Revisions
<1> QED
  BY <1>6, <1>7

\* What a step does to the revisions in play: it settles one service's anew, or
\* leaves all as they are.
LEMMA OneWrite ==
  ASSUME TypeOK, NEW s \in Service, ServiceStep(s) \/ FlagHostUnreachable(s) \/ Redispatch(s)
  PROVE  \/ \E row \in Row, work \in Work, c \in Calls : Settle(s, row, work, c)
         \/ \A t \in Service :
              Revisions(rows'[t], hold'[t], call'[t]) = Revisions(rows[t], hold[t], call[t])
<1> USE TypedIsTypeOK
<1>1. rows[s] \in Row /\ hold[s] \in Work /\ call[s] \in Calls /\ NoCall \in Calls
  BY DEF Typed, RowsType, WorksType, CallsType, Calls
<1>2. CASE UNCHANGED <<rows, hold, call>>
  BY <1>2
<1>3. CASE \E row \in Row : Write(s, row)
  BY <1>1, <1>3 DEF Write, WriteAll
<1>4. CASE \/ FlagHostUnreachable(s) \/ Redispatch(s) \/ Publish(s) \/ Delete(s)
  <2>1. UNCHANGED <<rows, hold, call>> \/ \E row \in Row : Write(s, row)
    BY <1>1, <1>4, StatementTypes DEF FlagHostUnreachable, Redispatch, Publish, Delete
  <2> QED
    BY <1>2, <1>3, <2>1
<1>5. CASE EnsureRegistered(s) \/ GoesQuiet(s)
  BY <1>2, <1>5 DEF EnsureRegistered, GoesQuiet
<1>6. CASE TimerRuns(s)
  <2>1. /\ hold' = hold /\ call' = call
        /\ \A t \in Service : /\ rows'[t].generation = rows[t].generation
                               /\ rows'[t].observed = rows[t].observed
    BY <1>6 DEF TimerRuns, Typed, RowsType, Row
  <2> QED
    BY <2>1 DEF Revisions
<1>7. CASE Converge(s) \/ FailToConverge(s) \/ ObserveDrift(s)
  <2>1. \E state, status :
          Send(s, [state |-> state, observed |-> hold[s].generation, status |-> status])
    BY <1>7, Zenon DEF Converge, FailToConverge, ObserveDrift
  <2> QED
    BY <2>1, SendRevisions
<1>8. CASE WriteReport(s)
  <2>1. call[s] \in Params
    BY <1>1, <1>8 DEF Calls, WriteReport
  <2>2. UpdateFromReport(rows[s], call[s]) \in Row
    BY <1>1, <2>1, UpdateType
  <2>3. \/ Settle(s, UpdateFromReport(rows[s], call[s]), hold[s], NoCall)
        \/ Settle(s, rows[s], hold[s], NoCall)
    BY <1>8 DEF WriteReport, WriteAll
  <2> QED
    BY <1>1, <2>2, <2>3
<1>9. ASSUME NEW a \in Agent, Pull(a, s)
      PROVE  \E row \in Row, work \in Work, c \in Calls : Settle(s, row, work, c)
  <2>1. ClaimAgentWork(rows[s], a) \in Row
    BY <1>1, StatementTypes
  <2>2. PICK t \in BOOLEAN : t = (rows[s].state = "deleting")
    OBVIOUS
  <2>3. [agent |-> a, generation |-> rows[s].generation, teardown |-> t, done |-> FALSE] \in Work
    BY <1>1 DEF Work, Row
  <2>4. Settle(s, ClaimAgentWork(rows[s], a),
               [agent |-> a, generation |-> rows[s].generation, teardown |-> t, done |-> FALSE],
               call[s])
    BY <1>9, <2>2, Zenon DEF Pull, WriteAll
  <2> QED
    BY <1>1, <2>1, <2>3, <2>4
<1> QED
  BY <1>4, <1>5, <1>6, <1>7, <1>8, <1>9 DEF ServiceStep

\* A restart settles all of them.
LEMMA RestartRanks ==
  ASSUME TypeOK, CoreRestart, NEW s \in Service
  PROVE  Normal(Revisions(rows'[s], hold'[s], call'[s]))
<1>1. PICK R : R = Revisions(rows[s], hold[s], NoCall)
  OBVIOUS
<1>2. /\ rows'[s] = RankRow(R, rows[s]) /\ hold'[s] = RankWork(R, hold[s])
      /\ call'[s] = NoCall
  BY <1>1 DEF CoreRestart
<1>3. /\ R \in SUBSET Nat /\ IsFiniteSet(R)
      /\ rows'[s].generation = Rank(R, rows[s].generation)
      /\ rows'[s].observed = Rank(R, rows[s].observed)
      /\ hold'[s].generation = Rank(R, hold[s].generation)
  BY <1>1, <1>2, SettledTypes
<1>4. call'[s].observed = Rank(R, NoCall.observed)
  BY <1>2, <1>3, RankType, NoCallObserved
<1> QED
  BY <1>1, <1>3, <1>4, SettledNormal

\* Every step keeps the revisions normal.
LEMMA RankStep ==
  ASSUME TypeOK, RankInv, [Next]_vars
  PROVE  RankInv'
<1>1. CASE UNCHANGED <<rows, hold, call>>
  BY <1>1 DEF RankInv
<1>2. ASSUME NEW s \in Service, ServiceStep(s) \/ FlagHostUnreachable(s) \/ Redispatch(s)
      PROVE  RankInv'
  <2>1. ASSUME NEW row \in Row, NEW work \in Work, NEW c \in Calls, Settle(s, row, work, c)
        PROVE  RankInv'
    <3>1. PICK R : R = Revisions(row, work, c)
      OBVIOUS
    <3>2. /\ R \in SUBSET Nat /\ IsFiniteSet(R)
          /\ \A t \in Service : t # s => /\ rows'[t] = rows[t] /\ hold'[t] = hold[t]
                                         /\ call'[t] = call[t]
          /\ rows'[s].generation = Rank(R, row.generation)
          /\ rows'[s].observed = Rank(R, row.observed)
          /\ hold'[s].generation = Rank(R, work.generation)
          /\ call'[s].observed = Rank(R, c.observed)
      <4>1. R \in SUBSET Nat /\ IsFiniteSet(R)
        BY <2>1, <3>1, SettleTypes
      <4>2. /\ rows'[s].generation = Rank(R, row.generation)
            /\ rows'[s].observed = Rank(R, row.observed)
            /\ hold'[s].generation = Rank(R, work.generation)
            /\ call'[s].observed = Rank(R, c.observed)
        BY <2>1, <3>1, SettleTypes
      <4>3. \A t \in Service : t # s => /\ rows'[t] = rows[t] /\ hold'[t] = hold[t]
                                         /\ call'[t] = call[t]
        BY <2>1, <3>1, SettleTypes
      <4> QED
        BY <4>1, <4>2, <4>3
    <3>3. Normal(Revisions(rows'[s], hold'[s], call'[s]))
      BY <3>1, <3>2, SettledNormal
    <3> QED
      BY <3>2, <3>3 DEF RankInv
  <2>2. CASE \A t \in Service :
               Revisions(rows'[t], hold'[t], call'[t]) = Revisions(rows[t], hold[t], call[t])
    BY <2>2 DEF RankInv
  <2> QED
    BY <1>2, <2>1, <2>2, OneWrite
<1>3. CASE CoreRestart
  BY <1>3, RestartRanks DEF RankInv
<1>4. CASE \/ TickSweep \/ TickStanding \/ TickList \/ TickRegistry \/ TickEnd
           \/ \E s \in Service : ReportMissing(s) \/ StandDown(s) \/ Defer(s) \/ NoteRecovered(s)
           \/ \E a \in Agent : AgentStep(a)
           \/ UNCHANGED vars
  BY <1>1, <1>4 DEF TickSweep, TickStanding, TickList, TickRegistry, TickEnd,
         ReportMissing, StandDown, Defer, NoteRecovered, AgentStep, Heartbeat, HostDown, HostUp,
         GoesSilent, vars, world
<1> QED
  BY <1>2, <1>3, <1>4 DEF Next, Pass

\* In the first state, too, where they are 0 and 1.
LEMMA RankInit == Init => RankInv
<1>1. PICK R : R = {0, 1, 0, 0, 0}
  OBVIOUS
<1>2. R \in SUBSET Nat /\ IsFiniteSet(R) /\ Rank(R, 0) = 0
  BY <1>1, FiniteRevisions, RankType
<1>3. Rank(R, 1) = 1
  <2>1. {m \in R : m < 1} = {} \cup {0}
    BY <1>1
  <2>2. Cardinality({} \cup {0}) = Cardinality({}) + 1
    BY FS_EmptySet, FS_AddElement
  <2> QED
    BY <2>1, <2>2, FS_EmptySet DEF Rank
<1>4. Normal(R)
  BY <1>1, <1>2, <1>3 DEF Normal
<1>5. Revisions(AbsentRow, NoWork, NoCall) = R
  BY <1>1 DEF Revisions, AbsentRow, NoWork, NoCall
<1> QED
  BY <1>4, <1>5 DEF Init, RankInv

\* A pass leaves a teardown alone, for any list it works from, however old
\* (RedispatchSystemResource is refused by the row as it is, and flagging a host
\* changes neither the state nor the generation).
THEOREM TeardownIsLeftAlone == Spec => TeardownUntouched
<1>1. ASSUME TypeOK, RankInv, Pass, NEW s \in Service, rows[s].state = "deleting"
      PROVE  rows'[s].state = "deleting" /\ rows'[s].generation = rows[s].generation
  <2>0. ASSUME NEW t \in Service PROVE rows[t] \in Row /\ hold[t] \in Work /\ call[t] \in Calls
    BY <1>1, TypedIsTypeOK DEF Typed, RowsType, WorksType, CallsType
  <2>1. ASSUME NEW t \in Service, NEW row \in Row, Write(t, row), s # t
        PROVE  rows'[s] = rows[s]
    <3>1. Settle(t, row, hold[t], call[t])
      BY <2>1 DEF Write, WriteAll
    <3> QED
      BY <1>1, <2>0, <2>1, <3>1, SettleTypes
  <2>2. ASSUME NEW t \in Service, Write(t, RedispatchSystemResource(rows[t])), Redispatchable(rows[t])
        PROVE  rows'[s] = rows[s]
    <3>1. s # t /\ RedispatchSystemResource(rows[t]) \in Row
      BY <1>1, <2>0, <2>2, StatementTypes DEF Redispatchable
    <3> QED
      BY <2>1, <2>2, <3>1
  <2>3. ASSUME NEW t \in Service, Write(t, FlagResourceHostUnreachable(rows[t]))
        PROVE  rows'[s].state = "deleting" /\ rows'[s].generation = rows[s].generation
    <3>1. PICK row \in Row : row = FlagResourceHostUnreachable(rows[t])
      BY <2>0, StatementTypes
    <3>2. CASE s # t
      BY <1>1, <2>1, <2>3, <3>1, <3>2
    <3>3. CASE s = t
      <4>1. rows[s] \in Row /\ hold[s] \in Work /\ call[s] \in Calls
        BY <2>0
      <4>2. /\ row.state = rows[s].state /\ row.generation = rows[s].generation
            /\ row.observed = rows[s].observed
        BY <3>1, <3>3, <4>1 DEF FlagResourceHostUnreachable, Row
      <4>3. PICK R : R = Revisions(rows[s], hold[s], call[s])
        OBVIOUS
      <4>4. R = Revisions(row, hold[s], call[s]) /\ rows[s].generation \in R
        BY <4>2, <4>3 DEF Revisions
      <4>5. Settle(s, row, hold[s], call[s])
        BY <2>3, <3>1, <3>3 DEF Write, WriteAll
      <4>6. rows'[s].state = row.state /\ rows'[s].generation = Rank(R, row.generation)
        BY <1>1, <4>1, <4>4, <4>5, SettleTypes
      <4>7. Rank(R, rows[s].generation) = rows[s].generation
        BY <1>1, <4>3, <4>4 DEF RankInv, Normal
      <4> QED
        BY <1>1, <4>2, <4>6, <4>7
    <3> QED
      BY <3>2, <3>3
  <2>4. \/ UNCHANGED rows
        \/ \E t \in Service : Write(t, FlagResourceHostUnreachable(rows[t]))
        \/ \E t \in Service : Redispatchable(rows[t]) /\ Write(t, RedispatchSystemResource(rows[t]))
    BY <1>1 DEF Pass, TickSweep, TickStanding, TickList, TickRegistry, TickEnd, ReportMissing,
           StandDown, Defer, NoteRecovered, FlagHostUnreachable, Redispatch, world
  <2> QED
    BY <1>1, <2>2, <2>3, <2>4
<1>2. TypeOK /\ RankInv /\ [Next]_vars =>
        [Pass => \A s \in Service :
           rows[s].state = "deleting" => rows'[s].state = "deleting"
                                         /\ rows'[s].generation = rows[s].generation]_vars
  BY <1>1
<1> QED
  BY <1>2, RankInit, RankStep, TypeCorrect, PTL DEF Spec, TeardownUntouched
=============================================================================
