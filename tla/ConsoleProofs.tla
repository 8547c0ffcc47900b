---------------------------- MODULE ConsoleProofs ----------------------------
(***************************************************************************)
(* What a statement of a console request can do, for any tables, ids and   *)
(* requests: it leaves deleted rows alone, it writes only for a request    *)
(* whose caller may write, and a request that has written is never refused.*)
(***************************************************************************)
EXTENDS Console, TLAPS

----------------------------------------------------------------------------
\* Tables.

TableNames == DOMAIN Ids \cup {"own"}

\* e is d after a statement that leaves d's deleted rows alone.
Harmless(d, e) ==
  /\ Shaped(e)
  /\ \A t \in DOMAIN Ids : \A i \in Ids[t] : d[t][i].life = "deleted" => e[t][i] = d[t][i]

\* What a writing statement answers: it leaves deleted rows alone, and all of the
\* tables when it fails.
Lawful(d, res) == Harmless(d, res.db) /\ (res.err # "" => res.db = d)

\* The ids are those of six tables.
LEMMA IdsDomain ==
  DOMAIN Ids = {"tenants", "projects", "services", "providers", "agents", "resources"}
BY DEF Ids

\* Setting a column keeps the columns.
LEMMA SetColumn ==
  ASSUME NEW t, NEW row, Columned(t, row), NEW f, NEW v
  PROVE  Columned(t, [row EXCEPT ![f] = v])
<1> DEFINE C == Columns[t]
<1>1. row = [x \in C |-> row[x]]
  BY DEF Columned
<1> HIDE DEF C
<1>2. [row EXCEPT ![f] = v] = [x \in C |-> IF x = f THEN v ELSE row[x]]
  BY <1>1
<1>3. [row EXCEPT ![f] = v] = [x \in C |-> [row EXCEPT ![f] = v][x]]
  BY <1>2
<1> QED
  BY <1>3 DEF Columned, C

\* An inserted row has the columns of its table.
LEMMA InsertedColumns ==
  ASSUME NEW t, NEW n, NEW k, NEW s, NEW v, NEW w
  PROVE  /\ Columned("tenants", TenantRow(n, s, v))
         /\ Columned("projects", ProjectRow(t, n, v))
         /\ Columned("providers", ProviderRow(t, n, v))
         /\ Columned("services", ServiceRow(t, n, k, s, v, w))
<1>1. Columned("tenants", TenantRow(n, s, v))
  BY DEF Columned, Columns, TenantRow
<1>2. Columned("projects", ProjectRow(t, n, v))
  BY DEF Columned, Columns, ProjectRow
<1>3. Columned("providers", ProviderRow(t, n, v))
  BY DEF Columned, Columns, ProviderRow
<1>4. Columned("services", ServiceRow(t, n, k, s, v, w))
  BY DEF Columned, Columns, ServiceRow
<1> QED
  BY <1>1, <1>2, <1>3, <1>4

\* A stored row has the columns of its table.
LEMMA StoredColumns ==
  ASSUME NEW d, Shaped(d), NEW t \in DOMAIN Ids, NEW i \in Ids[t]
  PROVE  Columned(t, d[t][i])
BY DEF Shaped

\* The row UpdateServiceStatus writes.
Stamped(row, status, stamped) == [row EXCEPT !.status = status, !.stamped = stamped]

\* It has the columns of the row it was.
LEMMA ServiceColumns ==
  ASSUME NEW row, Columned("services", row), NEW status, NEW stamped
  PROVE  Columned("services", Stamped(row, status, stamped))
<1> DEFINE one == [row EXCEPT !.status = status]
           two == [one EXCEPT !.stamped = stamped]
<1>1. Stamped(row, status, stamped) = two
  BY DEF Stamped
<1>2. Columned("services", one)
  BY SetColumn
<1> HIDE DEF one
<1>3. Columned("services", two)
  BY <1>2, SetColumn
<1> QED
  BY <1>1, <1>3, Zenon

\* The statements on an agent and on a resource keep their columns.
LEMMA AgentColumns ==
  ASSUME NEW row, Columned("agents", row), NEW cur, NEW status
  PROVE  /\ Columned("agents", CreateAgent(row))
         /\ Columned("agents", UpdateAgentStatus(cur, row, status))
         /\ Columned("agents", AgentHeartbeat(row))
<1>1. Columned("agents", CreateAgent(row))
  BY SetColumn DEF CreateAgent
<1>2. Columned("agents", UpdateAgentStatus(cur, row, status))
  BY SetColumn DEF UpdateAgentStatus
<1>3. Columned("agents", AgentHeartbeat(row))
  <2> DEFINE one == [row EXCEPT !.seen = "fresh"]
             two == [one EXCEPT !.status = "online"]
  <2>1. AgentHeartbeat(row) = two
    BY DEF AgentHeartbeat
  <2>2. Columned("agents", one)
    BY SetColumn
  <2> HIDE DEF one
  <2>3. Columned("agents", two)
    BY <2>2, SetColumn
  <2> QED
    BY <2>1, <2>3, Zenon
<1> QED
  BY <1>1, <1>2, <1>3

\* The same for resources.
LEMMA ResourceColumns ==
  ASSUME NEW row, Columned("resources", row), NEW cur, NEW rep
  PROVE  /\ Columned("resources", CreateResource(row))
         /\ Columned("resources", MarkResourceDeleting(row))
         /\ Columned("resources", UpdateResourceSpec(row))
         /\ Columned("resources", UpdateResourceStatus(cur, row, rep))
<1>1. Columned("resources", CreateResource(row)) /\ Columned("resources", MarkResourceDeleting(row))
  BY SetColumn DEF CreateResource, MarkResourceDeleting
<1>2. Columned("resources", UpdateResourceSpec(row))
  <2> DEFINE one == [row EXCEPT !.generation = @ + 1]
             two == [one EXCEPT !.state = "pending"]
             three == [two EXCEPT !.attempts = 0]
             four == [three EXCEPT !.backoff = FALSE]
  <2>1. UpdateResourceSpec(row) = four
    BY DEF UpdateResourceSpec
  <2>2. Columned("resources", one)
    BY SetColumn
  <2> HIDE DEF one
  <2>3. Columned("resources", two)
    BY <2>2, SetColumn
  <2> HIDE DEF two
  <2>4. Columned("resources", three)
    BY <2>3, SetColumn
  <2> HIDE DEF three
  <2>5. Columned("resources", four)
    BY <2>4, SetColumn
  <2> QED
    BY <2>1, <2>5, Zenon
<1>3. Columned("resources", UpdateResourceStatus(cur, row, rep))
  <2> DEFINE state == IF rep.state = "" THEN cur.state ELSE rep.state
             observed == IF rep.observed > 0 THEN rep.observed ELSE cur.observed
             unreachable == IF rep.status = "none" THEN cur.unreachable ELSE FALSE
             one == [row EXCEPT !.state = state]
             two == [one EXCEPT !.observed = observed]
             three == [two EXCEPT !.unreachable = unreachable]
  <2>1. UpdateResourceStatus(cur, row, rep) = three
    BY DEF UpdateResourceStatus
  <2> HIDE DEF state, observed, unreachable
  <2>2. Columned("resources", one)
    BY SetColumn
  <2> HIDE DEF one
  <2>3. Columned("resources", two)
    BY <2>2, SetColumn
  <2> HIDE DEF two
  <2>4. Columned("resources", three)
    BY <2>3, SetColumn
  <2> QED
    BY <2>1, <2>4, Zenon
<1> QED
  BY <1>1, <1>2, <1>3

\* A statement that writes a row which is not deleted leaves the deleted ones alone.
LEMMA PutHarmless ==
  ASSUME NEW d, Shaped(d), NEW t \in DOMAIN Ids, NEW i \in Ids[t],
         d[t][i].life # "deleted", NEW row, Columned(t, row)
  PROVE  Harmless(d, [d EXCEPT ![t][i] = row])
<1> DEFINE e == [d EXCEPT ![t][i] = row]
<1>1. /\ d = [u \in TableNames |-> d[u]] /\ DOMAIN Ids \subseteq TableNames
      /\ \A u \in DOMAIN Ids : d[u] = [j \in Ids[u] |-> d[u][j]]
      /\ \A u \in DOMAIN Ids : \A j \in Ids[u] : Columned(u, d[u][j])
  BY DEF Shaped, TableNames
<1>2. e = [u \in TableNames |-> IF u = t THEN [d[t] EXCEPT ![i] = row] ELSE d[u]]
  BY <1>1
<1>3. [d[t] EXCEPT ![i] = row] = [j \in Ids[t] |-> IF j = i THEN row ELSE d[t][j]]
  BY <1>1
<1> HIDE DEF e
<1>4. Shaped(e)
  <2>1. e = [u \in TableNames |-> e[u]]
    BY <1>2
  <2>2. ASSUME NEW u \in DOMAIN Ids PROVE e[u] = [j \in Ids[u] |-> e[u][j]]
    BY <1>1, <1>2, <1>3
  <2>3. ASSUME NEW u \in DOMAIN Ids, NEW j \in Ids[u] PROVE Columned(u, e[u][j])
    <3>1. (e[u][j] = row /\ u = t) \/ e[u][j] = d[u][j]
      BY <1>1, <1>2, <1>3
    <3> QED
      BY <1>1, <3>1, Zenon
  <2> QED
    BY <2>1, <2>2, <2>3 DEF Shaped, TableNames
<1>5. ASSUME NEW u \in DOMAIN Ids, NEW j \in Ids[u], d[u][j].life = "deleted"
      PROVE  e[u][j] = d[u][j]
  BY <1>1, <1>2, <1>3, <1>5
<1> QED
  BY <1>4, <1>5 DEF Harmless, e

\* Neither does one that finds no row, or fails.
LEMMA SameHarmless == ASSUME NEW d, Shaped(d) PROVE Harmless(d, d)
BY DEF Harmless

\* UPDATE finds a live row or none.
LEMMA UpdateHarmless ==
  ASSUME NEW d, Shaped(d), NEW t \in DOMAIN Ids, NEW i, NEW row,
         i \in Ids[t] => Columned(t, row)
  PROVE  Lawful(d, Update(d, t, i, row))
<1>1. LiveRows(d[t]) \subseteq Ids[t]
  BY DEF LiveRows, Shaped
<1>2. CASE i \in LiveRows(d[t])
  <2>1. d[t][i].life # "deleted" /\ i \in Ids[t]
    BY <1>1, <1>2 DEF LiveRows
  <2>2. Harmless(d, [d EXCEPT ![t][i] = row])
    BY <2>1, PutHarmless
  <2> QED
    BY <1>2, <2>2 DEF Update, Lawful
<1>3. CASE i \notin LiveRows(d[t])
  BY <1>3, SameHarmless DEF Update, Lawful
<1> QED
  BY <1>2, <1>3

\* A soft delete, too.
LEMMA SoftDeleteHarmless ==
  ASSUME NEW d, Shaped(d), NEW t \in DOMAIN Ids, NEW i
  PROVE  Lawful(d, SoftDelete(d, t, i))
<1>1. LiveRows(d[t]) \subseteq Ids[t]
  BY DEF LiveRows, Shaped
<1>2. CASE i \in LiveRows(d[t])
  <2> DEFINE row == [d[t][i] EXCEPT !.life = "deleted"]
             e == [d EXCEPT ![t][i] = row]
  <2>1. SoftDelete(d, t, i).err = "" /\ SoftDelete(d, t, i).db = e
    BY <1>2 DEF SoftDelete
  <2>2. d[t][i].life # "deleted" /\ i \in Ids[t]
    BY <1>1, <1>2 DEF LiveRows
  <2>3. Columned(t, row)
    BY <2>2, SetColumn DEF Shaped
  <2> HIDE DEF row
  <2>4. Harmless(d, e)
    BY <2>2, <2>3, PutHarmless
  <2> HIDE DEF e
  <2> QED
    BY <2>1, <2>4 DEF Lawful
<1>3. CASE i \notin LiveRows(d[t])
  BY <1>3, SameHarmless DEF SoftDelete, Lawful
<1> QED
  BY <1>2, <1>3

\* The update of a service's status is lawful.
LEMMA StatusLawful ==
  ASSUME NEW d, Shaped(d), NEW i, NEW status, NEW stamped
  PROVE  Lawful(d, UpdateServiceStatus(d, i, status, stamped))
<1> DEFINE row == Stamped(d.services[i], status, stamped)
<1>1. UpdateServiceStatus(d, i, status, stamped) = Update(d, "services", i, row)
  BY Zenon DEF UpdateServiceStatus, Stamped
<1>2. "services" \in DOMAIN Ids
  BY IdsDomain
<1>3. i \in Ids["services"] => Columned("services", row)
  BY <1>2, StoredColumns, ServiceColumns
<1> HIDE DEF row
<1> QED
  BY <1>1, <1>2, <1>3, UpdateHarmless

----------------------------------------------------------------------------
\* Requests.

\* Does the method q's request called write?
Mutates(q) == q.op = "ensure" \/ Router[q.seg][q.op].method \notin ReadMethods

\* The statuses that tell the caller that the request was wrong.
Refusals == 400 .. 499

\* No refusals: success, and a failure of the server.
LEMMA NoRefusals == 200 \notin Refusals /\ 201 \notin Refusals /\ 500 \notin Refusals /\ 502 \notin Refusals
BY DEF Refusals

\* A request to the segment that has written may be answered with this: not with a
\* refusal, unless it is setup's of a run.
Honest(seg, code) == code \notin Refusals \/ (seg = "setup" /\ code # 409)

\* The columns of a request.
Shape(q) ==
  /\ q = [pc |-> q.pc, seg |-> q.seg, op |-> q.op, in |-> q.in, row |-> q.row,
          may |-> q.may, wrote |-> q.wrote, code |-> q.code]
  /\ q.may \in BOOLEAN /\ q.wrote \in BOOLEAN

\* A request is routed; one whose method writes belongs to a caller who may write;
\* one that has written has only its row's parent to resolve, or got an honest answer.
Sound(q) ==
  /\ Shape(q)
  /\ q.pc \notin {"idle", "done"} /\ q.seg # "grpc" =>
       /\ q.op = "ensure" \/ (q.seg \in DOMAIN Router /\ q.op \in DOMAIN Router[q.seg])
       /\ Mutates(q) => q.may
  /\ q.wrote => /\ q.may
                /\ q.pc = "resolve" \/ (q.pc = "done" /\ Honest(q.seg, q.code))

\* The invariant of the console.
ConsoleInv ==
  /\ Shaped(db)
  /\ req = [c \in Call |-> req[c]]
  /\ \A c \in Call : Sound(req[c])

\* What a step that serves c leaves.
Effect(c) ==
  /\ req' = [req EXCEPT ![c] = req'[c]]
  /\ Sound(req'[c])
  /\ Harmless(db, db')

\* c's request is served by a method.
Serving(c) == ConsoleInv /\ c \in Call /\ req[c].pc \notin {"idle", "done"} /\ req[c].seg # "grpc"

\* An effect keeps the invariant.
LEMMA EffectKeepsInv ==
  ASSUME ConsoleInv, NEW c \in Call, Effect(c)
  PROVE  ConsoleInv'
BY DEF ConsoleInv, Effect, Harmless

\* Success is answered with 200 or 201, and EnsureRegistered has no route.
LEMMA RouteAnswers ==
  ASSUME NEW seg \in DOMAIN Router, NEW op \in DOMAIN Router[seg]
  PROVE  Router[seg][op].ok \in {200, 201} /\ op # "ensure"
<1>1. CASE seg = "tenants"
  BY <1>1 DEF Router, TenantRoutes, Route
<1>2. CASE seg = "projects"
  BY <1>2 DEF Router, ProjectRoutes, Route
<1>3. CASE seg = "providers"
  BY <1>3 DEF Router, ProviderRoutes, Route
<1>4. CASE seg = "services"
  BY <1>4 DEF Router, ServiceRoutes, Route
<1>5. CASE seg = "agents"
  BY <1>5 DEF Router, AgentRoutes, Route
<1>6. CASE seg = "resources"
  BY <1>6 DEF Router, ResourceRoutes, Route
<1>7. CASE seg = "events"
  BY <1>7 DEF Router, EventRoutes, Route
<1>8. CASE seg = "setup"
  BY <1>8 DEF Router, SetupRoutes, Route
<1>9. CASE seg = "steward"
  BY <1>9 DEF Router, StewardRoutes, Route
<1>10. CASE seg = "capabilities"
  BY <1>10 DEF Router, Route
<1> QED
  BY <1>1, <1>2, <1>3, <1>4, <1>5, <1>6, <1>7, <1>8, <1>9, <1>10 DEF Router

\* What a method may return once it has written.
Final(err) == err = "" \/ err = "untyped"

\* A method that returns after a write is answered with success or with 500.
LEMMA AnswerIsNoRefusal ==
  ASSUME NEW c, Serving(c), NEW err, Final(err)
  PROVE  Answer(c, err) \notin Refusals
<1>1. CASE err = "untyped"
  <2>1. Answer(c, err) = 500
    BY <1>1 DEF Answer, HandleServiceError, AppError
  <2> QED
    BY <2>1, NoRefusals
<1>2. CASE err = ""
  <2>1. Sound(req[c]) /\ req[c].pc \notin {"idle", "done"} /\ req[c].seg # "grpc"
    BY DEF Serving, ConsoleInv
  <2>2. \/ req[c].op = "ensure"
        \/ req[c].seg \in DOMAIN Router /\ req[c].op \in DOMAIN Router[req[c].seg]
    BY <2>1 DEF Sound
  <2>3. Answer(c, err) = IF req[c].op = "ensure" THEN 200
                         ELSE Router[req[c].seg][req[c].op].ok
    BY <1>2 DEF Answer
  <2>4. Answer(c, err) = 200 \/ Answer(c, err) = 201
    BY <2>2, <2>3, RouteAnswers
  <2> QED
    BY <2>4, NoRefusals
<1> QED
  BY <1>1, <1>2 DEF Final

\* An answered request is sound when its answer is honest or it did not write.
LEMMA AnsweredSound ==
  ASSUME NEW seg, NEW code, NEW wrote \in BOOLEAN, NEW may \in BOOLEAN,
         wrote => may /\ Honest(seg, code)
  PROVE  Sound(Answered(seg, code, wrote, may))
<1> DEFINE q == Answered(seg, code, wrote, may)
<1>1. q = [pc |-> "done", seg |-> seg, op |-> "", in |-> NoIn, row |-> NoRow,
           may |-> may, wrote |-> wrote, code |-> code]
  BY Zenon DEF Answered
<1> HIDE DEF q
<1>2. Shape(q) /\ q.pc = "done" /\ q.seg = seg /\ q.may = may /\ q.wrote = wrote /\ q.code = code
  <2>1. /\ q.pc = "done" /\ q.seg = seg /\ q.op = "" /\ q.in = NoIn /\ q.row = NoRow
        /\ q.may = may /\ q.wrote = wrote /\ q.code = code
    BY <1>1
  <2> QED
    BY <1>1, <2>1 DEF Shape
<1>3. Sound(q)
  BY <1>2 DEF Sound
<1> QED
  BY <1>3 DEF q

\* The building blocks of the methods.
LEMMA ReplyEffect ==
  ASSUME NEW c, Serving(c), NEW err, Reply(c, err), db' = db,
         req[c].pc # "resolve" \/ Final(err)
  PROVE  Effect(c)
<1>1. req'[c] = Done(Answer(c, err), req[c].wrote, req[c].may) /\ req' = [req EXCEPT ![c] = req'[c]]
  BY DEF Reply, Serving, ConsoleInv
<1>2. req[c].wrote => req[c].may /\ Answer(c, err) \notin Refusals
  BY AnswerIsNoRefusal DEF Serving, ConsoleInv, Sound, Shape
<1>3. req[c].may \in BOOLEAN /\ req[c].wrote \in BOOLEAN
  BY DEF Serving, ConsoleInv, Sound, Shape
<1>4. Sound(Answered("", Answer(c, err), req[c].wrote, req[c].may))
  BY <1>2, <1>3, AnsweredSound, Zenon DEF Honest
<1>5. Sound(req'[c])
  BY <1>1, <1>4, Zenon DEF Done
<1> QED
  BY <1>1, <1>5, SameHarmless DEF Effect, Serving, ConsoleInv

\* A statement that only moves its request on writes nothing, and leaves it sound.
LEMMA GotoEffect ==
  ASSUME NEW c, Serving(c), NEW pc, NEW row, Goto(c, pc, row), db' = db,
         pc \notin {"idle", "done"}, req[c].pc # "resolve" \/ pc = "resolve"
  PROVE  Effect(c)
<1> DEFINE q == req[c]
<1>1. q = [pc |-> q.pc, seg |-> q.seg, op |-> q.op, in |-> q.in, row |-> q.row,
           may |-> q.may, wrote |-> q.wrote, code |-> q.code]
  BY DEF Serving, ConsoleInv, Sound, Shape
<1>2. /\ req' = [req EXCEPT ![c] = req'[c]]
      /\ req'[c] = [pc |-> pc, seg |-> q.seg, op |-> q.op, in |-> q.in, row |-> row,
                    may |-> q.may, wrote |-> q.wrote, code |-> q.code]
  BY <1>1 DEF Goto, Serving, ConsoleInv
<1>3. Sound(req'[c])
  BY <1>2 DEF Sound, Shape, Mutates, Serving, ConsoleInv
<1> QED
  BY <1>2, <1>3, SameHarmless DEF Effect, Serving, ConsoleInv

\* A read that answers or moves on keeps to the effect (Look).
LEMMA LookEffect ==
  ASSUME NEW c, Serving(c), NEW row, NEW missing, NEW pc, Look(c, row, missing, pc),
         pc \notin {"idle", "done"}, req[c].pc # "resolve"
  PROVE  Effect(c)
BY ReplyEffect, GotoEffect DEF Look

\* So does a read whose row is only checked to be there (Check).
LEMMA CheckEffect ==
  ASSUME NEW c, Serving(c), NEW row, NEW missing, NEW pc, Check(c, row, missing, pc),
         pc \notin {"idle", "done"},
         req[c].pc # "resolve" \/ (missing = "untyped" /\ pc = "reply")
  PROVE  Effect(c)
<1>1. CASE row.life # "live"
  BY <1>1, ReplyEffect DEF Check, Final
<1>2. CASE row.life = "live" /\ pc = "reply"
  BY <1>2, ReplyEffect DEF Check, Final
<1>3. CASE row.life = "live" /\ pc # "reply"
  BY <1>3, GotoEffect DEF Check
<1> QED
  BY <1>1, <1>2, <1>3

\* A write that leaves deleted rows alone, of a request that may write, keeps to the
\* effect: a failed statement wrote nothing, and the answer to a write is no refusal.
LEMMA SaveEffect ==
  ASSUME NEW c, Serving(c), NEW res, NEW missing, NEW pc, pc = "reply" \/ pc = "resolve",
         Save(c, res, missing, pc), Mutates(req[c]), Lawful(db, res)
  PROVE  Effect(c)
<1> DEFINE err == IF res.err = "norows" THEN missing ELSE res.err
           q == req[c]
<1>1. /\ db' = res.db
      /\ req' = [req EXCEPT ![c] = IF err = "" /\ pc # "reply"
                                   THEN [q EXCEPT !.pc = pc, !.wrote = res.db # db]
                                   ELSE Done(Answer(c, err), res.db # db, q.may)]
  BY DEF Save
<1>2. q = [pc |-> q.pc, seg |-> q.seg, op |-> q.op, in |-> q.in, row |-> q.row,
           may |-> q.may, wrote |-> q.wrote, code |-> q.code]
      /\ q.may = TRUE /\ q.may \in BOOLEAN
  BY DEF Serving, ConsoleInv, Sound, Shape
<1>3. (err # "" => res.db = db) /\ Harmless(db, res.db)
  BY DEF Lawful
<1> HIDE DEF err
<1>4. req' = [req EXCEPT ![c] = req'[c]]
  BY <1>1 DEF Serving, ConsoleInv
<1>5. CASE err = "" /\ pc # "reply"
  <2>1. req'[c] = [pc |-> "resolve", seg |-> q.seg, op |-> q.op, in |-> q.in, row |-> q.row,
                   may |-> q.may, wrote |-> res.db # db, code |-> q.code]
    BY <1>1, <1>2, <1>5 DEF Serving, ConsoleInv
  <2>2. /\ q.op = "ensure" \/ (q.seg \in DOMAIN Router /\ q.op \in DOMAIN Router[q.seg])
        /\ Mutates(q)
    BY DEF Serving, ConsoleInv, Sound
  <2>3. PICK w \in BOOLEAN, m \in BOOLEAN, r \in {req'[c]} :
          w = (res.db # db) /\ m = q.may /\ r = req'[c]
    BY <1>2
  <2>4. r = [pc |-> "resolve", seg |-> q.seg, op |-> q.op, in |-> q.in, row |-> q.row,
             may |-> m, wrote |-> w, code |-> q.code]
    BY <2>1, <2>3, Zenon
  <2>5. r.pc = "resolve" /\ r.seg = q.seg /\ r.op = q.op /\ r.in = q.in /\ r.row = q.row
    BY <2>4
  <2>6. r.may = m /\ r.wrote = w /\ r.code = q.code
    BY <2>4
  <2>7. Shape(r)
    BY <2>4, <2>5, <2>6 DEF Shape
  <2>8. Sound(r)
    BY <1>2, <2>2, <2>3, <2>5, <2>6, <2>7 DEF Sound, Mutates
  <2> QED
    BY <1>1, <1>3, <1>4, <2>3, <2>8 DEF Effect
<1>6. CASE ~(err = "" /\ pc # "reply")
  <2>1. req'[c] = Done(Answer(c, err), res.db # db, TRUE)
    BY <1>1, <1>2, <1>6 DEF Serving, ConsoleInv
  <2>2. (res.db # db) => Answer(c, err) \notin Refusals
    BY <1>3, AnswerIsNoRefusal DEF Final
  <2>3. Sound(req'[c])
    BY <2>1, <2>2, AnsweredSound DEF Done, Honest
  <2> QED
    BY <1>1, <1>3, <1>4, <2>3 DEF Effect
<1> QED
  BY <1>5, <1>6

\* An insert takes an id no row has had, or clashes and leaves the tables alone.
LEMMA InsertEffect ==
  ASSUME NEW c, Serving(c), NEW t \in DOMAIN Ids, NEW i \in Ids[t], NEW row, Columned(t, row),
         NEW res,
         \/ res.err = "23505" /\ res.db = db
         \/ res.err = "" /\ res.db = [db EXCEPT ![t][i] = row] /\ db[t][i].life = "absent",
         Save(c, res, "untyped", "reply"), Mutates(req[c])
  PROVE  Effect(c)
<1>1. Shaped(db)
  BY DEF Serving, ConsoleInv
<1>2. CASE res.err = "23505" /\ res.db = db
  BY <1>1, <1>2, SameHarmless, SaveEffect DEF Lawful
<1>3. CASE res.err = "" /\ res.db = [db EXCEPT ![t][i] = row] /\ db[t][i].life = "absent"
  <2>1. db[t][i].life # "deleted"
    BY <1>3
  <2>2. Harmless(db, [db EXCEPT ![t][i] = row])
    BY <1>1, <2>1, PutHarmless, Zenon
  <2>3. Harmless(db, res.db)
    BY <1>3, <2>2, Zenon
  <2> QED
    BY <1>3, <2>3, SaveEffect DEF Lawful
<1> QED
  BY <1>2, <1>3

\* A row and what its insert sets once.
Put(d, t, i, row, own) == [d EXCEPT ![t][i] = row, !.own[i] = own]

\* The same for agents and resources, whose names are in a table of their own.
LEMMA OwnedInsertEffect ==
  ASSUME NEW c, Serving(c), NEW t \in DOMAIN Ids, NEW i \in Ids[t], NEW row, Columned(t, row),
         NEW own, NEW res,
         \/ res.err = "23505" /\ res.db = db
         \/ /\ res.err = "" /\ res.db = Put(db, t, i, row, own)
            /\ db[t][i].life = "absent",
         Save(c, res, "untyped", "reply"), Mutates(req[c])
  PROVE  Effect(c)
<1>1. Shaped(db)
  BY DEF Serving, ConsoleInv
<1>2. CASE res.err = "23505" /\ res.db = db
  BY <1>1, <1>2, SameHarmless, SaveEffect DEF Lawful
<1>3. CASE /\ res.err = "" /\ res.db = Put(db, t, i, row, own)
           /\ db[t][i].life = "absent"
  <2> DEFINE d == [db EXCEPT ![t][i] = row]
             e == [d EXCEPT !.own[i] = own]
  <2>1. db[t][i].life # "deleted" /\ res.db = e
    BY <1>3 DEF Put
  <2>2. Harmless(db, d)
    BY <1>1, <2>1, PutHarmless, Zenon
  <2> HIDE DEF d
  <2>3. d = [u \in TableNames |-> d[u]] /\ "own" \notin DOMAIN Ids
    BY <2>2, IdsDomain DEF Harmless, Shaped, TableNames
  <2>4. e = [u \in TableNames |-> e[u]] /\ \A u \in DOMAIN Ids : e[u] = d[u]
    BY <2>3 DEF TableNames
  <2> HIDE DEF e
  <2>5. Shaped(e)
    <3>1. Shaped(d)
      BY <2>2 DEF Harmless
    <3>2. ASSUME NEW u \in DOMAIN Ids
          PROVE  e[u] = [j \in Ids[u] |-> e[u][j]] /\ \A j \in Ids[u] : Columned(u, e[u][j])
      BY <2>4, <3>1 DEF Shaped
    <3> QED
      BY <2>4, <3>2 DEF Shaped, TableNames
  <2>6. Harmless(db, e)
    <3>1. ASSUME NEW u \in DOMAIN Ids, NEW j \in Ids[u], db[u][j].life = "deleted"
          PROVE  e[u][j] = db[u][j]
      <4>1. d[u][j] = db[u][j]
        BY <2>2, <3>1, Zenon DEF Harmless
      <4> QED
        BY <2>4, <4>1, Zenon
    <3> QED
      BY <2>5, <3>1, Zenon DEF Harmless
  <2> QED
    BY <1>3, <2>1, <2>6, SaveEffect DEF Lawful
<1> QED
  BY <1>2, <1>3

\* The segments' route tables.
LEMMA SegmentRoutes ==
  /\ Router["tenants"] = TenantRoutes /\ Router["projects"] = ProjectRoutes
  /\ Router["providers"] = ProviderRoutes /\ Router["services"] = ServiceRoutes
  /\ Router["agents"] = AgentRoutes /\ Router["resources"] = ResourceRoutes
  /\ Router["setup"] = SetupRoutes /\ Router["steward"] = StewardRoutes
BY DEF Router

\* The methods that write are behind a mutating verb.
LEMMA WritingRoutes ==
  /\ \A op \in {"create", "update", "remove"} :
       /\ TenantRoutes[op].method \notin ReadMethods
       /\ ProjectRoutes[op].method \notin ReadMethods
       /\ ProviderRoutes[op].method \notin ReadMethods
  /\ \A op \in {"create", "updateStatus", "remove"} : ServiceRoutes[op].method \notin ReadMethods
  /\ \A op \in {"create", "update", "heartbeat", "remove"} :
       AgentRoutes[op].method \notin ReadMethods
  /\ \A op \in {"create", "updateSpec", "updateStatus", "remove"} :
       ResourceRoutes[op].method \notin ReadMethods
BY DEF TenantRoutes, ProjectRoutes, ProviderRoutes, ServiceRoutes, AgentRoutes,
       ResourceRoutes, Route, ReadMethods

----------------------------------------------------------------------------
\* The methods.

\* tenant.Service
LEMMA TenantEffect ==
  ASSUME NEW c, Serving(c), TenantMethod(c)
  PROVE  Effect(c)
<1>1. Shaped(db) /\ "tenants" \in DOMAIN Ids
  BY IdsDomain DEF Serving, ConsoleInv
<1>2. ASSUME req[c].seg = "tenants", req[c].op \in {"create", "update", "remove"}
      PROVE  Mutates(req[c])
  BY <1>2, WritingRoutes, SegmentRoutes DEF Mutates
<1>3. CASE TenantCreate(c)
  <2>1. Mutates(req[c]) /\ req[c].pc = "call"
    BY <1>2, <1>3 DEF TenantCreate, At
  <2>2. CASE Reply(c, "validation") /\ UNCHANGED db
    BY <2>1, <2>2, ReplyEffect
  <2>3. CASE Inserted(c, "tenants",
               LAMBDA i : CreateTenant(db, i, In(c).name, In(c).sys, In(c).val), "reply")
    <3>1. PICK i \in Ids["tenants"] :
            LET res == CreateTenant(db, i, In(c).name, In(c).sys, In(c).val)
            IN  (res.err = "" => db["tenants"][i].life = "absent") /\ Save(c, res, "untyped", "reply")
      BY <2>3 DEF Inserted
    <3> DEFINE res == CreateTenant(db, i, In(c).name, In(c).sys, In(c).val)
               row == TenantRow(In(c).name, In(c).sys, In(c).val)
    <3>2. \/ res.err = "23505" /\ res.db = db
          \/ res.err = "" /\ res.db = [db EXCEPT !["tenants"][i] = row]
      BY DEF CreateTenant, Insert
    <3>3. Columned("tenants", row)
      BY InsertedColumns
    <3> HIDE DEF res, row
    <3> QED
      BY <1>1, <2>1, <3>1, <3>2, <3>3, InsertEffect DEF res
  <2> QED
    BY <1>3, <2>2, <2>3 DEF TenantCreate
<1>4. CASE TenantGet(c)
  BY <1>4, CheckEffect DEF TenantGet, At
<1>5. CASE TenantList(c)
  <2>1. CASE At(c, "tenants", "list", "call")
    BY <1>5, <2>1, GotoEffect DEF TenantList, At
  <2>2. CASE At(c, "tenants", "list", "count")
    BY <1>5, <2>2, ReplyEffect DEF TenantList, At
  <2> QED
    BY <1>5, <2>1, <2>2 DEF TenantList
<1>6. CASE TenantUpdate(c)
  <2>1. CASE At(c, "tenants", "update", "call")
    BY <1>6, <2>1, LookEffect DEF TenantUpdate, At
  <2>2. CASE At(c, "tenants", "update", "write")
    <3> DEFINE i == In(c).id
               row == [db.tenants[i] EXCEPT !.val = Filled(c)]
               res == Update(db, "tenants", i, row)
    <3>1. Save(c, res, "notfound", "reply") /\ Mutates(req[c])
      BY <1>2, <1>6, <2>2 DEF TenantUpdate, At, UpdateTenant
    <3>2. i \in Ids["tenants"] => Columned("tenants", row)
      BY <1>1, StoredColumns, SetColumn
    <3> HIDE DEF i, row
    <3>3. Lawful(db, res)
      BY <1>1, <3>2, UpdateHarmless
    <3> HIDE DEF res
    <3> QED
      BY <3>1, <3>3, SaveEffect
  <2> QED
    BY <1>6, <2>1, <2>2 DEF TenantUpdate
<1>7. CASE TenantDelete(c)
  <2>1. CASE At(c, "tenants", "remove", "call")
    <3>1. /\ req[c].pc = "call"
          /\ \/ Reply(c, "forbidden") /\ db' = db
             \/ Check(c, GetTenantByUUID(db, In(c).id), "notfound", "write")
      BY <1>7, <2>1 DEF TenantDelete, At
    <3>2. CASE Reply(c, "forbidden") /\ db' = db
      BY <3>1, <3>2, ReplyEffect
    <3>3. CASE Check(c, GetTenantByUUID(db, In(c).id), "notfound", "write")
      BY <3>1, <3>3, CheckEffect
    <3> QED
      BY <3>1, <3>2, <3>3
  <2>2. CASE At(c, "tenants", "remove", "write")
    BY <1>1, <1>2, <1>7, <2>2, SoftDeleteHarmless, SaveEffect DEF TenantDelete, At, SoftDeleteTenant
  <2> QED
    BY <1>7, <2>1, <2>2 DEF TenantDelete
<1>8. CASE TenantGetSystem(c)
  BY <1>8, ReplyEffect DEF TenantGetSystem, At
<1> QED
  BY <1>3, <1>4, <1>5, <1>6, <1>7, <1>8 DEF TenantMethod

\* Get, List and Update of the rows a tenant owns.
LEMMA GetOwnedEffect ==
  ASSUME NEW c, Serving(c), NEW seg, NEW row, GetOwned(c, seg, row)
  PROVE  Effect(c)
<1>1. CASE At(c, seg, "get", "call") /\ Look(c, row, "notfound", "resolve")
  BY <1>1, LookEffect DEF At
<1>2. CASE At(c, seg, "get", "resolve") /\ resolveTenantUUID(c, TenantOf(seg, In(c).id))
  BY <1>2, CheckEffect DEF At, resolveTenantUUID
<1> QED
  BY <1>1, <1>2 DEF GetOwned

\* A tenant's list: the tenant, a page, the count.
LEMMA ListOwnedEffect ==
  ASSUME NEW c, Serving(c), NEW seg, NEW List, ListOwned(c, seg, List)
  PROVE  Effect(c)
<1>1. CASE /\ At(c, seg, "list", "call")
           /\ Check(c, GetTenantByUUID(db, In(c).of), "notfound", "list")
  BY <1>1, CheckEffect DEF At
<1>2. CASE At(c, seg, "list", "list") /\ Goto(c, "count", Page(List)) /\ UNCHANGED db
  BY <1>2, GotoEffect DEF At
<1>3. CASE At(c, seg, "list", "count") /\ Reply(c, "") /\ UNCHANGED db
  BY <1>3, ReplyEffect DEF At
<1> QED
  BY <1>1, <1>2, <1>3 DEF ListOwned

\* An update or delete by UUID: the row is looked up, then written.
LEMMA UpdateOwnedEffect ==
  ASSUME NEW c, Serving(c), NEW seg, NEW op, NEW row, NEW res, NEW missing,
         UpdateOwned(c, seg, op, row, res, missing), Mutates(req[c]), Lawful(db, res)
  PROVE  Effect(c)
<1>1. CASE At(c, seg, op, "call") /\ Look(c, row, "notfound", "write")
  <2>1. req[c].pc # "resolve"
    BY <1>1 DEF At
  <2> QED
    BY <1>1, <2>1, LookEffect
<1>2. CASE At(c, seg, op, "write") /\ Save(c, res, missing, "resolve")
  BY <1>2, SaveEffect
<1>3. CASE At(c, seg, op, "resolve") /\ resolveTenantUUID(c, TenantOf(seg, In(c).id))
  BY <1>3, CheckEffect DEF resolveTenantUUID
<1> QED
  BY <1>1, <1>2, <1>3 DEF UpdateOwned

\* project.Service
LEMMA ProjectEffect ==
  ASSUME NEW c, Serving(c), ProjectMethod(c)
  PROVE  Effect(c)
<1>1. Shaped(db) /\ "projects" \in DOMAIN Ids
  BY IdsDomain DEF Serving, ConsoleInv
<1>2. ASSUME req[c].seg = "projects", req[c].op \in {"create", "update", "remove"}
      PROVE  Mutates(req[c])
  BY <1>2, WritingRoutes, SegmentRoutes DEF Mutates
<1>3. CASE ProjectCreate(c)
  <2> DEFINE Res(i) == CreateProject(db, i, In(c).of, In(c).name, In(c).val)
  <2>1. Mutates(req[c]) /\ (req[c].pc = "call" \/ req[c].pc = "insert")
    BY <1>2, <1>3 DEF ProjectCreate, CreateOwnedBy, At
  <2>2. CASE Reply(c, "validation") /\ UNCHANGED db
    BY <2>1, <2>2, ReplyEffect
  <2>3. CASE Check(c, GetTenantByUUID(db, In(c).of), "notfound", "insert")
    BY <2>1, <2>3, CheckEffect
  <2>4. CASE Inserted(c, "projects", Res, "reply")
    <3>1. PICK i \in Ids["projects"] :
            /\ Res(i).err = "" => db["projects"][i].life = "absent"
            /\ Save(c, Res(i), "untyped", "reply")
      BY <2>4 DEF Inserted
    <3> DEFINE res == Res(i)
               row == ProjectRow(In(c).of, In(c).name, In(c).val)
    <3>2. \/ res.err = "23505" /\ res.db = db
          \/ res.err = "" /\ res.db = [db EXCEPT !["projects"][i] = row]
      BY DEF CreateProject, InsertOwned, Insert
    <3>5. Columned("projects", row)
      BY InsertedColumns
    <3> HIDE DEF res, row
    <3>3. \/ res.err = "23505" /\ res.db = db
          \/ res.err = "" /\ res.db = [db EXCEPT !["projects"][i] = row] /\ db["projects"][i].life = "absent"
      BY <3>1, <3>2 DEF res
    <3>4. Save(c, res, "untyped", "reply")
      BY <3>1, Zenon DEF res
    <3> QED
      BY <1>1, <2>1, <3>3, <3>4, <3>5, InsertEffect
  <2> QED
    BY <1>3, <2>2, <2>3, <2>4 DEF ProjectCreate, CreateOwnedBy
<1>4. CASE ProjectGet(c)
  BY <1>4, GetOwnedEffect DEF ProjectGet
<1>5. CASE ProjectList(c)
  BY <1>5, ListOwnedEffect DEF ProjectList
<1>6. CASE ProjectUpdate(c)
  <2> DEFINE res == UpdateProject(db, In(c).id, Filled(c))
             row == [db.projects[In(c).id] EXCEPT !.val = Filled(c)]
  <2>1. Mutates(req[c])
    BY <1>2, <1>6 DEF ProjectUpdate, UpdateOwned, At
  <2>2. Lawful(db, res)
    <3>1. res = Update(db, "projects", In(c).id, row)
      BY DEF UpdateProject
    <3>2. In(c).id \in Ids["projects"] => Columned("projects", row)
      BY <1>1, StoredColumns, SetColumn
    <3> HIDE DEF res, row
    <3> QED
      BY <1>1, <3>1, <3>2, UpdateHarmless
  <2> HIDE DEF res
  <2> QED
    BY <1>6, <2>1, <2>2, UpdateOwnedEffect DEF ProjectUpdate, res
<1>7. CASE ProjectDelete(c)
  BY <1>1, <1>2, <1>7, SoftDeleteHarmless, SaveEffect DEF ProjectDelete, At, SoftDeleteProject
<1> QED
  BY <1>3, <1>4, <1>5, <1>6, <1>7 DEF ProjectMethod

\* provider.Service
LEMMA ProviderEffect ==
  ASSUME NEW c, Serving(c), ProviderMethod(c)
  PROVE  Effect(c)
<1>1. Shaped(db) /\ "providers" \in DOMAIN Ids
  BY IdsDomain DEF Serving, ConsoleInv
<1>2. ASSUME req[c].seg = "providers", req[c].op \in {"create", "update", "remove"}
      PROVE  Mutates(req[c])
  BY <1>2, WritingRoutes, SegmentRoutes DEF Mutates
<1>3. CASE ProviderCreate(c)
  <2> DEFINE Res(i) == CreateProvider(db, i, In(c).of, In(c).name, In(c).val)
  <2>1. Mutates(req[c]) /\ (req[c].pc = "call" \/ req[c].pc = "insert")
    BY <1>2, <1>3 DEF ProviderCreate, CreateOwnedBy, At
  <2>2. CASE Reply(c, "validation") /\ UNCHANGED db
    BY <2>1, <2>2, ReplyEffect
  <2>3. CASE Check(c, GetTenantByUUID(db, In(c).of), "notfound", "insert")
    BY <2>1, <2>3, CheckEffect
  <2>4. CASE Inserted(c, "providers", Res, "reply")
    <3>1. PICK i \in Ids["providers"] :
            /\ Res(i).err = "" => db["providers"][i].life = "absent"
            /\ Save(c, Res(i), "untyped", "reply")
      BY <2>4 DEF Inserted
    <3> DEFINE res == Res(i)
               row == ProviderRow(In(c).of, In(c).name, In(c).val)
    <3>2. \/ res.err = "23505" /\ res.db = db
          \/ res.err = "" /\ res.db = [db EXCEPT !["providers"][i] = row]
      BY DEF CreateProvider, InsertOwned, Insert
    <3>5. Columned("providers", row)
      BY InsertedColumns
    <3> HIDE DEF res, row
    <3>3. \/ res.err = "23505" /\ res.db = db
          \/ res.err = "" /\ res.db = [db EXCEPT !["providers"][i] = row] /\ db["providers"][i].life = "absent"
      BY <3>1, <3>2 DEF res
    <3>4. Save(c, res, "untyped", "reply")
      BY <3>1, Zenon DEF res
    <3> QED
      BY <1>1, <2>1, <3>3, <3>4, <3>5, InsertEffect
  <2> QED
    BY <1>3, <2>2, <2>3, <2>4 DEF ProviderCreate, CreateOwnedBy
<1>4. CASE ProviderGet(c)
  BY <1>4, GetOwnedEffect DEF ProviderGet
<1>5. CASE ProviderList(c)
  BY <1>5, ListOwnedEffect DEF ProviderList
<1>6. CASE ProviderUpdate(c)
  <2> DEFINE res == UpdateProvider(db, In(c).id, Filled(c))
             row == [db.providers[In(c).id] EXCEPT !.val = Filled(c)]
  <2>1. Mutates(req[c])
    BY <1>2, <1>6 DEF ProviderUpdate, UpdateOwned, At
  <2>2. Lawful(db, res)
    <3>1. res = Update(db, "providers", In(c).id, row)
      BY DEF UpdateProvider
    <3>2. In(c).id \in Ids["providers"] => Columned("providers", row)
      BY <1>1, StoredColumns, SetColumn
    <3> HIDE DEF res, row
    <3> QED
      BY <1>1, <3>1, <3>2, UpdateHarmless
  <2> HIDE DEF res
  <2> QED
    BY <1>6, <2>1, <2>2, UpdateOwnedEffect DEF ProviderUpdate, res
<1>7. CASE ProviderDelete(c)
  BY <1>1, <1>2, <1>7, SoftDeleteHarmless, SaveEffect DEF ProviderDelete, At, SoftDeleteProvider
<1> QED
  BY <1>3, <1>4, <1>5, <1>6, <1>7 DEF ProviderMethod

\* EnsureRegistered also keeps the ids it found.
LEMMA KeepEffect ==
  ASSUME NEW c, Serving(c), NEW pc, NEW in, NEW row,
         Keep(c, pc, in, row), db' = db,
         pc \notin {"idle", "done"}, req[c].pc # "resolve"
  PROVE  Effect(c)
<1> DEFINE q == req[c]
<1>1. q = [pc |-> q.pc, seg |-> q.seg, op |-> q.op, in |-> q.in, row |-> q.row,
           may |-> q.may, wrote |-> q.wrote, code |-> q.code]
  BY DEF Serving, ConsoleInv, Sound, Shape
<1>2. /\ req' = [req EXCEPT ![c] = req'[c]]
      /\ req'[c] = [pc |-> pc, seg |-> q.seg, op |-> q.op, in |-> in, row |-> row,
                    may |-> q.may, wrote |-> q.wrote, code |-> q.code]
  BY <1>1 DEF Keep, Serving, ConsoleInv
<1>3. Sound(req'[c])
  BY <1>2 DEF Sound, Shape, Mutates, Serving, ConsoleInv
<1> QED
  BY <1>2, <1>3, SameHarmless DEF Effect, Serving, ConsoleInv

\* EnsureRegistered: the row is looked for, created or updated.
LEMMA EnsureEffect ==
  ASSUME NEW c, Serving(c), EnsureRegistered(c)
  PROVE  Effect(c)
<1>1. Shaped(db) /\ "services" \in DOMAIN Ids
  BY IdsDomain DEF Serving, ConsoleInv
<1>2. Mutates(req[c])
  BY DEF EnsureRegistered, At, Mutates
<1>4. CASE At(c, "services", "ensure", "call")
  <2>1. CASE Reply(c, "notfound") /\ db' = db
    BY <1>4, <2>1, ReplyEffect DEF At
  <2>2. ASSUME NEW t, Keep(c, "find", [In(c) EXCEPT !.of = t], Cur(c)), db' = db
        PROVE  Effect(c)
    BY <1>4, <2>2, KeepEffect DEF At
  <2> QED
    BY <1>4, <2>1, <2>2 DEF EnsureRegistered, At
<1>5. CASE At(c, "services", "ensure", "find")
  <2>1. CASE Reply(c, "") /\ db' = db
    BY <1>5, <2>1, ReplyEffect DEF At
  <2>2. CASE Goto(c, "insert", NoRow) /\ db' = db
    BY <1>5, <2>2, GotoEffect DEF At
  <2>3. ASSUME NEW i, Keep(c, "write", [In(c) EXCEPT !.id = i], db.services[i]), db' = db
        PROVE  Effect(c)
    BY <1>5, <2>3, KeepEffect DEF At
  <2> QED
    BY <1>5, <2>1, <2>2, <2>3 DEF EnsureRegistered, At
<1>6. CASE At(c, "services", "ensure", "insert")
  <2> DEFINE Res(i) == CreateService(db, i, In(c).of, In(c).name, In(c).name, TRUE, "registered", TRUE)
  <2>1. Inserted(c, "services", Res, "reply")
    BY <1>6 DEF EnsureRegistered, At
  <2>2. PICK i \in Ids["services"] :
          /\ Res(i).err = "" => db["services"][i].life = "absent"
          /\ Save(c, Res(i), "untyped", "reply")
    BY <2>1 DEF Inserted
  <2> DEFINE res == Res(i)
             row == ServiceRow(In(c).of, In(c).name, In(c).name, TRUE, "registered", TRUE)
  <2>3. \/ res.err = "23505" /\ res.db = db
        \/ res.err = "" /\ res.db = [db EXCEPT !["services"][i] = row]
    BY DEF CreateService, Insert
  <2>4. Columned("services", row)
    BY InsertedColumns
  <2> HIDE DEF res, row
  <2> QED
    BY <1>1, <1>2, <2>2, <2>3, <2>4, InsertEffect DEF res
<1>7. CASE At(c, "services", "ensure", "write")
  <2> DEFINE res == UpdateServiceStatus(db, In(c).id, RegisteredStatus(Cur(c)), TRUE)
  <2>1. Lawful(db, res)
    BY <1>1, StatusLawful
  <2>2. Save(c, res, "untyped", "reply")
    BY <1>7 DEF EnsureRegistered, At
  <2> HIDE DEF res
  <2> QED
    BY <1>2, <2>1, <2>2, SaveEffect
<1> QED
  BY <1>4, <1>5, <1>6, <1>7 DEF EnsureRegistered

\* service.Service
LEMMA ServiceEffect ==
  ASSUME NEW c, Serving(c), ServiceMethod(c)
  PROVE  Effect(c)
<1>1. Shaped(db) /\ "services" \in DOMAIN Ids
  BY IdsDomain DEF Serving, ConsoleInv
<1>2. ASSUME req[c].seg = "services", req[c].op \in {"create", "updateStatus", "remove"}
      PROVE  Mutates(req[c])
  BY <1>2, WritingRoutes, SegmentRoutes DEF Mutates
<1>3. CASE ServiceCreate(c)
  <2> DEFINE Res(i) == CreateService(db, i, In(c).of, In(c).name, In(c).name, In(c).sys, "pending", FALSE)
  <2>1. Mutates(req[c]) /\ (req[c].pc = "call" \/ req[c].pc = "insert")
    BY <1>2, <1>3 DEF ServiceCreate, CreateOwnedBy, At
  <2>2. CASE Reply(c, "validation") /\ UNCHANGED db
    BY <2>1, <2>2, ReplyEffect
  <2>3. CASE Check(c, GetTenantByUUID(db, In(c).of), "notfound", "insert")
    BY <2>1, <2>3, CheckEffect
  <2>4. CASE Inserted(c, "services", Res, "reply")
    <3>1. PICK i \in Ids["services"] :
            /\ Res(i).err = "" => db["services"][i].life = "absent"
            /\ Save(c, Res(i), "untyped", "reply")
      BY <2>4 DEF Inserted
    <3> DEFINE res == Res(i)
               row == ServiceRow(In(c).of, In(c).name, In(c).name, In(c).sys, "pending", FALSE)
    <3>2. \/ res.err = "23505" /\ res.db = db
          \/ res.err = "" /\ res.db = [db EXCEPT !["services"][i] = row]
      BY DEF CreateService, Insert
    <3>5. Columned("services", row)
      BY InsertedColumns
    <3> HIDE DEF res, row
    <3>3. \/ res.err = "23505" /\ res.db = db
          \/ res.err = "" /\ res.db = [db EXCEPT !["services"][i] = row] /\ db["services"][i].life = "absent"
      BY <3>1, <3>2 DEF res
    <3>4. Save(c, res, "untyped", "reply")
      BY <3>1, Zenon DEF res
    <3> QED
      BY <1>1, <2>1, <3>3, <3>4, <3>5, InsertEffect
  <2> QED
    BY <1>3, <2>2, <2>3, <2>4 DEF ServiceCreate, CreateOwnedBy
<1>4. CASE ServiceGet(c)
  BY <1>4, GetOwnedEffect DEF ServiceGet
<1>5. CASE ServiceListByTenant(c)
  BY <1>5, ListOwnedEffect DEF ServiceListByTenant
<1>6. CASE ServiceUpdateStatus(c)
  <2> DEFINE status == IF In(c).val = "" THEN Cur(c).status ELSE In(c).val
             res == UpdateServiceStatus(db, In(c).id, status, Cur(c).stamped \/ status = "running")
  <2>1. Mutates(req[c])
    BY <1>2, <1>6 DEF ServiceUpdateStatus, UpdateOwned, At
  <2>2. Lawful(db, res)
    BY <1>1, StatusLawful
  <2>3. UpdateOwned(c, "services", "updateStatus", GetServiceByUUID(db, In(c).id), res, "untyped")
    BY <1>6, Zenon DEF ServiceUpdateStatus
  <2> HIDE DEF res
  <2> QED
    BY <2>1, <2>2, <2>3, UpdateOwnedEffect
<1>7. CASE ServiceDelete(c)
  <2>1. CASE At(c, "services", "remove", "call")
    <3>1. /\ req[c].pc = "call"
          /\ \/ Reply(c, "forbidden") /\ db' = db
             \/ Check(c, GetServiceByUUID(db, In(c).id), "notfound", "write")
      BY <1>7, <2>1 DEF ServiceDelete, At
    <3>2. CASE Reply(c, "forbidden") /\ db' = db
      BY <3>1, <3>2, ReplyEffect
    <3>3. CASE Check(c, GetServiceByUUID(db, In(c).id), "notfound", "write")
      BY <3>1, <3>3, CheckEffect
    <3> QED
      BY <3>1, <3>2, <3>3
  <2>2. CASE At(c, "services", "remove", "write")
    BY <1>1, <1>2, <1>7, <2>2, SoftDeleteHarmless, SaveEffect DEF ServiceDelete, At, SoftDeleteService
  <2> QED
    BY <1>7, <2>1, <2>2 DEF ServiceDelete
<1>8. CASE ServiceListSystem(c)
  <2>1. CASE At(c, "services", "listSystem", "call")
    <3>1. \/ Reply(c, "") /\ db' = db
          \/ Goto(c, "resolve", Page(ListSystemServices(db))) /\ db' = db
      BY <1>8, <2>1 DEF ServiceListSystem, At
    <3>2. req[c].pc # "resolve"
      BY <2>1 DEF At
    <3>3. CASE Reply(c, "") /\ db' = db
      BY <3>2, <3>3, ReplyEffect
    <3>4. CASE Goto(c, "resolve", Page(ListSystemServices(db))) /\ db' = db
      BY <3>2, <3>4, GotoEffect
    <3> QED
      BY <3>1, <3>3, <3>4
  <2>2. CASE At(c, "services", "listSystem", "resolve")
    <3>1. PICK i : /\ Reply(c, "untyped") \/ Reply(c, "") \/ Goto(c, "resolve", Page(Cur(c).ids \ {i}))
                   /\ db' = db
      BY <1>8, <2>2 DEF ServiceListSystem, At
    <3> QED
      BY <2>2, <3>1, ReplyEffect, GotoEffect DEF At, Final
  <2> QED
    BY <1>8, <2>1, <2>2 DEF ServiceListSystem
<1>9. CASE EnsureRegistered(c)
  BY <1>9, EnsureEffect
<1> QED
  BY <1>3, <1>4, <1>5, <1>6, <1>7, <1>8, <1>9 DEF ServiceMethod

\* agent.Service
LEMMA AgentEffect ==
  ASSUME NEW c, Serving(c), AgentMethod(c)
  PROVE  Effect(c)
<1>1. Shaped(db) /\ "agents" \in DOMAIN Ids
  BY IdsDomain DEF Serving, ConsoleInv
<1>2. ASSUME req[c].seg = "agents", req[c].op \in {"create", "update", "heartbeat", "remove"}
      PROVE  Mutates(req[c])
  BY <1>2, WritingRoutes, SegmentRoutes DEF Mutates
<1>3. CASE AgentCreate(c)
  <2> DEFINE Res(i) == CreateOwned(db, "agents", i, [of |-> In(c).of, name |-> In(c).name],
                                   CreateAgent(db.agents[i]),
                                   LAMBDA own : own = [of |-> In(c).of, name |-> In(c).name])
  <2>1. Mutates(req[c]) /\ (req[c].pc = "call" \/ req[c].pc = "insert")
    BY <1>2, <1>3 DEF AgentCreate, CreateOwnedBy, At
  <2>2. CASE Reply(c, "validation") /\ UNCHANGED db
    BY <2>1, <2>2, ReplyEffect
  <2>3. CASE Check(c, GetTenantByUUID(db, In(c).of), "notfound", "insert")
    BY <2>1, <2>3, CheckEffect
  <2>4. CASE Inserted(c, "agents", Res, "reply")
    <3>1. PICK i \in Ids["agents"] :
            /\ Res(i).err = "" => db["agents"][i].life = "absent"
            /\ Save(c, Res(i), "untyped", "reply")
      BY <2>4 DEF Inserted
    <3> DEFINE res == Res(i)
               row == CreateAgent(db.agents[i])
               own == [of |-> In(c).of, name |-> In(c).name]
    <3>2. \/ res.err = "23505" /\ res.db = db
          \/ res.err = "" /\ res.db = Put(db, "agents", i, row, own)
      BY DEF CreateOwned, Put
    <3>5. Columned("agents", row)
      BY <1>1, StoredColumns, AgentColumns
    <3> HIDE DEF res, row, own
    <3>3. \/ res.err = "23505" /\ res.db = db
          \/ /\ res.err = "" /\ res.db = Put(db, "agents", i, row, own)
             /\ db["agents"][i].life = "absent"
      BY <3>1, <3>2 DEF res
    <3>4. Save(c, res, "untyped", "reply")
      BY <3>1, Zenon DEF res
    <3> QED
      BY <1>1, <2>1, <3>3, <3>4, <3>5, OwnedInsertEffect
  <2> QED
    BY <1>3, <2>2, <2>3, <2>4 DEF AgentCreate, CreateOwnedBy
<1>4. CASE AgentGet(c)
  BY <1>4, GetOwnedEffect DEF AgentGet
<1>5. CASE AgentList(c)
  BY <1>5, ListOwnedEffect DEF AgentList
<1>6. CASE AgentUpdate(c)
  <2> DEFINE row == UpdateAgentStatus(Cur(c), db.agents[In(c).id], In(c).val)
             res == Update(db, "agents", In(c).id, row)
  <2>1. Mutates(req[c])
    BY <1>2, <1>6 DEF AgentUpdate, UpdateOwned, At
  <2>2. Lawful(db, res)
    <3>1. In(c).id \in Ids["agents"] => Columned("agents", row)
      BY <1>1, StoredColumns, AgentColumns
    <3> HIDE DEF row
    <3> QED
      BY <1>1, <3>1, UpdateHarmless
  <2>3. UpdateOwned(c, "agents", "update", GetAgentByUUID(db, In(c).id), res, "notfound")
    BY <1>6, Zenon DEF AgentUpdate
  <2> HIDE DEF res
  <2> QED
    BY <2>1, <2>2, <2>3, UpdateOwnedEffect
<1>7. CASE Heartbeat(c)
  <2> DEFINE row == AgentHeartbeat(db.agents[In(c).id])
             res == Update(db, "agents", In(c).id, row)
  <2>1. Mutates(req[c])
    BY <1>2, <1>7 DEF Heartbeat, At
  <2>2. Lawful(db, res)
    <3>1. In(c).id \in Ids["agents"] => Columned("agents", row)
      BY <1>1, StoredColumns, AgentColumns
    <3> HIDE DEF row
    <3> QED
      BY <1>1, <3>1, UpdateHarmless
  <2>3. CASE At(c, "agents", "heartbeat", "call")
    <3>1. Save(c, res, "notfound", "resolve")
      BY <1>7, <2>3 DEF Heartbeat, At
    <3> HIDE DEF res
    <3> QED
      BY <2>1, <2>2, <3>1, SaveEffect
  <2>4. CASE At(c, "agents", "heartbeat", "resolve")
    <3>1. resolveTenantUUID(c, TenantOf("agents", In(c).id))
      BY <1>7, <2>4 DEF Heartbeat, At
    <3> QED
      BY <3>1, CheckEffect DEF resolveTenantUUID
  <2> QED
    BY <1>7, <2>3, <2>4 DEF Heartbeat
<1>8. CASE AgentDelete(c)
  BY <1>1, <1>2, <1>8, SoftDeleteHarmless, SaveEffect DEF AgentDelete, At
<1> QED
  BY <1>3, <1>4, <1>5, <1>6, <1>7, <1>8 DEF AgentMethod

\* resource.Service: creation.
LEMMA ResourceCreateEffect ==
  ASSUME NEW c, Serving(c), ResourceCreate(c)
  PROVE  Effect(c)
<1>1. Shaped(db) /\ "resources" \in DOMAIN Ids
  BY IdsDomain DEF Serving, ConsoleInv
<1>2. Mutates(req[c]) /\ req[c].pc # "resolve"
  <2>1. req[c].seg = "resources" /\ req[c].op = "create" /\ req[c].pc # "resolve"
    BY DEF ResourceCreate, At
  <2> QED
    BY <2>1, WritingRoutes, SegmentRoutes DEF Mutates
<1> DEFINE own == [of |-> In(c).of, name |-> In(c).name]
           Res(i) == CreateOwned(db, "resources", i, own, CreateResource(db.resources[i]),
                                 LAMBDA o : o = own)
<1>3. CASE Reply(c, "validation") /\ UNCHANGED db
  BY <1>2, <1>3, ReplyEffect
<1>4. CASE Look(c, GetProjectByUUID(db, In(c).of), "notfound", "tenant")
  BY <1>2, <1>4, LookEffect
<1>5. CASE Check(c, GetTenantByID(db, Cur(c).tenant), "untyped",
                 IF In(c).via = "" THEN "validate" ELSE "provider")
  <2>1. \/ Check(c, GetTenantByID(db, Cur(c).tenant), "untyped", "validate")
        \/ Check(c, GetTenantByID(db, Cur(c).tenant), "untyped", "provider")
    BY <1>5, Zenon
  <2>2. CASE Check(c, GetTenantByID(db, Cur(c).tenant), "untyped", "validate")
    BY <1>2, <2>2, CheckEffect
  <2>3. CASE Check(c, GetTenantByID(db, Cur(c).tenant), "untyped", "provider")
    BY <1>2, <2>3, CheckEffect
  <2> QED
    BY <2>1, <2>2, <2>3
<1>6. CASE Check(c, GetProviderByUUID(db, In(c).via), "notfound", "validate")
  BY <1>2, <1>6, CheckEffect
<1>7. CASE Inserted(c, "resources", Res, "reply")
  <2>1. PICK i \in Ids["resources"] :
          /\ Res(i).err = "" => db["resources"][i].life = "absent"
          /\ Save(c, Res(i), "untyped", "reply")
    BY <1>7 DEF Inserted
  <2> DEFINE res == Res(i)
             row == CreateResource(db.resources[i])
  <2>2. \/ res.err = "23505" /\ res.db = db
        \/ res.err = "" /\ res.db = Put(db, "resources", i, row, own)
    BY DEF CreateOwned, Put
  <2>5. Columned("resources", row)
    BY <1>1, StoredColumns, ResourceColumns
  <2> HIDE DEF res, row, own
  <2>3. \/ res.err = "23505" /\ res.db = db
        \/ /\ res.err = "" /\ res.db = Put(db, "resources", i, row, own)
           /\ db["resources"][i].life = "absent"
    BY <2>1, <2>2 DEF res
  <2>4. Save(c, res, "untyped", "reply")
    BY <2>1, Zenon DEF res
  <2> QED
    BY <1>1, <1>2, <2>3, <2>4, <2>5, OwnedInsertEffect
<1> QED
  BY <1>3, <1>4, <1>5, <1>6, <1>7 DEF ResourceCreate

\* resource.Service: the reads.
LEMMA ResourceReadEffect ==
  ASSUME NEW c, Serving(c), ResourceGet(c) \/ ResourceListByProject(c)
  PROVE  Effect(c)
<1>1. CASE At(c, "resources", "get", "call")
  <2>1. Look(c, GetResourceByUUID(db, In(c).id), "notfound", "resolve") /\ req[c].pc = "call"
    BY <1>1 DEF ResourceGet, ResourceListByProject, At
  <2> QED
    BY <2>1, LookEffect
<1>2. CASE At(c, "resources", "get", "resolve")
  <2>1. Check(c, GetProjectByID(db, db.own[In(c).id].of), "untyped", "reply")
    BY <1>2 DEF ResourceGet, ResourceListByProject, At, resolveProjectUUID
  <2> QED
    BY <2>1, CheckEffect
<1>3. CASE At(c, "resources", "list", "call")
  BY <1>3, CheckEffect DEF ResourceGet, ResourceListByProject, At
<1>4. CASE At(c, "resources", "list", "list")
  <2>1. /\ Goto(c, "count", Page(ListResourcesByProject(db, In(c).of))) /\ db' = db
        /\ req[c].pc = "list"
    BY <1>4 DEF ResourceGet, ResourceListByProject, At
  <2> QED
    BY <2>1, GotoEffect
<1>5. CASE At(c, "resources", "list", "count")
  BY <1>5, ReplyEffect DEF ResourceGet, ResourceListByProject, At
<1> QED
  BY <1>1, <1>2, <1>3, <1>4, <1>5 DEF ResourceGet, ResourceListByProject

\* resource.Service: UpdateSpec.
LEMMA ResourceUpdateSpecEffect ==
  ASSUME NEW c, Serving(c), ResourceUpdateSpec(c)
  PROVE  Effect(c)
<1> DEFINE i == In(c).id
           p == db.own[i].of
           row == UpdateResourceSpec(db.resources[i])
           res == Update(db, "resources", i, row)
<1>1. Lawful(db, res)
  <2>1. Shaped(db) /\ "resources" \in DOMAIN Ids
    BY IdsDomain DEF Serving, ConsoleInv
  <2>2. i \in Ids["resources"] => Columned("resources", row)
    BY <2>1, StoredColumns, ResourceColumns
  <2> HIDE DEF i, row
  <2> QED
    BY <2>1, <2>2, UpdateHarmless
<1>2. Mutates(req[c])
  <2>1. req[c].seg = "resources" /\ req[c].op = "updateSpec"
    BY DEF ResourceUpdateSpec, At
  <2> QED
    BY <2>1, WritingRoutes, SegmentRoutes DEF Mutates
<1>3. CASE At(c, "resources", "updateSpec", "call")
  <2>1. \/ Reply(c, "validation") /\ db' = db
        \/ Look(c, GetResourceByUUID(db, i), "notfound", "project")
    BY <1>3 DEF ResourceUpdateSpec, At
  <2>2. req[c].pc # "resolve"
    BY <1>3 DEF At
  <2>3. CASE Reply(c, "validation") /\ db' = db
    BY <2>2, <2>3, ReplyEffect
  <2>4. CASE Look(c, GetResourceByUUID(db, i), "notfound", "project")
    BY <2>2, <2>4, LookEffect
  <2> QED
    BY <2>1, <2>3, <2>4
<1>4. CASE At(c, "resources", "updateSpec", "project")
  <2>1. Check(c, GetProjectByID(db, p), "untyped", "tenant") /\ req[c].pc = "project"
    BY <1>4 DEF ResourceUpdateSpec, At
  <2> HIDE DEF p
  <2> QED
    BY <2>1, CheckEffect
<1>5. CASE At(c, "resources", "updateSpec", "tenant")
  <2>1. \/ Reply(c, "validation") /\ db' = db
        \/ Check(c, GetTenantByID(db, db.projects[p].tenant), "untyped", "write")
    BY <1>5 DEF ResourceUpdateSpec, At
  <2>2. req[c].pc # "resolve"
    BY <1>5 DEF At
  <2>3. CASE Reply(c, "validation") /\ db' = db
    BY <2>2, <2>3, ReplyEffect
  <2>4. CASE Check(c, GetTenantByID(db, db.projects[p].tenant), "untyped", "write")
    <3>1. PICK row1 : Check(c, row1, "untyped", "write")
      BY <2>4
    <3> QED
      BY <2>2, <3>1, CheckEffect
  <2> QED
    BY <2>1, <2>3, <2>4
<1>6. CASE At(c, "resources", "updateSpec", "write")
  <2>1. Save(c, res, "untyped", "resolve")
    BY <1>6 DEF ResourceUpdateSpec, At
  <2> HIDE DEF res
  <2> QED
    BY <1>1, <1>2, <2>1, SaveEffect
<1>7. CASE At(c, "resources", "updateSpec", "resolve")
  <2>1. Check(c, GetProjectByID(db, p), "untyped", "reply")
    BY <1>7 DEF ResourceUpdateSpec, At, resolveProjectUUID
  <2> HIDE DEF p
  <2> QED
    BY <2>1, CheckEffect
<1> QED
  BY <1>3, <1>4, <1>5, <1>6, <1>7 DEF ResourceUpdateSpec

\* resource.Service: UpdateStatus.
LEMMA ResourceUpdateStatusEffect ==
  ASSUME NEW c, Serving(c), ResourceUpdateStatus(c)
  PROVE  Effect(c)
<1> DEFINE i == In(c).id
           rep == [state |-> In(c).val, observed |-> 0, status |-> "none"]
           row == UpdateResourceStatus(Cur(c), db.resources[i], rep)
           res == Update(db, "resources", i, row)
<1>1. Lawful(db, res)
  <2>1. Shaped(db) /\ "resources" \in DOMAIN Ids
    BY IdsDomain DEF Serving, ConsoleInv
  <2>2. i \in Ids["resources"] => Columned("resources", row)
    BY <2>1, StoredColumns, ResourceColumns
  <2> HIDE DEF i, row
  <2> QED
    BY <2>1, <2>2, UpdateHarmless
<1>2. Mutates(req[c])
  <2>1. req[c].seg = "resources" /\ req[c].op = "updateStatus"
    BY DEF ResourceUpdateStatus, At
  <2>2. ResourceRoutes["updateStatus"].method \notin ReadMethods
    BY WritingRoutes
  <2>3. Router["resources"] = ResourceRoutes
    BY DEF Router
  <2> QED
    BY <2>1, <2>2, <2>3 DEF Mutates
<1>3. CASE At(c, "resources", "updateStatus", "call")
  <2>1. Look(c, GetResourceByUUID(db, i), "notfound", "write") /\ req[c].pc = "call"
    BY <1>3 DEF ResourceUpdateStatus, At
  <2> HIDE DEF i
  <2> QED
    BY <2>1, LookEffect
<1>4. CASE At(c, "resources", "updateStatus", "write")
  <2>1. Save(c, res, "untyped", "resolve")
    BY <1>4 DEF ResourceUpdateStatus, At
  <2> HIDE DEF res
  <2> QED
    BY <1>1, <1>2, <2>1, SaveEffect
<1>5. CASE At(c, "resources", "updateStatus", "resolve")
  <2>1. Check(c, GetProjectByID(db, db.own[i].of), "untyped", "reply")
    BY <1>5 DEF ResourceUpdateStatus, At, resolveProjectUUID
  <2> HIDE DEF i
  <2> QED
    BY <2>1, CheckEffect
<1> QED
  BY <1>3, <1>4, <1>5 DEF ResourceUpdateStatus

\* resource.Service: Delete, an update that marks the row and answers no error.
LEMMA ResourceDeleteEffect ==
  ASSUME NEW c, Serving(c), ResourceDelete(c)
  PROVE  Effect(c)
<1> DEFINE i == In(c).id
           row == MarkResourceDeleting(db.resources[i])
           upd == Update(db, "resources", i, row)
           res == [upd EXCEPT !.err = ""]
<1>1. Lawful(db, upd)
  <2>1. Shaped(db) /\ "resources" \in DOMAIN Ids
    BY IdsDomain DEF Serving, ConsoleInv
  <2>2. i \in Ids["resources"] => Columned("resources", row)
    BY <2>1, StoredColumns, ResourceColumns
  <2> HIDE DEF i, row
  <2> QED
    BY <2>1, <2>2, UpdateHarmless
<1>2. Mutates(req[c])
  <2>1. req[c].seg = "resources" /\ req[c].op = "remove"
    BY DEF ResourceDelete, At
  <2>2. ResourceRoutes["remove"].method \notin ReadMethods
    BY WritingRoutes
  <2>3. Router["resources"] = ResourceRoutes
    BY DEF Router
  <2> QED
    BY <2>1, <2>2, <2>3 DEF Mutates
<1>3. Save(c, res, "", "reply")
  BY DEF ResourceDelete
<1>4. upd = [err |-> upd.err, db |-> upd.db]
  <2> HIDE DEF i, row
  <2> QED
    BY DEF Update
<1> HIDE DEF upd
<1>5. res.err = "" /\ res.db = upd.db
  BY <1>4
<1> HIDE DEF res
<1>6. Lawful(db, res)
  BY <1>1, <1>5 DEF Lawful
<1> QED
  BY <1>2, <1>3, <1>6, SaveEffect

\* event.Service
LEMMA EventEffect ==
  ASSUME NEW c, Serving(c), EventList(c)
  PROVE  Effect(c)
<1>1. CASE req[c].pc = "call" /\ Goto(c, "count", NoRow) /\ db' = db
  BY <1>1, GotoEffect
<1>2. CASE req[c].pc = "count" /\ Reply(c, "") /\ db' = db
  BY <1>2, ReplyEffect
<1> QED
  BY <1>1, <1>2 DEF EventList

\* An answer with a status of the handler's own.
LEMMA AnswerEffect ==
  ASSUME NEW c, Serving(c), NEW seg, NEW code, NEW wrote \in BOOLEAN, db' = db,
         req' = [req EXCEPT ![c] = Answered(seg, code, wrote, @.may)],
         wrote => req[c].may /\ Honest(seg, code)
  PROVE  Effect(c)
<1>1. /\ req'[c] = Answered(seg, code, wrote, req[c].may)
      /\ req' = [req EXCEPT ![c] = req'[c]] /\ req[c].may \in BOOLEAN
  BY DEF Serving, ConsoleInv, Sound, Shape
<1>2. Sound(Answered(seg, code, wrote, req[c].may))
  BY <1>1, AnsweredSound, Zenon
<1> QED
  BY <1>1, <1>2, SameHarmless DEF Effect, Serving, ConsoleInv

\* setup.Handler, authctrl.Handler and the capabilities proxy.
LEMMA ControlEffect ==
  ASSUME NEW c, Serving(c), ControlMethod(c)
  PROVE  Effect(c)
<1>1. req[c].pc # "resolve"
  BY DEF ControlMethod
<1>2. CASE Reply(c, "") /\ db' = db
  BY <1>1, <1>2, ReplyEffect
<1>3. Mutates(req[c]) => req[c].may
  BY DEF Serving, ConsoleInv, Sound
<1>4. CASE SetupTrigger(c)
  <2>1. PICK code \in {200, 400, 409, 502}, wrote \in BOOLEAN :
          /\ code = 409 => ~wrote
          /\ req' = [req EXCEPT ![c] = Answered("setup", code, wrote, @.may)]
    BY <1>4, Zenon DEF SetupTrigger
  <2>2. wrote => Honest("setup", code)
    BY <2>1 DEF Honest
  <2>3. req[c].may
    <3>1. req[c].seg = "setup" /\ req[c].op = "trigger"
      BY <1>4, ZenonT(90) DEF SetupTrigger, At
    <3>2. SetupRoutes["trigger"].method \notin ReadMethods
      BY DEF SetupRoutes, Route, ReadMethods
    <3> QED
      BY <1>3, <3>1, <3>2, SegmentRoutes DEF Mutates
  <2>4. db' = db
    BY <1>4, Zenon DEF SetupTrigger
  <2>5. CASE wrote = TRUE
    <3>1. req' = [req EXCEPT ![c] = Answered("setup", code, TRUE, @.may)]
      BY <2>1, <2>5, Zenon
    <3> QED
      BY <2>2, <2>3, <2>4, <2>5, <3>1, AnswerEffect
  <2>6. CASE wrote = FALSE
    <3>1. req' = [req EXCEPT ![c] = Answered("setup", code, FALSE, @.may)]
      BY <2>1, <2>6, Zenon
    <3> QED
      BY <2>4, <3>1, AnswerEffect
  <2> QED
    BY <2>5, <2>6
<1>5. CASE StewardApply(c)
  <2>1. PICK code \in {200, 409, 502} :
          req' = [req EXCEPT ![c] = Answered("steward", code, code = 200, @.may)]
    BY <1>5, Zenon DEF StewardApply
  <2>2. CASE code = 200
    <3>1. req[c].may /\ Honest("steward", code)
      <4>1. req[c].may
        <5>1. req[c].seg = "steward" /\ req[c].op = "apply"
          BY <1>5, Zenon DEF StewardApply, At
        <5> QED
          <6>1. StewardRoutes["apply"].method \notin ReadMethods
            BY DEF StewardRoutes, Route, ReadMethods
          <6> QED
            BY <1>3, <5>1, <6>1, SegmentRoutes DEF Mutates
      <4>2. Honest("steward", code)
        BY <2>2, NoRefusals DEF Honest
      <4> QED
        BY <4>1, <4>2
    <3>2. req' = [req EXCEPT ![c] = Answered("steward", code, TRUE, @.may)] /\ db' = db
      BY <1>5, <2>1, <2>2, ZenonT(90) DEF StewardApply
    <3> QED
      BY <3>1, <3>2, AnswerEffect
  <2>3. CASE code # 200
    <3>1. req' = [req EXCEPT ![c] = Answered("steward", code, FALSE, @.may)] /\ db' = db
      BY <1>5, <2>1, <2>3, Zenon DEF StewardApply
    <3> QED
      BY <3>1, AnswerEffect
  <2> QED
    BY <2>2, <2>3
<1> QED
  BY <1>2, <1>4, <1>5 DEF ControlMethod, SetupStatus, StewardStatus, Capabilities

\* A statement belongs to a request in flight.
LEMMA StatementServes ==
  ASSUME NEW c, Statement(c)
  PROVE  req[c].pc \notin {"idle", "done"}
<1>1. CASE TenantMethod(c)
  BY <1>1 DEF TenantMethod, TenantCreate, TenantGet, TenantList, TenantUpdate, TenantDelete,
              TenantGetSystem, At
<1>2. CASE ProjectMethod(c)
  BY <1>2 DEF ProjectMethod, ProjectCreate, ProjectGet, ProjectList, ProjectUpdate,
              ProjectDelete, CreateOwnedBy, GetOwned, ListOwned, UpdateOwned, At
<1>3. CASE ProviderMethod(c)
  BY <1>3 DEF ProviderMethod, ProviderCreate, ProviderGet, ProviderList, ProviderUpdate,
              ProviderDelete, CreateOwnedBy, GetOwned, ListOwned, UpdateOwned, At
<1>4. CASE ServiceMethod(c)
  BY <1>4 DEF ServiceMethod, ServiceCreate, ServiceGet, ServiceListByTenant,
              ServiceUpdateStatus, ServiceDelete, ServiceListSystem, EnsureRegistered,
              CreateOwnedBy, GetOwned, ListOwned, UpdateOwned, At
<1>5. CASE AgentMethod(c)
  BY <1>5 DEF AgentMethod, AgentCreate, AgentGet, AgentList, AgentUpdate, Heartbeat,
              AgentDelete, CreateOwnedBy, GetOwned, ListOwned, UpdateOwned, At
<1>6. CASE ResourceMethod(c)
  BY <1>6 DEF ResourceMethod, ResourceCreate, ResourceGet, ResourceListByProject,
              ResourceUpdateSpec, ResourceUpdateStatus, ResourceDelete, At
<1>7. CASE EventList(c)
  BY <1>7 DEF EventList
<1>8. CASE ControlMethod(c)
  BY <1>8 DEF ControlMethod
<1> QED
  BY <1>1, <1>2, <1>3, <1>4, <1>5, <1>6, <1>7, <1>8 DEF Statement

\* One statement of a request, or its failure.
LEMMA StatementEffect ==
  ASSUME ConsoleInv, NEW c \in Call, req[c].seg # "grpc", Statement(c) \/ StatementFails(c)
  PROVE  Effect(c)
<1>1. CASE Statement(c)
  <2>1. Serving(c)
    BY <1>1, StatementServes DEF Serving
  <2> QED
    BY <1>1, <2>1, TenantEffect, ProjectEffect, ProviderEffect, ServiceEffect, AgentEffect,
       ResourceCreateEffect, ResourceReadEffect, ResourceUpdateSpecEffect,
       ResourceUpdateStatusEffect, ResourceDeleteEffect, EventEffect, ControlEffect
       DEF Statement, ResourceMethod
<1>2. CASE StatementFails(c)
  BY <1>2, ReplyEffect DEF StatementFails, Serving, Final
<1> QED
  BY <1>1, <1>2

----------------------------------------------------------------------------
\* Writes from a row read before.

\* c is about to write what the row it has read implies, and the row is still that.
FromFresh(c) ==
  /\ req[c].pc = "write" /\ req[c].op \in {"update", "updateStatus", "ensure"}
  /\ db[req[c].seg][In(c).id] = Cur(c)

\* What the row becomes, given that the request may have left everything out.
KeepsTheRest(c, now) ==
  /\ req[c].op = "ensure" /\ now.status # Cur(c).status => Cur(c).status = "pending"
  /\ req[c].op # "ensure" /\ In(c).val = "" =>
       IF req[c].seg = "services" THEN now.status = Cur(c).status ELSE now = Cur(c)

\* Setting a column to what it is changes nothing.
LEMMA SameColumn ==
  ASSUME NEW t, NEW row, Columned(t, row), NEW f
  PROVE  [row EXCEPT ![f] = row[f]] = row
<1> DEFINE C == Columns[t]
<1>1. row = [x \in C |-> row[x]]
  BY DEF Columned
<1> HIDE DEF C
<1> QED
  BY <1>1

\* An UPDATE writes its row, or finds none and writes nothing.
LEMMA UpdatedRow ==
  ASSUME Shaped(db), NEW c, NEW t \in DOMAIN Ids, NEW i, NEW row, NEW missing, NEW pc,
         Save(c, Update(db, t, i, row), missing, pc)
  PROVE  \/ db' = db
         \/ i \in Ids[t] /\ db'[t][i] = row
<1>1. db' = Update(db, t, i, row).db
  BY Zenon DEF Save
<1>2. CASE i \notin LiveRows(db[t])
  BY <1>1, <1>2 DEF Update
<1>3. CASE i \in LiveRows(db[t])
  <2>1. i \in Ids[t] /\ db = [u \in TableNames |-> db[u]] /\ t \in TableNames
    BY <1>3 DEF Shaped, LiveRows, TableNames
  <2>2. db[t] = [j \in Ids[t] |-> db[t][j]]
    BY DEF Shaped
  <2>3. db' = [db EXCEPT ![t][i] = row]
    BY <1>1, <1>3 DEF Update
  <2> QED
    BY <2>1, <2>2, <2>3
<1> QED
  BY <1>2, <1>3

\* Nothing is lost when nothing is written.
LEMMA UnwrittenKeeps ==
  ASSUME NEW c, FromFresh(c), db' = db
  PROVE  KeepsTheRest(c, db'[req[c].seg][In(c).id])
BY DEF FromFresh, KeepsTheRest

\* So it is enough to look at the row that is written over a stored one.
LEMMA WrittenKeeps ==
  ASSUME Shaped(db), NEW c, FromFresh(c), NEW t \in DOMAIN Ids, req[c].seg = t,
         NEW row, NEW missing, NEW pc, Save(c, Update(db, t, In(c).id, row), missing, pc),
         Columned(t, Cur(c)) => KeepsTheRest(c, row)
  PROVE  KeepsTheRest(c, db'[req[c].seg][In(c).id])
<1>1. CASE db' = db
  BY <1>1, UnwrittenKeeps
<1>2. CASE In(c).id \in Ids[t] /\ db'[t][In(c).id] = row
  <2>1. Columned(t, Cur(c))
    BY <1>2, StoredColumns DEF FromFresh
  <2> QED
    BY <1>2, <2>1
<1> DEFINE i == In(c).id
<1>3. Save(c, Update(db, t, i, row), missing, pc)
  OBVIOUS
<1> HIDE DEF i
<1>4. db' = db \/ (i \in Ids[t] /\ db'[t][i] = row)
  BY <1>3, UpdatedRow, Zenon
<1> QED
  BY <1>1, <1>2, <1>4 DEF i

\* The writes of tenant.Service, project.Service and provider.Service.
LEMMA ValueKept ==
  ASSUME Shaped(db), NEW c, FromFresh(c),
         TenantMethod(c) \/ ProjectMethod(c) \/ ProviderMethod(c)
  PROVE  KeepsTheRest(c, db'[req[c].seg][In(c).id])
<1>1. req[c].pc = "write" /\ req[c].op \in {"update", "updateStatus", "ensure"}
      /\ db[req[c].seg][In(c).id] = Cur(c)
  BY DEF FromFresh
<1> DEFINE i == In(c).id
<1>2. ASSUME TenantMethod(c)
      PROVE  /\ req[c].seg = "tenants" /\ req[c].op = "update"
             /\ Save(c, UpdateTenant(db, i, Filled(c)), "notfound", "reply")
  BY <1>1, <1>2 DEF TenantMethod, TenantCreate, TenantGet, TenantList, TenantUpdate,
                    TenantDelete, TenantGetSystem, At
<1>3. ASSUME ProjectMethod(c)
      PROVE  /\ req[c].seg = "projects" /\ req[c].op = "update"
             /\ Save(c, UpdateProject(db, i, Filled(c)), "notfound", "resolve")
  BY <1>1, <1>3 DEF ProjectMethod, ProjectCreate, ProjectGet, ProjectList, ProjectUpdate,
                    ProjectDelete, CreateOwnedBy, GetOwned, ListOwned, UpdateOwned, At
<1>4. ASSUME ProviderMethod(c)
      PROVE  /\ req[c].seg = "providers" /\ req[c].op = "update"
             /\ Save(c, UpdateProvider(db, i, Filled(c)), "notfound", "resolve")
  BY <1>1, <1>4 DEF ProviderMethod, ProviderCreate, ProviderGet, ProviderList, ProviderUpdate,
                    ProviderDelete, CreateOwnedBy, GetOwned, ListOwned, UpdateOwned, At
<1>5. PICK t \in {"tenants", "projects", "providers"}, pc \in {"reply", "resolve"} :
        /\ req[c].seg = t /\ req[c].op = "update"
        /\ Save(c, Update(db, t, i, [db[t][i] EXCEPT !.val = Filled(c)]), "notfound", pc)
  <2>1. CASE TenantMethod(c)
    BY <1>2, <2>1 DEF UpdateTenant
  <2>2. CASE ProjectMethod(c)
    BY <1>3, <2>2 DEF UpdateProject
  <2>3. CASE ProviderMethod(c)
    BY <1>4, <2>3 DEF UpdateProvider
  <2> QED
    BY <2>1, <2>2, <2>3
<1> DEFINE row == [Cur(c) EXCEPT !.val = Filled(c)]
<1>6. Save(c, Update(db, t, i, row), "notfound", pc)
  BY <1>1, <1>5
<1>7. ASSUME Columned(t, Cur(c)) PROVE KeepsTheRest(c, row)
  <2>1. In(c).val = "" => row = Cur(c)
    BY <1>7, SameColumn DEF Filled
  <2> HIDE DEF row
  <2> QED
    BY <1>5, <2>1 DEF KeepsTheRest
<1> HIDE DEF row, i
<1> QED
  BY <1>5, <1>6, <1>7, WrittenKeeps, IdsDomain DEF i

\* The writes of service.Service: an update, and EnsureRegistered's.
LEMMA StatusKept ==
  ASSUME Shaped(db), NEW c, FromFresh(c), ServiceMethod(c)
  PROVE  KeepsTheRest(c, db'[req[c].seg][In(c).id])
<1>1. req[c].pc = "write" /\ req[c].op \in {"update", "updateStatus", "ensure"}
      /\ db[req[c].seg][In(c).id] = Cur(c)
  BY DEF FromFresh
<1> DEFINE i == In(c).id
           given == IF In(c).val = "" THEN Cur(c).status ELSE In(c).val
<1>2. /\ req[c].seg = "services"
      /\ \/ /\ req[c].op = "updateStatus"
            /\ Save(c, UpdateServiceStatus(db, i, given, Cur(c).stamped \/ given = "running"),
                    "untyped", "resolve")
         \/ /\ req[c].op = "ensure"
            /\ Save(c, UpdateServiceStatus(db, i, RegisteredStatus(Cur(c)), TRUE), "untyped", "reply")
  BY <1>1 DEF ServiceMethod, ServiceCreate, ServiceGet, ServiceListByTenant,
              ServiceUpdateStatus, ServiceDelete, ServiceListSystem, EnsureRegistered,
              CreateOwnedBy, GetOwned, ListOwned, UpdateOwned, At
<1>3. PICK status, stamped, pc :
        /\ Save(c, UpdateServiceStatus(db, i, status, stamped), "untyped", pc)
        /\ req[c].op = "ensure" => status = RegisteredStatus(Cur(c))
        /\ req[c].op # "ensure" => status = given
  BY <1>2
<1> DEFINE row == Stamped(Cur(c), status, stamped)
<1>4. Save(c, Update(db, "services", i, row), "untyped", pc)
  BY <1>1, <1>2, <1>3 DEF UpdateServiceStatus, Stamped
<1>5. ASSUME Columned("services", Cur(c)) PROVE KeepsTheRest(c, row)
  <2>1. row.status = status
    <3>1. Cur(c) = [x \in Columns["services"] |-> Cur(c)[x]] /\ "status" \in Columns["services"]
      BY <1>5 DEF Columned, Columns
    <3> QED
      BY <3>1 DEF Stamped
  <2> HIDE DEF row
  <2> QED
    BY <1>2, <1>3, <2>1 DEF KeepsTheRest, RegisteredStatus
<1> HIDE DEF row, i
<1> QED
  BY <1>2, <1>4, <1>5, WrittenKeeps, IdsDomain DEF i

\* The write of agent.Service.
LEMMA AgentKept ==
  ASSUME Shaped(db), NEW c, FromFresh(c), AgentMethod(c)
  PROVE  KeepsTheRest(c, db'[req[c].seg][In(c).id])
<1>1. req[c].pc = "write" /\ req[c].op \in {"update", "updateStatus", "ensure"}
      /\ db[req[c].seg][In(c).id] = Cur(c)
  BY DEF FromFresh
<1> DEFINE i == In(c).id
<1>2. /\ req[c].seg = "agents" /\ req[c].op = "update"
      /\ Save(c, Update(db, "agents", i, UpdateAgentStatus(Cur(c), db.agents[i], In(c).val)),
              "notfound", "resolve")
  BY <1>1 DEF AgentMethod, AgentCreate, AgentGet, AgentList, AgentUpdate, Heartbeat,
              AgentDelete, CreateOwnedBy, GetOwned, ListOwned, UpdateOwned, At
<1> DEFINE row == UpdateAgentStatus(Cur(c), Cur(c), In(c).val)
<1>3. Save(c, Update(db, "agents", i, row), "notfound", "resolve")
  BY <1>1, <1>2
<1>4. ASSUME Columned("agents", Cur(c)) PROVE KeepsTheRest(c, row)
  <2>1. In(c).val = "" => row = Cur(c)
    BY <1>4, SameColumn DEF UpdateAgentStatus
  <2> HIDE DEF row
  <2> QED
    BY <1>2, <2>1 DEF KeepsTheRest
<1> HIDE DEF row, i
<1> QED
  BY <1>2, <1>3, <1>4, WrittenKeeps, IdsDomain DEF i

\* The write of resource.Service.
LEMMA ResourceKept ==
  ASSUME Shaped(db), NEW c, FromFresh(c), ResourceMethod(c)
  PROVE  KeepsTheRest(c, db'[req[c].seg][In(c).id])
<1>1. req[c].pc = "write" /\ req[c].op \in {"update", "updateStatus", "ensure"}
      /\ db[req[c].seg][In(c).id] = Cur(c)
  BY DEF FromFresh
<1> DEFINE i == In(c).id
           rep == [state |-> In(c).val, observed |-> 0, status |-> "none"]
<1>2. /\ req[c].seg = "resources" /\ req[c].op = "updateStatus"
      /\ Save(c, Update(db, "resources", i, UpdateResourceStatus(Cur(c), db.resources[i], rep)),
              "untyped", "resolve")
  BY <1>1 DEF ResourceMethod, ResourceCreate, ResourceGet, ResourceListByProject,
              ResourceUpdateSpec, ResourceUpdateStatus, ResourceDelete, At
<1> DEFINE row == UpdateResourceStatus(Cur(c), Cur(c), rep)
<1>3. Save(c, Update(db, "resources", i, row), "untyped", "resolve")
  BY <1>1, <1>2
<1>4. ASSUME Columned("resources", Cur(c)) PROVE KeepsTheRest(c, row)
  <2>1. In(c).val = "" => row = Cur(c)
    <3> DEFINE r == Cur(c)
    <3>1. Columned("resources", r)
      BY <1>4
    <3>0. rep.state = In(c).val /\ ~(rep.observed > 0) /\ rep.status = "none"
      OBVIOUS
    <3> HIDE DEF rep, r
    <3>2. In(c).val = "" =>
            row = [[[r EXCEPT !.state = r.state] EXCEPT !.observed = r.observed]
                     EXCEPT !.unreachable = r.unreachable]
      BY <3>0 DEF UpdateResourceStatus, r
    <3>3. /\ [r EXCEPT !.state = r.state] = r
          /\ [r EXCEPT !.observed = r.observed] = r
          /\ [r EXCEPT !.unreachable = r.unreachable] = r
      BY <3>1, SameColumn
    <3> HIDE DEF row
    <3>4. In(c).val = "" => row = r
      BY <3>2, <3>3
    <3> QED
      BY <3>4 DEF r
  <2> HIDE DEF row
  <2> QED
    BY <1>2, <2>1 DEF KeepsTheRest
<1> HIDE DEF row, i
<1> QED
  BY <1>2, <1>3, <1>4, WrittenKeeps, IdsDomain DEF i

\* No statement, and no failure of one, loses what the request left out.
LEMMA StatementKeeps ==
  ASSUME Shaped(db), NEW c, FromFresh(c), Statement(c) \/ StatementFails(c)
  PROVE  KeepsTheRest(c, db'[req[c].seg][In(c).id])
<1>1. CASE StatementFails(c)
  BY <1>1, UnwrittenKeeps DEF StatementFails
<1>2. CASE EventList(c) \/ ControlMethod(c)
  BY <1>2 DEF EventList, ControlMethod, FromFresh
<1> QED
  BY <1>1, <1>2, ValueKept, StatusKept, AgentKept, ResourceKept DEF Statement

----------------------------------------------------------------------------
\* Arrivals.

\* A call that reaches its method is sound when its caller may have written what
\* the method writes.
LEMMA CalledSound ==
  ASSUME NEW seg, NEW op, NEW in, NEW may \in BOOLEAN,
         \/ seg = "grpc"
         \/ /\ op = "ensure" \/ (seg \in DOMAIN Router /\ op \in DOMAIN Router[seg])
            /\ op = "ensure" \/ Router[seg][op].method \notin ReadMethods => may
  PROVE  Sound(Called(seg, op, in, may))
<1> DEFINE q == Called(seg, op, in, may)
<1>1. q = [pc |-> "call", seg |-> seg, op |-> op, in |-> in, row |-> NoRow,
           may |-> may, wrote |-> FALSE, code |-> 0]
  BY Zenon DEF Called
<1> HIDE DEF q
<1>2. /\ q.pc = "call" /\ q.seg = seg /\ q.op = op /\ q.in = in /\ q.row = NoRow
      /\ q.may = may /\ q.wrote = FALSE /\ q.code = 0
  BY <1>1
<1>3. Shape(q)
  BY <1>1, <1>2 DEF Shape
<1>4. Sound(q)
  BY <1>2, <1>3 DEF Sound, Mutates
<1> QED
  BY <1>4 DEF q

\* authz.Middleware and setup's Gate admit a mutating verb only from a caller who
\* may write.
LEMMA GuardAdmits ==
  ASSUME gate \in {"disabled", "open", "token"},
         NEW seg \in DOMAIN Router, NEW op \in DOMAIN Router[seg], NEW caller,
         Router[seg][op].method \notin ReadMethods,
         0 = IF seg = "setup" /\ op = "trigger" THEN trigger(gate, guard, caller)
             ELSE Middleware(guard, caller, seg, Router[seg][op].method)
  PROVE  MayWrite(caller, seg, Router[seg][op].method)
<1>1. CASE seg = "setup"
  <2>1. op = "trigger"
    <3>1. Router["setup"] = SetupRoutes
      BY DEF Router
    <3>2. DOMAIN SetupRoutes = {"status", "trigger"} /\ SetupRoutes["status"].method = "GET"
      BY DEF SetupRoutes, Route
    <3> QED
      BY <1>1, <3>1, <3>2 DEF ReadMethods
  <2> QED
    BY <1>1, <2>1 DEF trigger, authorized, tokenMatches, MayWrite, HasPermission
<1>2. CASE seg # "setup"
  <2>1. Middleware(guard, caller, seg, Router[seg][op].method) = 0
    BY <1>2
  <2> QED
    BY <1>2, <2>1 DEF Middleware, exempt, Required, MayWrite
<1> QED
  BY <1>1, <1>2

\* A request arrives, or the steward calls.
LEMMA ArrivalEffect ==
  ASSUME ConsoleInv, gate \in {"disabled", "open", "token"}, NEW c \in Call,
         Arrive(c) \/ StewardCalls(c)
  PROVE  Effect(c)
<1>1. req = [d \in Call |-> req[d]] /\ Harmless(db, db)
  BY SameHarmless DEF ConsoleInv
<1>2. ASSUME NEW q, Sound(q), req' = [req EXCEPT ![c] = q], db' = db
      PROVE  Effect(c)
  BY <1>1, <1>2 DEF Effect
<1>3. CASE Arrive(c)
  <2> DEFINE Code(seg, op, caller) ==
               IF seg = "setup" /\ op = "trigger" THEN trigger(gate, guard, caller)
               ELSE Middleware(guard, caller, seg, Router[seg][op].method)
             Outcome(seg, op, caller) ==
               \/ /\ Code(seg, op, caller) # 0
                  /\ req' = [req EXCEPT ![c] = Done(Code(seg, op, caller), FALSE, FALSE)]
               \/ /\ Code(seg, op, caller) = 0 /\ Router[seg][op].parses # {}
                  /\ req' = [req EXCEPT ![c] = Done(400, FALSE, FALSE)]
               \/ /\ Code(seg, op, caller) = 0
                  /\ \E in \in Inputs(seg, op) : req' = [req EXCEPT ![c] =
                       Called(seg, op, in, MayWrite(caller, seg, Router[seg][op].method))]
  <2>0. PICK seg \in DOMAIN Router :
          \E op \in DOMAIN Router[seg] : \E caller \in Callers : Outcome(seg, op, caller)
    BY <1>3 DEF Arrive
  <2>1. PICK op \in DOMAIN Router[seg], caller \in Callers : Outcome(seg, op, caller)
    BY <2>0, Zenon
  <2>2. ASSUME NEW code, req' = [req EXCEPT ![c] = Done(code, FALSE, FALSE)]
        PROVE  Effect(c)
    <3>1. Sound(Answered("", code, FALSE, FALSE))
      BY AnsweredSound
    <3> QED
      BY <1>2, <1>3, <2>2, <3>1, Zenon DEF Arrive, Done
  <2>3. ASSUME NEW in, req' = [req EXCEPT ![c] =
                   Called(seg, op, in, MayWrite(caller, seg, Router[seg][op].method))],
               0 = IF seg = "setup" /\ op = "trigger" THEN trigger(gate, guard, caller)
                   ELSE Middleware(guard, caller, seg, Router[seg][op].method)
        PROVE  Effect(c)
    <3>1. PICK may \in BOOLEAN : may = MayWrite(caller, seg, Router[seg][op].method)
      BY Zenon DEF MayWrite
    <3>2. Router[seg][op].method \notin ReadMethods => may
      BY <2>3, <3>1, GuardAdmits, Zenon
    <3>3. op # "ensure"
      BY RouteAnswers
    <3>4. Sound(Called(seg, op, in, may))
      BY <3>2, <3>3, CalledSound, Zenon
    <3> QED
      BY <1>2, <1>3, <2>3, <3>1, <3>4, Zenon DEF Arrive
  <2> QED
    BY <2>1, <2>2, <2>3, Zenon
<1>4. CASE StewardCalls(c)
  <2>1. PICK name : req' = [req EXCEPT ![c] =
          Called("services", "ensure", [NoIn EXCEPT !.name = name], TRUE)]
    BY <1>4, Zenon DEF StewardCalls
  <2>2. Sound(Called("services", "ensure", [NoIn EXCEPT !.name = name], TRUE))
    BY CalledSound
  <2> QED
    BY <1>2, <1>4, <2>1, <2>2 DEF StewardCalls
<1> QED
  BY <1>3, <1>4
=============================================================================
