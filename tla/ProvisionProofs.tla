-------------------------- MODULE ProvisionProofs --------------------------
(***************************************************************************)
(* Theorems about rendering and readiness, for any templates, parameters   *)
(* and values, however the vault and the other dependencies come and go.   *)
(*                                                                         *)
(* A render never looks back: what the loop over the parameters has passed *)
(* is settled, and what lies ahead of it is what resolveParams made of the *)
(* request. A check of /readyz looks at a record that was once a probe's   *)
(* answer, and nothing that has answered is forgotten while Core runs.     *)
(***************************************************************************)
EXTENDS Provision, TLAPS

----------------------------------------------------------------------------
\* Rendering.

\* The value v suits a parameter p that is no secret.
Suits(p, v) ==
  /\ p.required => v \notin {"absent", "nil"}
  /\ p.type = "int" => v = "number" \/ (~p.required /\ v \in Unset)
  /\ p.type = "bool" => v = "bool" \/ (~p.required /\ v \in Unset)
  /\ p.type # "other" \/ v \in Unset

\* The render in flight: a request of ours, the loop somewhere in its parameters.
\* Parameter i has its type unless it is a secret; a secret the loop has passed is
\* a reference, or an optional one that was dropped.
Flight ==
  /\ render = [at |-> render.at, in |-> render.in, i |-> render.i, params |-> render.params]
  /\ render.at \in {"idle", "refused"} => render.params = << >>
  /\ render.at \in {"vault", "rendered"} =>
       /\ render.i \in 1..(Len(render.in.parameters) + 1)
       /\ render.at = "rendered" => render.i > Len(render.in.parameters)
       /\ \A i \in DOMAIN render.params :
            LET p == render.in.parameters[i]
                v == render.params[i]
            IN /\ p.type # "secret" => Suits(p, v)
               /\ v = "ref" => i \in vault
               /\ p.type = "secret" /\ i < render.i =>
                    v = "ref" \/ (v = "absent" /\ ~p.required)

\* A request has as many values as parameters, none of them a reference.
LEMMA RequestTypes ==
  ASSUME NEW r \in Request
  PROVE  /\ Len(r.parameters) \in Nat /\ DOMAIN r.parameters = 1..Len(r.parameters)
         /\ \A i \in DOMAIN r.parameters :
              r.parameters[i] \in Parameter /\ r.supplied[i] \in Value \ {"ref"}
         /\ DOMAIN r.parameters \subseteq Positions
BY RequestAssumption DEF Positions

\* A value that was coerced has the declared type, and is no reference.
LEMMA CoercedSuits ==
  ASSUME NEW p \in Parameter, NEW v \in Value \ {"ref", "absent", "nil"}, p.type # "secret",
         coerceParam(p, v) # "error"
  PROVE  /\ coerceParam(p, v) \in Value \ {"ref", "absent", "nil"}
         /\ p.type = "int" => coerceParam(p, v) = "number"
         /\ p.type = "bool" => coerceParam(p, v) = "bool"
         /\ p.type # "other"
BY DEF Parameter, Value, coerceParam

\* A resolved parameter suits its declaration, unless it is a secret.
LEMMA ResolvedSuits ==
  ASSUME NEW p \in Parameter, NEW v \in Value \ {"ref"}, resolveParam(p, v) # "error"
  PROVE  /\ resolveParam(p, v) \in Value \ {"ref"}
         /\ p.type # "secret" => Suits(p, resolveParam(p, v))
<1> DEFINE given == IF v \in Unset THEN p.default ELSE v
<1>0. p.named
  BY DEF resolveParam, Parameter
<1>1. CASE p.type = "secret"
  BY <1>0, <1>1 DEF resolveParam
<1>2. CASE p.type # "secret" /\ given # "absent"
  <2>1. given \in Value \ {"ref", "absent", "nil"} /\ resolveParam(p, v) = coerceParam(p, given)
    BY <1>0, <1>2 DEF resolveParam, Parameter, Value, Unset
  <2> HIDE DEF given
  <2> QED
    BY <1>2, <2>1, CoercedSuits DEF Suits
<1>3. CASE p.type # "secret" /\ given = "absent"
  BY <1>0, <1>3 DEF resolveParam, Suits, Unset
<1> QED
  BY <1>1, <1>2, <1>3

\* Of the render, Flight and the type invariant say nothing else.
RenderTyped ==
  /\ render.at \in {"idle", "vault", "rendered", "refused"}
  /\ render.at \in {"vault", "rendered"} =>
       render.in \in Request /\ render.params \in [DOMAIN render.in.parameters -> Value]
  /\ vault \subseteq Positions

RenderInv == RenderTyped /\ Flight

\* A refused render holds nothing.
LEMMA RefusedInv ==
  ASSUME Refuse, vault' \subseteq Positions
  PROVE  RenderInv'
<1>1. render' = [at |-> "refused", in |-> "none", i |-> 1, params |-> << >>]
  BY DEF Refuse, NoRender
<1>2. render'.at = "refused" /\ render'.params = << >> /\ render'.in = "none" /\ render'.i = 1
  BY <1>1
<1> QED
  BY <1>1, <1>2 DEF RenderInv, RenderTyped, Flight

\* Render begins with what resolveParams made of the request.
LEMMA BeginInv ==
  ASSUME RenderInv, NEW r \in Request, Begin(r)
  PROVE  RenderInv'
<1> DEFINE params == resolveParams(r)
<1>1. vault' = vault /\ vault \subseteq Positions
  BY DEF Begin, RenderInv, RenderTyped
<1>2. CASE Refuse
  BY <1>1, <1>2, RefusedInv
<1>3. CASE /\ \A i \in DOMAIN params : params[i] # "error"
           /\ render' = [at |-> "vault", in |-> r, i |-> 1, params |-> params]
  <2>1. /\ render'.at = "vault" /\ render'.in = r /\ render'.i = 1 /\ render'.params = params
    BY <1>3
  <2>2. DOMAIN params = DOMAIN r.parameters
    BY DEF resolveParams
  <2>3. ASSUME NEW i \in DOMAIN r.parameters
        PROVE  /\ params[i] \in Value \ {"ref"} /\ i >= 1
               /\ r.parameters[i].type # "secret" => Suits(r.parameters[i], params[i])
    <3>1. params[i] = resolveParam(r.parameters[i], r.supplied[i])
      BY DEF resolveParams
    <3>2. params[i] # "error"
      BY <1>3, <2>2
    <3> QED
      BY <3>1, <3>2, RequestTypes, ResolvedSuits
  <2>4. params \in [DOMAIN r.parameters -> Value]
    BY <2>3 DEF resolveParams
  <2>5. RenderTyped'
    BY <1>1, <2>1, <2>4 DEF RenderTyped
  <2> HIDE DEF params
  <2>6. Flight'
    BY <1>3, <2>1, <2>2, <2>3, RequestTypes DEF Flight
  <2> QED
    BY <2>5, <2>6 DEF RenderInv
<1> QED
  BY <1>2, <1>3 DEF Begin

\* The loop passes parameter i of the render and leaves v there.
Passes(v) ==
  /\ render' = [render EXCEPT !.i = @ + 1, !.params[render.i] = v]
  /\ v \in Value
  /\ vault \subseteq vault' /\ vault' \subseteq Positions

\* What the loop leaves behind at a secret is a reference the vault resolves, or
\* nothing where nothing is required; a parameter that is no secret stays as it is.
LEMMA PassesInv ==
  ASSUME RenderInv, AtSecret, NEW v, Passes(v),
         \/ Param.type # "secret" /\ v = render.params[render.i]
         \/ Param.type = "secret" /\ v = "ref" /\ render.i \in vault'
         \/ Param.type = "secret" /\ v = "absent" /\ ~Param.required
  PROVE  RenderInv'
<1> DEFINE r == render.in
           n == render.i
           old == render.params
           new == [old EXCEPT ![n] = v]
<1>1. /\ r \in Request /\ n \in 1..Len(r.parameters) /\ n \in Nat
      /\ old \in [DOMAIN r.parameters -> Value] /\ render.at = "vault"
      /\ render = [at |-> "vault", in |-> r, i |-> n, params |-> old]
  BY RequestTypes DEF RenderInv, RenderTyped, Flight, AtSecret
<1>2. n \in DOMAIN r.parameters
  BY <1>1, RequestTypes
<1>3. render' = [at |-> "vault", in |-> r, i |-> n + 1, params |-> new]
  <2>1. render' = [render EXCEPT !.i = n + 1, !.params = new]
    BY DEF Passes
  <2> HIDE DEF r, n, old, new
  <2> QED
    BY <1>1, <2>1
<1>4. render'.at = "vault" /\ render'.in = r /\ render'.i = n + 1 /\ render'.params = new
  BY <1>3
<1>5. /\ new \in [DOMAIN r.parameters -> Value] /\ new[n] = v
      /\ \A i \in DOMAIN r.parameters : i # n => new[i] = old[i]
  BY <1>1, <1>2 DEF Passes
<1>6. ASSUME NEW i \in DOMAIN r.parameters
      PROVE  /\ r.parameters[i].type # "secret" => Suits(r.parameters[i], new[i])
             /\ new[i] = "ref" => i \in vault'
             /\ r.parameters[i].type = "secret" /\ i < n + 1 =>
                  new[i] = "ref" \/ (new[i] = "absent" /\ ~r.parameters[i].required)
  <2>1. /\ r.parameters[i].type # "secret" => Suits(r.parameters[i], old[i])
        /\ old[i] = "ref" => i \in vault
        /\ r.parameters[i].type = "secret" /\ i < n =>
             old[i] = "ref" \/ (old[i] = "absent" /\ ~r.parameters[i].required)
    BY <1>1 DEF RenderInv, Flight
  <2>2. i \in Nat /\ n \in Nat
    BY <1>1, RequestTypes
  <2>3. CASE i # n
    BY <1>5, <2>1, <2>2, <2>3 DEF Passes
  <2>4. CASE i = n
    BY <1>5, <2>1, <2>4 DEF Passes, Param
  <2> QED
    BY <2>3, <2>4
<1>7. RenderTyped'
  BY <1>1, <1>4, <1>5 DEF RenderTyped, Passes
<1>8. DOMAIN new = DOMAIN r.parameters
  BY <1>5
<1> HIDE DEF new
<1>9. Flight'
  BY <1>1, <1>3, <1>4, <1>6, <1>8 DEF Flight
<1> QED
  BY <1>7, <1>9 DEF RenderInv

\* A secret that is dropped is optional.
LEMMA DroppedIsOptional ==
  ASSUME NEW p, NEW v, secretValue(p, v) = "drop"
  PROVE  ~p.required
BY DEF secretValue

\* One call of vaultSecrets' loop.
LEMMA LoopInv ==
  ASSUME RenderInv, VaultSkips \/ Store
  PROVE  RenderInv'
<1>1. AtSecret
  BY DEF VaultSkips, Store
<1>2. vault \subseteq Positions /\ render.i \in Positions
  BY <1>1, RequestTypes DEF AtSecret, RenderInv, RenderTyped, Flight
<1>3. CASE Refuse
  <2>1. vault' \subseteq Positions
    BY <1>2 DEF VaultSkips, Store, PutCredential
  <2> QED
    BY <1>3, <2>1, RefusedInv
<1>4. CASE /\ Param.type # "secret" /\ vault' = vault
           /\ render' = [render EXCEPT !.i = @ + 1]
  <2> DEFINE v == render.params[render.i]
  <2>1. /\ render = [at |-> render.at, in |-> render.in, i |-> render.i, params |-> render.params]
        /\ render.params = [render.params EXCEPT ![render.i] = v]
        /\ v \in Value
    BY <1>1, RequestTypes DEF AtSecret, RenderInv, RenderTyped, Flight
  <2>2. render' = [render EXCEPT !.i = @ + 1, !.params = [render.params EXCEPT ![render.i] = v]]
    BY <1>4, <2>1
  <2>3. Passes(v)
    BY <1>2, <1>4, <2>1, <2>2 DEF Passes
  <2> HIDE DEF v
  <2> QED
    BY <1>1, <1>4, <2>3, PassesInv DEF v
<1>5. CASE /\ Param.type = "secret" /\ secretValue(Param, render.params[render.i]) = "drop"
           /\ render' = [render EXCEPT !.i = @ + 1, !.params[render.i] = "absent"]
           /\ vault' = vault
  <2>1. Passes("absent")
    BY <1>2, <1>5 DEF Passes, Value
  <2>2. ~Param.required
    BY <1>5, DroppedIsOptional
  <2> QED
    BY <1>1, <1>5, <2>1, <2>2, PassesInv
<1>6. CASE /\ Param.type = "secret" /\ vault' = vault \cup {render.i}
           /\ render' = [render EXCEPT !.i = @ + 1, !.params[render.i] = "ref"]
  <2>1. Passes("ref") /\ render.i \in vault'
    BY <1>2, <1>6 DEF Passes, Value
  <2> QED
    BY <1>1, <1>6, <2>1, PassesInv
<1>7. CASE VaultSkips
  BY <1>3, <1>4, <1>5, <1>7 DEF VaultSkips
<1>8. CASE Store
  BY <1>3, <1>6, <1>8 DEF Store, Unstored
<1> QED
  BY <1>7, <1>8

\* Nothing is left to vault; the document is rendered, or refused.
LEMMA ExecuteInv ==
  ASSUME RenderInv, Execute
  PROVE  RenderInv'
<1>1. vault' = vault /\ vault \subseteq Positions
  BY DEF Execute, RenderInv, RenderTyped
<1>2. CASE Refuse
  BY <1>1, <1>2, RefusedInv
<1>3. CASE render' = [render EXCEPT !.at = "rendered"]
  <2>1. render' = [at |-> "rendered", in |-> render.in, i |-> render.i, params |-> render.params]
    BY <1>3 DEF RenderInv, Flight
  <2>2. /\ render'.at = "rendered" /\ render'.in = render.in /\ render'.i = render.i
        /\ render'.params = render.params /\ render.at = "vault"
        /\ render.i > Len(render.in.parameters)
    BY <2>1 DEF Execute
  <2>3. RenderTyped'
    BY <1>1, <2>2 DEF RenderInv, RenderTyped
  <2>4. Flight'
    BY <1>1, <2>1, <2>2 DEF RenderInv, Flight
  <2> QED
    BY <2>3, <2>4 DEF RenderInv
<1> QED
  BY <1>2, <1>3 DEF Execute

\* Render returns.
LEMMA AnswerInv ==
  ASSUME RenderInv, Answer
  PROVE  RenderInv'
<1>1. render' = [at |-> "idle", in |-> "none", i |-> 1, params |-> << >>] /\ vault' = vault
  BY DEF Answer, NoRender
<1>2. render'.at = "idle" /\ render'.params = << >> /\ render'.in = "none" /\ render'.i = 1
  BY <1>1
<1> QED
  BY <1>1, <1>2 DEF RenderInv, RenderTyped, Flight

\* The loop of the dependencies, /readyz and the dependencies leave renders alone.
LEMMA OthersLeaveRender ==
  ASSUME LoopStep \/ ReadyzStep \/ (\E d \in Dep : GoesDown(d) \/ ComesUp(d)) \/ UNCHANGED vars
  PROVE  render' = render /\ vault' = vault
BY DEF LoopStep, BeginPass, Probe, Record, ReadyzStep, ReadyzBegins, ReadyzChecks,
       ReadyzAnswers, GoesDown, ComesUp, vars

\* Every step of Core keeps the invariant of the renders.
LEMMA RenderStepInv ==
  ASSUME RenderInv, [Next]_vars
  PROVE  RenderInv'
<1>1. CASE RenderStep
  BY <1>1, LoopInv, ExecuteInv, AnswerInv DEF RenderStep
<1>2. CASE \E r \in Request : Begin(r)
  BY <1>2, BeginInv
<1>3. CASE LoopStep \/ ReadyzStep \/ (\E d \in Dep : GoesDown(d) \/ ComesUp(d)) \/ UNCHANGED vars
  <2>1. render' = render /\ vault' = vault
    BY <1>3, OthersLeaveRender
  <2> QED
    BY <2>1 DEF RenderInv, RenderTyped, Flight
<1> QED
  BY <1>1, <1>2, <1>3 DEF Next

\* Nothing is rendered yet.
LEMMA RenderInitInv == Init => RenderInv
<1> SUFFICES ASSUME Init PROVE RenderInv
  OBVIOUS
<1>1. render = [at |-> "idle", in |-> "none", i |-> 1, params |-> << >>] /\ vault = {}
  BY DEF Init, NoRender
<1>2. render.at = "idle" /\ render.params = << >> /\ render.in = "none" /\ render.i = 1
  BY <1>1
<1> QED
  BY <1>1, <1>2 DEF RenderInv, RenderTyped, Flight

\* The invariant of the renders holds for good.
LEMMA RenderAlways == Spec => []RenderInv
BY RenderInitInv, RenderStepInv, PTL DEF Spec

\* Once vaultSecrets is through, no secret parameter holds anything but a reference,
\* however the vault failed on the way.
THEOREM SecretsStayInTheVault == Spec => []NoPlaintext
<1>1. RenderInv => NoPlaintext
  <2> SUFFICES ASSUME RenderInv, render.at \in {"vault", "rendered"},
                      NEW i \in 1..(render.i - 1), Secret(i)
               PROVE  render.params[i] \in {"ref", "absent"}
    BY DEF NoPlaintext
  <2>1. /\ render.i \in Nat /\ i \in Nat /\ i < render.i
        /\ render.in \in Request /\ DOMAIN render.params = DOMAIN render.in.parameters
    BY RequestTypes DEF RenderInv, RenderTyped, Flight
  <2>2. i \in DOMAIN render.params
    BY <2>1, RequestTypes DEF RenderInv, Flight
  <2> QED
    BY <2>1, <2>2 DEF RenderInv, Flight, Secret
<1> QED
  BY <1>1, RenderAlways, PTL

\* A reference in a render's parameters names an address the vault holds.
THEOREM ReferencesResolve == Spec => []ReferenceResolves
<1>1. RenderInv => ReferenceResolves
  BY DEF RenderInv, RenderTyped, Flight, ReferenceResolves
<1> QED
  BY <1>1, RenderAlways, PTL

\* What reaches the spec has the type the template declares, and no required
\* parameter is missing.
THEOREM SpecsAreTyped == Spec => []RenderedIsTyped
<1>1. RenderInv => RenderedIsTyped
  <2> SUFFICES ASSUME RenderInv, render.at = "rendered", NEW i \in DOMAIN render.params
               PROVE  Suits(render.in.parameters[i], render.params[i])
    BY DEF RenderedIsTyped, Suits
  <2>1. render.in \in Request /\ i \in DOMAIN render.in.parameters
    BY DEF RenderInv, RenderTyped
  <2>2. i < render.i
    BY <2>1, RequestTypes DEF RenderInv, Flight
  <2> QED
    BY <2>2 DEF RenderInv, Flight, Suits
<1> QED
  BY <1>1, RenderAlways, PTL

----------------------------------------------------------------------------
\* Readiness.

Answered == seen \cup (IF Mode = "dev-open" THEN {"auth"} ELSE {})

\* What a probe brought, what is recorded and what a /readyz has checked so far are
\* all of dependencies that have answered.
ReadyInv ==
  /\ up \subseteq Dep /\ seen \subseteq Dep /\ up \subseteq seen
  /\ state \in [Dep -> {"notProbed", "ok", "err"}]
  /\ pass \in [at: {"wait", "probe", "record"}, results: [Dep -> {"none", "ok", "err"}]]
  /\ ready \in [left: SUBSET Check, status: {0, 200, 503}]
  /\ \A d \in Dep : state[d] = "ok" \/ pass.results[d] = "ok" => d \in seen
  /\ ready.status = 200 => Dep \subseteq ready.left \cup Answered

\* The probes and the records of a pass.
LEMMA LoopReady ==
  ASSUME ReadyInv, LoopStep
  PROVE  ReadyInv'
<1>1. up' = up /\ seen' = seen /\ ready' = ready
  BY DEF LoopStep, BeginPass, Probe, Record
<1>2. CASE BeginPass
  <2>1. state' = state /\ pass' = [pass EXCEPT !.at = "probe"]
    BY <1>2 DEF BeginPass
  <2> QED
    BY <1>1, <2>1 DEF ReadyInv, Answered
<1>3. ASSUME NEW d \in Dep, Probe(d) PROVE ReadyInv'
  <2> DEFINE results == [pass.results EXCEPT ![d] = probe(d)]
  <2>1. probe(d) \in {"ok", "err"} /\ (probe(d) = "ok" => d \in up)
    BY DepAssumption DEF probe, probeAuth, probeSecret
  <2>2. /\ results \in [Dep -> {"none", "ok", "err"}] /\ results[d] = probe(d)
        /\ \A e \in Dep : e # d => results[e] = pass.results[e]
    BY <2>1 DEF ReadyInv
  <2>3. PICK at \in {"probe", "record"} : pass' = [at |-> at, results |-> results]
    BY <1>3 DEF Probe
  <2>4. state' = state
    BY <1>3 DEF Probe
  <2> HIDE DEF results
  <2>5. pass'.results = results /\ pass' \in [at: {"wait", "probe", "record"},
                                              results: [Dep -> {"none", "ok", "err"}]]
    BY <2>2, <2>3
  <2> QED
    BY <1>1, <2>1, <2>2, <2>4, <2>5 DEF ReadyInv, Answered
<1>4. ASSUME NEW d \in Dep, Record(d) PROVE ReadyInv'
  <2> DEFINE results == [pass.results EXCEPT ![d] = "none"]
  <2>1. /\ results \in [Dep -> {"none", "ok", "err"}] /\ results[d] = "none"
        /\ \A e \in Dep : e # d => results[e] = pass.results[e]
    BY DEF ReadyInv
  <2>2. PICK at \in {"wait", "record"} : pass' = [at |-> at, results |-> results]
    BY <1>4 DEF Record
  <2>3. state' = [state EXCEPT ![d] = pass.results[d]] /\ pass.results[d] \in {"ok", "err"}
    BY <1>4 DEF Record, ReadyInv
  <2>4. /\ state' \in [Dep -> {"notProbed", "ok", "err"}] /\ state'[d] = pass.results[d]
        /\ \A e \in Dep : e # d => state'[e] = state[e]
    BY <2>3 DEF ReadyInv
  <2> HIDE DEF results
  <2>5. pass'.results = results /\ pass' \in [at: {"wait", "probe", "record"},
                                              results: [Dep -> {"none", "ok", "err"}]]
    BY <2>1, <2>2
  <2> QED
    BY <1>1, <2>1, <2>4, <2>5 DEF ReadyInv, Answered
<1> QED
  BY <1>2, <1>3, <1>4 DEF LoopStep

\* A check that passes is of a dependency that has answered.
LEMMA ChecksReady ==
  ASSUME ReadyInv, ReadyzStep
  PROVE  ReadyInv'
<1>1. up' = up /\ seen' = seen /\ state' = state /\ pass' = pass
  BY DEF ReadyzStep, ReadyzBegins, ReadyzChecks, ReadyzAnswers
<1>2. CASE ReadyzBegins
  BY <1>1, <1>2 DEF ReadyzBegins, ReadyInv, Answered, Check
<1>3. CASE ReadyzAnswers
  BY <1>1, <1>3 DEF ReadyzAnswers, ReadyInv, Answered, NotAsked
<1>4. ASSUME NEW k \in Check, ReadyzChecks(k) PROVE ReadyInv'
  <2>1. PICK passes \in readyz(k) :
          ready' = [left |-> ready.left \ {k}, status |-> IF passes THEN ready.status ELSE 503]
    BY <1>4 DEF ReadyzChecks
  <2>2. CASE passes
    <3>1. k \in Dep => readiness(k)
      BY <2>1, <2>2 DEF readyz
    <3>2. k \in Dep => k \in Answered
      BY <3>1, DepAssumption, ModeAssumption DEF readiness, ReadyInv, Answered
    <3>3. ready' = [left |-> ready.left \ {k}, status |-> ready.status]
      BY <2>1, <2>2
    <3> QED
      BY <1>1, <3>2, <3>3 DEF ReadyInv, Answered
  <2>3. CASE ~passes
    <3>1. ready' = [left |-> ready.left \ {k}, status |-> 503]
      BY <2>1, <2>3
    <3> QED
      BY <1>1, <3>1 DEF ReadyInv, Answered
  <2> QED
    BY <2>2, <2>3
<1> QED
  BY <1>2, <1>3, <1>4 DEF ReadyzStep

\* Every step of Core keeps the invariant of readiness: what has answered is not
\* forgotten when it goes down.
LEMMA ReadyStepInv ==
  ASSUME ReadyInv, [Next]_vars
  PROVE  ReadyInv'
<1>1. CASE LoopStep
  BY <1>1, LoopReady
<1>2. CASE ReadyzStep
  BY <1>2, ChecksReady
<1>3. ASSUME NEW d \in Dep, GoesDown(d) \/ ComesUp(d) PROVE ReadyInv'
  BY <1>3 DEF GoesDown, ComesUp, ReadyInv, Answered
<1>4. CASE RenderStep \/ (\E r \in Request : Begin(r)) \/ UNCHANGED vars
  <2>1. up' = up /\ seen' = seen /\ state' = state /\ pass' = pass /\ ready' = ready
    BY <1>4 DEF RenderStep, VaultSkips, Store, Execute, Answer, Begin, vars
  <2> QED
    BY <2>1 DEF ReadyInv, Answered
<1> QED
  BY <1>1, <1>2, <1>3, <1>4 DEF Next

\* Nothing has been probed yet.
LEMMA ReadyInitInv == Init => ReadyInv
BY DEF Init, ReadyInv, NotProbed, Waiting, NoResults, NotAsked

\* The invariant of readiness holds for good.
LEMMA ReadyAlways == Spec => []ReadyInv
BY ReadyInitInv, ReadyStepInv, PTL DEF Spec

\* /readyz answers 200 only if every dependency has answered since the process
\* booted, in whatever order the loop records and the checks look.
THEOREM ReadyWasSeen == Spec => []HealthyWasSeen
<1>1. ReadyInv => HealthyWasSeen
  BY DEF ReadyInv, Answered, HealthyWasSeen
<1> QED
  BY <1>1, ReadyAlways, PTL

\* Type correctness of rendering, the vault and readiness.
THEOREM TypeCorrect == Spec => []TypeOK
<1>1. RenderInv /\ ReadyInv => TypeOK
  BY DEF RenderInv, RenderTyped, ReadyInv, TypeOK
<1> QED
  BY <1>1, RenderAlways, ReadyAlways, PTL
=============================================================================
