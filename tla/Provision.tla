----------------------------- MODULE Provision -----------------------------
(***************************************************************************)
(* Rendering a deployment template (internal/deploytemplate/service.go,    *)
(* credentials.go) against a vault that comes and goes                     *)
(* (internal/secretctrl), and the convergence loop whose last observations *)
(* /readyz reports (internal/dependency/dependency.go,                     *)
(* cmd/server/dependencies.go, internal/server/server.go).                 *)
(*                                                                         *)
(* A parameter is its position in the template, a value the one thing the  *)
(* code asks of it: absent, a nil that is there, the empty string, a       *)
(* string that is a number, any other string, a number, a bool, or a       *)
(* secret:// reference.                                                    *)
(***************************************************************************)
EXTENDS Integers, Sequences, FiniteSets

CONSTANTS
  Dep,      \* the dependencies the loop probes; "secret" is the vault
  Mode,     \* authz.Guard.Mode
  Request   \* render requests: the template's parameters, values, spec

ASSUME DepAssumption == "secret" \in Dep /\ Dep \subseteq {"auth", "secret"}
ASSUME ModeAssumption == Mode \in {"enforced", "dev-open", "unavailable"}

Value == {"absent", "nil", "empty", "text", "digits", "number", "bool", "ref"}

\* deploytemplate.Parameter; 'default' is "absent" when the template has none.
Parameter == [named: BOOLEAN, type: {"string", "int", "bool", "secret", "other"},
              required: BOOLEAN, generate: BOOLEAN, default: Value \ {"ref", "nil"}]

\* The values resolveParams takes for none.
Unset == {"absent", "nil", "empty"}

\* A request: the parameters, what was supplied for each, and which ones the spec
\* template mentions.
ASSUME RequestAssumption ==
  \A r \in Request :
    /\ r.parameters \in Seq(Parameter)
    /\ r.supplied \in [DOMAIN r.parameters -> Value \ {"ref"}]
    /\ r.uses \subseteq DOMAIN r.parameters

VARIABLES
  up,       \* the dependencies that answer just now
  seen,     \* observed: the ones that answered at some time since Core booted
  state,    \* Reconciler.state: "notProbed", "ok" or "err"
  pass,     \* the loop's pass: what its probes brought so far
  ready,    \* one /readyz: the checks still running, and the status so far
  render,   \* one Render: the request, where it is, its resolved parameters
  vault     \* the addresses (template folder, parameter) that hold a credential

vars == <<up, seen, state, pass, ready, render, vault>>

NoRender == [at |-> "idle", in |-> "none", i |-> 1, params |-> << >>]

\* readinessChecks; "secret-setup" is the secret orchestrator's State (module Setup).
Check == Dep \cup {"database", "secret-setup"}
NotAsked == [left |-> {}, status |-> 0]

Positions == UNION {DOMAIN r.parameters : r \in Request}

\* The one type invariant: the loop's observations, the render in flight and the
\* vault keep their types.
TypeOK ==
  /\ up \subseteq Dep /\ seen \subseteq Dep /\ up \subseteq seen
  /\ state \in [Dep -> {"notProbed", "ok", "err"}]
  /\ pass \in [at: {"wait", "probe", "record"}, results: [Dep -> {"none", "ok", "err"}]]
  /\ ready \in [left: SUBSET Check, status: {0, 200, 503}]
  /\ render.at \in {"idle", "vault", "rendered", "refused"}
  /\ render.at \in {"vault", "rendered"} =>
       render.in \in Request /\ render.params \in [DOMAIN render.in.parameters -> Value]
  /\ vault \subseteq Positions

\* New: not having looked is not the same as healthy.
NotProbed == [d \in Dep |-> "notProbed"]

NoResults == [d \in Dep |-> "none"]
Waiting == [at |-> "wait", results |-> NoResults]

Init ==
  /\ up \in SUBSET Dep /\ seen = up
  /\ state = NotProbed
  /\ pass = Waiting
  /\ ready = NotAsked
  /\ render = NoRender
  /\ vault = {}

----------------------------------------------------------------------------
\* The convergence loop.

\* (Mutant: the loop stops once everything has settled.)
PassDue_Once == \E d \in Dep : state[d] # "ok"

\* Run goes on after Settled: only the delay to the next pass changes.
PassDue == TRUE

BeginPass ==
  /\ pass.at = "wait" /\ PassDue
  /\ pass' = [pass EXCEPT !.at = "probe"]
  /\ UNCHANGED <<up, seen, state, ready, render, vault>>

\* The key set's endpoint answers 200 by the deadline, or it is an error.
probeAuth == IF "auth" \in up THEN "ok" ELSE "err"

\* Client.Probe, on the vault's /readyz.
probeSecret == IF "secret" \in up THEN "ok" ELSE "err"

\* dependencyProbes
probe(d) == IF d = "auth" THEN probeAuth ELSE probeSecret

\* pass: the probes are concurrent goroutines.
Probe(d) ==
  /\ pass.at = "probe" /\ pass.results[d] = "none"
  /\ LET results == [pass.results EXCEPT ![d] = probe(d)] IN
     pass' = [at |-> IF \E e \in Dep : results[e] = "none" THEN "probe" ELSE "record",
              results |-> results]
  /\ UNCHANGED <<up, seen, state, ready, render, vault>>

\* record, one dependency after the other, once all probes have answered.
Record(d) ==
  /\ pass.at = "record" /\ pass.results[d] # "none"
  /\ state' = [state EXCEPT ![d] = pass.results[d]]
  /\ LET results == [pass.results EXCEPT ![d] = "none"] IN
     pass' = [at |-> IF results = NoResults THEN "wait" ELSE "record", results |-> results]
  /\ UNCHANGED <<up, seen, ready, render, vault>>

\* What the last recorded state says of d; auth is answered for by the guard unless
\* that enforces.
readiness(d) ==
  IF d = "auth" /\ Mode # "enforced" THEN Mode = "dev-open" ELSE state[d] = "ok"

\* (Mutant: a check whose deadline has passed is left out.)
readyz_Skips(k) == IF k \in Dep THEN {readiness(k), TRUE} ELSE BOOLEAN

\* How check k may come out: one of a dependency looks at the recorded state, the
\* others outside; none is waited for past the one deadline.
readyz(k) == IF k \in Dep THEN {readiness(k), FALSE} ELSE BOOLEAN

\* readyz runs its checks concurrently. (Bound: while nothing is rendered.)
ReadyzBegins ==
  /\ ready = NotAsked /\ render.at = "idle"
  /\ ready' = [left |-> Check, status |-> 200]
  /\ UNCHANGED <<up, seen, state, pass, render, vault>>

ReadyzChecks(k) ==
  /\ k \in ready.left
  /\ \E passes \in readyz(k) :
       ready' = [left |-> ready.left \ {k}, status |-> IF passes THEN ready.status ELSE 503]
  /\ UNCHANGED <<up, seen, state, pass, render, vault>>

ReadyzAnswers ==
  /\ ready.left = {} /\ ready.status # 0
  /\ ready' = NotAsked
  /\ UNCHANGED <<up, seen, state, pass, render, vault>>

----------------------------------------------------------------------------
\* Rendering.

\* coerceParam; "error" when the value does not have the declared type.
coerceParam(p, v) ==
  CASE p.type = "string" -> (CASE v = "number" -> "digits" [] v = "bool" -> "text" [] OTHER -> v)
    [] p.type = "int"    -> IF v \in {"number", "digits"} THEN "number" ELSE "error"
    [] p.type = "bool"   -> IF v = "bool" THEN "bool" ELSE "error"
    [] OTHER             -> "error"

\* (Mutant: a value of the wrong type is handed on.)
resolveParam_Uncoerced(p, v) ==
  IF p.type = "secret" \/ v \notin Unset THEN v ELSE p.default

\* One parameter of resolveParams: it has a name, a secret is left alone, an unset
\* value takes the default, and stays what it is when there is none.
resolveParam(p, v) ==
  LET given == IF v \in Unset THEN p.default ELSE v IN
  CASE ~p.named -> "error"
    [] p.named /\ p.type = "secret" -> v
    [] p.named /\ p.type # "secret" /\ given # "absent" -> coerceParam(p, given)
    [] p.named /\ p.type # "secret" /\ given = "absent" -> IF p.required THEN "error" ELSE v

resolveParams(r) == [i \in DOMAIN r.parameters |-> resolveParam(r.parameters[i], r.supplied[i])]

\* secretValue: store what was supplied or generated; a secret with a default is
\* an error; an optional one nobody supplied is dropped.
secretValue(p, v) ==
  CASE v \in {"text", "digits"} -> "store"
    [] v \notin {"text", "digits"} /\ p.default # "absent" -> "error"
    [] v \notin {"text", "digits"} /\ p.default = "absent" /\ p.generate -> "store"
    [] OTHER -> IF p.required THEN "error" ELSE "drop"

Refuse == render' = [NoRender EXCEPT !.at = "refused"]

GetDeploymentTemplate == {"row", "norows", "error"}

\* Render reads the template and resolves the parameters.
Begin(r) ==
  /\ render.at = "idle" /\ ready = NotAsked
  /\ \E got \in GetDeploymentTemplate : LET params == resolveParams(r) IN
     IF got # "row" \/ \E i \in DOMAIN params : params[i] = "error"
       THEN Refuse
       ELSE render' = [at |-> "vault", in |-> r, i |-> 1, params |-> params]
  /\ UNCHANGED <<up, seen, state, pass, ready, vault>>

\* vaultSecrets' loop: the next parameter that is not a secret is skipped, one
\* that need not be stored is dropped, one that cannot be is refused.
Param == render.in.parameters[render.i]
AtSecret == render.at = "vault" /\ render.i <= Len(render.in.parameters)

VaultSkips ==
  /\ AtSecret
  /\ \/ /\ Param.type # "secret"
        /\ render' = [render EXCEPT !.i = @ + 1]
     \/ /\ Param.type = "secret" /\ secretValue(Param, render.params[render.i]) = "drop"
        /\ render' = [render EXCEPT !.i = @ + 1, !.params[render.i] = "absent"]
     \/ /\ Param.type = "secret" /\ secretValue(Param, render.params[render.i]) = "error"
        /\ Refuse
  /\ UNCHANGED <<up, seen, state, pass, ready, vault>>

\* (Mutant: when the vault does not answer the value stays where it is.)
Unstored_Inline == render' = [render EXCEPT !.i = @ + 1]

\* (Mutant: when the vault does not answer its reference is used all the same.)
Unstored_Reference == render' = [render EXCEPT !.i = @ + 1, !.params[render.i] = "ref"]

\* There is no fallback when the vault cannot be written.
Unstored == Refuse

\* PutCredential: what the vault may hold when the call failed.
PutCredential == {vault} \cup (IF "secret" \in up THEN {vault \cup {render.i}} ELSE {})

\* Credentials.Store: written and answered with a reference; or not answered, and
\* written or not.
Store ==
  /\ AtSecret
  /\ Param.type = "secret" /\ secretValue(Param, render.params[render.i]) = "store"
  /\ \/ /\ "secret" \in up
        /\ vault' = vault \cup {render.i}
        /\ render' = [render EXCEPT !.i = @ + 1, !.params[render.i] = "ref"]
     \/ /\ vault' \in PutCredential
        /\ Unstored
  /\ UNCHANGED <<up, seen, state, pass, ready>>

\* renderAny fails on a parameter that is not defined (missingkey=error); a nil is.
renderAny == \A i \in render.in.uses : render.params[i] # "absent"

\* No secret is left; the rendered document may still be no valid WorkloadSpec.
Execute ==
  /\ render.at = "vault" /\ render.i > Len(render.in.parameters)
  /\ \/ /\ renderAny
        /\ render' = [render EXCEPT !.at = "rendered"]
     \/ Refuse
  /\ UNCHANGED <<up, seen, state, pass, ready, vault>>

\* Render has returned.
Answer ==
  /\ render.at \in {"rendered", "refused"}
  /\ render' = NoRender
  /\ UNCHANGED <<up, seen, state, pass, ready, vault>>

----------------------------------------------------------------------------
\* The dependencies.

GoesDown(d) ==
  /\ d \in up /\ up' = up \ {d}
  /\ UNCHANGED <<seen, state, pass, ready, render, vault>>

ComesUp(d) ==
  /\ d \notin up /\ up' = up \cup {d} /\ seen' = seen \cup {d}
  /\ UNCHANGED <<state, pass, ready, render, vault>>

LoopStep == BeginPass \/ (\E d \in Dep : Probe(d) \/ Record(d))

ReadyzStep == ReadyzBegins \/ ReadyzAnswers \/ (\E k \in Check : ReadyzChecks(k))

RenderStep == VaultSkips \/ Store \/ Execute \/ Answer

Next ==
  \/ LoopStep
  \/ ReadyzStep
  \/ RenderStep
  \/ \E r \in Request : Begin(r)
  \/ \E d \in Dep : GoesDown(d) \/ ComesUp(d)

Spec == Init /\ [][Next]_vars

\* The loop's goroutine goes on for ever; every probe is bounded by the deadline.
FairSpec == Spec /\ WF_vars(LoopStep)

----------------------------------------------------------------------------
Secret(i) == render.in.parameters[i].type = "secret"

\* NoPlaintext: once vaultSecrets is through, no secret parameter holds anything
\* but a reference, however the vault failed on the way.
NoPlaintext ==
  render.at \in {"vault", "rendered"} =>
    \A i \in 1..(render.i - 1) : Secret(i) => render.params[i] \in {"ref", "absent"}

\* ReferenceResolves: a reference in a render's parameters names an address the
\* vault holds (Store returns no reference it did not write).
ReferenceResolves ==
  \A i \in DOMAIN render.params : render.params[i] = "ref" => i \in vault

\* RenderedIsTyped: what reaches the spec has the type the template declares, and
\* no required parameter is missing; only an optional one may be left unset
\* (resolveParams, secretValue).
RenderedIsTyped ==
  render.at = "rendered" =>
    \A i \in DOMAIN render.params :
      LET p == render.in.parameters[i]
          v == render.params[i]
      IN /\ p.required => v \notin {"absent", "nil"}
         /\ p.type = "int" => v = "number" \/ (~p.required /\ v \in Unset)
         /\ p.type = "bool" => v = "bool" \/ (~p.required /\ v \in Unset)
         /\ p.type # "other" \/ v \in Unset

\* HealthyWasSeen: /readyz answers 200 only if every dependency has answered since
\* this process booted, in whatever order the loop records and the checks look, and
\* however late they are (New's ErrNotProbed; readyz: "reported as failing when the
\* deadline passes"). On an open development server nothing is asked of auth.
HealthyWasSeen ==
  ready.left = {} /\ ready.status = 200 =>
    Dep \subseteq seen \cup (IF Mode = "dev-open" THEN {"auth"} ELSE {})

\* DependencyTracked: an outage that lasts is reported, and so is a recovery that
\* lasts (Run is level-triggered: it goes on probing after everything settled).
DependencyTracked ==
  \A d \in {d \in Dep : d = "auth" => Mode = "enforced"} :
    /\ <>[](d \in up) => <>[]readiness(d)
    /\ <>[](d \notin up) => <>[]~readiness(d)
=============================================================================
