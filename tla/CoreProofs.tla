----------------------------- MODULE CoreProofs -----------------------------
(***************************************************************************)
(* Theorems about a Core process, for any environment, any number of       *)
(* requests and calls, and any tables it starts with.                      *)
(***************************************************************************)
EXTENDS Core, ConsoleProofs, TLAPS

----------------------------------------------------------------------------
\* The token cache of the secrets client, for every number of callers and every
\* deadline, skew and lifetime that the assumptions of TokenCache allow.
\*
\* What a token is kept for ends a deadline before its life does: the mint took at
\* most one deadline out of a skew of at least two. So whoever gets the cached
\* token, at the last moment even, can spend a whole deadline on the write.

\* The cached token outlives the time it is kept for by a deadline; a call with a
\* token in hand has more of it left than of its deadline; an issued token has
\* lost no more than the call has spent.
TokenInv ==
  /\ TokenTypeOK
  /\ token.kept > 0 => token.left >= token.kept + Timeout
  /\ \A c \in Caller :
       /\ call[c].at = "write" => call[c].left + call[c].spent > Timeout
       /\ call[c].at = "issued" =>
            /\ call[c].left + call[c].spent >= ttl(call[c].said)
            /\ call[c].said = 0 \/ 4 * Timeout <= call[c].said
       /\ call[c].at # "refused"

\* What is taken off a lifetime is at least two deadlines, and not all of it.
LEMMA SkewIsWide ==
  ASSUME NEW life \in Nat, 4 * Timeout <= life
  PROVE  skew(life) \in Nat /\ 2 * Timeout <= skew(life) /\ skew(life) <= life
<1>1. CASE life <= RefreshSkew
  BY <1>1, TimeAssumption DEF skew
<1>2. CASE ~(life <= RefreshSkew)
  BY <1>2, TimeAssumption DEF skew
<1> QED BY <1>1, <1>2

\* The lifetime Core reckons with is a number of at least four deadlines.
LEMMA LifetimeIsLong ==
  ASSUME NEW said \in Nat, said = 0 \/ 4 * Timeout <= said
  PROVE  ttl(said) \in Nat /\ 4 * Timeout <= ttl(said)
BY TimeAssumption DEF ttl

\* Nothing is cached and nobody calls yet.
LEMMA TokenInitInv == TokenInit => TokenInv
BY TimeAssumption DEF TokenInit, TokenInv, TokenTypeOK, NoToken, NoCall

\* Time takes as much off the life of a token as it adds to what a call has spent.
LEMMA TickKeepsInv ==
  ASSUME TokenInv, Tick
  PROVE  TokenInv'
<1> USE TimeAssumption DEF TokenInv, TokenTypeOK, Tick, Less
<1>1. token' \in [left: Nat, kept: Nat] /\ mu' \in Caller \cup {NoCaller}
  OBVIOUS
<1>2. token'.kept > 0 => token'.left >= token'.kept + Timeout
  OBVIOUS
<1>3. ASSUME NEW c \in Caller
      PROVE  /\ call'[c] \in [at: {"idle", "lock", "mint", "issued", "write",
                                   "stored", "refused", "failed"},
                              spent: 0 .. Timeout, left: Nat, said: Nat]
             /\ call'[c].at = "write" => call'[c].left + call'[c].spent > Timeout
             /\ call'[c].at = "issued" =>
                  /\ call'[c].left + call'[c].spent >= ttl(call'[c].said)
                  /\ call'[c].said = 0 \/ 4 * Timeout <= call'[c].said
             /\ call'[c].at # "refused"
  <2>1. /\ call[c].spent \in 0 .. Timeout /\ call[c].left \in Nat /\ call[c].said \in Nat
        /\ call'[c].at = call[c].at /\ call'[c].said = call[c].said
        /\ call'[c].left = Less(call[c].left)
        /\ call'[c].spent = IF call[c].at # "idle" /\ call[c].spent < Timeout
                            THEN call[c].spent + 1 ELSE call[c].spent
        /\ call'[c] \in [at: {"idle", "lock", "mint", "issued", "write",
                              "stored", "refused", "failed"},
                         spent: 0 .. Timeout, left: Nat, said: Nat]
    <3>1. /\ call[c] \in [at: {"idle", "lock", "mint", "issued", "write",
                                "stored", "refused", "failed"},
                           spent: 0 .. Timeout, left: Nat, said: Nat]
          /\ call'[c] = Later(call[c])
      BY <1>3
    <3>2. Less(call[c].left) \in Nat /\ (call[c].spent < Timeout => call[c].spent + 1 \in 0 .. Timeout)
      BY <3>1
    <3> QED BY <3>1, <3>2 DEF Later
  <2>2. CASE call[c].at = "write"
    BY <1>3, <2>1, <2>2
  <2>3. CASE call[c].at = "issued"
    <3>1. ttl(call[c].said) \in Nat /\ 4 * Timeout <= ttl(call[c].said)
      BY <1>3, <2>1, <2>3, LifetimeIsLong
    <3> QED BY <1>3, <2>1, <2>3, <3>1
  <2>4. CASE call[c].at \notin {"write", "issued"}
    BY <1>3, <2>1, <2>4
  <2> QED BY <2>2, <2>3, <2>4
<1>4. call' \in [Caller -> [at: {"idle", "lock", "mint", "issued", "write",
                                 "stored", "refused", "failed"},
                            spent: 0 .. Timeout, left: Nat, said: Nat]]
  BY <1>3
<1> QED BY <1>1, <1>2, <1>3, <1>4

\* A call that goes somewhere without a token, or gives one up.
LEMMA GoesKeepsInv ==
  ASSUME TokenInv, NEW c \in Caller,
         NEW at \in {"idle", "lock", "stored", "failed"}, Goes(c, at),
         token' = token, mu' \in Caller \cup {NoCaller}
  PROVE  TokenInv'
BY TimeAssumption DEF TokenInv, TokenTypeOK, Goes, NoCall

\* Neither does a step of a call: the answer that is cached has lost a deadline at most.
LEMMA StepKeepsInv ==
  ASSUME TokenInv, NEW c \in Caller, Ask(c) \/ Token(c) \/ Answers(c) \/ Return(c)
  PROVE  TokenInv'
<1>1. CASE Ask(c)
  BY <1>1, GoesKeepsInv DEF Ask, TokenInv, TokenTypeOK
<1>2. CASE Token(c)
  BY <1>2, TimeAssumption DEF Token, Usable, TokenInv, TokenTypeOK
<1>3. CASE Issue(c)
  <2>1. PICK g \in Grants :
          call' = [call EXCEPT ![c].at = "issued", ![c].left = g.real, ![c].said = g.said]
    BY <1>3 DEF Issue
  <2>2. /\ g.real \in Nat /\ g.said \in Nat
        /\ ttl(g.said) <= g.real /\ ttl(g.said) \in Nat
        /\ g.said = 0 \/ 4 * Timeout <= g.said
    BY GrantsAssumption, TimeAssumption DEF ttl
  <2>3. call[c].spent \in 0 .. Timeout /\ call'[c].spent = call[c].spent
    BY <2>1 DEF TokenInv, TokenTypeOK
  <2>4. g.real + call[c].spent >= ttl(g.said)
    BY <2>2, <2>3, TimeAssumption
  <2>5. call'[c] = [call[c] EXCEPT !.at = "issued", !.left = g.real, !.said = g.said]
    BY <2>1 DEF TokenInv, TokenTypeOK
  <2>6. /\ call'[c].at = "issued" /\ call'[c].left = g.real /\ call'[c].said = g.said
        /\ TokenTypeOK'
    <3> DEFINE Calls == [at: {"idle", "lock", "mint", "issued", "write",
                              "stored", "refused", "failed"},
                         spent: 0 .. Timeout, left: Nat, said: Nat]
    <3>0. call \in [Caller -> Calls] /\ token' = token /\ mu' = mu
          /\ token \in [left: Nat, kept: Nat] /\ mu \in Caller \cup {NoCaller}
      BY <1>3 DEF Issue, TokenInv, TokenTypeOK
    <3>1. PICK old \in Calls : old = call[c]
      BY <3>0
    <3>2. PICK new \in Calls : new = [old EXCEPT !.at = "issued", !.left = g.real, !.said = g.said]
      BY <2>2
    <3>3. new.at = "issued" /\ new.left = g.real /\ new.said = g.said
      BY <3>2
    <3>4. call'[c] = new
      BY <2>5, <3>1, <3>2
    <3> HIDE DEF Calls
    <3>5. call' = [call EXCEPT ![c] = new]
      BY <2>1, <3>0, <3>1, <3>2
    <3>6. call' \in [Caller -> Calls]
      BY <3>0, <3>2, <3>5
    <3>7. TokenTypeOK'
      BY <3>0, <3>6 DEF Calls, TokenTypeOK
    <3> QED BY <3>3, <3>4, <3>7
  <2>7. \A d \in Caller : d # c => call'[d] = call[d]
    BY <2>1 DEF TokenInv, TokenTypeOK
  <2> QED BY <1>3, <2>2, <2>3, <2>4, <2>6, <2>7 DEF Issue, TokenInv
<1>4. CASE Minted(c)
  <2> DEFINE life == ttl(call[c].said)
  <2>1. life \in Nat /\ 4 * Timeout <= life
    BY <1>4, LifetimeIsLong DEF Minted, TokenInv, TokenTypeOK
  <2>2. skew(life) \in Nat /\ 2 * Timeout <= skew(life) /\ skew(life) <= life
    BY <2>1, SkewIsWide
  <2>3. call[c].left \in Nat /\ call[c].spent \in 0 .. Timeout /\ call[c].left + call[c].spent >= life
    BY <1>4 DEF Minted, TokenInv, TokenTypeOK
  <2>4. token' = [left |-> call[c].left, kept |-> life - skew(life)]
    BY <1>4 DEF Minted
  <2> HIDE DEF life
  <2>5. token' \in [left: Nat, kept: Nat] /\ token'.left >= token'.kept + Timeout
    BY <2>1, <2>2, <2>3, <2>4, TimeAssumption
  <2>6. call[c].left + call[c].spent > Timeout
    BY <2>1, <2>3, TimeAssumption
  <2> QED BY <1>4, <2>5, <2>6, TimeAssumption DEF Minted, TokenInv, TokenTypeOK
<1>5. CASE MintFails(c)
  BY <1>5, GoesKeepsInv DEF MintFails
<1>6. CASE Write(c)
  <2>1. call[c].left > 0 \/ call[c].spent = Timeout
    BY <1>6, TimeAssumption DEF Write, TokenInv, TokenTypeOK
  <2> QED BY <1>6, <2>1, GoesKeepsInv, TimeAssumption DEF Write, TokenInv, TokenTypeOK
<1>7. CASE Return(c)
  BY <1>7, GoesKeepsInv DEF Return, TokenInv, TokenTypeOK
<1> QED BY <1>1, <1>2, <1>3, <1>4, <1>5, <1>6, <1>7 DEF Answers

\* The vault sees every token alive: a call with a token in hand has some of its
\* life left, and none is refused.
THEOREM NeverStale == TokenSpec => []TokenOutlivesCall
<1>1. TokenInit => TokenInv
  BY TokenInitInv
<1>2. TokenInv /\ [TokenNext]_tvars => TokenInv'
  <2> SUFFICES ASSUME TokenInv, [TokenNext]_tvars PROVE TokenInv'
    OBVIOUS
  <2>1. CASE Tick
    BY <2>1, TickKeepsInv
  <2>2. CASE \E c \in Caller : Ask(c) \/ Token(c) \/ Answers(c) \/ Return(c)
    BY <2>2, StepKeepsInv
  <2>3. CASE UNCHANGED tvars
    BY <2>3 DEF tvars, TokenInv, TokenTypeOK
  <2> QED BY <2>1, <2>2, <2>3 DEF TokenNext
<1>3. TokenInv => TokenOutlivesCall
  <2> SUFFICES ASSUME TokenInv, NEW c \in Caller
               PROVE  /\ call[c].at = "write" => call[c].left > 0
                      /\ call[c].at # "refused"
    BY DEF TokenOutlivesCall
  <2>1. call[c].left \in Nat /\ call[c].spent \in 0 .. Timeout
    BY DEF TokenInv, TokenTypeOK
  <2> QED BY <2>1, TimeAssumption DEF TokenInv
<1> QED BY <1>1, <1>2, <1>3, PTL DEF TokenSpec

----------------------------------------------------------------------------
\* The secrets.

Early == [stage: {"provider", "environment", "secrets", "dependencies"}, env: Env,
          key: Nat, attempt: Nat, source: {"none", "provider", "env-fallback"},
          heard: StoreAnswer \cup {"none"}]
Middle == [stage: {"pool", "migrate", "mode", "guards"},
           appEnv: {"development", "production", "staging"},
           auth: {"complete", "incomplete"}, attempt: Nat]
Late == [stage: {"files", "running", "failed", "exited"}]
Closing == [stage: {"closing"}, held: SUBSET Call]

\* A secret that came from the environment came from there for the right reason.
Justified(b) ==
  b.source = "env-fallback" =>
    b.heard \in {"notfound", "nil"} /\ ~b.env.strict /\ b.env.provider # "env"

\* What the boot carries at each stage.
BootInv ==
  \/ boot \in Early /\ Justified(boot)
  \/ boot \in Middle
  \/ boot \in Late
  \/ boot \in Closing

\* A store that is not the environment says "not found" with one of two answers.
LEMMA NotFoundAnswers ==
  ASSUME NEW p \in SecretProvider, NEW a \in StoreAnswer, GetSecret(p, a) = "notfound", p # "env"
  PROVE  a \in {"notfound", "nil"}
BY DEF SecretProvider, GetSecret, fileSecretManager, awsSecretsManager, awsSSMSecretManager,
       gcpSecretManager, azureKeyVaultManager, vaultSecretManager, Result

\* The last answer of a read is one of the store's.
LEMMA ReadAnswers ==
  ASSUME NEW p, NEW approle, NEW read \in Reads(p, approle)
  PROVE  read[Len(read)] \in StoreAnswer
<1> DEFINE one == CASE p = "env" -> {"value", "notfound"}
                    [] p = "file" -> {"value", "notfound", "outage"}
                    [] OTHER -> StoreAnswer
<1>1. one \subseteq StoreAnswer
  BY DEF StoreAnswer
<1>2. read \in {<<a>> : a \in one}
        \cup {<<a, b>> : a \in {a \in one : isAuthFailure(a, approle)}, b \in one}
  BY DEF Reads
<1> HIDE DEF one
<1>3. CASE \E a \in one : read = <<a>>
  BY <1>1, <1>3
<1>4. CASE \E a \in one, b \in one : read = <<a, b>>
  BY <1>1, <1>4
<1> QED
  BY <1>2, <1>3, <1>4

\* A secret is loaded: the record keeps its shape.
LEMMA LoadedShape ==
  ASSUME boot \in Early, NEW source \in {"none", "provider", "env-fallback"},
         NEW heard \in StoreAnswer, Loaded(source, heard)
  PROVE  boot' \in Early /\ boot'.env = boot.env /\ boot'.source = source /\ boot'.heard = heard
<1> DEFINE s == IF boot.key = Len(SecretKeys) THEN "dependencies" ELSE boot.stage
           k == IF boot.key = Len(SecretKeys) THEN boot.key ELSE boot.key + 1
<1>1. boot' = [boot EXCEPT !.stage = s, !.key = k, !.attempt = 1, !.source = source, !.heard = heard]
  BY DEF Loaded
<1>2. s \in {"provider", "environment", "secrets", "dependencies"} /\ k \in Nat
  BY DEF Early
<1> HIDE DEF s, k
<1> QED
  BY <1>1, <1>2 DEF Early

\* Loading one secret keeps the record and its justification.
LEMMA LoadKeepsInv ==
  ASSUME boot \in Early, Justified(boot), LoadSecret
  PROVE  BootInv'
<1>1. PICK read \in Reads(boot.env.provider, boot.env.approle) :
        LET heard == read[Len(read)]
            result == GetSecret(boot.env.provider, heard)
        IN \/ result = "value" /\ Found("provider", heard)
           \/ /\ Fallback(result)
              /\ \/ Missing(heard)
                 \/ /\ boot.env.provider # "env" /\ envFallbackEnabled
                    /\ Found("env-fallback", heard)
           \/ /\ result = "error" /\ ~Fallback(result)
              /\ IF providerIsLocal(boot.env.provider) \/ boot.attempt = 3 THEN Fail
                 ELSE boot' = [boot EXCEPT !.attempt = @ + 1]
  BY DEF LoadSecret
<1> DEFINE heard == read[Len(read)]
           result == GetSecret(boot.env.provider, heard)
<1>2. heard \in StoreAnswer /\ boot.env.provider \in SecretProvider
  BY ReadAnswers DEF Early, Env
<1>3. ASSUME NEW source \in {"none", "provider"}, Loaded(source, heard)
      PROVE  BootInv'
  BY <1>2, <1>3, LoadedShape DEF BootInv, Justified
<1>4. Fail => BootInv'
  BY DEF Fail, BootInv, Late, Closing
<1>5. Missing(heard) => BootInv'
  BY <1>3, <1>4 DEF Missing
<1>6. CASE result = "value" /\ Found("provider", heard)
  BY <1>3, <1>4, <1>5, <1>6 DEF Found
<1>7. CASE Fallback(result) /\ boot.env.provider # "env" /\ envFallbackEnabled /\ Loaded("env-fallback", heard)
  <2>1. heard \in {"notfound", "nil"} /\ ~boot.env.strict
    BY <1>2, <1>7, NotFoundAnswers DEF Fallback, envFallbackEnabled
  <2> QED
    BY <1>2, <1>7, <2>1, LoadedShape DEF BootInv, Justified
<1>8. CASE boot' = [boot EXCEPT !.attempt = @ + 1]
  BY <1>8 DEF BootInv, Early, Justified
<1> QED
  BY <1>1, <1>4, <1>5, <1>6, <1>7, <1>8 DEF Found

\* The other stages of the boot.
LEMMA BootKeepsInv ==
  ASSUME BootInv, BootNext
  PROVE  BootInv'
<1> USE DEF Stage, GoOn, Fail
<1>1. CASE InitSecretManager
  <2>1. boot \in Early /\ Justified(boot)
    BY <1>1 DEF InitSecretManager, BootInv, Middle, Late, Closing
  <2>2. boot' = [boot EXCEPT !.stage = "environment"] \/ boot' = [stage |-> "failed"]
    BY <1>1 DEF InitSecretManager
  <2> QED
    BY <2>1, <2>2 DEF BootInv, Early, Late, Closing, Justified
<1>2. CASE CheckEnvironment
  <2>1. boot \in Early /\ Justified(boot)
    BY <1>2 DEF CheckEnvironment, BootInv, Middle, Late, Closing
  <2>2. boot' = [boot EXCEPT !.stage = "secrets"] \/ boot' = [stage |-> "failed"]
    BY <1>2 DEF CheckEnvironment
  <2> QED
    BY <2>1, <2>2 DEF BootInv, Early, Late, Closing, Justified
<1>3. CASE LoadSecret
  BY <1>3, LoadKeepsInv DEF LoadSecret, BootInv, Middle, Late, Closing
<1>4. CASE CheckThresholds \/ CheckDatabase
  BY <1>4 DEF CheckThresholds, CheckDatabase, BootInv, Late, Closing
<1>5. CASE ValidateDependencies
  BY <1>5 DEF ValidateDependencies, BootInv, Early, Middle, Late, Closing, Env
<1>6. CASE NewPool
  BY <1>6 DEF NewPool, WithBackoff, BootInv, Early, Middle, Late, Closing
<1>7. CASE RunMigrations
  BY <1>7 DEF RunMigrations, BootInv, Early, Middle, Late, Closing
<1>8. CASE VerifyDeploymentMode
  <2>1. boot \in Middle
    BY <1>8 DEF VerifyDeploymentMode, BootInv, Early, Late, Closing
  <2>2. boot' = [boot EXCEPT !.stage = "guards"] \/ boot' = [stage |-> "failed"]
    BY <1>8 DEF VerifyDeploymentMode
  <2> QED
    BY <2>1, <2>2 DEF BootInv, Middle, Late, Closing
<1> QED
  BY <1>1, <1>2, <1>3, <1>4, <1>5, <1>6, <1>7, <1>8 DEF BootNext

\* A secret is taken from the environment only when its store has said that it holds
\* none, whatever the store answered to the attempts before (resolveSecret).
THEOREM FallbackIsJustified == Spec => []FallbackOnlyWhenAbsent
<1>1. Init => BootInv
  BY DEF Init, BootInit, BootInv, Early, Justified
<1>2. BootInv /\ [Next]_vars => BootInv'
  <2> SUFFICES ASSUME BootInv, [Next]_vars PROVE BootInv'
    OBVIOUS
  <2>1. CASE BootStep
    BY <2>1, BootKeepsInv DEF BootStep
  <2>2. CASE ResolveGuards \/ Exit
    BY <2>2 DEF ResolveGuards, Exit, BootInv, Late, Closing
  <2>3. CASE ReadFiles
    BY <2>3 DEF ReadFiles, Fail, GoOn, Stage, BootInv, Early, Middle, Late, Closing
  <2>4. CASE Signal
    BY <2>4 DEF Signal, Fail, BootInv, Late, Closing
  <2>5. CASE RESTListens \/ GRPCListens \/ RESTShutdown \/ RESTDown \/ GracefulStop
             \/ GRPCDown \/ Rests \/ UNCHANGED vars
    BY <2>5 DEF RESTListens, GRPCListens, RESTShutdown, RESTDown, GracefulStop, GRPCDown,
                Rests, vars, bvars, BootInv, Justified
  <2>6. ASSUME NEW c \in Call,
               \/ CallStarts(c) \/ ServeRequest(c)
               \/ GatewayArrives(c) \/ GatewayAnswers(c) \/ WatchEnds(c)
        PROVE  boot' = boot
    BY <2>6 DEF CallStarts, ServeRequest, GatewayArrives, GatewayAnswers, WatchEnds, bvars
  <2>7. CASE Vault(TokenNext)
    BY <2>7 DEF Vault, bvars, BootInv, Justified
  <2>8. CASE ClosePool
    BY <2>8 DEF ClosePool, BootInv, Closing
  <2>9. ASSUME NEW c \in Call, ServeWhileClosing(c)
        PROVE  BootInv'
    BY <2>9 DEF ServeWhileClosing, Stage, BootInv, Early, Middle, Late, Closing
  <2> QED
    BY <2>1, <2>2, <2>3, <2>4, <2>5, <2>6, <2>7, <2>8, <2>9 DEF Next, Listeners, BootInv, Justified
<1>3. BootInv => FallbackOnlyWhenAbsent
  BY DEF BootInv, Early, Middle, Late, Closing, Justified, FallbackOnlyWhenAbsent
<1> QED
  BY <1>1, <1>2, <1>3, PTL DEF Spec

----------------------------------------------------------------------------
\* The tokens.

\* In a whole Core, too, the vault sees every token alive (tokenSource.Token).
THEOREM VaultSeesLiveTokens == Spec => []TokenOutlivesCall
<1>1. Init => TokenInit
  BY DEF Init
<1>2. [Next]_vars => [TokenNext]_tvars
  <2> SUFFICES ASSUME [Next]_vars PROVE [TokenNext]_tvars
    OBVIOUS
  <2>1. CASE BootStep \/ ResolveGuards \/ ReadFiles \/ Listeners \/ Signal \/ Rests \/ UNCHANGED vars
    BY <2>1 DEF BootStep, ResolveGuards, ReadFiles, Listeners, Signal, Rests, RESTListens,
                GRPCListens, RESTShutdown, RESTDown, GracefulStop, GRPCDown, ClosePool, Exit, vars
  <2>2. ASSUME NEW c \in Call,
               \/ CallStarts(c) \/ ServeRequest(c) \/ ServeWhileClosing(c)
               \/ GatewayArrives(c) \/ GatewayAnswers(c) \/ WatchEnds(c)
        PROVE  UNCHANGED tvars
    BY <2>2 DEF CallStarts, ServeRequest, ServeWhileClosing, GatewayArrives, GatewayAnswers, WatchEnds
  <2>3. CASE Vault(TokenNext)
    BY <2>3 DEF Vault
  <2> QED
    BY <2>1, <2>2, <2>3 DEF Next
<1> QED
  BY <1>1, <1>2, NeverStale, PTL DEF Spec, TokenSpec

----------------------------------------------------------------------------
\* The console's requests.

\* The console's invariant, and the postures of setup's gate.
ServingInv == ConsoleInv /\ gate \in {"disabled", "open", "token"}

\* The tables and the requests a process starts with.
LEMMA InitServingInv == ASSUME Init PROVE ServingInv
<1>1. Shaped(db) /\ gate = "disabled" /\ req = [c \in Call |-> Idle]
  BY SeedsAssumption DEF Init, ConsoleInit
<1>2. Sound(Idle)
  <2>1. Idle.pc = "idle" /\ Idle.wrote = FALSE /\ Shape(Idle)
    BY DEF Idle, Shape
  <2> QED
    BY <2>1 DEF Sound
<1> QED
  BY <1>1, <1>2 DEF ServingInv, ConsoleInv

\* A gateway call that is answered, refused or starts.
LEMMA GatewayEffect ==
  ASSUME ConsoleInv, NEW c \in Call, GatewayArrives(c) \/ GatewayAnswers(c) \/ WatchEnds(c)
  PROVE  Effect(c)
<1>1. req = [d \in Call |-> req[d]] /\ Harmless(db, db)
  BY SameHarmless DEF ConsoleInv
<1>2. db' = db
  BY DEF GatewayArrives, GatewayAnswers, WatchEnds
<1>3. ASSUME NEW q, Sound(q), req' = [req EXCEPT ![c] = q]
      PROVE  Effect(c)
  BY <1>1, <1>2, <1>3 DEF Effect
<1>4. Sound(Done(0, FALSE, FALSE))
  BY AnsweredSound DEF Done
<1>5. Sound(Called("grpc", "Watch", NoIn, FALSE)) /\ Sound(Called("grpc", "unary", NoIn, FALSE))
  BY CalledSound
<1>6. \/ req' = [req EXCEPT ![c] = Done(0, FALSE, FALSE)]
      \/ req' = [req EXCEPT ![c] = Called("grpc", "Watch", NoIn, FALSE)]
      \/ req' = [req EXCEPT ![c] = Called("grpc", "unary", NoIn, FALSE)]
  BY DEF GatewayArrives, GatewayAnswers, WatchEnds
<1> QED
  BY <1>3, <1>4, <1>5, <1>6

\* What goes on while the pool closes is a statement, or one that fails.
LEMMA ServesClosing ==
  ASSUME NEW c \in Call, ServeWhileClosing(c)
  PROVE  (Statement(c) \/ StatementFails(c)) /\ req[c].seg # "grpc"
BY Zenon DEF ServeWhileClosing, Statement

\* Every step of the process serves one call, or leaves tables and requests alone.
LEMMA NextServes ==
  ASSUME ServingInv, [Next]_vars
  PROVE  \/ \E c \in Call : Effect(c) /\ gate' = gate
         \/ /\ db' = db /\ req' = req
            /\ gate' \in {"disabled", "open", "token"}
<1>1. CASE BootStep \/ ReadFiles \/ Listeners \/ Signal \/ Rests \/ UNCHANGED vars
  BY <1>1 DEF ServingInv, BootStep, ReadFiles, Listeners, Signal, Rests, RESTListens, GRPCListens,
              RESTShutdown, RESTDown, GracefulStop, GRPCDown, ClosePool, Exit, vars, cvars
<1>2. CASE ResolveGuards
  BY <1>2 DEF ResolveGuards, Gate
<1>3. ASSUME NEW c \in Call,
             \/ CallStarts(c) \/ ServeRequest(c) \/ ServeWhileClosing(c)
             \/ GatewayArrives(c) \/ GatewayAnswers(c) \/ WatchEnds(c)
      PROVE  Effect(c) /\ gate' = gate
  <2>1. gate' = gate
    BY <1>3 DEF CallStarts, Arrive, StewardCalls, ServeRequest, ServeWhileClosing, Statement, StatementFails,
                GatewayArrives, GatewayAnswers, WatchEnds
  <2>2. CASE CallStarts(c)
    BY <2>1, <2>2, ArrivalEffect DEF CallStarts, ServingInv
  <2>3. CASE ServeRequest(c) \/ ServeWhileClosing(c)
    BY <2>1, <2>3, StatementEffect, ServesClosing DEF ServeRequest, ServingInv
  <2>4. CASE GatewayArrives(c) \/ GatewayAnswers(c) \/ WatchEnds(c)
    BY <2>1, <2>4, GatewayEffect DEF ServingInv
  <2> QED
    BY <1>3, <2>1, <2>2, <2>3, <2>4
<1>4. CASE Vault(TokenNext)
  BY <1>4 DEF Vault, cvars, ServingInv
<1> QED
  BY <1>1, <1>2, <1>3, <1>4 DEF Next

\* The invariant holds throughout.
LEMMA NextKeepsServingInv ==
  ASSUME ServingInv, [Next]_vars
  PROVE  ServingInv'
<1>1. CASE db' = db /\ req' = req /\ gate' \in {"disabled", "open", "token"}
  BY <1>1 DEF ServingInv, ConsoleInv
<1>2. ASSUME NEW c \in Call, Effect(c), gate' = gate
      PROVE  ServingInv'
  BY <1>2, EffectKeepsInv DEF ServingInv
<1> QED
  BY <1>1, <1>2, NextServes

\* Whatever the requests' interleaving, a write whose row was deleted since it was
\* read changes nothing (every UPDATE filters on deleted_at IS NULL).
THEOREM DeletionIsFinal == Spec => DeletedStaysDeleted
<1>1. ServingInv /\ [Next]_vars =>
        [\A t \in DOMAIN Ids : \A i \in Ids[t] :
           db[t][i].life = "deleted" => db'[t][i] = db[t][i]]_cvars
  BY NextServes DEF Effect, Harmless
<1> QED
  BY <1>1, InitServingInv, NextKeepsServingInv, PTL DEF Spec, DeletedStaysDeleted

\* However requests interleave and wherever their statements fail, one that is told
\* it was wrong has written nothing (HandleServiceError, the services' methods); of
\* setup's trigger that is so of the 409.
THEOREM RefusalsAreClean == Spec => []RefusedWroteNothing
<1>1. ServingInv => RefusedWroteNothing
  BY DEF ServingInv, ConsoleInv, Sound, Honest, Refusals, RefusedWroteNothing
<1> QED
  BY <1>1, InitServingInv, NextKeepsServingInv, PTL DEF Spec

\* For any tables and any callers, what is written was asked for by somebody who may
\* write it (authz.Middleware, setup's Gate).
THEOREM OnlyPermittedWrites == Spec => []WritesNeedPermission
<1>1. ServingInv => WritesNeedPermission
  BY DEF ServingInv, ConsoleInv, Sound, WritesNeedPermission
<1> QED
  BY <1>1, InitServingInv, NextKeepsServingInv, PTL DEF Spec

\* For any interleaving of any requests: a write from a row nobody has changed since
\* it was read keeps what its request left out, and EnsureRegistered never takes a
\* service back (the services' Update methods, EnsureRegistered).
THEOREM FreshWritesKeepTheRest == Spec => FreshWriteKeepsTheRest
<1>1. ASSUME ServingInv, [Next]_vars, NEW c \in Call, FromFresh(c), req'[c] # req[c]
      PROVE  KeepsTheRest(c, db'[req[c].seg][In(c).id])
  <2>1. PICK d \in Call : \/ CallStarts(d) \/ ServeRequest(d) \/ ServeWhileClosing(d)
                          \/ GatewayArrives(d) \/ GatewayAnswers(d) \/ WatchEnds(d)
    <3>1. CASE BootStep \/ ResolveGuards \/ ReadFiles \/ Listeners \/ Signal \/ Rests \/ UNCHANGED vars
      <4>1. req' = req
        BY <3>1 DEF BootStep, ResolveGuards, ReadFiles, Listeners, Signal, Rests, RESTListens,
                    GRPCListens, RESTShutdown, RESTDown, GracefulStop, GRPCDown, ClosePool, Exit, vars, cvars
      <4> QED
        BY <1>1, <4>1
    <3>2. CASE Vault(TokenNext)
      BY <1>1, <3>2 DEF Vault, cvars
    <3> QED
      BY <1>1, <3>1, <3>2 DEF Next
  <2>2. Effect(d)
    BY <1>1, <2>1, ArrivalEffect, StatementEffect, ServesClosing, GatewayEffect
       DEF CallStarts, ServeRequest, ServingInv
  <2>3. d = c
    BY <1>1, <2>2 DEF Effect, ServingInv, ConsoleInv
  <2>4. ~CallStarts(c) /\ ~GatewayArrives(c)
    <3>1. req[c] # Idle
      <4>1. Idle.pc = "idle" /\ req[c].pc = "write"
        BY <1>1 DEF FromFresh, Idle
      <4> QED
        BY <4>1
    <3>2. c \in Nat /\ c >= c
      BY MaxRequestsAssumption DEF Call
    <3>3. ~Starts(c)
      BY <1>1, <3>1, <3>2 DEF Starts
    <3> QED
      BY <3>3 DEF CallStarts, GatewayArrives, Arrive, StewardCalls
  <2>5. ~GatewayAnswers(c) /\ ~WatchEnds(c)
    BY <1>1 DEF FromFresh, GatewayAnswers, WatchEnds
  <2>6. Statement(c) \/ StatementFails(c)
    BY <2>1, <2>3, <2>4, <2>5, ServesClosing DEF ServeRequest
  <2> QED
    BY <1>1, <2>6, StatementKeeps DEF ServingInv, ConsoleInv
<1>2. ServingInv /\ [Next]_vars =>
        [\A c \in Call :
           req[c].pc = "write" /\ req[c].op \in {"update", "updateStatus", "ensure"}
             /\ req'[c] # req[c] /\ db[req[c].seg][In(c).id] = Cur(c) =>
             LET now == db'[req[c].seg][In(c).id]
             IN /\ req[c].op = "ensure" /\ now.status # Cur(c).status => Cur(c).status = "pending"
                /\ req[c].op # "ensure" /\ In(c).val = "" =>
                     IF req[c].seg = "services" THEN now.status = Cur(c).status
                     ELSE now = Cur(c)]_cvars
  BY <1>1 DEF FromFresh, KeepsTheRest
<1> QED
  BY <1>2, InitServingInv, NextKeepsServingInv, PTL DEF Spec, FreshWriteKeepsTheRest
=============================================================================
