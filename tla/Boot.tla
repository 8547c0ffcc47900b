-------------------------------- MODULE Boot --------------------------------
(***************************************************************************)
(* How a Core process comes up, stage by stage (cmd/server/bootstrap.go,   *)
(* internal/platform/config, internal/platform/database): the secret       *)
(* provider, the environment, the secrets, the dependencies' settings, the *)
(* database, the guards' posture. Every stage either goes on or ends the   *)
(* process.                                                                *)
(*                                                                         *)
(* Of the environment the model keeps what a later stage looks at again.   *)
(* The checks of one variable each (a hostname, a duration, a bound) only  *)
(* end the boot, at the places where Init makes them.                      *)
(***************************************************************************)
EXTENDS Integers, Sequences

CONSTANTS
  PingAttempts,   \* database pings before NewPool gives up, 10 in the code
  TLSFiles        \* which of the gateway's TLS files are set: "cert", "key", "ca"

ASSUME PingAttemptsAssumption == PingAttempts \in Nat \ {0}
ASSUME TLSFilesAssumption == TLSFiles \subseteq {"cert", "key", "ca"}

VARIABLES
  boot,       \* the stage the boot is at and what it has read
  cancelled   \* the signal context, or the errgroup's, is done

bvars == <<boot, cancelled>>

----------------------------------------------------------------------------
\* Secret stores. What a store answers to a read: a value; its own not-found; an
\* answer with nothing in it; one without the value asked for; a refusal of our
\* credentials; no answer. A manager turns it into a value, ErrSecretNotFound or
\* some other error.
StoreAnswer == {"value", "notfound", "nil", "novalue", "denied", "outage"}

Result(a, absent) ==
  CASE a = "value" -> "value" [] a \in absent -> "notfound" [] OTHER -> "error"

envSecretManager(a) == Result(a, StoreAnswer)
fileSecretManager(a) == Result(a, {"notfound"})
awsSecretsManager(a) == Result(a, {"notfound"})
awsSSMSecretManager(a) == Result(a, {"notfound", "nil"})
gcpSecretManager(a) == Result(a, {"notfound", "nil"})
azureKeyVaultManager(a) == Result(a, {"notfound", "nil"})

vaultSecretManager(a) == Result(a, {"notfound", "nil"})

\* isAuthFailure: a token that lapsed is renewed once, if it came from AppRole.
isAuthFailure(a, approle) == approle /\ a = "denied"

SecretProvider == {"env", "file", "aws_secrets", "aws_ssm", "vault", "gcp", "azure_kv"}

GetSecret(p, a) ==
  CASE p = "env" -> envSecretManager(a)
    [] p = "file" -> fileSecretManager(a)
    [] p = "aws_secrets" -> awsSecretsManager(a)
    [] p = "aws_ssm" -> awsSSMSecretManager(a)
    [] p = "vault" -> vaultSecretManager(a)
    [] p = "gcp" -> gcpSecretManager(a)
    [] p = "azure_kv" -> azureKeyVaultManager(a)

providerIsLocal(p) == p \in {"env", "file"}

\* The answers one read of p may get. Refused with an AppRole token it logs in
\* again and reads once more; when the login fails, the refusal stands.
Reads(p, approle) ==
  LET one == CASE p = "env" -> {"value", "notfound"}
               [] p = "file" -> {"value", "notfound", "outage"}
               [] OTHER -> StoreAnswer
  IN {<<a>> : a \in one}
       \cup {<<a, b>> : a \in {a \in one : isAuthFailure(a, approle)}, b \in one}

----------------------------------------------------------------------------
\* The secrets in the order Init loads them; the last is required.
SecretKeys ==
  <<"SETUP_BOOTSTRAP_TOKEN", "CORE_SETUP_TOKEN", "JWT_PRIVATE_KEY", "JWT_PUBLIC_KEY",
    "APP_ENCRYPTION_KEY", "HMAC_SECRET_KEY", "DB_PASSWORD">>

required(k) == SecretKeys[k] = "DB_PASSWORD"

\* The environment a process starts in, as far as several stages look at it.
Env == {env \in [appEnv: {"development", "production", "staging"}, provider: SecretProvider,
                 strict: BOOLEAN, approle: BOOLEAN] :
          env.approle => env.provider = "vault"}

IsDevelopment(env) == env.appEnv = "development"

\* 'source' and 'heard' are about the last secret loaded: where it came from, and
\* the store's answer that settled it.
BootInit ==
  /\ \E env \in Env : boot = [stage |-> "provider", env |-> env, key |-> 1, attempt |-> 1,
                              source |-> "none", heard |-> "none"]
  /\ cancelled = FALSE

Stage(s) == boot.stage = s
GoOn(s) == boot' = [boot EXCEPT !.stage = s]

\* run returns an error and main exits.
Fail == boot' = [stage |-> "failed"]

\* requireSecureSecretTransport refuses a cleartext address in production; loopback
\* is fine.
requireSecureSecretTransport(env, address) ==
  address \in {"https", "loopback"} \/ env.appEnv # "production"

\* The client has to be made and, without a static token, the AppRole login has to
\* succeed: its two settings, the request, a token in the answer.
newVaultSecretManager(env, address) ==
  IF requireSecureSecretTransport(env, address) THEN {"manager", "error"} ELSE {"error"}

\* ValidateSecretProvider and newSecretManager: an unknown provider, a missing
\* setting, a client that fails.
InitSecretManager ==
  /\ Stage("provider")
  /\ \/ boot.env.provider # "vault" /\ (Fail \/ GoOn("environment"))
     \/ /\ boot.env.provider = "vault"
        /\ \E address \in {"https", "loopback", "http"} :
             \E made \in newVaultSecretManager(boot.env, address) :
               IF made = "manager" THEN GoOn("environment") ELSE Fail
  /\ UNCHANGED cancelled

\* A control plane needs the gateway's certificate, key and client CA.
validateControlPlaneTLS(enabled) == enabled => {"cert", "key", "ca"} \subseteq TLSFiles

\* INSTANCE_ROLE: lower case, regular when it is set to nothing.
resolveInstanceRole(raw) ==
  CASE raw = "" -> "regular" [] raw \in {"system", "regular"} -> raw [] OTHER -> "error"

\* The variables read before the secrets: hostnames, the setup window, the role,
\* the gateway's files.
CheckEnvironment ==
  /\ Stage("environment")
  /\ \/ Fail
     \/ \E enabled \in BOOLEAN, role \in {"", "system", "regular", "typo"} :
          IF resolveInstanceRole(role) # "error" /\ validateControlPlaneTLS(enabled)
          THEN GoOn("secrets") ELSE Fail
  /\ UNCHANGED cancelled

\* Those read between the setup tokens and the keys: durations and thresholds that
\* have to be positive, the deployment mode.
CheckThresholds == Stage("secrets") /\ SecretKeys[boot.key] = "JWT_PRIVATE_KEY" /\ Fail

\* The database's own, around its password.
CheckDatabase ==
  \/ Stage("secrets") /\ required(boot.key) /\ Fail
  \/ Stage("dependencies") /\ Fail

----------------------------------------------------------------------------
\* Loading a secret.

Loaded(source, heard) ==
  boot' = [boot EXCEPT !.stage = IF boot.key = Len(SecretKeys) THEN "dependencies" ELSE @,
                       !.key = IF boot.key = Len(SecretKeys) THEN @ ELSE @ + 1,
                       !.attempt = 1, !.source = source, !.heard = heard]

\* loadSecret and loadSecretOptional, for a key that is found nowhere.
Missing(heard) == IF required(boot.key) THEN Fail ELSE Loaded("none", heard)

\* ... and for one that is found. normalizeSecret may not decode it and the
\* encryption key may not have its length; a blank value is no value.
Found(source, heard) ==
  \/ Loaded(source, heard)
  \/ Missing(heard)
  \/ Fail

envFallbackEnabled == ~boot.env.strict

\* (Mutant: the environment is asked whatever the provider's failure was.)
Fallback_AnyFailure(result) == result # "value"

\* resolveSecret: only ErrSecretNotFound means that the provider has no such key.
Fallback(result) == result = "notfound"

\* One attempt of fetchFromProvider, and what resolveSecret makes of it. 'read' are
\* the answers GetSecret got: a second one after a relogin.
LoadSecret ==
  /\ Stage("secrets")
  /\ \E read \in Reads(boot.env.provider, boot.env.approle) :
       LET heard == read[Len(read)]
           result == GetSecret(boot.env.provider, heard)
       IN \/ result = "value" /\ Found("provider", heard)
          \/ /\ Fallback(result)
             /\ \/ Missing(heard)
                \/ /\ boot.env.provider # "env" /\ envFallbackEnabled
                   /\ Found("env-fallback", heard)
          \/ /\ result = "error" /\ ~Fallback(result)
             /\ IF providerIsLocal(boot.env.provider) \/ boot.attempt = 3 THEN Fail
                ELSE boot' = [boot EXCEPT !.attempt = @ + 1]
  /\ UNCHANGED cancelled

----------------------------------------------------------------------------
\* validateDependencies: outside development every AUTH_* variable and an https
\* SECRET_BASE_URL.
validateDependencies(env, auth, secret) ==
  IsDevelopment(env) \/ (auth = "complete" /\ secret = "https")

\* 'auth' tells whether missingAuthVars finds a hole.
ValidateDependencies ==
  /\ Stage("dependencies")
  /\ \E auth \in {"complete", "incomplete"}, secret \in {"unset", "http", "https"} :
       IF validateDependencies(boot.env, auth, secret)
       THEN boot' = [stage |-> "pool", appEnv |-> boot.env.appEnv, auth |-> auth, attempt |-> 1]
       ELSE Fail
  /\ UNCHANGED cancelled

\* WithBackoff, after an attempt that failed: the attempts are used up, the wait is
\* cancelled, or it tries again.
WithBackoff(attempt, maxAttempts) ==
  IF attempt = maxAttempts \/ cancelled THEN Fail
  ELSE boot' = [boot EXCEPT !.attempt = @ + 1]

\* NewPool: SSL in production, then pings until one answers.
NewPool ==
  /\ Stage("pool")
  /\ \/ boot.attempt = 1 /\ boot.appEnv = "production" /\ Fail   \* DB_SSLMODE=disable
     \/ GoOn("migrate")
     \/ WithBackoff(boot.attempt, PingAttempts)
  /\ UNCHANGED cancelled

\* A cancelled context fails both statements.
RunMigrations ==
  /\ Stage("migrate")
  /\ Fail \/ (~cancelled /\ GoOn("mode"))
  /\ UNCHANGED cancelled

\* verifyDeploymentMode: no row, no stamp, or the same one.
VerifyDeploymentMode ==
  /\ Stage("mode")
  /\ \E stamped \in {"none", "", "docker", "kubernetes"}, mode \in {"docker", "kubernetes"} :
       IF stamped \in {"none", "", mode} /\ ~cancelled THEN GoOn("guards") ELSE Fail
  /\ UNCHANGED cancelled

\* buildVerifier: nil when something is missing, or when it cannot be made.
buildVerifier(auth) == IF auth = "complete" THEN {"nil", "verifier"} ELSE {"nil"}

resolveHTTPGuard(verifier, appEnv) ==
  CASE verifier = "verifier" -> "enforced"
    [] verifier = "nil" /\ appEnv = "development" -> "dev-open"
    [] OTHER -> "unavailable"

resolveGRPCGuard(verifier, appEnv) ==
  CASE verifier = "verifier" -> "enforced"
    [] verifier = "nil" /\ appEnv = "development" -> "dev-open"
    [] OTHER -> "health-only"

\* serverTLSConfig: nothing set is plaintext; half a pair, or client certificates
\* demanded without a CA to check them, is an error, and so is a file that does
\* not load (the listener's failure, below).
serverTLSConfig(requireClientCert) ==
  CASE TLSFiles = {} -> "plaintext"
    [] TLSFiles # {} /\ {"cert", "key"} \subseteq TLSFiles
         /\ (requireClientCert => "ca" \in TLSFiles) -> "tls"
    [] OTHER -> "error"

BootNext ==
  \/ InitSecretManager \/ CheckEnvironment \/ LoadSecret
  \/ (CheckThresholds \/ CheckDatabase) /\ UNCHANGED cancelled
  \/ ValidateDependencies
  \/ NewPool \/ RunMigrations \/ VerifyDeploymentMode

----------------------------------------------------------------------------
\* A secret is taken from the environment only when its store has said that it
\* holds none: not while the store is away or refuses Core, however many attempts
\* and relogins that takes, and never with SECRET_STRICT (resolveSecret: "treating
\* an outage as 'not configured' would silently boot the service on a stale
\* environment value").
FallbackOnlyWhenAbsent ==
  boot.stage \in {"secrets", "dependencies"} /\ boot.source = "env-fallback" =>
    boot.heard \in {"notfound", "nil"} /\ ~boot.env.strict /\ boot.env.provider # "env"
=============================================================================
