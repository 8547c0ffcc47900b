------------------------------ MODULE TokenCache ------------------------------
(***************************************************************************)
(* The access token Core presents to maintainerd-secret                    *)
(* (internal/authctrl/token.go, outbound.go), for calls that write to the  *)
(* vault at the same time (internal/secretctrl PutCredential). One mutex   *)
(* guards the cached token and is held while a new one is minted; a call's *)
(* deadline covers the mint and the write, not the wait for the mutex.     *)
(*                                                                         *)
(* Time runs in ticks. Instead of the clock the model keeps what is left:  *)
(* of a token's life at Auth, and of the time Core keeps it for.           *)
(***************************************************************************)
EXTENDS Integers

CONSTANTS
  Caller,       \* calls that need a token
  NoCaller,
  Timeout,      \* a call's deadline, DEPENDENCY_PROBE_TIMEOUT
  RefreshSkew,  \* how long before its expiry a token is replaced
  DefaultTTL,   \* the lifetime assumed when Auth states none
  Grants        \* the lifetimes Auth gives: [said |-> 0 when not stated, real]

\* The deadline is configuration nothing compares with the skew: the cache is
\* right for deadlines up to half of it, and for tokens that live four deadlines.
ASSUME NoCallerAssumption == NoCaller \notin Caller
ASSUME TimeAssumption ==
  /\ Timeout \in Nat \ {0} /\ RefreshSkew \in Nat /\ DefaultTTL \in Nat
  /\ 2 * Timeout <= RefreshSkew /\ 4 * Timeout <= DefaultTTL
ASSUME GrantsAssumption ==
  \A g \in Grants :
    /\ g.said \in Nat /\ g.real \in Nat
    /\ g.said # 0 => g.said = g.real /\ 4 * Timeout <= g.said
    /\ g.said = 0 => DefaultTTL <= g.real

VARIABLES
  token,   \* tokenSource.token, exp: what is left of its life, how long it is kept
  mu,      \* who holds tokenSource.mu
  call     \* where each call is

tvars == <<token, mu, call>>

NoToken == [left |-> 0, kept |-> 0]

\* 'spent' of its deadline; 'left' of the life of the token it was issued or has in
\* hand; 'said' is the lifetime the token endpoint stated.
NoCall == [at |-> "idle", spent |-> 0, left |-> 0, said |-> 0]

TokenInit == token = NoToken /\ mu = NoCaller /\ call = [c \in Caller |-> NoCall]

Goes(c, at) == call' = [call EXCEPT ![c] = [NoCall EXCEPT !.at = at]]

----------------------------------------------------------------------------
\* PutCredential asks OutboundTokens for a token; without a control identity there
\* is none.
Ask(c) ==
  /\ call[c].at = "idle"
  /\ Goes(c, "lock") \/ Goes(c, "failed")
  /\ UNCHANGED <<token, mu>>

Usable == token.kept > 0

\* Token: the cached token while it is kept, or the mutex and a mint.
Token(c) ==
  /\ call[c].at = "lock" /\ mu = NoCaller
  /\ \/ /\ Usable
        /\ call' = [call EXCEPT ![c].at = "write", ![c].left = token.left]
        /\ UNCHANGED mu
     \/ /\ ~Usable
        /\ call' = [call EXCEPT ![c].at = "mint"]
        /\ mu' = c
  /\ UNCHANGED token

\* The token endpoint issues a token, which lives from now on.
Issue(c) ==
  /\ call[c].at = "mint" /\ call[c].spent < Timeout
  /\ \E g \in Grants :
       call' = [call EXCEPT ![c].at = "issued", ![c].left = g.real, ![c].said = g.said]
  /\ UNCHANGED <<token, mu>>

\* postToken: a lifetime that is not stated is taken to be short.
ttl(said) == IF said = 0 THEN DefaultTTL ELSE said

\* (Mutant: the token is kept to its end.)
skew_None(life) == 0

\* A token shorter than the skew is kept for half of its life.
skew(life) == IF life <= RefreshSkew THEN life \div 2 ELSE RefreshSkew

\* The answer arrives: exp is computed from the time of its arrival.
Minted(c) ==
  /\ call[c].at = "issued"
  /\ token' = [left |-> call[c].left, kept |-> ttl(call[c].said) - skew(ttl(call[c].said))]
  /\ mu' = NoCaller
  /\ call' = [call EXCEPT ![c].at = "write"]

\* (Mutant: the error path keeps the mutex.)
MintFails_Locked(c) ==
  /\ call[c].at \in {"mint", "issued"}
  /\ Goes(c, "failed")
  /\ UNCHANGED <<token, mu>>

\* The endpoint refuses, does not answer in time, or its answer is lost.
MintFails(c) ==
  /\ call[c].at \in {"mint", "issued"}
  /\ mu' = NoCaller
  /\ Goes(c, "failed")
  /\ UNCHANGED token

\* The write reaches the vault, which looks at the token; or it fails.
Write(c) ==
  /\ call[c].at = "write"
  /\ \/ call[c].spent < Timeout /\ Goes(c, IF call[c].left > 0 THEN "stored" ELSE "refused")
     \/ Goes(c, "failed")
  /\ UNCHANGED <<token, mu>>

Return(c) ==
  /\ call[c].at \in {"stored", "refused", "failed"}
  /\ Goes(c, "idle")
  /\ UNCHANGED <<token, mu>>

----------------------------------------------------------------------------
Less(n) == IF n = 0 THEN 0 ELSE n - 1

Later(k) ==
  [k EXCEPT !.left = Less(k.left),
            !.spent = IF k.at # "idle" /\ k.spent < Timeout THEN k.spent + 1 ELSE k.spent]

\* Time passes, but not over a deadline: a call that has one fails by then.
Tick ==
  /\ \A c \in Caller : call[c].at \in {"mint", "issued", "write"} => call[c].spent < Timeout
  /\ token' = [left |-> Less(token.left), kept |-> Less(token.kept)]
  /\ call' = [c \in Caller |-> Later(call[c])]
  /\ UNCHANGED mu

Answers(c) == Issue(c) \/ Minted(c) \/ MintFails(c) \/ Write(c)

TokenNext == Tick \/ \E c \in Caller : Ask(c) \/ Token(c) \/ Answers(c) \/ Return(c)

TokenSpec == TokenInit /\ [][TokenNext]_tvars

----------------------------------------------------------------------------
\* Type invariant.
TokenTypeOK ==
  /\ token \in [left: Nat, kept: Nat]
  /\ mu \in Caller \cup {NoCaller}
  /\ call \in [Caller -> [at: {"idle", "lock", "mint", "issued", "write",
                               "stored", "refused", "failed"},
                          spent: 0 .. Timeout, left: Nat, said: Nat]]

\* A call never rides a token that expires under way: the vault sees every token
\* alive, the cached one's last user and the slowest mint included (Config.RefreshSkew,
\* and exp computed after the mint).
TokenOutlivesCall ==
  \A c \in Caller :
    /\ call[c].at = "write" => call[c].left > 0
    /\ call[c].at # "refused"

\* Every call that asked for a token comes to an end, although the wait for the
\* mutex has no deadline (Token holds it over the mint).
EveryCallAnswered ==
  \A c \in Caller : call[c].at = "lock" ~> call[c].at \in {"idle", "stored", "refused", "failed"}
=============================================================================
