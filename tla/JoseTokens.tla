------------------------------ MODULE JoseTokens ------------------------------
(***************************************************************************)
(* The JOSE profile (jose/jose.go): an issuer whose key rotates creates     *)
(* tokens; verifications check the claims, obtain the issuer's verified     *)
(* keys, and after a failed signature evict the domain and verify once      *)
(* more, limited by RefreshLimiter.                                         *)
(*                                                                         *)
(* The clock runs in ticks, PerSecond of them to a second: claims carry     *)
(* whole seconds.  Tokens are those the issuer made: they parse, and issuer *)
(* and subject are its domain.  A key stands for its kid and algorithm, a   *)
(* key set is a set of keys.                                                *)
(***************************************************************************)
EXTENDS Naturals, FiniteSets, Functions

CONSTANTS Kids, Verifiers,
          Audiences, Local,  \* audiences of tokens, and the verifiers' own
          PerSecond,
          Lifetimes,     \* requested lifetimes, in ticks
          MaxLifetime,   \* Config.MaxLifetime, in ticks
          ClockSkew,     \* in ticks
          Window,        \* signatureFailureRefreshBackoff, in ticks
          MaxTime, MaxTokens,
          None

VARIABLES now,
          active,     \* the issuer's active key
          published,  \* the keys its verified JWKS holds
          creating,   \* a token being created
          tokens,     \* tokens created
          cached,     \* the verifier's cached key set of the issuer
          retryAt,    \* the refresh limiter
          ver,        \* the verifications
          results     \* what they returned

vars == <<now, active, published, creating, tokens, cached, retryAt, ver, results>>

Limiter == INSTANCE RefreshLimiter WITH Capacity <- 1024

\* Unix(): whole seconds, here in ticks.
Unix(t) == (t \div PerSecond) * PerSecond

(* Mutants. *)
HeldKeepsFirst(v, keys) == ver[v].keys

-----------------------------------------------------------------------------
(* CreateJWT and CreateJWS *)

\* The expiry must be later than the creation at the resolution of the claims.
Resolvable(t, lifetime) == Unix(t + lifetime) > Unix(t)

JWT(t, lifetime, aud, kid) ==
    [kind |-> "jwt", kid |-> kid, by |-> None, aud |-> aud, iat |-> Unix(t), exp |-> Unix(t + lifetime), at |-> t]

BeginCreateJWT ==
    /\ creating = None /\ Cardinality(tokens) < MaxTokens
    /\ \E lifetime \in Lifetimes, aud \in Audiences :
         /\ lifetime <= MaxLifetime /\ Resolvable(now, lifetime)
         /\ creating' = JWT(now, lifetime, aud, active)
    /\ UNCHANGED <<now, active, published, tokens, cached, retryAt, ver, results>>

BeginCreateJWS ==
    /\ creating = None /\ Cardinality(tokens) < MaxTokens
    /\ creating' = [kind |-> "jws", kid |-> active, by |-> None]
    /\ UNCHANGED <<now, active, published, tokens, cached, retryAt, ver, results>>

\* The key that signs must be the one the header names.
SignerMatches(tok) == active = tok.kid

Sign ==
    /\ creating # None
    /\ tokens' = IF SignerMatches(creating) THEN tokens \cup {[creating EXCEPT !.by = active]} ELSE tokens
    /\ creating' = None
    /\ UNCHANGED <<now, active, published, cached, retryAt, ver, results>>

\* The issuer publishes a new key, activates it, and drops the old one.
PublishKey ==
    /\ \E k \in Kids \ published : published' = published \cup {k}
    /\ UNCHANGED <<now, active, creating, tokens, cached, retryAt, ver, results>>

Activate ==
    /\ active' \in published \ {active}
    /\ UNCHANGED <<now, published, creating, tokens, cached, retryAt, ver, results>>

WithdrawKey ==
    /\ \E k \in published \ {active} : published' = published \ {k}
    /\ UNCHANGED <<now, active, creating, tokens, cached, retryAt, ver, results>>

-----------------------------------------------------------------------------
(* VerifyJWT and VerifyJWS *)

\* validateJWTClaims.
ValidClaims(tok) ==
    /\ now < tok.exp
    /\ tok.iat <= now + ClockSkew
    /\ tok.exp > tok.iat
    /\ tok.exp - tok.iat <= MaxLifetime
    /\ tok.aud = Local

\* The key the header names is in the set and made it.
SignatureValid(tok, keys) == tok.kid \in keys /\ tok.by = tok.kid

Idle == [pc |-> "idle"]
Goto(v, to) == ver' = [ver EXCEPT ![v] = to]

BeginVerify(v) ==
    /\ ver[v].pc = "idle"
    /\ \E tok \in tokens : /\ tok.kind = "jwt" => ValidClaims(tok)
                           /\ Goto(v, [pc |-> "identity", token |-> tok])
    /\ UNCHANGED <<now, active, published, creating, tokens, cached, retryAt, results>>

\* VerifyIdentity: the cached key set, or the one published now.
Resolved == IF cached # None THEN cached ELSE published

\* Only VerifyJWT verifies the identity a second time.
Refreshes(tok) == tok.kind = "jwt"

Identify(v) ==
    /\ ver[v].pc = "identity"
    /\ cached' = Resolved
    /\ Goto(v, IF SignatureValid(ver[v].token, Resolved)
               THEN [pc |-> "final", token |-> ver[v].token, keys |-> Resolved]
               ELSE IF Refreshes(ver[v].token)
               THEN [pc |-> "refresh", token |-> ver[v].token, keys |-> Resolved]
               ELSE Idle)
    /\ UNCHANGED <<now, active, published, creating, tokens, retryAt, results>>

EvictIssuer(v) ==
    /\ ver[v].pc = "refresh"
    /\ retryAt' = Limiter!AfterAsking(retryAt, "issuer", now)
    /\ IF Limiter!AllowRefresh(retryAt, "issuer", now)
       THEN cached' = None /\ Goto(v, [ver[v] EXCEPT !.pc = "retry"])
       ELSE UNCHANGED cached /\ Goto(v, Idle)
    /\ UNCHANGED <<now, active, published, creating, tokens, results>>

\* The evidence that is returned is the one whose keys verified the token.
Held(v, keys) == keys

VerifyAgain(v) ==
    /\ ver[v].pc = "retry"
    /\ cached' = Resolved
    /\ Goto(v, IF SignatureValid(ver[v].token, Resolved)
               THEN [ver[v] EXCEPT !.pc = "final", !.keys = Held(v, Resolved)]
               ELSE Idle)
    /\ UNCHANGED <<now, active, published, creating, tokens, retryAt, results>>

NotExpired(tok) == tok.kind = "jwt" => now < tok.exp

Accept(v) ==
    /\ ver[v].pc = "final" /\ NotExpired(ver[v].token)
    /\ results' = results \cup {[token |-> ver[v].token, keys |-> ver[v].keys, at |-> now]}
    /\ Goto(v, Idle)
    /\ UNCHANGED <<now, active, published, creating, tokens, cached, retryAt>>

\* A check or the identity verification fails, or the deadline passes.
Refuse(v) ==
    /\ ver[v].pc # "idle"
    /\ Goto(v, Idle)
    /\ UNCHANGED <<now, active, published, creating, tokens, cached, retryAt, results>>

\* The cached entry reaches the end of its lifetime.
CacheExpires ==
    /\ cached # None /\ cached' = None
    /\ UNCHANGED <<now, active, published, creating, tokens, retryAt, ver, results>>

Tick == now < MaxTime /\ now' = now + 1
          /\ UNCHANGED <<active, published, creating, tokens, cached, retryAt, ver, results>>

Init ==
    /\ now \in 0 .. (PerSecond - 1)
    /\ active \in Kids /\ published = {active}
    /\ creating = None /\ tokens = {}
    /\ cached = None /\ retryAt = <<>>
    /\ ver = [v \in Verifiers |-> Idle] /\ results = {}

Next == \/ Tick \/ BeginCreateJWT \/ BeginCreateJWS \/ Sign \/ PublishKey \/ Activate \/ WithdrawKey \/ CacheExpires
        \/ \E v \in Verifiers : \/ BeginVerify(v) \/ Identify(v) \/ EvictIssuer(v) \/ VerifyAgain(v)
                                \/ Accept(v) \/ Refuse(v)

Spec == Init /\ [][Next]_vars

-----------------------------------------------------------------------------
(* Properties *)

\* The evidence VerifyJWT returns is evidence for the token it returns: its key
\* set holds the key that signed, also when the first one did not and the
\* domain was evicted and verified again.
EvidenceHoldsSigner == \A r \in results : r.token.by \in r.keys

\* No token is accepted once it has expired, however long obtaining the
\* identity took.
AcceptedBeforeExpiry == \A r \in results : r.token.kind = "jwt" => r.at < r.token.exp

\* A token names the key that signed it, although the key may be rotated
\* between building and signing.
TokenNamesItsKey == \A tok \in tokens : tok.by = tok.kid

\* A token that CreateJWT returns would at that instant pass the claims check
\* of a verifier with the same configuration: truncation to whole seconds does
\* not expire it.  It can make it too long, by less than a second and only under
\* a MaxLifetime that is not whole seconds: createJWT caps the lifetime before
\* the times are truncated.
TooLong(tok) ==
    LET excess == tok.exp - tok.iat - MaxLifetime IN excess > 0 /\ excess < PerSecond /\ MaxLifetime % PerSecond # 0

CreatedIsValid ==
    creating # None => (creating.kind = "jwt" /\ creating.at = now /\ creating.aud = Local
                          => ValidClaims(creating) \/ TooLong(creating))
=============================================================================
