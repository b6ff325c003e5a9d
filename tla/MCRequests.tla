----------------------------- MODULE MCRequests -----------------------------
(***************************************************************************)
(* Signed messages and tokens between agents, servers and issuers, whose   *)
(* keys rotate while they are made, delivered and verified.                *)
(***************************************************************************)
EXTENDS Parts, Integers

CONSTANTS Pair, Verifiers

\* One signed request, presented to two verifiers again and again.
Bots == INSTANCE WebBotAuth WITH
    Keys <- Pair, RequestTTL <- 1, DirectoryTTL <- 4, Backdate <- 1, Skew <- 1,
    Window <- 2, Offsets <- {0}, Life <- 1, MaxTime <- 2, MaxRequests <- 1,
    MaxDirectories <- 1,
    now <- v1, ahead <- v2, active <- v3, ku <- v4, lastKu <- v5, signing <- v6,
    requests <- v7, served <- v8, evidence <- v9, retryAt <- v10, nonces <- v11,
    ver <- v12, accepted <- v13

\* The key directory, served by clocks that differ by one unit.
Directory == INSTANCE WebBotAuth WITH
    Keys <- Pair, RequestTTL <- 1, DirectoryTTL <- 4, Backdate <- 1, Skew <- 1,
    Window <- 2, Verifiers <- {"v"}, Offsets <- -1 .. 1, Life <- 2, MaxTime <- 5,
    MaxRequests <- 0, MaxDirectories <- 2,
    now <- v1, ahead <- v2, active <- v3, ku <- v4, lastKu <- v5, signing <- v6,
    requests <- v7, served <- v8, evidence <- v9, retryAt <- v10, nonces <- v11,
    ver <- v12, accepted <- v13

\* One token, verified by two verifiers while the issuer's key rotates. No
\* lifetime is whole seconds.
Tokens == INSTANCE JoseTokens WITH
    Kids <- Pair, Audiences <- {"here", "there"}, Local <- "here", PerSecond <- 2,
    Lifetimes <- {1, 3}, MaxLifetime <- 3, ClockSkew <- 0, Window <- 2, MaxTime <- 3,
    MaxTokens <- 1,
    now <- v1, active <- v2, published <- v3, creating <- v4, tokens <- v5,
    cached <- v6, retryAt <- v7, ver <- v8, results <- v9

\* One signed request, altered three times on the way.
Requests == INSTANCE HTTPSignatures WITH
    Exchanges <- {"e1"}, ClockSkew <- 0, ResponseLifetime <- 1, MaxTime <- 2,
    Bodies <- Pair, MaxAge <- 1, MaxAlterations <- 3, Empty <- "empty",
    now <- v1, sent <- v2, request <- v3, seen <- v4, trial <- v5, verified <- v6,
    response <- v7, made <- v8, check <- v9, got <- v10, altered <- v11

\* Two exchanges with signed responses, which may be swapped or altered.
Responses == INSTANCE HTTPSignatures WITH
    Exchanges <- Verifiers, ClockSkew <- 0, ResponseLifetime <- 1, MaxTime <- 2,
    Bodies <- Pair, MaxAge <- 3, MaxAlterations <- 1, Empty <- "empty",
    now <- v1, sent <- v2, request <- v3, seen <- v4, trial <- v5, verified <- v6,
    response <- v7, made <- v8, check <- v9, got <- v10, altered <- v11

\* An agent that exchanges assertions at three issuers, two of them at one
\* origin, which answer with any discovery document.
Agent == INSTANCE OIDCFederation WITH
    AllowedIssuers <- {"i1"}, TokenKids <- {"t"}, Local <- "here", PerSecond <- 2,
    Lifetimes <- {1, 2}, MaxAssertionLifetime <- 2, ClockSkew <- 0,
    TokenLifetime <- 2, MaxStatusAge <- 1, MaxTokens <- 1,
    Issuers <- {"i1", "i2", "i3"}, Elsewhere <- {"i3"}, Kids <- Pair,
    TokenKeys <- {"k1"}, Audiences <- {"here"}, MaxTime <- 2, MaxAssertions <- 2,
    now <- v1, active <- v2, agent <- v3, assertions <- v4, sent <- v5, served <- v6,
    tokens <- v7, revoked <- v8, ver <- v9, results <- v10

\* A relying party that verifies the tokens of an issuer that changes its keys
\* and shares its origin with another.
Relying == INSTANCE OIDCFederation WITH
    AllowedIssuers <- {"i1"}, TokenKids <- {"t"}, Local <- "here", PerSecond <- 2,
    Lifetimes <- {1, 2}, MaxAssertionLifetime <- 2, ClockSkew <- 0,
    TokenLifetime <- 2, MaxStatusAge <- 1, MaxTokens <- 1, Issuers <- {"i1", "i2"},
    Elsewhere <- {}, Kids <- {"a1"}, TokenKeys <- {"k1", "k2"},
    Audiences <- {"here", "there"}, MaxTime <- 3, MaxAssertions <- 1,
    now <- v1, active <- v2, agent <- v3, assertions <- v4, sent <- v5, served <- v6,
    tokens <- v7, revoked <- v8, ver <- v9, results <- v10

\* Refreshes of four domains through a limiter with room for two.
Limited == INSTANCE LimitedRefreshes WITH
    Window <- 2, Capacity <- 2, Domains <- 1 .. 4, MaxTime <- 6,
    retryAt <- v1, now <- v2, last <- v3

-----------------------------------------------------------------------------
Init ==
    \/ part = "bots" /\ Bots!Init /\ Unused(13)
    \/ part = "directory" /\ Directory!Init /\ Unused(13)
    \/ part = "tokens" /\ Tokens!Init /\ Unused(9)
    \/ part = "requests" /\ Requests!Init /\ Unused(11)
    \/ part = "responses" /\ Responses!Init /\ Unused(11)
    \/ part = "exchange" /\ Agent!Init /\ Unused(10)
    \/ part = "relying" /\ Relying!Init /\ Unused(10)
    \/ part = "limiter" /\ Limited!Init /\ Unused(3)

Next ==
    \/ part = "bots" /\ Bots!Next /\ Still(13)
    \/ part = "directory" /\ Directory!ServeNext /\ Still(13)
    \/ part = "tokens" /\ Tokens!Next /\ Still(9)
    \/ part = "requests" /\ Requests!RequestNext /\ Still(11)
    \/ part = "responses" /\ Responses!ResponseNext /\ Still(11)
    \/ part = "exchange" /\ Agent!AgentAlone /\ Still(10)
    \/ part = "relying" /\ Relying!VerifyAlone /\ Still(10)
    \/ part = "limiter" /\ Limited!Next /\ Still(3)

Spec == Init /\ [][Next]_vars

Symmetry == Permutations(Pair) \cup Permutations(Verifiers)

-----------------------------------------------------------------------------
(* Properties *)

\* With a replay policy no request is accepted twice, an accepted request
\* carries a key that the domain published less than the lifetime of the
\* evidence ago, and messages name the key that signed them; a directory that
\* has just been served is usable (web bot auth).
AcceptedOnce ==
    /\ part = "bots" => Bots!AcceptedOnce /\ Bots!AcceptedKeyWasCurrent /\ Bots!SignatureNamesItsKey
    /\ part = "directory" => Directory!ServedIsUsable

\* The evidence VerifyJWT returns holds the key that signed the token, also
\* when the domain was evicted and verified again; no token is accepted once it
\* has expired, tokens name the key that signed them, and a token just created
\* is valid, unless the truncation of its times makes it last longer than a
\* maximum that is not whole seconds (jose).
EvidenceHoldsSigner ==
    part = "tokens" => /\ Tokens!EvidenceHoldsSigner /\ Tokens!AcceptedBeforeExpiry
                       /\ Tokens!TokenNamesItsKey /\ Tokens!CreatedIsValid


\* The refresh limiter remembers exactly the refreshes of the last window and
\* never outgrows its capacity: a domain is refused if and only if it was
\* refreshed within the window, or as many others were as the table holds
\* (allowKeyRefresh, allowSignatureFailureRefresh).
LimiterExact == part = "limiter" => Limited!LimiterExact

\* An assertion goes only to a token endpoint at the origin of the issuer it is
\* addressed to, whatever discovery documents say, and has not expired when it
\* is built; a token is not accepted once expired, under an ambiguous kid, or
\* for a subject that was revoked longer before the call than its status may be
\* old (oidc).
SentToItsAudience ==
    /\ part = "exchange" => Agent!SentToItsAudience /\ Agent!AssertionNotBornExpired
    /\ part = "relying" => /\ Relying!AcceptedBeforeExpiry /\ Relying!AmbiguousKidRefused
                           /\ Relying!RevokedSubjectRefused
=============================================================================
