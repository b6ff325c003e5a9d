---------------------------- MODULE OIDCFederation ----------------------------
(***************************************************************************)
(* The OIDC profile (oidc/oidc.go): an agent mints assertions and exchanges *)
(* them at the token endpoint an issuer's discovery document names; a       *)
(* relying party verifies the tokens against the keys the issuer serves     *)
(* and verifies their subject as a DNSid domain.                            *)
(*                                                                         *)
(* An issuer stands for its URL and for its endpoints; several issuers may  *)
(* share an origin and differ in the path.  The clock runs in ticks,        *)
(* PerSecond to a second; claims carry whole seconds.  A key of an issuer   *)
(* is an eligible RS256 key.  The agent is the only subject.  How old the   *)
(* status behind VerifyIdentity's answer can be is the subject of           *)
(* VerificationCoordinator; here it is bounded by MaxStatusAge.             *)
(***************************************************************************)
EXTENDS Naturals, FiniteSets

CONSTANTS Issuers, AllowedIssuers,
          Elsewhere,             \* the issuers that do not share the origin of the others
          Kids,                  \* the agent's operational keys
          TokenKids, TokenKeys,  \* kids and keys of issuers
          Audiences, Local,      \* audiences, and the relying party's own
          PerSecond, Lifetimes, MaxAssertionLifetime, ClockSkew, TokenLifetime,  \* in ticks
          MaxStatusAge,          \* StatusCheckInterval and the time a verification may take
          MaxTime, MaxAssertions, MaxTokens,
          None

VARIABLES now,
          active,      \* the agent's active key
          agent,       \* the agent's call
          assertions,  \* assertions created
          sent,        \* [assertion, endpoint] of every exchange
          served,      \* the JWKS of each issuer: a set of [kid, key]
          tokens,      \* tokens the agent was given
          revoked,     \* when the agent's identity was revoked, or None
          ver,         \* the relying party's call
          results      \* what it last returned

agentVars == <<agent, assertions, sent, tokens>>
verVars == <<ver, results>>
world == <<served, revoked>>
vars == <<now, active, world, agentVars, verVars>>

Idle == [pc |-> "idle"]
Unix(t) == (t \div PerSecond) * PerSecond

(* Mutants. *)
AddressedToAny(assertion, issuer) == TRUE

-----------------------------------------------------------------------------
(* CreateOIDCAssertion: the claims and the header are built, then signed *)

Resolvable(t, lifetime) == Unix(t + lifetime) > Unix(t)

Assertion(issuer, lifetime) ==
    [aud |-> issuer, iat |-> Unix(now), exp |-> Unix(now + lifetime), kid |-> active, by |-> None, at |-> now]

\* The assertion with its header, and what is left of the call after signing.
Build(issuer, then) ==
    \E lifetime \in Lifetimes :
        /\ lifetime <= MaxAssertionLifetime /\ Resolvable(now, lifetime)
        /\ agent' = [pc |-> "sign", assertion |-> Assertion(issuer, lifetime), then |-> then]

CreateOIDCAssertion ==
    /\ agent.pc = "idle" /\ Cardinality(assertions) < MaxAssertions
    /\ \E issuer \in Issuers : Build(issuer, Idle)
    /\ UNCHANGED <<now, active, world, assertions, sent, tokens, verVars>>

\* signJWT signs with the key that is active by now.
SignJWT ==
    /\ agent.pc = "sign"
    /\ LET signed == [agent.assertion EXCEPT !.by = active] IN
         /\ assertions' = assertions \cup {signed}
         /\ agent' = IF agent.then.pc = "idle" THEN Idle ELSE [agent.then EXCEPT !.assertion = signed]
    /\ UNCHANGED <<now, active, world, sent, tokens, verVars>>

\* KeyProvider.Activate.
Activate == active' \in Kids \ {active} /\ UNCHANGED <<now, world, agentVars, verVars>>

-----------------------------------------------------------------------------
(* DiscoverOIDCIssuer and ExchangeOIDCToken *)

\* What an issuer may answer: any document.
Documents == [issuer : Issuers, token : Issuers, jwks : Issuers]

SameOrigin(endpoint, issuer) == endpoint = issuer \/ {endpoint, issuer} \cap Elsewhere = {}

\* The document names the issuer that was asked, and endpoints at its origin.
Discovered(doc, issuer) ==
    doc.issuer = issuer /\ SameOrigin(doc.token, issuer) /\ SameOrigin(doc.jwks, issuer)

\* With an assertion built before, or, as in GetOIDCToken, without.
BeginExchange ==
    /\ agent.pc = "idle" /\ Cardinality(tokens) < MaxTokens
    /\ \E issuer \in Issuers, aud \in Audiences, given \in assertions \cup {None} :
         agent' = [pc |-> "discover", issuer |-> issuer, aud |-> aud, assertion |-> given]
    /\ UNCHANGED <<now, active, world, assertions, sent, tokens, verVars>>

\* The sole audience of a given assertion is the issuer.
Addressed(assertion, issuer) == assertion.aud = issuer

Discover ==
    /\ agent.pc = "discover"
    /\ \E doc \in Documents :
         LET post == [pc |-> "post", token |-> doc.token, aud |-> agent.aud, assertion |-> agent.assertion]
         IN  /\ Discovered(doc, agent.issuer)
             /\ IF agent.assertion = None
                THEN Cardinality(assertions) < MaxAssertions /\ Build(doc.issuer, post)
                ELSE Addressed(agent.assertion, doc.issuer) /\ agent' = post
    /\ UNCHANGED <<now, active, world, assertions, sent, tokens, verVars>>

\* The issuer's grant: external.  It takes assertions addressed to it that are
\* current and signed by the key they name.
Grants(issuer, assertion) == assertion.aud = issuer /\ now < assertion.exp /\ assertion.by = assertion.kid

TokensOf(issuer, aud) ==
    {[iss |-> issuer, aud |-> aud, kid |-> e.kid, by |-> e.key, iat |-> Unix(now), exp |-> Unix(now) + TokenLifetime] :
        e \in served[issuer]}

\* The token endpoint answers with a bearer token, or with an error, a
\* redirect or an answer that is no token response.
Post ==
    /\ agent.pc = "post"
    /\ sent' = sent \cup {[assertion |-> agent.assertion, endpoint |-> agent.token]}
    /\ \/ /\ Grants(agent.token, agent.assertion)
          /\ \E tok \in TokensOf(agent.token, agent.aud) : tokens' = tokens \cup {tok}
       \/ UNCHANGED tokens
    /\ agent' = Idle
    /\ UNCHANGED <<now, active, world, assertions, verVars>>

\* A check or the transport fails.
ExchangeFails ==
    /\ agent.pc \in {"discover", "post"}
    /\ agent' = Idle
    /\ UNCHANGED <<now, active, world, assertions, sent, tokens, verVars>>

-----------------------------------------------------------------------------
(* VerifyOIDCToken *)

\* validateTimes: expiry is strict, the other times allow for skew.
ValidTimes(tok) == now < tok.exp /\ tok.iat <= now + ClockSkew /\ tok.exp > tok.iat

BeginVerify ==
    /\ ver.pc = "idle"
    /\ \E tok \in tokens, issuer \in AllowedIssuers, opt \in {"nil", "true", "false"} :
         /\ tok.iss = issuer /\ tok.aud = Local /\ ValidTimes(tok)
         /\ ver' = [pc |-> "keys", token |-> tok, issuer |-> issuer, opt |-> opt, began |-> now]
    /\ UNCHANGED <<now, active, world, agentVars, results>>

\* The JWKS is fetched in every call.
FetchedKeys(doc) == served[doc.jwks]

\* lookupRS256SigningKey: the kid selects exactly one key, or none.
LookupSigningKey(keys, kid) == LET found == {e \in keys : e.kid = kid} IN IF Cardinality(found) = 1 THEN found ELSE {}

\* Unless it is disabled the subject is verified.
VerifiesSubject(opt) == opt # "false"

CheckSignature ==
    /\ ver.pc = "keys" /\ ValidTimes(ver.token)
    /\ \E doc \in Documents :
         /\ Discovered(doc, ver.issuer)
         /\ \E e \in LookupSigningKey(FetchedKeys(doc), ver.token.kid) : e.key = ver.token.by
         /\ ver' = [pc |-> IF VerifiesSubject(ver.opt) THEN "subject" ELSE "final", token |-> ver.token,
                    opt |-> ver.opt, began |-> ver.began, keys |-> FetchedKeys(doc)]
    /\ UNCHANGED <<now, active, world, agentVars, results>>

\* The answer of VerifyIdentity may rest on a cached status, or on one that a
\* verification in flight has read.
StatusHeld == revoked # None => now <= revoked + MaxStatusAge

VerifySubject ==
    /\ ver.pc = "subject" /\ StatusHeld
    /\ ver' = [ver EXCEPT !.pc = "final"]
    /\ UNCHANGED <<now, active, world, agentVars, results>>

FinalTimes(tok) == ValidTimes(tok)

Accept ==
    /\ ver.pc = "final" /\ FinalTimes(ver.token)
    /\ results' = {[token |-> ver.token, at |-> now, opt |-> ver.opt, keys |-> ver.keys, began |-> ver.began]}
    /\ ver' = Idle
    /\ UNCHANGED <<now, active, world, agentVars>>

Refuse ==
    /\ ver.pc # "idle" /\ ver' = Idle
    /\ UNCHANGED <<now, active, world, agentVars, results>>

-----------------------------------------------------------------------------
(* The issuers' keys, the agent's registration and the clock: external *)

Entries == [kid : TokenKids, key : TokenKeys]

ServeKey ==
    /\ \E i \in Issuers, e \in Entries : e \notin served[i] /\ served' = [served EXCEPT ![i] = @ \cup {e}]
    /\ UNCHANGED <<now, active, revoked, agentVars, verVars>>

WithdrawKey ==
    /\ \E i \in Issuers : \E e \in served[i] : served' = [served EXCEPT ![i] = @ \ {e}]
    /\ UNCHANGED <<now, active, revoked, agentVars, verVars>>

Revoke == revoked = None /\ revoked' = now /\ UNCHANGED <<now, active, served, agentVars, verVars>>

Tick == now < MaxTime /\ now' = now + 1 /\ UNCHANGED <<active, world, agentVars, verVars>>

Init ==
    /\ now = 0 /\ active \in Kids
    /\ served \in [Issuers -> {{e} : e \in Entries}]
    /\ agent = Idle /\ assertions = {} /\ sent = {} /\ tokens = {}
    /\ revoked = None /\ ver = Idle /\ results = {}

AgentNext == \/ CreateOIDCAssertion \/ SignJWT \/ BeginExchange \/ Discover \/ Post \/ ExchangeFails

VerifyNext == BeginVerify \/ CheckSignature \/ VerifySubject \/ Accept \/ Refuse

Next == AgentNext \/ VerifyNext \/ Activate \/ ServeKey \/ WithdrawKey \/ Revoke \/ Tick

Spec == Init /\ [][Next]_vars

\* The agent alone: issuers whose keys do not change.
AgentAlone == AgentNext \/ Activate \/ Tick
AgentSpec == Init /\ [][AgentAlone]_vars

\* The relying party alone, with the tokens an agent exchanged.
VerifyAlone == \/ BeginExchange \/ Discover \/ SignJWT \/ Post \/ VerifyNext
               \/ ServeKey \/ WithdrawKey \/ Revoke \/ Tick

-----------------------------------------------------------------------------
(* Properties *)

\* An assertion goes only to a token endpoint at the origin of the issuer it is
\* addressed to, whatever discovery documents say and whichever assertion built
\* earlier is exchanged.  It may be the endpoint of another issuer there: the code
\* compares the scheme and the host (validateSameOriginEndpoint).
SentToItsAudience == \A s \in sent : SameOrigin(s.endpoint, s.assertion.aud)

\* No assertion has expired at the instant it is built, although its times
\* are truncated to whole seconds.
AssertionNotBornExpired == \A a \in assertions : a.at < a.exp

\* No token is accepted once it has expired, however long discovery and the
\* verification of its subject took.
AcceptedBeforeExpiry == \A r \in results : r.at < r.token.exp

\* While an issuer serves two keys under one kid, as when it replaces a key
\* without renaming it, no token of that kid is accepted: the verdict never
\* depends on which of them is found first.
AmbiguousKidRefused == \A r \in results : Cardinality({e \in r.keys : e.kid = r.token.kid}) = 1

\* Unless the caller disabled it, a token is not accepted when its subject was
\* revoked longer before the call than the status of an identity may be old.
RevokedSubjectRefused ==
    \A r \in results : revoked # None /\ r.began > revoked + MaxStatusAge => r.opt = "false"

\* The documentation of the package: an agent proves control of its identity
\* by signing an assertion with its operational key, which the issuer
\* exchanges; so an assertion is signed with the key that its header names.
AssertionNamesItsKey == \A a \in assertions : a.by = a.kid
=============================================================================
