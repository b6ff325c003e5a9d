---------------------------- MODULE HTTPSignatures ----------------------------
(***************************************************************************)
(* HTTP message signatures (httpsig/http_signatures.go,                     *)
(* response_signatures.go, response_middleware.go).  A client signs a       *)
(* request and may ask for a signed response; the server verifies, handles  *)
(* and signs; the client verifies against the request it kept.  On the way  *)
(* a message may be altered, a proxy may sign as well, and a response may   *)
(* be delivered to another exchange.                                        *)
(*                                                                         *)
(* A digest is the body it was computed from; a signature is its signer and *)
(* the values of the components it covers.  "@target-uri" stands for        *)
(* "@authority" too.  A challenge is its exchange's name: nonces are fresh. *)
(***************************************************************************)
EXTENDS Naturals, FiniteSets

CONSTANTS Exchanges, Bodies,
          MaxAge, ClockSkew,     \* Config
          ResponseLifetime,      \* responseSignatureLifetime
          MaxTime, MaxAlterations,
          Empty,                 \* the content that is not there
          None

VARIABLES now,
          sent,      \* per exchange, the request as it was signed
          request,   \* the request under way
          seen,      \* the request that the server verifies, and its handler then sees
          trial,     \* VerifyHTTPRequest: the candidates left to try, found valid, without identity
          verified,  \* what it returned: the signer, or None
          response,  \* the response under way
          made,      \* the response as the server's handler made it
          check,     \* the client's verification of the response
          got,       \* the response the client's application receives, and when
          altered    \* alterations so far

vars == <<now, sent, request, seen, trial, verified, response, made, check, got, altered>>
serverVars == <<seen, trial, verified, made>>
clientVars == <<sent, check, got>>

Methods == {"GET", "HEAD"}
Targets == {"here", "there"}
Statuses == {200, 204}
Labels == {"sig1", "proxy"}

\* The domains: the client, the server it expects, and a proxy.
Client == "client"
Expected == "server"
Proxy == "proxy"


-----------------------------------------------------------------------------
(* Signing and verifying a request *)

\* The values a signature covers (BuildSignatureInput); the parameters of the
\* signature are part of its base as well.
Value(r, c) == CASE c = "@method" -> r.method
                 [] c = "@target-uri" -> r.target
                 [] c = "content-digest" -> r.digest
                 [] c = "accept-signature" -> r.accept

Base(r, covers) == [c \in covers |-> Value(r, c)]

Signature(domain, r, covers) == [domain |-> domain, covers |-> covers, base |-> Base(r, covers), created |-> now]

Signed(r, label, domain, covers) == [r EXCEPT !.sigs = [r.sigs EXCEPT ![label] = Signature(domain, r, covers)]]

CreateSignedHTTPRequest(e) ==
    /\ sent[e] = None
    /\ \E method \in Methods, target \in Targets, body \in Bodies \cup {Empty}, accept \in {e, None} :
         LET plain == [method |-> method, target |-> target, body |-> body,
                       digest |-> IF body = Empty THEN None ELSE body, accept |-> accept,
                       sigs |-> [l \in Labels |-> None]]
             covers == {"@method", "@target-uri"} \cup (IF accept # None THEN {"accept-signature"} ELSE {})
                           \cup (IF body # Empty THEN {"content-digest"} ELSE {})
             signed == Signed(plain, "sig1", Client, covers)
         IN  sent' = [sent EXCEPT ![e] = signed] /\ request' = [request EXCEPT ![e] = signed]
    /\ UNCHANGED <<now, serverVars, response, check, got, altered>>

\* checkHTTPSignatureFreshness; without an expires parameter.
Fresh(s) == s.created <= now + ClockSkew /\ now - s.created <= MaxAge

\* parseHTTPSignatureHeaders: the signatures that are looked at.
Candidates(r) == {l \in Labels : r.sigs[l] # None /\ {"@method", "@target-uri"} \subseteq r.sigs[l].covers}

\* requireHTTPComponents: a body is covered by the digest, and the digest is
\* that of the body.
ComponentsOk(r, s) == /\ r.body # Empty => "content-digest" \in s.covers
                      /\ "content-digest" \in s.covers => r.digest = r.body

\* verifyParsedHTTPRequest.
Valid(r, s) == Fresh(s) /\ ComponentsOk(r, s) /\ Base(r, s.covers) = s.base

\* VerifyHTTPRequest tries the candidates in the order of a map.  The handler sees
\* the request with the body that was read put back.
VerifyHTTPRequest(e) ==
    /\ request[e] # None /\ seen[e] = None
    /\ seen' = [seen EXCEPT ![e] = request[e]]
    /\ trial' = [trial EXCEPT ![e] = [left |-> Candidates(request[e]), ok |-> {}, failed |-> {}]]
    /\ UNCHANGED <<now, clientVars, request, verified, response, made, altered>>

\* One candidate is valid, and only one.
Conclusive(ok) == Cardinality(ok) = 1

Signer(r, t) ==
    IF t.left = {} /\ Conclusive(t.ok) THEN r.sigs[CHOOSE l \in t.ok : TRUE].domain ELSE None

\* Each candidate is tried at its own time, and its identity may not be available.
TryCandidate(e) ==
    /\ seen[e] # None
    /\ \E l \in trial[e].left :
         LET rest == [trial[e] EXCEPT !.left = @ \ {l}]
             valid == Valid(seen[e], seen[e].sigs[l])
         IN  \E t \in {IF valid THEN [rest EXCEPT !.ok = @ \cup {l}] ELSE rest, [rest EXCEPT !.failed = @ \cup {l}]} :
               /\ trial' = [trial EXCEPT ![e] = t]
               /\ verified' = [verified EXCEPT ![e] = Signer(seen[e], t)]
    /\ UNCHANGED <<now, clientVars, request, seen, response, made, altered>>

-----------------------------------------------------------------------------
(* Signing and verifying a response *)

\* responseContent: what a HEAD request or status 204 leaves of the body.
Content(r, res) == IF r.method = "HEAD" \/ res.status = 204 THEN Empty ELSE res.body

\* The response covers its status, digest and cache policy, and of the
\* originating request the target, the challenge and the client's signature.
ResponseBase(r, res) ==
    [status |-> res.status, digest |-> res.digest, noStore |-> res.noStore,
     method |-> r.method, target |-> r.target, accept |-> r.accept, own |-> r.sigs["sig1"]]

\* SignRequestedHTTPResponse.
SignRequested(r, res) ==
    LET final == [res EXCEPT !.digest = Content(r, res), !.noStore = TRUE]
    IN  [final EXCEPT !.sig = [domain |-> Expected, nonce |-> r.accept, created |-> now,
                               expires |-> now + ResponseLifetime, base |-> ResponseBase(r, final)]]

\* What the middleware sends when signing fails: neither headers nor content.
BareError(r, res) == [status |-> 500, body |-> Empty, digest |-> None, noStore |-> FALSE, sig |-> None]

\* ResponseSigningMiddleware.  Signing fails when the content is too long, the
\* key provider fails, or the request lost its own signature.
Respond(e) ==
    /\ seen[e] # None /\ made[e] = None
    /\ \E status \in Statuses, body \in Bodies :
         LET res == [status |-> status, body |-> body, digest |-> None, noStore |-> FALSE, sig |-> None]
         IN  /\ made' = [made EXCEPT ![e] = res]
             /\ \/ /\ seen[e].accept = None
                   /\ response' = [response EXCEPT ![e] = res]
                \/ /\ seen[e].accept # None /\ seen[e].sigs["sig1"] # None
                   /\ response' = [response EXCEPT ![e] = SignRequested(seen[e], res)]
                \/ /\ seen[e].accept # None
                   /\ response' = [response EXCEPT ![e] = BareError(seen[e], res)]
    /\ UNCHANGED <<now, clientVars, request, seen, trial, verified, altered>>

\* checkResponseFreshness.
ResponseFresh(s) ==
    /\ s.expires - s.created \in 1 .. ResponseLifetime
    /\ Fresh(s)
    /\ now <= s.expires + ClockSkew

FreshAtReturn(s) == ResponseFresh(s)

ExpectedSigner(domain) == domain = Expected

\* VerifySignedHTTPResponse, up to the verification of the identity.
BeginVerifyResponse(e) ==
    /\ sent[e] # None /\ sent[e].accept # None /\ check[e] = None /\ got[e] = None
    /\ response[e] # None /\ response[e].sig # None
    /\ response[e].sig.nonce = sent[e].accept
    /\ ResponseFresh(response[e].sig)
    /\ ExpectedSigner(response[e].sig.domain)
    /\ check' = [check EXCEPT ![e] = response[e]]
    /\ UNCHANGED <<now, sent, request, serverVars, response, got, altered>>

\* The content is the one the signed digest names.
ContentMatches(r, res) == res.digest = Content(r, res)

\* The rest: the signature over the kept request, content, cache policy, time.
FinishVerifyResponse(e) ==
    /\ check[e] # None
    /\ LET r == sent[e] res == check[e]
       IN  got' = [got EXCEPT ![e] =
               IF /\ ResponseBase(r, res) = res.sig.base
                  /\ ContentMatches(r, res) /\ res.noStore
                  /\ FreshAtReturn(res.sig)
               THEN [res |-> [res EXCEPT !.body = Content(r, res)], at |-> now]
               ELSE [res |-> None, at |-> now]]
    /\ check' = [check EXCEPT ![e] = None]
    /\ UNCHANGED <<now, sent, request, serverVars, response, altered>>

-----------------------------------------------------------------------------
(* The network *)

Alter == altered < MaxAlterations /\ altered' = altered + 1

\* A part of a request changes, or its signature is lost.
AlterRequest(e) ==
    /\ request[e] # None /\ seen[e] = None /\ Alter
    /\ \E r \in {[request[e] EXCEPT !.method = m] : m \in Methods}
                \cup {[request[e] EXCEPT !.target = t] : t \in Targets}
                \cup {[request[e] EXCEPT !.body = b] : b \in Bodies \cup {Empty}}
                \cup {[request[e] EXCEPT !.digest = d] : d \in Bodies \cup {None}}
                \cup {[request[e] EXCEPT !.sigs = [@ EXCEPT !["sig1"] = None]]} :
         request' = [request EXCEPT ![e] = r]
    /\ UNCHANGED <<now, clientVars, serverVars, response>>

\* A proxy signs the request as it sees it, the body or not.
ProxySigns(e) ==
    /\ request[e] # None /\ seen[e] = None /\ request[e].sigs["proxy"] = None
    /\ \E covers \in {{"@method"}, {"@method", "@target-uri"}, {"@method", "@target-uri", "content-digest"}} :
         request' = [request EXCEPT ![e] = Signed(request[e], "proxy", Proxy, covers)]
    /\ UNCHANGED <<now, clientVars, serverVars, response, altered>>

\* A part of a response changes, or it is signed by another domain.
AlterResponse(e) ==
    /\ response[e] # None /\ check[e] = None /\ got[e] = None /\ Alter
    /\ \E res \in {[response[e] EXCEPT !.status = s] : s \in Statuses}
                  \cup {[response[e] EXCEPT !.body = b] : b \in Bodies}
                  \cup {[response[e] EXCEPT !.digest = d] : d \in Bodies \cup {Empty}}
                  \cup (IF response[e].sig = None THEN {} ELSE {[response[e] EXCEPT !.sig.domain = Proxy]}) :
         response' = [response EXCEPT ![e] = res]
    /\ UNCHANGED <<now, clientVars, request, serverVars>>

\* A response reaches another exchange.
Misdeliver(e, f) ==
    /\ e # f /\ response[e] # None /\ check[f] = None /\ got[f] = None /\ Alter
    /\ response' = [response EXCEPT ![f] = response[e]]
    /\ UNCHANGED <<now, clientVars, request, serverVars>>

Tick == now < MaxTime /\ now' = now + 1
           /\ UNCHANGED <<clientVars, request, serverVars, response, altered>>

Init ==
    LET none == [e \in Exchanges |-> None] IN
    /\ now = 0 /\ altered = 0
    /\ sent = none /\ request = none /\ seen = none /\ trial = none /\ verified = none
    /\ response = none /\ made = none /\ check = none /\ got = none

Next ==
    \/ Tick
    \/ \E e \in Exchanges :
         \/ CreateSignedHTTPRequest(e) \/ VerifyHTTPRequest(e) \/ TryCandidate(e) \/ Respond(e)
         \/ BeginVerifyResponse(e) \/ FinishVerifyResponse(e)
         \/ AlterRequest(e) \/ ProxySigns(e) \/ AlterResponse(e)
         \/ \E f \in Exchanges : Misdeliver(e, f)

Spec == Init /\ [][Next]_vars

\* Requests alone: no exchange is answered.
RequestNext ==
    \/ Tick
    \/ \E e \in Exchanges : \/ CreateSignedHTTPRequest(e) \/ VerifyHTTPRequest(e) \/ TryCandidate(e)
                           \/ AlterRequest(e) \/ ProxySigns(e)

\* Responses: requests ask for a signed one and arrive as they were sent.  The
\* middleware that signs a response does not look at who signed the request.
ResponseNext ==
    \/ Tick
    \/ \E e \in Exchanges :
         \/ CreateSignedHTTPRequest(e) /\ sent'[e].accept # None /\ sent'[e].body = Empty
         \/ VerifyHTTPRequest(e) \/ Respond(e)
         \/ BeginVerifyResponse(e) \/ FinishVerifyResponse(e) \/ AlterResponse(e)
         \/ \E f \in Exchanges : Misdeliver(e, f)

-----------------------------------------------------------------------------
(* Properties *)


\* A request with two good signatures is attributed to neither, whatever the order
\* they are tried in.  The order decides only between signatures one of which goes
\* stale while the other is tried, or whose identity could not be verified.
OneSigner ==
    \A e \in Exchanges : verified[e] # None =>
        \A l, k \in Candidates(seen[e]) \ trial[e].failed :
            Valid(seen[e], seen[e].sigs[l]) /\ Valid(seen[e], seen[e].sigs[k]) => l = k

\* The response an application receives is the one the expected server made
\* for this very request: status and content, not one for another exchange,
\* not one from another domain.
ReceivedIsMade ==
    \A e \in Exchanges : got[e] # None => (got[e].res # None =>
        /\ made[e] # None /\ seen[e].target = sent[e].target
        /\ got[e].res.status = made[e].status
        /\ got[e].res.body = Content(sent[e], made[e])
        /\ got[e].res.sig.domain = Expected)

\* A received response has not expired when it is returned.
ReceivedIsFresh ==
    \A e \in Exchanges : got[e] # None => (got[e].res # None => got[e].at <= got[e].res.sig.expires + ClockSkew)
=============================================================================
