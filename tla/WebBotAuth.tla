----------------------------- MODULE WebBotAuth -----------------------------
(***************************************************************************)
(* Web Bot Auth (webbotauth/): a signer whose key rotates signs requests    *)
(* and serves a signed key directory; verifiers check a request against the *)
(* directory, the identity evidence of the domain and a replay store, in    *)
(* steps between which time passes, keys rotate and other verifications     *)
(* run.  One domain, one signer.                                            *)
(*                                                                         *)
(* Times are multiples of the default tolerance of five seconds.  The       *)
(* signer's clock differs from the verifier's by the fixed value "ahead".   *)
(* Parsing, coverage of components and the digest of the body are left out: *)
(* a message here is one that parses, with a signature over all it carries. *)
(***************************************************************************)
EXTENDS Integers, FiniteSets, Sequences, TLC

CONSTANTS Keys, Verifiers,
          RequestTTL,    \* lifetime of a request signature
          DirectoryTTL,  \* lifetime of a directory signature
          Backdate,      \* the five seconds by which a directory is dated back
          Skew,          \* clockSkew()
          Offsets,       \* possible differences of the clocks
          Life,          \* how long identity evidence may be used
          Window,        \* of the refresh limiter
          MaxTime, MaxRequests, MaxDirectories,
          None

VARIABLES now, ahead,
          active,     \* the signer's active key
          ku,         \* the key the domain publishes through DNSid
          lastKu,     \* for each key, when it was last the published one
          signing,    \* a signature under way: the message whose kid is chosen
          requests,   \* signed requests; anyone may present them again
          served,     \* directory responses; an upstream cache may repeat them
          evidence,   \* the verifier's cached identity evidence
          retryAt,    \* the verifier's refresh limiter
          nonces,     \* the application's replay store: nonce -> until
          ver,        \* the verifications
          accepted    \* nonces of accepted requests, with the time

signer   == <<active, ku, lastKu, signing, requests, served>>
verifier == <<evidence, retryAt, nonces, ver, accepted>>
vars == <<now, ahead, signer, verifier>>

Limiter == INSTANCE RefreshLimiter WITH Capacity <- 1024

(* Mutants. *)
FinalUnchecked(v) == TRUE

LocalTime == now + ahead

-----------------------------------------------------------------------------
(* Signing *)

Message(kind, kid, created, expires) ==
    [kind |-> kind, kid |-> kid, by |-> None, created |-> created, expires |-> expires,
     nonce |-> Cardinality(requests) + 1]

\* ServeHttpMessageSignaturesDirectory dates its signature back.
DirectoryCreated(t) == t - (IF Backdate < DirectoryTTL - 1 THEN Backdate ELSE DirectoryTTL - 1)

BeginRequest ==
    /\ signing = None /\ Cardinality(requests) < MaxRequests
    /\ signing' = Message("request", active, LocalTime, LocalTime + RequestTTL)
    /\ UNCHANGED <<now, ahead, active, ku, lastKu, requests, served, verifier>>

BeginDirectory ==
    /\ signing = None /\ Cardinality(served) < MaxDirectories
    /\ LET created == DirectoryCreated(LocalTime)
       IN signing' = Message("directory", active, created, created + DirectoryTTL) @@
                       [date |-> LocalTime, maxAge |-> created + DirectoryTTL - LocalTime]
    /\ UNCHANGED <<now, ahead, active, ku, lastKu, requests, served, verifier>>

\* SignHTTPMessage with the active key; ExpectedSignerKid must be its kid.
ExpectedSigner(m) == active = m.kid

FinishSigning ==
    /\ signing # None
    /\ LET m == [signing EXCEPT !.by = active]
           ok == ExpectedSigner(m) /\ (m.kind = "directory" => LocalTime < m.expires)
       IN /\ requests' = IF ok /\ m.kind = "request" THEN requests \cup {m} ELSE requests
          /\ served' = IF ok /\ m.kind = "directory" THEN served \cup {m @@ [at |-> now]} ELSE served
    /\ signing' = None
    /\ UNCHANGED <<now, ahead, active, ku, lastKu, verifier>>

\* The key provider activates another key; the domain publishes it later.
Rotate ==
    /\ active' \in Keys \ {active}
    /\ UNCHANGED <<now, ahead, ku, lastKu, signing, requests, served, verifier>>

PublishKey ==
    /\ ku # active
    /\ ku' = active
    /\ lastKu' = [lastKu EXCEPT ![ku] = now]
    /\ UNCHANGED <<now, ahead, active, signing, requests, served, verifier>>

-----------------------------------------------------------------------------
(* Verifying *)

\* validTime: a request may be created ahead by the skew, a directory not.
ValidTime(m) ==
    /\ m.created <= now + (IF m.kind = "directory" THEN 0 ELSE Skew)
    /\ now < m.expires + Skew

\* directoryFreshness of a response fetched since "started", by the age the
\* upstream cache reports and by the distance from its date.
Age(d, started) ==
    LET reported == (now - d.at) + (now - started)
        apparent == now - d.date
    IN IF apparent > reported THEN apparent ELSE reported

Deadline(d, started) == now + d.maxAge - Age(d, started)

DirectoryUsable(d, started, kid) ==
    /\ now < Deadline(d, started)
    /\ d.kid = kid /\ d.by = kid
    /\ ValidTime(d)

EvidenceFresh(e) == now < e.at + Life

\* currentKeyMatches.
Matches(e, kid) == e.key = kid

Idle == [pc |-> "idle"]

CheckEvidence(v) ==
    /\ ValidTime(ver[v].request) /\ ValidTime(ver[v].directory)
    /\ now < ver[v].deadline
    /\ EvidenceFresh(ver[v].evidence)

Goto(v, to) == ver' = [ver EXCEPT ![v] = to]
Proceed(v, pc) == Goto(v, [ver[v] EXCEPT !.pc = pc])

BeginVerification(v) ==
    /\ ver[v].pc = "idle"
    /\ \E m \in requests : ValidTime(m) /\ Goto(v, [pc |-> "fetch", request |-> m, started |-> now])
    /\ UNCHANGED <<now, ahead, signer, evidence, retryAt, nonces, accepted>>

FetchDirectory(v) ==
    /\ ver[v].pc = "fetch"
    /\ \E d \in served :
         Goto(v, IF DirectoryUsable(d, ver[v].started, ver[v].request.kid) /\ ver[v].request.by = d.kid
                 THEN [pc |-> "identity", request |-> ver[v].request, directory |-> d,
                       deadline |-> Deadline(d, ver[v].started)]
                 ELSE Idle)
    /\ UNCHANGED <<now, ahead, signer, evidence, retryAt, nonces, accepted>>

\* VerifyIdentity answers from evidence that is still fresh, or acquires it.
VerifyIdentity(v) ==
    /\ ver[v].pc = "identity"
    /\ LET e == IF evidence # None /\ EvidenceFresh(evidence) THEN evidence ELSE [key |-> ku, at |-> now]
       IN evidence' = e /\ Goto(v, [ver[v] EXCEPT !.pc = "check"] @@ [evidence |-> e])
    /\ UNCHANGED <<now, ahead, signer, retryAt, nonces, accepted>>

Check(v) ==
    /\ ver[v].pc = "check" /\ CheckEvidence(v)
    /\ Proceed(v, IF Matches(ver[v].evidence, ver[v].request.kid) THEN "replay" ELSE "refresh")
    /\ UNCHANGED <<now, ahead, signer, evidence, retryAt, nonces, accepted>>

\* The evidence names another key: it may be from before a rotation.
RefreshDomain(v) ==
    /\ ver[v].pc = "refresh"
    /\ retryAt' = Limiter!AfterAsking(retryAt, "domain", now)
    /\ IF Limiter!AllowRefresh(retryAt, "domain", now)
       THEN LET e == [key |-> ku, at |-> now]
            IN /\ evidence' = e
               /\ Goto(v, IF Matches(e, ver[v].request.kid)
                          THEN [ver[v] EXCEPT !.pc = "check", !.evidence = e]
                          ELSE Idle)
       ELSE UNCHANGED evidence /\ Goto(v, Idle)
    /\ UNCHANGED <<now, ahead, signer, nonces, accepted>>

\* The replay policy, by its documented contract: it refuses a nonce it knows
\* and keeps it until the given time.
Retained(n) == n \in DOMAIN nonces /\ now < nonces[n]

Replay(v) ==
    LET m == ver[v].request IN
    /\ ver[v].pc = "replay"
    /\ IF Retained(m.nonce)
       THEN UNCHANGED nonces /\ Goto(v, Idle)
       ELSE /\ nonces' = [n \in DOMAIN nonces \cup {m.nonce} |-> IF n = m.nonce THEN m.expires + Skew ELSE nonces[n]]
            /\ Proceed(v, "final")
    /\ UNCHANGED <<now, ahead, signer, evidence, retryAt, accepted>>

FinalCheck(v) == CheckEvidence(v)

Accept(v) ==
    /\ ver[v].pc = "final" /\ FinalCheck(v)
    /\ accepted' = Append(accepted, [request |-> ver[v].request, at |-> now])
    /\ Goto(v, Idle)
    /\ UNCHANGED <<now, ahead, signer, evidence, retryAt, nonces>>

\* Any check fails, a call fails, or the deadline of the operation passes.
Refuse(v) ==
    /\ ver[v].pc # "idle"
    /\ Goto(v, Idle)
    /\ UNCHANGED <<now, ahead, signer, evidence, retryAt, nonces, accepted>>

-----------------------------------------------------------------------------
Tick == now < MaxTime /\ now' = now + 1 /\ UNCHANGED <<ahead, signer, verifier>>

Init ==
    /\ now = 0 /\ ahead \in Offsets
    /\ active \in Keys /\ ku = active /\ lastKu = [k \in Keys |-> None]
    /\ signing = None /\ requests = {} /\ served = {}
    /\ evidence = None /\ retryAt = <<>> /\ nonces = <<>>
    /\ ver = [v \in Verifiers |-> Idle]
    /\ accepted = <<>>

Next == \/ Tick \/ BeginRequest \/ BeginDirectory \/ FinishSigning \/ Rotate \/ PublishKey
        \/ \E v \in Verifiers : \/ BeginVerification(v) \/ FetchDirectory(v) \/ VerifyIdentity(v) \/ Check(v)
                                \/ RefreshDomain(v) \/ Replay(v) \/ Accept(v) \/ Refuse(v)

Spec == Init /\ [][Next]_vars

\* The directory alone, with signing that takes at most one unit.
ServeTick == (signing # None => LocalTime = signing.date) /\ Tick
ServeNext == BeginDirectory \/ FinishSigning \/ ServeTick \/ Rotate

-----------------------------------------------------------------------------
(* Properties *)

\* With a replay policy no request is accepted twice.  The store forgets a
\* nonce at expiry plus skew; what is presented around that instant is stopped
\* by the check of the time after the policy has run, not by the store.
AcceptedOnce ==
    \A i, j \in DOMAIN accepted : accepted[i].request.nonce = accepted[j].request.nonce => i = j

\* An accepted request carries a key that the domain published through DNSid
\* less than the lifetime of the evidence ago: neither the directory nor a
\* cache of identities keeps a rotated key alive longer.
AcceptedKeyWasCurrent ==
    \A i \in DOMAIN accepted :
        LET k == accepted[i].request.kid
        IN k # ku => lastKu[k] # None /\ accepted[i].at < lastKu[k] + Life

\* A signature is made with the key whose kid the message names, although the
\* key may be rotated between choosing and signing.
SignatureNamesItsKey == \A m \in requests \cup served : m.by = m.kid

\* A directory that has just been served passes the checks of a verifier whose
\* clock is within the offsets: it is neither from the future nor stale.
ServedIsUsable == \A d \in served : now = d.at => DirectoryUsable(d, now, d.kid)
=============================================================================
