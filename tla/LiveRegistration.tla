--------------------------- MODULE LiveRegistration ---------------------------
(***************************************************************************)
(* Managed Live registration (registry.go): CreateLiveAgent answers with a   *)
(* challenge, SubmitLiveProof proves possession of the key, and              *)
(* ReissueLiveProof replaces a challenge that expired.  Every call carries   *)
(* the request id as its idempotency key.  Answers are lost after they took  *)
(* effect, challenges expire and are replaced at any time, and the registry  *)
(* may hand a caller the answer that belongs to another request: the client  *)
(* must notice.  A caller signs the transcript it has accepted and sends the *)
(* proof to the domain that transcript names.                                *)
(***************************************************************************)
EXTENDS Naturals, FiniteSets

CONSTANTS Requests,   \* request ids, one per caller
          KeyOf,      \* the key each caller registers
          DomainOf,   \* the domain the registry assigns to the request
          MaxNonce,   \* challenges issued per request
          MaxFaults,  \* answers lost, and restarts of a caller
          MaxMixed,   \* answers that belong to another request
          None

VARIABLES issued,    \* registry: per request, the number of its latest challenge (0: unknown)
          expired,   \* registry: the requests whose latest challenge has run out
          proved,    \* registry: the requests whose proof it has accepted
          live,      \* per caller: its registration
          sent,      \* every proof submitted
          faults, mixed

vars == <<issued, expired, proved, live, sent, faults, mixed>>

Transcript(q, n) == [agent |-> q, key |-> KeyOf[q], fqdn |-> DomainOf[q], nonce |-> n]

\* The answer to request id "id", as the registry has it for request q.
Response(id, q) ==
    [id |-> id, agent |-> q, status |-> IF q \in proved THEN "provider_deferred" ELSE "challenge_pending",
     transcript |-> IF q \in proved THEN None ELSE Transcript(q, issued[q])]

(* Mutants. *)
TranscriptAnyKey(resp, key, domain) == domain # None => resp.transcript.fqdn = domain
TranscriptAnyDomain(resp, key, domain) == resp.transcript.key = key
AlwaysChallenged(resp, key, domain) ==
    resp.transcript # None /\ TranscriptAnyKey(resp, key, domain) /\ TranscriptAnyDomain(resp, key, domain)

\* validateLiveResponse.
ValidLiveResponse(id, resp) == resp.id = id

\* parseLiveChallenge: the transcript's agent and nonce are the response's by
\* the way Response pairs them; key and domain are the client's to compare.
TranscriptMatches(resp, key, domain) ==
    /\ resp.transcript.key = key
    /\ domain # None => resp.transcript.fqdn = domain

\* An answer without a challenge is fine unless the status calls for one.
AcceptsChallenge(resp, key, domain) ==
    IF resp.transcript = None THEN resp.status # "challenge_pending"
    ELSE TranscriptMatches(resp, key, domain)

Idle == [pc |-> "create", held |-> None, route |-> None]

Init ==
    /\ issued = [q \in Requests |-> 0]
    /\ expired = {} /\ proved = {}
    /\ live = [q \in Requests |-> Idle]
    /\ sent = {}
    /\ faults = 0 /\ mixed = 0

\* The request whose answer reaches the caller: its own, or by a fault another's.
Delivered(q, other) ==
    /\ other # q => issued[other] > 0 /\ mixed < MaxMixed
    /\ mixed' = IF other = q THEN mixed ELSE mixed + 1
    /\ UNCHANGED faults

Lost == faults < MaxFaults /\ faults' = faults + 1 /\ UNCHANGED mixed

-----------------------------------------------------------------------------
\* The registry creates the request at its first call and replays it after.
Provisioned(q) == issued' = [issued EXCEPT ![q] = IF @ = 0 THEN 1 ELSE @]

CreateLiveAgent(q) ==
    /\ live[q].pc = "create"
    /\ Provisioned(q)
    /\ \E other \in Requests :
         /\ Delivered(q, other)
         /\ LET resp == [Response(q, other) EXCEPT !.transcript = IF @ = None THEN None ELSE Transcript(other, issued'[other])]
            IN live' = [live EXCEPT ![q] =
                 IF ~ValidLiveResponse(q, resp) \/ ~AcceptsChallenge(resp, KeyOf[q], None) THEN @
                 ELSE IF resp.transcript = None THEN [@ EXCEPT !.pc = "done"]
                 ELSE [pc |-> "submit", held |-> resp.transcript, route |-> resp.transcript.fqdn]]
    /\ UNCHANGED <<expired, proved, sent>>

\* The answer of any call is lost; the registry has acted all the same.
CreateLost(q) ==
    /\ live[q].pc = "create" /\ Lost
    /\ Provisioned(q)
    /\ UNCHANGED <<expired, proved, live, sent>>

\* The registry accepts a proof over its latest challenge that still runs.
Current(q, t) == issued[q] > 0 /\ t = Transcript(q, issued[q]) /\ q \notin expired

Submitted(q) ==
    LET t == live[q].held IN
    /\ live[q].pc = "submit"
    /\ sent' = sent \cup {[by |-> q, route |-> live[q].route, transcript |-> t]}
    /\ proved' = IF Current(q, t) THEN proved \cup {q} ELSE proved

SubmitLiveProof(q) ==
    /\ Submitted(q)
    /\ live' = [live EXCEPT ![q].pc = IF q \in proved' THEN "done" ELSE "reissue"]
    /\ UNCHANGED <<issued, expired, faults, mixed>>

SubmitLost(q) ==
    /\ Submitted(q) /\ Lost
    /\ UNCHANGED <<issued, expired, live>>

\* A replacement is issued when the challenge has run out and no proof was
\* accepted; a repeated call is answered with the challenge that runs.
Reissued(q) ==
    IF q \in expired /\ q \notin proved /\ issued[q] < MaxNonce
    THEN issued' = [issued EXCEPT ![q] = @ + 1] /\ expired' = expired \ {q}
    ELSE UNCHANGED <<issued, expired>>

ReissueLiveProof(q) ==
    /\ live[q].pc = "reissue"
    /\ Reissued(q)
    /\ \E other \in Requests :
         /\ Delivered(q, other)
         /\ LET resp == [Response(q, other) EXCEPT !.transcript = IF @ = None THEN None ELSE Transcript(other, issued'[other])]
            IN live' = [live EXCEPT ![q] =
                 IF ~ValidLiveResponse(q, resp) \/ resp.transcript = None THEN [@ EXCEPT !.pc = "submit"]
                 ELSE IF AcceptsChallenge(resp, KeyOf[q], live[q].route)
                 THEN [@ EXCEPT !.pc = "submit", !.held = resp.transcript]
                 ELSE @]
    /\ UNCHANGED <<proved, sent>>

ReissueLost(q) ==
    /\ live[q].pc = "reissue" /\ Lost
    /\ Reissued(q)
    /\ UNCHANGED <<proved, live, sent>>

\* The caller's process restarts and repeats its registration from the start.
Restart(q) ==
    /\ live[q] # Idle /\ live[q].pc # "done" /\ Lost
    /\ live' = [live EXCEPT ![q] = Idle]
    /\ UNCHANGED <<issued, expired, proved, sent>>

\* The last challenge is left to run, as if the caller were in time.
Expire(q) ==
    /\ issued[q] \in 1 .. (MaxNonce - 1) /\ q \notin expired \cup proved
    /\ expired' = expired \cup {q}
    /\ UNCHANGED <<issued, proved, live, sent, faults, mixed>>

Step(q) == CreateLiveAgent(q) \/ SubmitLiveProof(q) \/ ReissueLiveProof(q)

Next == \E q \in Requests : Step(q) \/ CreateLost(q) \/ SubmitLost(q) \/ ReissueLost(q) \/ Restart(q) \/ Expire(q)

Spec == Init /\ [][Next]_vars /\ \A q \in Requests : WF_vars(Step(q))

-----------------------------------------------------------------------------
(* Properties *)

\* Every proof a caller signs is over a transcript that names its own key, and
\* goes to the domain that transcript names, whatever answers were mixed up,
\* replayed or replaced on the way.
ProofIsBound ==
    \A p \in sent : p.transcript.key = KeyOf[p.by] /\ p.transcript.fqdn = p.route

\* The caller has returned and the domain is proved.
Proved(q) == live[q].pc = "done" /\ q \in proved
=============================================================================
