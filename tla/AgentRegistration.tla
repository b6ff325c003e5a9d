-------------------------- MODULE AgentRegistration --------------------------
(***************************************************************************)
(* RegisterAgent (registration.go): CreateAgentWithIdempotencyKey, then a   *)
(* read of the agent's detail, with recovery from a RegistrationError by    *)
(* repeating the retained request under the retained key.  Answers are lost *)
(* after the registry has acted, agents are unregistered and their domains  *)
(* registered again by others between the two calls.                        *)
(*                                                                         *)
(* A name is a record: its canonical form n and whether it is still as the  *)
(* caller spelled it.  The registry is external: it replays an answer for   *)
(* a key it knows and refuses the key for any other body.                   *)
(***************************************************************************)
EXTENDS Naturals, FiniteSets

CONSTANTS Callers,
          Names,       \* canonical domain names
          Below,       \* pairs <<n, root>>: n is a proper subdomain of root
          MaxAgents,   \* bound on the agents ever created
          MaxAttempts, \* attempts of one caller
          Keyed,       \* the callers that pass an idempotency key
          None

VARIABLES agents,  \* registry: the agents that exist
          replay,  \* registry: what it answered under each key (its caller names the key)
          spent,   \* registry: how many identifiers it has assigned
          call     \* per caller: its registration

vars == <<agents, replay, spent, call>>

Spelled == [n : Names, raw : BOOLEAN]
Requests == {[domain |-> d, root |-> None] : d \in Spelled}
              \cup {[domain |-> None, root |-> r] : r \in [n : {p[2] : p \in Below}, raw : BOOLEAN]}
              \cup {[domain |-> d, root |-> d] : d \in Spelled}

(* Mutants. *)
SameAgentByDomain(reg, creation) == reg.domain = creation.domain

NormalizeFQDN(d) == IF d = None THEN None ELSE [d EXCEPT !.raw = FALSE]
Normalized(req) == [domain |-> NormalizeFQDN(req.domain), root |-> NormalizeFQDN(req.root)]

\* The selectors exclude each other; the other checks of arguments are of
\* values that no later step reads.
ValidRequest(req) == req.domain = None \/ req.root = None

\* What goes over the wire.
Body(c) == Normalized(call[c].req)

SendsKey(c) == c \in Keyed

\* validateRegistrationCreation: the identity that came back is the one asked
\* for, or one strictly below the root asked for.
ValidCreation(req, resp) ==
    /\ resp.supported
    /\ req.domain # None => resp.domain = req.domain.n
    /\ req.root # None => <<resp.domain, req.root.n>> \in Below

Idle == [pc |-> "idle", tries |-> 0, req |-> None, resp |-> None, result |-> None]

Init ==
    /\ agents = {} /\ spent = 0
    /\ replay = [c \in Callers |-> None]
    /\ call = [c \in Callers |-> Idle]

Goto(c, pc) == call' = [call EXCEPT ![c].pc = pc]

\* RegistrationError: the request is retained, and the caller may repeat it.
Recover(c) == [call[c] EXCEPT !.pc = "recover"]

-----------------------------------------------------------------------------
Register(c) ==
    /\ call[c].pc = "idle"
    /\ \E req \in Requests :
         call' = [call EXCEPT ![c].pc = IF ValidRequest(req) THEN "create" ELSE "refused", ![c].req = req]
    /\ UNCHANGED <<agents, replay, spent>>

Repeat(c) ==
    /\ call[c].pc = "recover" /\ call[c].tries < MaxAttempts
    /\ Goto(c, "create")
    /\ UNCHANGED <<agents, replay, spent>>

\* The registry's answer: what it did, or with a defect that the client has to
\* notice, or none (a transport failure, or a status other than 201).
Answers(a) == {None, [id |-> a.id, domain |-> a.domain, supported |-> TRUE],
                     [id |-> a.id, domain |-> a.domain, supported |-> FALSE]}
                \cup {[id |-> a.id, domain |-> n, supported |-> TRUE] : n \in Names}

Answered(c, resp) == call' = [call EXCEPT ![c].pc = "read", ![c].resp = resp, ![c].tries = @ + 1]

RegistryCreates(c) ==
    /\ call[c].pc = "create"
    /\ spent < MaxAgents
    /\ LET body == Body(c)
           id == spent + 1
           free == Names \ {a.domain : a \in agents}
           offered == IF body.domain # None THEN {body.domain.n}
                      ELSE {n \in Names : <<n, body.root.n>> \in Below}
       IN \E n \in offered \cap free :
            /\ ~(SendsKey(c) /\ replay[c] # None)
            /\ agents' = agents \cup {[id |-> id, domain |-> n, by |-> c]}
            /\ spent' = id
            /\ replay' = IF SendsKey(c) THEN [replay EXCEPT ![c] = [id |-> id, domain |-> n, body |-> body]] ELSE replay
            /\ \E resp \in Answers([id |-> id, domain |-> n]) : Answered(c, resp)

RegistryReplays(c) ==
    /\ call[c].pc = "create" /\ SendsKey(c) /\ replay[c] # None
    /\ IF replay[c].body = Body(c)
       THEN \E resp \in Answers(replay[c]) : Answered(c, resp)
       ELSE Goto(c, "mismatch")
    /\ UNCHANGED <<agents, replay, spent>>

\* The registry refuses, or the request never reaches it.
CreateFails(c) ==
    /\ call[c].pc = "create"
    /\ Answered(c, None)
    /\ UNCHANGED <<agents, replay, spent>>

ReadCreation(c) ==
    /\ call[c].pc = "read"
    /\ call' = [call EXCEPT ![c] =
                  IF call[c].resp # None /\ ValidCreation(Normalized(call[c].req), call[c].resp)
                  THEN [@ EXCEPT !.pc = "detail"]
                  ELSE [Recover(c) EXCEPT !.req = Normalized(@)]]
    /\ UNCHANGED <<agents, replay, spent>>

\* GetRegistration of the domain, which may by now be another agent's.
SameAgent(reg, creation) == reg.id = creation.id /\ reg.domain = creation.domain

ReadDetail(c) ==
    /\ call[c].pc = "detail"
    /\ \E a \in agents : /\ a.domain = call[c].resp.domain
                         /\ call' = [call EXCEPT ![c] = IF SameAgent(a, @.resp)
                                                        THEN [@ EXCEPT !.pc = "registered", !.result = a]
                                                        ELSE Recover(c)]
    /\ UNCHANGED <<agents, replay, spent>>

\* No such agent, or the call fails: the request is retained as it was given.
DetailFails(c) ==
    /\ call[c].pc = "detail"
    /\ call' = [call EXCEPT ![c] = Recover(c)]
    /\ UNCHANGED <<agents, replay, spent>>

\* UnregisterAgent of a domain; an absent agent is not an error.
UnregisterAgent ==
    /\ \E n \in Names : agents' = {a \in agents : a.domain # n} /\ agents' # agents
    /\ UNCHANGED <<replay, spent, call>>

Next == \/ UnregisterAgent
        \/ \E c \in Callers : \/ Register(c) \/ Repeat(c) \/ RegistryCreates(c) \/ RegistryReplays(c)
                              \/ CreateFails(c) \/ ReadCreation(c) \/ ReadDetail(c) \/ DetailFails(c)

Spec == Init /\ [][Next]_vars

-----------------------------------------------------------------------------
(* Properties *)

\* However often a registration under a key is repeated, with whatever answers
\* lost, at most one agent is created for it (the Idempotency-Key header).
OneAgentPerKey == \A c \in Keyed : Cardinality({a \in agents : a.by = c}) <= 1

\* The request a RegistrationError retains, as given or as normalised, is the
\* request the registry has seen under the key: it is never refused as another.
RecoveryReplays == \A c \in Callers : call[c].pc # "mismatch"

\* What RegisterAgent returns is the agent that was created for this caller,
\* of the domain it asked for, even if the domain changed hands in between.
RegisteredIsOwn ==
    \A c \in Callers : call[c].pc = "registered" =>
        /\ call[c].result.by = c
        /\ call[c].req.domain # None => call[c].result.domain = call[c].req.domain.n
        /\ call[c].req.root # None => <<call[c].result.domain, call[c].req.root.n>> \in Below
=============================================================================
