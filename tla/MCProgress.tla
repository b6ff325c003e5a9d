----------------------------- MODULE MCProgress -----------------------------
(***************************************************************************)
(* What must eventually happen, for every component that waits, retries or *)
(* resumes.                                                                *)
(***************************************************************************)
EXTENDS Parts

CONSTANTS Keys, Callers, k1, k2, c1, b1, b2, q1, q3

\* Two requests of different keys for one domain.
KeyOf    == (q1 :> k1) @@ (q3 :> k2)
DomainOf == (q1 :> 1) @@ (q3 :> 1)

\* One acquisition of a domain's evidence.
Acquisition == INSTANCE DomainAcquisition WITH
    DNSSECMode <- "validated",
    pc <- v1, err <- v2, ctxErr <- v3, workErr <- v4, preloadDone <- v5, got <- v6,
    invalidated <- v7, reader <- v8, own <- v9

\* Rotations of a managed key, with two failures anywhere.
Rotation == INSTANCE ManagedRotation WITH
    Kids <- Keys, MaxFaults <- 2,
    file <- v1, disk <- v2, unsure <- v3, used <- v4, saved <- v5, held <- v6,
    rot <- v7, pc <- v8, answer <- v9, paused <- v10, current <- v11, queue <- v12,
    decided <- v13, log <- v14, refused <- v15, faults <- v16, rejected <- v17,
    torn <- v18

\* One managed issuance, with three failures anywhere.
Issuance == INSTANCE ManagedIssuance WITH
    Workers <- {c1}, Bytes <- {b1, b2}, MaxFaults <- 3, NoBytes <- None,
    saved <- v1, blocked <- v2, worker <- v3, bound <- v4, outcome <- v5, faults <- v6

\* Two key generations and a signer at the GCP provider.
GCP == INSTANCE GCPKeyProvider WITH
    Kids <- {k1, k2}, Signers <- {c1}, Generators <- Callers,
    active <- v1, keys <- v2, pending <- v3, signing <- v4, gen <- v5, signed <- v6

\* The waits for a registration and for its publication.
Registry == INSTANCE RegistryWorkflows WITH
    Kids <- {k1}, Tags <- {"t"}, Local <- "t", Versions <- {1, 2}, Profile <- 1,
    Targets <- {"ACTIVE"},
    status <- v1, authority <- v2, prepared <- v3, dns <- v4, active <- v5,
    wait <- v6, await <- v7, publish <- v8, submitted <- v9, cache <- v10,
    other <- v11, refresh <- v12

\* Live registrations of two keys of one domain, with three failures.
Live == INSTANCE LiveRegistration WITH
    Requests <- {q1, q3}, MaxNonce <- 3, MaxFaults <- 3, MaxMixed <- 0,
    issued <- v1, expired <- v2, proved <- v3, live <- v4, sent <- v5, faults <- v6,
    mixed <- v7

-----------------------------------------------------------------------------
Init ==
    \/ part = "acquisition" /\ Acquisition!Init /\ Unused(9)
    \/ part = "rotation" /\ Rotation!RotInit /\ Unused(18)
    \/ part = "issuance" /\ Issuance!Init /\ Unused(6)
    \/ part = "generation" /\ GCP!Init /\ Unused(6)
    \/ part = "wait" /\ Registry!Init /\ Unused(12)
    \/ part = "live" /\ Live!Init /\ Unused(7)

Next ==
    \/ part = "acquisition" /\ Acquisition!Next /\ Still(9)
    \/ part = "rotation" /\ Rotation!RotNext /\ Still(18)
    \/ part = "issuance" /\ Issuance!Next /\ Still(6)
    \/ part = "generation" /\ GCP!Next /\ Still(6)
    \/ part = "wait" /\ Registry!Polling /\ Still(12)
    \/ part = "live" /\ Live!Next /\ Still(7)

\* The fairness of each component, as its module argues it.
Fairness ==
    /\ WF_vars(part = "acquisition" /\ Acquisition!Main /\ Still(9))
    /\ WF_vars(part = "acquisition" /\ Acquisition!PreloadHistory /\ Still(9))
    /\ WF_vars(part = "acquisition" /\ Acquisition!Identity /\ Still(9))
    /\ WF_vars(part = "acquisition" /\ Acquisition!Status /\ Still(9))
    /\ WF_vars(part = "rotation" /\ Rotation!Working /\ Still(18))
    /\ WF_vars(part = "rotation" /\ Rotation!Repair /\ Still(18))
    /\ WF_vars(part = "rotation" /\ Rotation!ResumeEither /\ Still(18))
    /\ WF_vars(part = "rotation" /\ Rotation!RegistryPublishesOne /\ Still(18))
    /\ WF_vars(part = "issuance" /\ Issuance!Working(c1) /\ Still(6))
    /\ SF_vars(part = "issuance" /\ Issuance!Resume(c1) /\ Still(6))
    /\ SF_vars(part = "issuance" /\ Issuance!CompleteAccepted(c1) /\ Still(6))
    /\ WF_vars(part = "issuance" /\ Issuance!RegistryDecides /\ Still(6))
    /\ \A g \in Callers : /\ WF_vars(part = "generation" /\ GCP!GenerateFails(g) /\ Still(6))
                          /\ SF_vars(part = "generation" /\ GCP!Record(g) /\ Still(6))
    /\ WF_vars(part = "generation" /\ GCP!SignFails(c1) /\ Still(6))
    /\ WF_vars(part = "wait" /\ Registry!PollStatus /\ Still(12))
    /\ WF_vars(part = "wait" /\ Registry!WaitInterval /\ Still(12))
    /\ WF_vars(part = "wait" /\ Registry!PollRegistration /\ Still(12))
    /\ WF_vars(part = "wait" /\ Registry!AwaitInterval /\ Still(12))
    /\ \A q \in {q1, q3} : WF_vars(part = "live" /\ Live!Step(q) /\ Still(7))

Spec == Init /\ [][Next]_vars /\ Fairness

-----------------------------------------------------------------------------
(* Properties *)

\* An acquisition returns and leaves no goroutine behind, also when it returns
\* before it has received their results (verifyReusableDomain).
AllEnd == <>[](part = "acquisition" => Acquisition!Ended)

\* What an acquisition returns does not depend on the order in which its parts
\* end: a cancellation by a part that failed never hides the failure that
\* caused it, the identity's error wins, a status that is not ACTIVE evicts the
\* domain anyway, and evidence is returned only from all the parts
\* (verifyReusableDomain).
AcquisitionHolds ==
    part = "acquisition" => /\ Acquisition!CauseNotMasked /\ Acquisition!IdentityErrorFirst
                            /\ Acquisition!NotActiveInvalidates /\ Acquisition!VerifiedFromAllParts


\* An issuance that the log accepted ends up recorded, complete and unblocked
\* after any finite sequence of failures, unless one of them was recorded as a
\* rejection (managed issuance).
AcceptedIssuanceCompletes ==
    In("issuance", Issuance!Accepted) ~> In("issuance", Issuance!Completed)

\* A key generation ends, even when KMS never finishes generating the version
\* and signatures hold the provider's lock (GenerateKey of the GCP provider).
GenerationEnds ==
    \A g \in Callers : In("generation", GCP!Generating(g)) ~> ~In("generation", GCP!Generating(g))

\* Once the registry's workflow has ended, in any status, the polling loop of
\* WaitForRegistryStatus ends too; it cannot sleep through READY or ACTIVE.
WaitEnds == In("wait", Registry!WaitIsDue) ~> In("wait", Registry!WaitEnded)

\* A caller that repeats lost calls and asks for a new challenge when its proof
\* is refused gets there: no order of expiry, replacement, lost answers and
\* restarts leaves it without a way on (live registration).
EventuallyProved == \A q \in {q1, q3} : <>(part = "live" => Live!Proved(q))
=============================================================================
