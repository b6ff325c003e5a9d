----------------------------- MODULE MCWorkflows ----------------------------
(***************************************************************************)
(* Key providers and the workflows that use them and the registry, under   *)
(* failures, crashes and power losses.                                     *)
(***************************************************************************)
EXTENDS Parts

CONSTANTS Keys, Callers, c1, k1, k2, q1, q2, q3

\* Two requests share a key, and two of different keys a domain.
KeyOf    == (q1 :> k1) @@ (q2 :> k1) @@ (q3 :> k2)
DomainOf == (q1 :> 1) @@ (q2 :> 2) @@ (q3 :> 1)

\* The file-backed key provider: three keys, three stores written.
LocalKeys == INSTANCE LocalKeyProvider WITH
    Kids <- Keys, Threads <- {c1}, MaxStores <- 3, NoKid <- None,
    file <- v1, disk <- v2, up <- v3, keys <- v4, activeKid <- v5, op <- v6,
    thread <- v7, used <- v8, owed <- v9, result <- v10

\* Three processes race to create the first key file; each makes one key.
Creation == INSTANCE KeyFileCreation WITH
    Processes <- Keys, Absent <- None, Torn <- "torn",
    file <- v1, disk <- v2, pc <- v3, holds <- v4, broken <- v5

\* Two calls and two failures at the AWS provider.
AWS == INSTANCE AWSKeyProvider WITH
    Calls <- Callers, ScheduleDeletionOnPurge <- TRUE, MaxFaults <- 2,
    kms <- v1, active <- v2, retained <- v3, pending <- v4, calls <- v5,
    reported <- v6, doubted <- v7, faults <- v8

\* Two signers and two generations at the GCP provider.
GCP == INSTANCE GCPKeyProvider WITH
    Kids <- Keys, Signers <- Callers, Generators <- Callers,
    active <- v1, keys <- v2, pending <- v3, signing <- v4, gen <- v5, signed <- v6

\* Managed rotations, with five failures anywhere.
Rotation == INSTANCE ManagedRotation WITH
    Kids <- Keys, MaxFaults <- 5,
    file <- v1, disk <- v2, unsure <- v3, used <- v4, saved <- v5, held <- v6,
    rot <- v7, pc <- v8, answer <- v9, paused <- v10, current <- v11, queue <- v12,
    decided <- v13, log <- v14, refused <- v15, faults <- v16, rejected <- v17,
    torn <- v18

\* Two processes resume one managed issuance, with two failures.
Issuance == INSTANCE ManagedIssuance WITH
    Workers <- Callers, Bytes <- {"b1", "b2"}, MaxFaults <- 2, NoBytes <- None,
    saved <- v1, blocked <- v2, worker <- v3, bound <- v4, outcome <- v5, faults <- v6

\* The publication of a client-controlled record, while keys and content
\* change.
Publishing == INSTANCE RegistryWorkflows WITH
    Kids <- Callers, Tags <- {"t1", "t2"}, Local <- "t1", Versions <- {1, 2},
    Profile <- 1, Targets <- {"READY"},
    status <- v1, authority <- v2, prepared <- v3, dns <- v4, active <- v5,
    wait <- v6, await <- v7, publish <- v8, submitted <- v9, cache <- v10,
    other <- v11, refresh <- v12

\* Two registrations of agents below a root; the first has an idempotency key.
Registration == INSTANCE AgentRegistration WITH
    Names <- {"r", "ra", "rb"}, Below <- {<<"ra", "r">>, <<"rb", "r">>},
    MaxAgents <- 3, MaxAttempts <- 2, Keyed <- {c1},
    agents <- v1, replay <- v2, spent <- v3, call <- v4

\* Three live registrations whose answers may be mixed up.
Live == INSTANCE LiveRegistration WITH
    Requests <- {q1, q2, q3}, MaxNonce <- 2, MaxFaults <- 1, MaxMixed <- 1,
    issued <- v1, expired <- v2, proved <- v3, live <- v4, sent <- v5, faults <- v6,
    mixed <- v7

-----------------------------------------------------------------------------
Init ==
    \/ part = "local" /\ LocalKeys!LKPInit /\ Unused(10)
    \/ part = "create" /\ Creation!Init /\ Unused(5)
    \/ part = "aws" /\ AWS!Init /\ Unused(8)
    \/ part = "gcp" /\ GCP!Init /\ Unused(6)
    \/ part = "rotation" /\ Rotation!RotInit /\ Unused(18)
    \/ part = "issuance" /\ Issuance!Init /\ Unused(6)
    \/ part = "publish" /\ Publishing!Init /\ Unused(12)
    \/ part = "await" /\ Publishing!Init /\ Unused(12)
    \/ part = "register" /\ Registration!Init /\ Unused(4)
    \/ part = "live" /\ Live!Init /\ Unused(7)

Next ==
    \/ part = "local" /\ LocalKeys!LKPNext /\ Still(10)
    \/ part = "create" /\ Creation!Next /\ Still(5)
    \/ part = "aws" /\ AWS!Next /\ Still(8)
    \/ part = "gcp" /\ GCP!Next /\ Still(6)
    \/ part = "rotation" /\ Rotation!RotNext /\ Still(18)
    \/ part = "issuance" /\ Issuance!Next /\ Still(6)
    \/ part = "publish" /\ Publishing!Publishing /\ Still(12)
    \/ part = "await" /\ Publishing!Awaiting /\ Still(12)
    \/ part = "register" /\ Registration!Next /\ Still(4)
    \/ part = "live" /\ Live!Next /\ Still(7)

Spec == Init /\ [][Next]_vars

-----------------------------------------------------------------------------
(* Properties *)

\* The key file is a KeyStore: whatever fails or stops, it holds one whole
\* store after the other, by legal changes only, and a power loss falls back to
\* a published one (local key provider).
ImplementsKeyStore ==
    /\ part = "local" => LocalKeys!Init
    /\ [][part = "local" => LocalKeys!Next]_<<v1, v2>>

\* What the local provider reported as stored survives every crash and power
\* loss, memory and file agree, and retired keys do not sign; processes that
\* race to create the file end up with one durable key, and the file is left
\* unreadable only by a stop inside the creation or by a failed creation that
\* could not remove its file (local key provider).
KeysSurvive ==
    /\ part = "local" => LocalKeys!KeysSurvive
    /\ part = "create" => Creation!TypeOK /\ Creation!CreatedKeyIsDurable /\ Creation!ProvidersAgree /\ Creation!UnreadableOnlyAfterCrash

\* The rotation state and KMS agree, although calls ask KMS without the lock
\* and KMS fails, or reports an error for what it has done: a key is in one
\* place, no key of the state is scheduled for deletion but by a request that
\* reported an error, and no enabled key is lost but one whose creation did
\* (AWS provider).
StateMatchesKMS == part = "aws" => AWS!StateMatchesKMS

\* A transition waits for the signatures in flight: when a signature is
\* returned, its key may still sign. The active key is held and not pending,
\* also after generations that were in progress meanwhile, and no generation
\* makes an active or a retired key pending again (GCP provider).
SignedByEligible ==
    /\ [](part = "gcp" => GCP!SignedByEligible /\ GCP!ActiveIsHeld)
    /\ [][part = "gcp" => GCP!RetiredStaysRetired]_<<v2, v3>>

\* Through every failure and restart of a rotation: the published key is never
\* lost, a key becomes active only if the log accepted it, an accepted entry
\* stays recoverable from the journal, and the application signs only with the
\* published key and is released only when the activation is durable, except
\* that a process that died in both operations on the key store before their
\* directory sync leaves a resume nothing to make durable (managed rotation).
AcceptedIsRecoverable ==
    part = "rotation" => /\ Rotation!TypeOK /\ Rotation!CurrentKeyNeverLost /\ Rotation!ActiveOnlyIfAccepted
                         /\ Rotation!SignsOnlyWithPublishedKey /\ Rotation!AcceptedIsRecoverable
                         /\ Rotation!ReleasedOnlyWhenActivationDurable

\* Activation is never open while the outcome of a submitted ISSUANCE is
\* unresolved, also when two processes resume it
\* (ManagedIssuanceActivationController).
NoActivationWhileUnresolved == part = "issuance" => Issuance!TypeOK /\ Issuance!NoActivationWhileUnresolved

\* A signature that reaches the registry is over the local record, by the key
\* it was prepared for; and the record that AwaitRegistryManagedPublication
\* returns was in the DNS when the registry reported the publication or later,
\* never evidence cached or in flight from before, unless the verification
\* joined the status refresh of a caller that had hit the cache before the
\* eviction (registry workflows).
ConfirmationIsFresh ==
    /\ part = "publish" => Publishing!SubmittedIsLocalRecord
    /\ part = "await" => Publishing!ConfirmationIsFresh

\* What RegisterAgent returns is the agent that was created for this caller, of
\* the domain it asked for, and a repeated registration is never another or
\* refused; a live proof is over a transcript of the caller's own key and goes
\* to the domain it names (agent registration).
RegisteredIsOwn ==
    /\ part = "register" => Registration!RegisteredIsOwn /\ Registration!OneAgentPerKey /\ Registration!RecoveryReplays
    /\ part = "live" => Live!ProofIsBound
=============================================================================
