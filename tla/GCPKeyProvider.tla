---------------------------- MODULE GCPKeyProvider ----------------------------
(***************************************************************************)
(* The Google Cloud KMS key provider (key/gcp/provider.go).  A signature    *)
(* holds the read lock across the call to KMS; generation takes the lock    *)
(* only to record the new key.  Kids are thumbprints of public keys, so two *)
(* versions with one public key have one kid.                               *)
(***************************************************************************)
EXTENDS Naturals

CONSTANTS Kids, Signers, Generators, None

VARIABLES active,   \* kid of the active key, or None
          keys,     \* the held kids
          pending,  \* those that are pending
          signing,  \* the signatures in progress: a kid, or None
          gen,      \* the generations in progress
          signed    \* signatures returned

vars == <<active, keys, pending, signing, gen, signed>>

(* Mutants. *)
LockedNever == TRUE
NoDeadlineInLoop(g) == gen[g].pc = "open"

\* A writer waits for the readers, and a reader for no writer: a write is one step.
Unlocked == \A s \in Signers : signing[s] = None

-----------------------------------------------------------------------------
(* Sign and SignKey *)

Eligible(k) == k \in keys /\ (k = active \/ k \in pending)

BeginSign(s) ==
    /\ signing[s] = None
    /\ \E k \in Kids : Eligible(k) /\ signing' = [signing EXCEPT ![s] = k]
    /\ UNCHANGED <<active, keys, pending, gen, signed>>

\* The response names the version and verifies with its public key.
FinishSign(s) ==
    /\ signing[s] # None
    /\ signed' = [kid |-> signing[s], eligible |-> {k \in keys : Eligible(k)}]
    /\ signing' = [signing EXCEPT ![s] = None]
    /\ UNCHANGED <<active, keys, pending, gen>>

SignFails(s) ==
    /\ signing[s] # None
    /\ signing' = [signing EXCEPT ![s] = None]
    /\ UNCHANGED <<active, keys, pending, gen, signed>>

-----------------------------------------------------------------------------
(* GenerateKey *)

Goto(g, to) == gen' = [gen EXCEPT ![g] = to]

\* CreateCryptoKeyVersion answers with a version, enabled or still being generated.
BeginGenerate(g) ==
    /\ gen[g].pc = "idle"
    /\ \E pc \in {"poll", "open"} : Goto(g, [pc |-> pc])
    /\ UNCHANGED <<active, keys, pending, signing, signed>>

\* GetCryptoKeyVersion: still being generated, the wait before the next poll included.
StillPending(g) ==
    /\ gen[g].pc = "poll"
    /\ Goto(g, [pc |-> "wait"])
    /\ UNCHANGED <<active, keys, pending, signing, signed>>

PollAgain(g) ==
    /\ gen[g].pc = "wait"
    /\ Goto(g, [pc |-> "poll"])
    /\ UNCHANGED <<active, keys, pending, signing, signed>>

Enabled(g) ==
    /\ gen[g].pc = "poll"
    /\ Goto(g, [pc |-> "open"])
    /\ UNCHANGED <<active, keys, pending, signing, signed>>

\* New: the version's public key is fetched and validated.
Open(g) ==
    /\ gen[g].pc = "open"
    /\ \E k \in Kids : Goto(g, [pc |-> "record", kid |-> k])
    /\ UNCHANGED <<active, keys, pending, signing, signed>>

\* A generated key whose kid is held already is refused.
IsNew(k) == k \notin keys

Record(g) ==
    /\ gen[g].pc = "record" /\ Unlocked
    /\ LET k == gen[g].kid IN
       IF IsNew(k)
       THEN keys' = keys \cup {k} /\ pending' = pending \cup {k}
       ELSE UNCHANGED <<keys, pending>>
    /\ Goto(g, [pc |-> "idle"])
    /\ UNCHANGED <<active, signing, signed>>

\* The 30 seconds for the whole generation pass, or a call to KMS fails.
Expired(g) == gen[g].pc \in {"poll", "wait", "open"}

GenerateFails(g) ==
    /\ Expired(g)
    /\ Goto(g, [pc |-> "idle"])
    /\ UNCHANGED <<active, keys, pending, signing, signed>>

-----------------------------------------------------------------------------
(* Activate, Supersede and Purge *)

Activate(k) ==
    /\ Unlocked
    /\ k \in pending
    /\ pending' = pending \ {k} /\ active' = k
    /\ UNCHANGED <<keys, signing, gen, signed>>

ActiveAfter(k) == IF active = k THEN None ELSE active

Supersede(k) ==
    /\ Unlocked
    /\ k \in keys
    /\ keys' = keys \ {k} /\ pending' = pending \ {k}
    /\ active' = ActiveAfter(k)
    /\ UNCHANGED <<signing, gen, signed>>

Purge(k) ==
    /\ Unlocked
    /\ k \in keys /\ k # active
    /\ keys' = keys \ {k} /\ pending' = pending \ {k}
    /\ UNCHANGED <<active, signing, gen, signed>>

-----------------------------------------------------------------------------
Init ==
    /\ active \in Kids /\ keys = {active} /\ pending = {}
    /\ signing = [s \in Signers |-> None]
    /\ gen = [g \in Generators |-> [pc |-> "idle"]]
    /\ signed = None

Next ==
    \/ \E s \in Signers : BeginSign(s) \/ FinishSign(s) \/ SignFails(s)
    \/ \E g \in Generators : \/ BeginGenerate(g) \/ StillPending(g) \/ PollAgain(g) \/ Enabled(g)
                             \/ Open(g) \/ Record(g) \/ GenerateFails(g)
    \/ \E k \in Kids : Activate(k) \/ Supersede(k) \/ Purge(k)

Spec == Init /\ [][Next]_vars

\* The deadline of a generation is a timer.  Signatures end, by their own
\* timeout, and Go's lock lets a waiting writer go before later readers.
Fairness == /\ \A g \in Generators : WF_vars(GenerateFails(g)) /\ SF_vars(Record(g))
            /\ \A s \in Signers : WF_vars(SignFails(s))
FairSpec == Spec /\ Fairness

-----------------------------------------------------------------------------
(* Properties *)

\* A transition waits for the signatures in flight: when a signature is
\* returned, its key may still sign.
SignedByEligible == signed # None => signed.kid \in signed.eligible

\* The active key is held and not pending, also after a generation that was
\* in progress while the key was activated or superseded has recorded its key.
ActiveIsHeld == active # None => active \in keys \ pending

\* A key that is held and no longer pending stays so until it is removed: no
\* generation turns an active or retained key into a pending one.
RetiredStaysRetired == \A k \in keys \ pending : k \notin pending'

\* A generation is under way.
Generating(g) == gen[g].pc # "idle"
=============================================================================
