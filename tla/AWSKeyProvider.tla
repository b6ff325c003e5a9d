---------------------------- MODULE AWSKeyProvider ----------------------------
(***************************************************************************)
(* The AWS KMS key provider (key/aws/awskms.go).  Calls run concurrently:   *)
(* the lock covers the rotation state and no call to KMS, so what a call    *)
(* read before KMS answered may have changed after.  A call to KMS may fail *)
(* at most MaxFaults times, and a call that fails, by OperationTimeout say, *)
(* may have taken effect all the same; a signature may be by another key.   *)
(* Kids are canonical; a lookup of one succeeds, from the cache of public   *)
(* keys or from KMS, or fails.                                              *)
(***************************************************************************)
EXTENDS Naturals

CONSTANTS Keys, Calls,
          ScheduleDeletionOnPurge,  \* Config: delete in KMS what leaves the state
          MaxFaults

VARIABLES kms,      \* the keys in KMS: "absent", "enabled" or "deleting"
          active, retained, pending,   \* State
          calls,    \* the calls in progress
          reported, \* history: keys of the GenerateKey calls that ended with an error
          doubted,  \* history: keys whose deletion KMS answered with an error
          faults    \* failures of KMS so far

vars == <<kms, active, retained, pending, calls, reported, doubted, faults>>
state == <<active, retained, pending>>

Idle == [pc |-> "idle"]
Goto(c, to) == calls' = [calls EXCEPT ![c] = to]
Fault == faults < MaxFaults /\ faults' = faults + 1

\* ScheduleKeyDeletion answers with an error: the deletion is scheduled or not.
Undecided(k) == kms' \in {kms, [kms EXCEPT ![k] = "deleting"]}

(* Mutants. *)
NotRestored(k, from) == UNCHANGED <<retained, pending>>

-----------------------------------------------------------------------------
(* GenerateKey *)

\* CreateSigningKey succeeds.
BeginGenerate(c) ==
    /\ calls[c].pc = "idle"
    /\ \E k \in Keys : /\ kms[k] = "absent"
                       /\ kms' = [kms EXCEPT ![k] = "enabled"]
                       /\ Goto(c, [pc |-> "validate", kid |-> k])
    /\ UNCHANGED <<state, reported, doubted, faults>>

\* CreateSigningKey fails, which ends the call: no key was made, or one that the
\* provider has no name for.
CreationFails(c) ==
    /\ calls[c].pc = "idle" /\ Fault
    /\ \E k \in Keys : /\ kms[k] = "absent"
                       /\ kms' \in {kms, [kms EXCEPT ![k] = "enabled"]}
                       /\ reported' = IF kms' = kms THEN reported ELSE reported \cup {k}
    /\ UNCHANGED <<state, calls, doubted>>

\* The created key passes validation and is recorded.
RecordPending(c) ==
    /\ calls[c].pc = "validate"
    /\ pending' = pending \cup {calls[c].kid}
    /\ Goto(c, Idle)
    /\ UNCHANGED <<kms, active, retained, reported, doubted, faults>>

\* Validation fails: its deletion is scheduled, which may fail as well.
ValidationFails(c) ==
    /\ calls[c].pc = "validate" /\ Fault
    /\ Goto(c, [pc |-> "discard", kid |-> calls[c].kid])
    /\ UNCHANGED <<kms, state, reported, doubted>>

Discard(c) ==
    /\ calls[c].pc = "discard"
    /\ \/ /\ kms' = IF ScheduleDeletionOnPurge THEN [kms EXCEPT ![calls[c].kid] = "deleting"] ELSE kms
          /\ UNCHANGED faults
       \/ Fault /\ ScheduleDeletionOnPurge /\ Undecided(calls[c].kid)
    /\ reported' = reported \cup {calls[c].kid}
    /\ Goto(c, Idle)
    /\ UNCHANGED <<state, doubted>>

-----------------------------------------------------------------------------
(* Activate, Supersede and Purge *)

\* One step: the kid was resolved before the lock was taken.
Activate(c) ==
    /\ calls[c].pc = "idle"
    /\ \E k \in pending : /\ pending' = pending \ {k}
                          /\ retained' = retained \cup {active}
                          /\ active' = k
    /\ UNCHANGED <<kms, calls, reported, doubted, faults>>

\* Supersede finds the key retained, and purges it in a second step.
BeginSupersede(c) ==
    /\ calls[c].pc = "idle"
    /\ \E k \in retained : Goto(c, [pc |-> "purge", kid |-> k])
    /\ UNCHANGED <<kms, state, reported, doubted, faults>>

BeginPurge(c) ==
    /\ calls[c].pc = "idle"
    /\ \E k \in Keys : Goto(c, [pc |-> "purge", kid |-> k])
    /\ UNCHANGED <<kms, state, reported, doubted, faults>>

\* The key leaves the state before KMS is asked to delete it.
Claim(k) ==
    /\ retained' = retained \ {k}
    /\ pending' = IF k \in retained THEN pending ELSE pending \ {k}

Purge(c) ==
    /\ calls[c].pc = "purge"
    /\ LET k == calls[c].kid IN
       IF k # active /\ k \in retained \cup pending
       THEN /\ Claim(k)
            /\ Goto(c, IF ScheduleDeletionOnPurge
                       THEN [pc |-> "delete", kid |-> k, from |-> IF k \in retained THEN "retained" ELSE "pending"]
                       ELSE Idle)
       ELSE Goto(c, Idle) /\ UNCHANGED <<retained, pending>>
    /\ UNCHANGED <<kms, active, reported, doubted, faults>>

ScheduleKeyDeletion(c) ==
    /\ calls[c].pc = "delete" /\ kms[calls[c].kid] = "enabled"
    /\ kms' = [kms EXCEPT ![calls[c].kid] = "deleting"]
    /\ Goto(c, Idle)
    /\ UNCHANGED <<state, reported, doubted, faults>>

\* After a failure the key is restored, unless it is back already.
Restore(k, from) ==
    IF k = active \/ k \in retained \cup pending
    THEN UNCHANGED <<retained, pending>>
    ELSE /\ retained' = IF from = "retained" THEN retained \cup {k} ELSE retained
         /\ pending' = IF from = "pending" THEN pending \cup {k} ELSE pending

\* KMS refuses a key whose deletion is scheduled already.
DeletionFails(c) ==
    /\ calls[c].pc = "delete"
    /\ IF kms[calls[c].kid] = "deleting" THEN UNCHANGED faults ELSE Fault
    /\ Undecided(calls[c].kid)
    /\ doubted' = doubted \cup {calls[c].kid}
    /\ Restore(calls[c].kid, calls[c].from)
    /\ Goto(c, Idle)
    /\ UNCHANGED <<active, reported>>

-----------------------------------------------------------------------------
(* Sign and SignKey *)

\* Sign reads the active kid.
BeginSign(c) ==
    /\ calls[c].pc = "idle"
    /\ Goto(c, [pc |-> "sign", kid |-> active])
    /\ UNCHANGED <<kms, state, reported, doubted, faults>>

\* SignKey resolves the kid, then looks whether it may sign.
BeginSignKey(c) ==
    /\ calls[c].pc = "idle"
    /\ \E k \in Keys : kms[k] # "absent" /\ Goto(c, [pc |-> "eligible", kid |-> k])
    /\ UNCHANGED <<kms, state, reported, doubted, faults>>

MaySign(k) == k = active \/ k \in pending

CheckEligible(c) ==
    /\ calls[c].pc = "eligible"
    /\ Goto(c, IF MaySign(calls[c].kid) THEN [calls[c] EXCEPT !.pc = "sign"] ELSE Idle)
    /\ UNCHANGED <<kms, state, reported, doubted, faults>>

\* A signature by another key than was asked for, as KMS names it, is refused.
SignByKMS(c) ==
    /\ calls[c].pc = "sign"
    /\ \E by \in Keys : kms[by] = "enabled" /\ IF by = calls[c].kid THEN UNCHANGED faults ELSE Fault
    /\ Goto(c, Idle)
    /\ UNCHANGED <<kms, state, reported, doubted>>

\* A call to KMS fails: the key is being deleted, or the service is away.
SignFails(c) ==
    /\ calls[c].pc \in {"eligible", "sign"}
    /\ IF kms[calls[c].kid] = "enabled" THEN Fault ELSE UNCHANGED faults
    /\ Goto(c, Idle)
    /\ UNCHANGED <<kms, state, reported, doubted>>

-----------------------------------------------------------------------------
\* Load: the state names keys of KMS, each once.
Init ==
    /\ active \in Keys
    /\ retained \in SUBSET (Keys \ {active}) /\ pending = {}
    /\ kms = [k \in Keys |-> IF k \in retained \cup {active} THEN "enabled" ELSE "absent"]
    /\ calls = [c \in Calls |-> Idle]
    /\ reported = {} /\ doubted = {} /\ faults = 0

Next == \E c \in Calls :
    \/ BeginGenerate(c) \/ CreationFails(c) \/ RecordPending(c) \/ ValidationFails(c) \/ Discard(c)
    \/ Activate(c) \/ BeginSupersede(c) \/ BeginPurge(c) \/ Purge(c) \/ ScheduleKeyDeletion(c) \/ DeletionFails(c)
    \/ BeginSign(c) \/ BeginSignKey(c) \/ CheckEligible(c) \/ SignByKMS(c) \/ SignFails(c)

Spec == Init /\ [][Next]_vars

-----------------------------------------------------------------------------
(* Properties *)

\* The rotation state and KMS agree, although calls ask KMS without the lock and
\* KMS fails.  A key has one place in the state.  No key of the state is scheduled
\* for deletion, unless KMS answered with an error when Purge asked to delete it.
\* No key is lost: what is enabled in KMS is in the state, in the hands of a call,
\* or was made by a GenerateKey call that ended with an error.
StateMatchesKMS ==
    /\ active \notin retained \cup pending /\ retained \cap pending = {}
    /\ \A k \in {active} \cup retained \cup pending : kms[k] = "deleting" => k \in doubted
    /\ \A k \in Keys : kms[k] = "enabled" =>
         \/ k \in {active} \cup retained \cup pending \cup reported
         \/ \E c \in Calls : calls[c].pc \in {"validate", "discard", "delete"} /\ calls[c].kid = k
=============================================================================
