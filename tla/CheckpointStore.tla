-------------------------- MODULE CheckpointStore --------------------------
(***************************************************************************)
(* Trusted c2sp-tlog checkpoint state of one origin (checkpoint_store.go): *)
(* a compare-and-swap store shared by verifiers, each of which advances it *)
(* through the checkpoints its proofs were verified against, smallest      *)
(* first.  Store operations are atomic; everything a verifier does between *)
(* two of them interleaves with the others.                                *)
(***************************************************************************)
EXTENDS Naturals, Sequences

CONSTANTS
  Verifiers,      \* goroutines or processes that verify a history
  Checkpoint,     \* (tree size, root hash) pairs
  Size(_),        \* the tree size
  Extends(_, _),  \* Extends(c, d): c's tree has d's tree as a prefix
  WitnessTimes,   \* witnessed times a checkpoint may carry
  MaxBatch,       \* bound: the entry proofs of one history
  None            \* a nil *TrustedC2spCheckpoint

\* Trees under the prefix order.  Equal roots are equal trees, and the prefixes
\* of one tree are totally ordered, because the hash has no collisions.
ASSUME CheckpointAssumption ==
  /\ \A c \in Checkpoint : Size(c) \in Nat
  /\ \A c, d \in Checkpoint : Extends(c, d) \in BOOLEAN
  /\ \A c \in Checkpoint : Extends(c, c)
  /\ \A c, d, e \in Checkpoint : Extends(c, d) /\ Extends(d, e) => Extends(c, e)
  /\ \A c, d \in Checkpoint : Extends(c, d) => Size(d) <= Size(c)
  /\ \A c, d, e \in Checkpoint :
       Extends(c, d) /\ Extends(c, e) /\ Size(d) <= Size(e) => Extends(e, d)
  /\ \A c, d \in Checkpoint : Extends(c, d) /\ Size(c) = Size(d) => c = d
  /\ \A c, d \in Checkpoint : Size(d) = 0 => Extends(c, d)

ASSUME BatchAssumption == MaxBatch \in Nat

\* TrustedC2spCheckpoint without its origin.
Tuple == [cp : Checkpoint, wt : WitnessTimes]

ASSUME NoneAssumption == None \notin Tuple /\ None \notin Checkpoint

\* How a verification ends.  The rejections are the CheckpointAdvanceError kinds
\* and the evidence errors of a complete scan.
Rejections == {"rollback", "root_conflict", "consistency_failed",
               "consistency_unavailable", "invalid_evidence"}
Failures == {"fetch_error", "store_error", "cancelled"}
Results == {"none", "ok"} \cup Rejections \cup Failures

\* A verifier: the checkpoints of its proofs, in the order it takes them, the
\* position of the one it is at in advanceTrustedCheckpoint, and the state it
\* loaded.
Verifier == [pc : {"idle", "load", "verify", "cas"}, batch : Seq(Tuple), at : Nat,
             seen : Tuple \cup {None}, result : Results]

VARIABLES
  trusted,    \* the stored tuple, None when none is recorded
  verifiers,
  accepted    \* history: checkpoints relied on since the last baseline

vars == <<trusted, verifiers, accepted>>

TypeOK ==
  /\ trusted \in Tuple \cup {None}
  /\ verifiers \in [Verifiers -> Verifier]
  /\ accepted \subseteq Checkpoint

\* The verification returns.  An accepted history keeps its checkpoints, to be
\* looked at by the properties.
Idle(result, batch) ==
  [pc |-> "idle", batch |-> batch, at |-> 0, seen |-> None, result |-> result]

Init ==
  /\ trusted = None
  /\ verifiers = [v \in Verifiers |-> Idle("none", <<>>)]
  /\ accepted = {}

Comparable(c, d) == Extends(c, d) \/ Extends(d, c)

-----------------------------------------------------------------------------
(* A verifier. *)

\* Mutant: the proofs are taken in the order they came.
SortedNot(batch) == TRUE

\* verifyHistoryEntries sorts its proofs by checkpoint size.
Sorted(batch) ==
  \A i, j \in DOMAIN batch : i <= j => Size(batch[i].cp) <= Size(batch[j].cp)

\* One candidate per entry proof: entries proved against one checkpoint repeat
\* it.
Batches == UNION {[1 .. n -> Tuple] : n \in 1 .. MaxBatch}

Begin(v) ==
  /\ verifiers[v].pc = "idle"
  /\ \E batch \in Batches :
       /\ Sorted(batch)
       /\ verifiers' = [verifiers EXCEPT ![v] =
            [pc |-> "load", batch |-> batch, at |-> 1, seen |-> None, result |-> "none"]]
  /\ UNCHANGED <<trusted, accepted>>

Cand(v) == verifiers[v].batch[verifiers[v].at]

Fail(v, why) == verifiers' = [verifiers EXCEPT ![v] = Idle(why, <<>>)]

\* advanceTrustedCheckpoint returns nil; the loop of advanceTrustedCheckpoints
\* takes the next candidate.
Proceed(v) ==
  \/ /\ verifiers[v].at = Len(verifiers[v].batch)
     /\ verifiers' = [verifiers EXCEPT ![v] = Idle("ok", verifiers[v].batch)]
  \/ /\ verifiers[v].at < Len(verifiers[v].batch)
     /\ verifiers' = [verifiers EXCEPT ![v].pc = "load", ![v].at = @ + 1, ![v].seen = None]

Accept(v) ==
  /\ Proceed(v)
  /\ accepted' = accepted \cup {Cand(v).cp}

\* The retry loop's load, and what the loaded state says about the candidate.
LoadNothing(v) ==
  /\ verifiers[v].pc = "load"
  /\ trusted = None
  /\ verifiers' = [verifiers EXCEPT ![v].pc = "cas", ![v].seen = None]
  /\ UNCHANGED <<trusted, accepted>>

LoadLarger(v) ==
  /\ verifiers[v].pc = "load"
  /\ trusted # None
  /\ Size(Cand(v).cp) < Size(trusted.cp)
  /\ Fail(v, "rollback")
  /\ UNCHANGED <<trusted, accepted>>

LoadConflicting(v) ==
  /\ verifiers[v].pc = "load"
  /\ trusted # None
  /\ Size(Cand(v).cp) = Size(trusted.cp)
  /\ Cand(v).cp # trusted.cp
  /\ Fail(v, "root_conflict")
  /\ UNCHANGED <<trusted, accepted>>

\* The candidate is trusted already; its witness time is not refreshed.
LoadSame(v) ==
  /\ verifiers[v].pc = "load"
  /\ trusted # None
  /\ Size(Cand(v).cp) = Size(trusted.cp)
  /\ Cand(v).cp = trusted.cp
  /\ Accept(v)
  /\ UNCHANGED trusted

\* Mutant: a retry goes straight to the swap.
LoadUnverified(v) ==
  /\ verifiers[v].pc = "load"
  /\ trusted # None
  /\ Size(Cand(v).cp) > Size(trusted.cp)
  /\ verifiers' = [verifiers EXCEPT ![v].pc = "cas", ![v].seen = trusted]
  /\ UNCHANGED <<trusted, accepted>>

LoadSmaller(v) ==
  /\ verifiers[v].pc = "load"
  /\ trusted # None
  /\ Size(Cand(v).cp) > Size(trusted.cp)
  /\ verifiers' = [verifiers EXCEPT
       ![v].pc = IF Size(trusted.cp) = 0 THEN "cas" ELSE "verify",
       ![v].seen = trusted]
  /\ UNCHANGED <<trusted, accepted>>

\* verifyCheckpointConsistency: a proof, hash tiles or a complete scan that
\* connects the loaded tree to the candidate's, which exists for an extension
\* only.
Consistent(v) ==
  /\ verifiers[v].pc = "verify"
  /\ Extends(Cand(v).cp, verifiers[v].seen.cp)
  /\ verifiers' = [verifiers EXCEPT ![v].pc = "cas"]
  /\ UNCHANGED <<trusted, accepted>>

\* The evidence contradicts the candidate, is malformed, cannot be had or could
\* not be fetched.
Inconsistent(v) ==
  /\ verifiers[v].pc = "verify"
  /\ \E why \in {"consistency_failed", "consistency_unavailable",
                 "invalid_evidence", "fetch_error"} : Fail(v, why)
  /\ UNCHANGED <<trusted, accepted>>

\* Mutant: the swap compares tree sizes.
MatchesSize(v) ==
  \/ trusted = None /\ verifiers[v].seen = None
  \/ trusted # None /\ verifiers[v].seen # None /\ Size(trusted.cp) <= Size(Cand(v).cp)

\* Mutant: the expected tuple has lost its witness time.
MatchesNever(v) == trusted = None /\ verifiers[v].seen = None

\* trustedCheckpointsEqual, witness time included.
Matches(v) == trusted = verifiers[v].seen

Swap(v) ==
  /\ verifiers[v].pc = "cas"
  /\ Matches(v)
  /\ trusted' = Cand(v)
  /\ Accept(v)

\* Another writer was first: reload and retry.
SwapLost(v) ==
  /\ verifiers[v].pc = "cas"
  /\ ~Matches(v)
  /\ verifiers' = [verifiers EXCEPT ![v].pc = "load", ![v].seen = None]
  /\ UNCHANGED <<trusted, accepted>>

\* The store published the candidate and reports an error all the same.
SwapUnacknowledged(v) ==
  /\ verifiers[v].pc = "cas"
  /\ Matches(v)
  /\ trusted' = Cand(v)
  /\ Fail(v, "store_error")
  /\ UNCHANGED accepted

\* A load or a swap fails and nothing was published.
StoreFails(v) ==
  /\ verifiers[v].pc \in {"load", "cas"}
  /\ Fail(v, "store_error")
  /\ UNCHANGED <<trusted, accepted>>

\* The caller's context ends, or its process does.
Cancel(v) ==
  /\ verifiers[v].pc # "idle"
  /\ Fail(v, "cancelled")
  /\ UNCHANGED <<trusted, accepted>>

-----------------------------------------------------------------------------
(* The administrator of the store. *)

Stopped == \A v \in Verifiers : verifiers[v].pc = "idle"

\* An authorized replacement: one exact-state swap, with verification stopped.
Rebaseline ==
  /\ Stopped
  /\ trusted # None
  /\ trusted' \in Tuple
  /\ accepted' = {}
  /\ UNCHANGED verifiers

\* A process starts with an empty NewMemoryTrustedC2spCheckpointStore.
NewStore ==
  /\ Stopped
  /\ trusted' = None
  /\ accepted' = {}
  /\ UNCHANGED verifiers

Step(v) ==
  \/ LoadNothing(v)
  \/ LoadLarger(v)
  \/ LoadConflicting(v)
  \/ LoadSame(v)
  \/ LoadSmaller(v)
  \/ Consistent(v)
  \/ Inconsistent(v)
  \/ Swap(v)
  \/ SwapLost(v)
  \/ SwapUnacknowledged(v)
  \/ StoreFails(v)
  \/ Cancel(v)

Next ==
  \/ \E v \in Verifiers : Begin(v) \/ Step(v)
  \/ Rebaseline
  \/ NewStore

Spec == Init /\ [][Next]_vars

\* A verifier that has begun keeps running.
FairSpec == Spec /\ \A v \in Verifiers : WF_vars(Step(v))

-----------------------------------------------------------------------------
(* Properties. *)

\* No split view: all the checkpoints that verifications have relied on since
\* the last baseline lie on one history, and the trusted one extends them all,
\* whatever verifiers raced for the store.
NoSplitView ==
  /\ accepted # {} => trusted # None
  /\ \A c \in accepted : Extends(trusted.cp, c)
  /\ \A c, d \in accepted : Comparable(c, d)

\* A history is accepted only if all the checkpoints its entries were proved
\* against lie on one history.
AcceptedBatchIsOneHistory ==
  \A v \in Verifiers :
    verifiers[v].result = "ok" =>
      \A i, j \in DOMAIN verifiers[v].batch :
        Comparable(verifiers[v].batch[i].cp, verifiers[v].batch[j].cp)

\* Verification never resets or rolls back trust: a verifier's step leaves the
\* trusted checkpoint or replaces it by an extension of it.
VerificationOnlyExtends ==
  [][verifiers' # verifiers /\ trusted # None
       => trusted' # None /\ Extends(trusted'.cp, trusted.cp)]_vars

\* The checkpoints that a verifier has taken before its candidate.
Taken(v) == {verifiers[v].batch[i].cp : i \in 1 .. (verifiers[v].at - 1)}

\* A verifier's history is not refused for what the verifier did itself, only
\* for another's progress (the sort in verifyHistoryEntries, the comparisons of
\* advanceTrustedCheckpoint).  When a candidate is refused as a rollback, what is
\* trusted is not a checkpoint that this verifier has taken before it.  A
\* checkpoint that it has taken before, which comes again with the proof of
\* another entry, is refused as a rollback only, behind an extension of it: never
\* as a conflict and never for want of evidence.
SelfRejection(v) ==
  \/ verifiers'[v].result = "rollback" /\ trusted.cp \in Taken(v)
  \/ /\ verifiers'[v].result \in Rejections
     /\ Cand(v).cp \in Taken(v)
     /\ ~(verifiers'[v].result = "rollback" /\ Extends(trusted.cp, Cand(v).cp))

NoSelfRejection ==
  [][\A v \in Verifiers : verifiers[v].pc # "idle" => ~SelfRejection(v)]_vars

\* The retry loop of advanceTrustedCheckpoint ends: verifiers that race for the
\* store do not keep each other retrying.
VerificationEnds ==
  \A v \in Verifiers : verifiers[v].pc # "idle" ~> verifiers[v].pc = "idle"

\* What makes the invariants above inductive: what a verifier has taken is
\* accepted, it takes its checkpoints by size, and past its consistency check it
\* holds a candidate that it has not taken before and that extends the state it
\* will ask the store to replace.
VerifierOK(v) ==
  /\ verifiers[v].pc # "idle" =>
       /\ verifiers[v].at \in DOMAIN verifiers[v].batch
       /\ Sorted(verifiers[v].batch)
       /\ verifiers[v].result = "none"
       /\ Taken(v) \subseteq accepted
  /\ verifiers[v].pc \in {"verify", "cas"} => Cand(v).cp \notin Taken(v)
  /\ verifiers[v].pc = "verify" => verifiers[v].seen # None
  /\ verifiers[v].pc = "cas" =>
       verifiers[v].seen = None \/ Extends(Cand(v).cp, verifiers[v].seen.cp)

TrustedCoversAccepted ==
  \A c \in accepted : trusted # None /\ Extends(trusted.cp, c)

\* The inductive invariant: no verifier can replace the trusted state by
\* anything but an extension, at any point of any race for the store.
Inv ==
  /\ TypeOK
  /\ TrustedCoversAccepted
  /\ \A v \in Verifiers : VerifierOK(v)
  /\ AcceptedBatchIsOneHistory

\* The store and its verifiers implement the abstract promise.
Abstract == INSTANCE TrustedCheckpoints
  WITH trusted <- IF trusted = None THEN None ELSE trusted.cp

ImplementsTrustedCheckpoints == Abstract!Spec
=============================================================================
