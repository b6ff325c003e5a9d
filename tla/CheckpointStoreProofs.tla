----------------------- MODULE CheckpointStoreProofs -----------------------
(***************************************************************************)
(* The safety of trusted checkpoint state for any number of verifiers, any *)
(* set of checkpoints (forked as badly as one likes) and any batches.      *)
(***************************************************************************)
EXTENDS CheckpointStore, TLAPS

\* Two prefixes of one tree lie on one history.
LEMMA PrefixesComparable ==
  ASSUME NEW c \in Checkpoint, NEW d \in Checkpoint, NEW e \in Checkpoint,
         Extends(c, d), Extends(c, e)
  PROVE  Comparable(d, e)
<1>1. CASE Size(d) <= Size(e)
  BY <1>1, CheckpointAssumption DEF Comparable
<1>2. CASE Size(e) <= Size(d)
  BY <1>2, CheckpointAssumption DEF Comparable
<1> QED
  BY <1>1, <1>2, CheckpointAssumption

\* The initial state, with nothing recorded and no verifier running.
LEMMA InitInv == Init => Inv
<1> SUFFICES ASSUME Init PROVE Inv
  OBVIOUS
<1>1. Idle("none", <<>>) \in Verifier
  BY DEF Idle, Verifier, Results
<1>2. TypeOK
  BY <1>1 DEF Init, TypeOK
<1>3. \A v \in Verifiers : verifiers[v].pc = "idle" /\ verifiers[v].result = "none"
  BY DEF Init, Idle
<1>4. TrustedCoversAccepted
  BY DEF Init, TrustedCoversAccepted
<1>5. \A v \in Verifiers : VerifierOK(v)
  BY <1>3 DEF VerifierOK
<1>6. AcceptedBatchIsOneHistory
  BY <1>3 DEF AcceptedBatchIsOneHistory
<1> QED
  BY <1>2, <1>4, <1>5, <1>6 DEF Inv

\* What is known of a verifier that is running.
LEMMA Running ==
  ASSUME Inv, NEW v \in Verifiers, verifiers[v].pc # "idle"
  PROVE  /\ verifiers[v] \in Verifier
         /\ verifiers[v].result = "none"
         /\ verifiers[v].at \in 1 .. Len(verifiers[v].batch)
         /\ Sorted(verifiers[v].batch)
         /\ Cand(v) \in Tuple /\ Cand(v).cp \in Checkpoint
         /\ Taken(v) \subseteq accepted
<1>1. verifiers[v] \in Verifier /\ verifiers[v].batch \in Seq(Tuple)
  BY DEF Inv, TypeOK, Verifier
<1>2. /\ verifiers[v].at \in DOMAIN verifiers[v].batch /\ Sorted(verifiers[v].batch)
      /\ verifiers[v].result = "none" /\ Taken(v) \subseteq accepted
  BY DEF Inv, VerifierOK
<1>3. verifiers[v].at \in 1 .. Len(verifiers[v].batch)
  BY <1>1, <1>2
<1>4. Cand(v) \in Tuple
  BY <1>1, <1>3 DEF Cand
<1> QED
  BY <1>1, <1>2, <1>3, <1>4 DEF Tuple

\* A step of one verifier, which becomes r: what has to be shown about it.  The
\* other verifiers stay where they are, since accepted only grows.
LEMMA VerifierFrame ==
  ASSUME Inv, NEW v \in Verifiers, NEW r \in Verifier,
         verifiers' = [verifiers EXCEPT ![v] = r],
         trusted' \in Tuple \cup {None},
         accepted \subseteq accepted', accepted' \subseteq Checkpoint,
         TrustedCoversAccepted', VerifierOK(v)',
         r.result = "ok" => \A i, j \in DOMAIN r.batch : Comparable(r.batch[i].cp, r.batch[j].cp)
  PROVE  Inv'
<1>1. verifiers'[v] = r /\ \A w \in Verifiers \ {v} : verifiers'[w] = verifiers[w]
  BY DEF Inv, TypeOK
<1>2. TypeOK'
  BY DEF Inv, TypeOK
<1>3. ASSUME NEW w \in Verifiers PROVE VerifierOK(w)'
  <2>1. CASE w = v
    BY <2>1
  <2>2. CASE w # v
    <3>1. verifiers'[w] = verifiers[w] /\ VerifierOK(w)
      BY <1>1, <2>2 DEF Inv
    <3>2. Taken(w)' = Taken(w) /\ Cand(w)' = Cand(w)
      BY <3>1 DEF Taken, Cand
    <3> QED
      BY <3>1, <3>2 DEF VerifierOK
  <2> QED
    BY <2>1, <2>2
<1>4. AcceptedBatchIsOneHistory'
  BY <1>1 DEF Inv, AcceptedBatchIsOneHistory
<1> QED
  BY <1>2, <1>3, <1>4 DEF Inv

\* A verification that returns without relying on its candidate; the store may
\* have published it.
LEMMA FailInv ==
  ASSUME Inv, NEW v \in Verifiers, NEW why \in Rejections \cup Failures, Fail(v, why),
         trusted' \in Tuple \cup {None}, TrustedCoversAccepted', UNCHANGED accepted
  PROVE  Inv'
<1>1. ASSUME NEW r, r = Idle(why, <<>>) PROVE r \in Verifier /\ r.pc = "idle" /\ r.result # "ok"
  BY <1>1 DEF Idle, Verifier, Results, Rejections, Failures
<1>2. verifiers' = [verifiers EXCEPT ![v] = Idle(why, <<>>)] /\ verifiers'[v] = Idle(why, <<>>)
  BY DEF Fail, Inv, TypeOK
<1>3. VerifierOK(v)'
  BY <1>1, <1>2 DEF VerifierOK
<1>4. accepted' \subseteq Checkpoint
  BY DEF Inv, TypeOK
<1> QED
  BY <1>1, <1>2, <1>3, <1>4, VerifierFrame

\* Nothing of what a failing verification leaves behind changes.
LEMMA RefuseInv ==
  ASSUME Inv, NEW v \in Verifiers, NEW why \in Rejections \cup Failures, Fail(v, why),
         UNCHANGED <<trusted, accepted>>
  PROVE  Inv'
<1>1. trusted' \in Tuple \cup {None} /\ TrustedCoversAccepted'
  BY DEF Inv, TypeOK, TrustedCoversAccepted
<1> QED
  BY <1>1, FailInv

\* A candidate is accepted and the next one taken: the trusted checkpoint after
\* the step is the candidate, and it extends all that was accepted before.
LEMMA AcceptInv ==
  ASSUME Inv, NEW v \in Verifiers, verifiers[v].pc # "idle", Accept(v),
         trusted' \in Tuple, trusted'.cp = Cand(v).cp,
         \A c \in accepted : Extends(trusted'.cp, c)
  PROVE  Inv'
<1> DEFINE old == verifiers[v]
<1>1. /\ old \in Verifier /\ old.result = "none" /\ old.at \in 1 .. Len(old.batch)
      /\ old.batch \in Seq(Tuple) /\ Sorted(old.batch) /\ old.at \in Nat
      /\ Cand(v) \in Tuple /\ Cand(v).cp \in Checkpoint /\ Taken(v) \subseteq accepted
  BY Running DEF Verifier
<1>2. accepted' = accepted \cup {Cand(v).cp} /\ accepted' \subseteq Checkpoint
  BY <1>1 DEF Accept, Inv, TypeOK
<1>3. \A c \in accepted' : Extends(trusted'.cp, c)
  BY <1>1, <1>2, CheckpointAssumption
<1>4. TrustedCoversAccepted'
  BY <1>3, NoneAssumption DEF TrustedCoversAccepted
<1>5. \A i \in 1 .. old.at : old.batch[i].cp \in accepted'
  <2> SUFFICES ASSUME NEW i \in 1 .. old.at PROVE old.batch[i].cp \in accepted'
    OBVIOUS
  <2>1. CASE i = old.at
    BY <1>2, <2>1 DEF Cand
  <2>2. CASE i # old.at
    <3>1. i \in 1 .. (old.at - 1)
      BY <1>1, <2>2
    <3> QED
      BY <1>1, <1>2, <3>1 DEF Taken
  <2> QED
    BY <2>1, <2>2
<1>6. CASE old.at = Len(old.batch) /\ verifiers' = [verifiers EXCEPT ![v] = Idle("ok", old.batch)]
  <2>1. ASSUME NEW r, r = Idle("ok", old.batch)
        PROVE  r \in Verifier /\ r.pc = "idle" /\ r.batch = old.batch
    BY <1>1, <2>1 DEF Idle, Verifier, Results
  <2>2. verifiers'[v] = Idle("ok", old.batch)
    BY <1>6 DEF Inv, TypeOK
  <2>3. VerifierOK(v)'
    BY <2>1, <2>2 DEF VerifierOK
  <2>4. ASSUME NEW i \in DOMAIN old.batch, NEW j \in DOMAIN old.batch
        PROVE  Comparable(old.batch[i].cp, old.batch[j].cp)
    <3>1. i \in 1 .. old.at /\ j \in 1 .. old.at
      BY <1>1, <1>6
    <3>2. old.batch[i].cp \in accepted' /\ old.batch[j].cp \in accepted'
      BY <1>5, <3>1
    <3>3. trusted'.cp \in Checkpoint
      BY DEF Tuple
    <3> QED
      BY <1>2, <1>3, <3>2, <3>3, PrefixesComparable
  <2> QED
    BY <1>2, <1>4, <1>6, <2>1, <2>2, <2>3, <2>4, VerifierFrame
<1>7. CASE /\ old.at < Len(old.batch)
           /\ verifiers' = [verifiers EXCEPT ![v].pc = "load", ![v].at = @ + 1, ![v].seen = None]
  <2>1. ASSUME NEW r, r = [old EXCEPT !.pc = "load", !.at = @ + 1, !.seen = None]
        PROVE  /\ r \in Verifier /\ r.pc = "load" /\ r.batch = old.batch
               /\ r.at = old.at + 1 /\ r.result = "none"
    <3>1. PICK o \in Verifier, n \in Nat : o = old /\ n = old.at + 1
      BY <1>1
    <3>2. r = [o EXCEPT !.pc = "load", !.at = n, !.seen = None]
      BY <2>1, <3>1
    <3>3. /\ r \in Verifier /\ r.pc = "load" /\ r.batch = o.batch
          /\ r.at = n /\ r.result = o.result
      BY <3>2 DEF Verifier
    <3> QED
      BY <1>1, <3>1, <3>3
  <2>2. PICK r : r = [old EXCEPT !.pc = "load", !.at = @ + 1, !.seen = None]
    OBVIOUS
  <2>3. verifiers' = [verifiers EXCEPT ![v] = r] /\ verifiers'[v] = r
    BY <1>7, <2>2 DEF Inv, TypeOK
  <2>4. (old.at + 1) \in DOMAIN old.batch /\ (old.at + 1) - 1 = old.at
    BY <1>1, <1>7
  <2>5. Taken(v)' \subseteq accepted'
    BY <1>5, <2>1, <2>2, <2>3, <2>4 DEF Taken
  <2>6. VerifierOK(v)'
    BY <1>1, <2>1, <2>2, <2>3, <2>4, <2>5 DEF VerifierOK
  <2>7. r \in Verifier /\ r.result # "ok"
    BY <2>1, <2>2
  <2> QED
    BY <1>2, <1>4, <2>3, <2>6, <2>7, VerifierFrame
<1> QED
  BY <1>6, <1>7 DEF Accept, Proceed

\* A verifier moves on to pc with the state s it has loaded, and nothing else
\* changes.
LEMMA MoveInv ==
  ASSUME Inv, NEW v \in Verifiers, verifiers[v].pc # "idle",
         NEW pc \in {"load", "verify", "cas"}, NEW s \in Tuple \cup {None},
         verifiers' = [verifiers EXCEPT ![v].pc = pc, ![v].seen = s],
         UNCHANGED <<trusted, accepted>>,
         pc \in {"verify", "cas"} => Cand(v).cp \notin Taken(v),
         pc = "verify" => s # None,
         pc = "cas" => s = None \/ Extends(Cand(v).cp, s.cp)
  PROVE  Inv'
<1> DEFINE old == verifiers[v]
<1>1. /\ old \in Verifier /\ old.result = "none" /\ old.at \in DOMAIN old.batch
      /\ Sorted(old.batch) /\ Taken(v) \subseteq accepted
  BY DEF Inv, TypeOK, VerifierOK
<1>2. ASSUME NEW r, r = [old EXCEPT !.pc = pc, !.seen = s]
      PROVE  /\ r \in Verifier /\ r.pc = pc /\ r.seen = s /\ r.at = old.at
             /\ r.batch = old.batch /\ r.result = "none"
  BY <1>1, <1>2 DEF Verifier
<1>3. PICK r : r = [old EXCEPT !.pc = pc, !.seen = s]
  OBVIOUS
<1>4. verifiers' = [verifiers EXCEPT ![v] = r] /\ verifiers'[v] = r
  BY <1>3 DEF Inv, TypeOK
<1>5. /\ r \in Verifier /\ r.pc = pc /\ r.seen = s /\ r.at = old.at
      /\ r.batch = old.batch /\ r.result = "none"
  BY <1>2, <1>3
<1>6. Taken(v)' = Taken(v) /\ Cand(v)' = Cand(v)
  BY <1>4, <1>5 DEF Taken, Cand
<1>7. TrustedCoversAccepted' /\ trusted' \in Tuple \cup {None} /\ accepted' \subseteq Checkpoint
  BY DEF Inv, TypeOK, TrustedCoversAccepted
<1>8. VerifierOK(v)'
  BY <1>1, <1>4, <1>5, <1>6 DEF VerifierOK
<1> QED
  BY <1>4, <1>5, <1>7, <1>8, VerifierFrame

\* A verification begins with the first checkpoint of its batch as candidate.
LEMMA BeginInv ==
  ASSUME Inv, NEW v \in Verifiers, Begin(v)
  PROVE  Inv'
<1>1. PICK batch \in Batches :
        /\ Sorted(batch)
        /\ verifiers' = [verifiers EXCEPT ![v] =
             [pc |-> "load", batch |-> batch, at |-> 1, seen |-> None, result |-> "none"]]
  BY DEF Begin
<1>2. PICK n \in 1 .. MaxBatch : batch \in [1 .. n -> Tuple]
  BY DEF Batches
<1>3. batch \in Seq(Tuple) /\ 1 \in DOMAIN batch
  BY <1>2, BatchAssumption
<1>4. ASSUME NEW r, r = [pc |-> "load", batch |-> batch, at |-> 1, seen |-> None, result |-> "none"]
      PROVE  /\ r \in Verifier /\ r.pc = "load" /\ r.batch = batch /\ r.at = 1
             /\ r.result = "none"
  BY <1>3, <1>4 DEF Verifier, Results
<1>5. PICK r : r = [pc |-> "load", batch |-> batch, at |-> 1, seen |-> None, result |-> "none"]
  OBVIOUS
<1>6. /\ verifiers' = [verifiers EXCEPT ![v] = r] /\ verifiers'[v] = r
      /\ r \in Verifier /\ r.pc = "load" /\ r.batch = batch /\ r.at = 1 /\ r.result = "none"
  BY <1>1, <1>4, <1>5 DEF Inv, TypeOK
<1>7. Taken(v)' = {}
  BY <1>6 DEF Taken
<1>8. VerifierOK(v)'
  BY <1>1, <1>3, <1>6, <1>7 DEF VerifierOK
<1>9. /\ TrustedCoversAccepted' /\ trusted' \in Tuple \cup {None}
      /\ accepted' = accepted /\ accepted \subseteq Checkpoint
  BY DEF Begin, Inv, TypeOK, TrustedCoversAccepted
<1> QED
  BY <1>6, <1>8, <1>9, VerifierFrame

\* What is trusted extends a candidate that this verifier has taken before, so
\* that a state without one, or with a smaller one, is loaded for a new candidate
\* only.
LEMMA TakenIsCovered ==
  ASSUME Inv, NEW v \in Verifiers, verifiers[v].pc # "idle", Cand(v).cp \in Taken(v)
  PROVE  /\ trusted # None /\ Extends(trusted.cp, Cand(v).cp)
         /\ Size(Cand(v).cp) <= Size(trusted.cp)
         /\ Size(Cand(v).cp) = Size(trusted.cp) => Cand(v).cp = trusted.cp
<1>1. Cand(v).cp \in accepted /\ Cand(v).cp \in Checkpoint
  BY Running
<1>2. trusted # None /\ Extends(trusted.cp, Cand(v).cp) /\ trusted.cp \in Checkpoint
  BY <1>1 DEF Inv, TypeOK, TrustedCoversAccepted, Tuple
<1> QED
  BY <1>1, <1>2, CheckpointAssumption

\* Every step of a running verifier preserves the invariant.
LEMMA StepInv ==
  ASSUME Inv, NEW v \in Verifiers, Step(v)
  PROVE  Inv'
<1> DEFINE old == verifiers[v]
<1>0. /\ old \in Verifier /\ trusted \in Tuple \cup {None}
      /\ old.pc # "idle" => Cand(v) \in Tuple /\ Cand(v).cp \in Checkpoint
      /\ \A c \in accepted : trusted # None /\ Extends(trusted.cp, c) /\ c \in Checkpoint
  BY Running DEF Inv, TypeOK, TrustedCoversAccepted
<1>1. CASE LoadNothing(v)
  <2>1. Cand(v).cp \notin Taken(v)
    BY <1>1, TakenIsCovered DEF LoadNothing
  <2> QED
    BY <1>1, <2>1, MoveInv DEF LoadNothing
<1>2. CASE LoadLarger(v)
  BY <1>2, RefuseInv DEF LoadLarger, Rejections
<1>3. CASE LoadConflicting(v)
  BY <1>3, RefuseInv DEF LoadConflicting, Rejections
<1>4. CASE LoadSame(v)
  <2>1. trusted' \in Tuple /\ trusted'.cp = Cand(v).cp /\ old.pc # "idle"
    BY <1>0, <1>4 DEF LoadSame
  <2>2. \A c \in accepted : Extends(trusted'.cp, c)
    BY <1>0, <1>4 DEF LoadSame
  <2> QED
    BY <1>4, <2>1, <2>2, AcceptInv DEF LoadSame
<1>5. CASE LoadSmaller(v)
  <2>1. trusted \in Tuple /\ trusted # None /\ old.pc # "idle" /\ trusted.cp \in Checkpoint
    BY <1>0, <1>5 DEF LoadSmaller, Tuple
  <2>2. Cand(v).cp \notin Taken(v)
    <3>1. Size(Cand(v).cp) > Size(trusted.cp) /\ Size(Cand(v).cp) \in Nat /\ Size(trusted.cp) \in Nat
      BY <1>0, <1>5, <2>1, CheckpointAssumption DEF LoadSmaller
    <3> QED
      BY <2>1, <3>1, TakenIsCovered
  <2>3. CASE Size(trusted.cp) = 0
    <3>1. Extends(Cand(v).cp, trusted.cp)
      BY <1>0, <2>1, <2>3, CheckpointAssumption
    <3> QED
      BY <1>5, <2>1, <2>2, <2>3, <3>1, MoveInv DEF LoadSmaller
  <2>4. CASE Size(trusted.cp) # 0
    BY <1>5, <2>1, <2>2, <2>4, MoveInv DEF LoadSmaller
  <2> QED
    BY <2>3, <2>4
<1>6. CASE Consistent(v)
  <2>1. verifiers' = [verifiers EXCEPT ![v].pc = "cas", ![v].seen = old.seen]
    BY <1>0, <1>6 DEF Consistent, Verifier, Inv, TypeOK
  <2>2. old.seen \in Tuple \cup {None} /\ Cand(v).cp \notin Taken(v)
    BY <1>0, <1>6 DEF Verifier, Inv, VerifierOK, Consistent
  <2> QED
    BY <1>6, <2>1, <2>2, MoveInv DEF Consistent
<1>7. CASE Inconsistent(v)
  BY <1>7, RefuseInv DEF Inconsistent, Rejections, Failures
<1>8. CASE Swap(v)
  <2>1. old.pc = "cas" /\ trusted = old.seen /\ trusted' = Cand(v) /\ Cand(v) \in Tuple
    BY <1>0, <1>8 DEF Swap, Matches
  <2>2. trusted = None \/ Extends(Cand(v).cp, trusted.cp)
    BY <2>1 DEF Inv, VerifierOK
  <2>3. \A c \in accepted : Extends(trusted'.cp, c)
    BY <1>0, <2>1, <2>2, CheckpointAssumption DEF Tuple
  <2> QED
    BY <1>8, <2>1, <2>3, AcceptInv DEF Swap
<1>9. CASE SwapLost(v)
  BY <1>9, MoveInv DEF SwapLost
<1>10. CASE SwapUnacknowledged(v)
  <2>1. old.pc = "cas" /\ trusted = old.seen /\ trusted' = Cand(v) /\ Cand(v) \in Tuple
    BY <1>0, <1>10 DEF SwapUnacknowledged, Matches
  <2>2. trusted = None \/ Extends(Cand(v).cp, trusted.cp)
    BY <2>1 DEF Inv, VerifierOK
  <2>3. TrustedCoversAccepted' /\ accepted' = accepted
    BY <1>0, <1>10, <2>1, <2>2, CheckpointAssumption, NoneAssumption
       DEF Tuple, TrustedCoversAccepted, SwapUnacknowledged
  <2> QED
    BY <1>10, <2>1, <2>3, FailInv DEF SwapUnacknowledged, Failures
<1>11. CASE StoreFails(v)
  BY <1>11, RefuseInv DEF StoreFails, Failures
<1>12. CASE Cancel(v)
  BY <1>12, RefuseInv DEF Cancel, Failures
<1> QED
  BY <1>1, <1>2, <1>3, <1>4, <1>5, <1>6, <1>7, <1>8, <1>9, <1>10, <1>11, <1>12 DEF Step

\* A new baseline: no verifier is running, so none rests on the old one.
LEMMA BaselineInv ==
  ASSUME Inv, Rebaseline \/ NewStore
  PROVE  Inv'
<1>1. /\ accepted' = {} /\ verifiers' = verifiers /\ trusted' \in Tuple \cup {None}
      /\ \A v \in Verifiers : verifiers[v].pc = "idle"
  BY DEF Rebaseline, NewStore, Stopped
<1>2. TypeOK' /\ TrustedCoversAccepted'
  BY <1>1 DEF Inv, TypeOK, TrustedCoversAccepted
<1>3. \A v \in Verifiers : VerifierOK(v)'
  BY <1>1 DEF VerifierOK
<1>4. AcceptedBatchIsOneHistory'
  BY <1>1 DEF Inv, AcceptedBatchIsOneHistory
<1> QED
  BY <1>2, <1>3, <1>4 DEF Inv

\* The invariant is inductive.
LEMMA NextInv == Inv /\ [Next]_vars => Inv'
<1> SUFFICES ASSUME Inv, [Next]_vars PROVE Inv'
  OBVIOUS
<1>1. CASE Next
  BY <1>1, BeginInv, StepInv, BaselineInv DEF Next
<1>2. CASE UNCHANGED vars
  BY <1>2 DEF vars, Inv, TypeOK, TrustedCoversAccepted, VerifierOK,
              AcceptedBatchIsOneHistory, Taken, Cand
<1> QED
  BY <1>1, <1>2

\* The inductive invariant of the checkpoint store and its verifiers.
THEOREM Invariance == Spec => []Inv
BY InitInv, NextInv, PTL DEF Spec

\* Type correctness of the store and its verifiers.
THEOREM TypeCorrect == Spec => []TypeOK
<1>1. Inv => TypeOK
  BY DEF Inv
<1> QED
  BY <1>1, Invariance, PTL

\* advanceTrustedCheckpoint never lets two verifications since one baseline rest
\* on different histories of the log.
THEOREM OneView == Spec => []NoSplitView
<1>1. Inv => NoSplitView
  <2> SUFFICES ASSUME Inv PROVE NoSplitView
    OBVIOUS
  <2>1. \A c \in accepted : trusted # None /\ Extends(trusted.cp, c)
    BY DEF Inv, TrustedCoversAccepted
  <2>2. ASSUME NEW c \in accepted, NEW d \in accepted PROVE Comparable(c, d)
    <3>1. trusted.cp \in Checkpoint /\ c \in Checkpoint /\ d \in Checkpoint
      BY <2>1 DEF Inv, TypeOK, Tuple
    <3> QED
      BY <2>1, <3>1, PrefixesComparable
  <2> QED
    BY <2>1, <2>2 DEF NoSplitView
<1> QED
  BY <1>1, Invariance, PTL

\* A history is accepted only against checkpoints of one log history.
THEOREM OneHistoryPerBatch == Spec => []AcceptedBatchIsOneHistory
<1>1. Inv => AcceptedBatchIsOneHistory
  BY DEF Inv
<1> QED
  BY <1>1, Invariance, PTL

\* No step of a running verifier refuses its own progress: a rollback is behind
\* a checkpoint larger than all it has taken, and what it has taken before is
\* covered by the trusted checkpoint.
LEMMA StepNoSelfRejection ==
  ASSUME Inv, NEW v \in Verifiers, verifiers[v].pc # "idle",
         Step(v) \/ UNCHANGED verifiers[v]
  PROVE  ~SelfRejection(v)
<1>0. /\ verifiers[v] \in Verifier /\ verifiers[v].result = "none" /\ Cand(v).cp \in Checkpoint
      /\ verifiers[v].batch \in Seq(Tuple) /\ Sorted(verifiers[v].batch)
      /\ verifiers[v].at \in 1 .. Len(verifiers[v].batch)
  BY Running DEF Verifier
<1>1. ASSUME NEW why \in Results, Fail(v, why) PROVE verifiers'[v].result = why
  BY <1>1 DEF Fail, Idle, Inv, TypeOK
<1>2. ASSUME verifiers'[v].result \notin Rejections PROVE ~SelfRejection(v)
  BY <1>2 DEF SelfRejection, Rejections
<1>3. CASE LoadLarger(v)
  <2>1. verifiers'[v].result = "rollback" /\ Size(Cand(v).cp) < Size(trusted.cp) /\ trusted # None
    BY <1>1, <1>3 DEF LoadLarger, Results, Rejections
  <2>2. ASSUME NEW i \in 1 .. (verifiers[v].at - 1)
        PROVE  verifiers[v].batch[i].cp # trusted.cp
    <3>1. i \in DOMAIN verifiers[v].batch /\ verifiers[v].at \in DOMAIN verifiers[v].batch
          /\ i <= verifiers[v].at
      BY <1>0
    <3>2. Size(verifiers[v].batch[i].cp) <= Size(Cand(v).cp)
      BY <1>0, <3>1 DEF Sorted, Cand
    <3>3. trusted.cp \in Checkpoint
      BY <2>1 DEF Inv, TypeOK, Tuple
    <3> QED
      BY <1>0, <2>1, <3>2, <3>3, CheckpointAssumption
  <2>3. trusted.cp \notin Taken(v)
    BY <2>2 DEF Taken
  <2>4. Cand(v).cp \in Taken(v) => Extends(trusted.cp, Cand(v).cp)
    BY TakenIsCovered
  <2> QED
    BY <2>1, <2>3, <2>4 DEF SelfRejection
<1>4. CASE LoadConflicting(v)
  <2>1. verifiers'[v].result = "root_conflict"
    BY <1>1, <1>4 DEF LoadConflicting, Results, Rejections
  <2>2. Cand(v).cp \notin Taken(v)
    BY <1>4, TakenIsCovered DEF LoadConflicting
  <2> QED
    BY <2>1, <2>2 DEF SelfRejection
<1>5. CASE Inconsistent(v)
  <2>1. Cand(v).cp \notin Taken(v)
    BY <1>5 DEF Inconsistent, Inv, VerifierOK
  <2>2. verifiers'[v].result # "rollback"
    BY <1>1, <1>5 DEF Inconsistent, Results, Rejections, Failures
  <2> QED
    BY <2>1, <2>2 DEF SelfRejection
<1>6. CASE LoadNothing(v) \/ LoadSmaller(v) \/ Consistent(v) \/ SwapLost(v) \/ UNCHANGED verifiers[v]
  <2>1. verifiers'[v].result = "none"
    BY <1>0, <1>6 DEF LoadNothing, LoadSmaller, Consistent, SwapLost, Inv, TypeOK, Verifier
  <2> QED
    BY <1>2, <2>1 DEF Rejections
<1>7. CASE LoadSame(v) \/ Swap(v)
  <2>1. Proceed(v)
    BY <1>7 DEF LoadSame, Swap, Accept
  <2>2. verifiers'[v].result \in {"none", "ok"}
    BY <1>0, <2>1 DEF Proceed, Idle, Inv, TypeOK, Verifier
  <2> QED
    BY <1>2, <2>2 DEF Rejections
<1>8. CASE SwapUnacknowledged(v) \/ StoreFails(v) \/ Cancel(v)
  <2>1. verifiers'[v].result \in {"store_error", "cancelled"}
    BY <1>1, <1>8 DEF SwapUnacknowledged, StoreFails, Cancel, Results, Failures
  <2> QED
    BY <1>2, <2>1 DEF Rejections
<1> QED
  BY <1>3, <1>4, <1>5, <1>6, <1>7, <1>8 DEF Step

\* A step of a verifier leaves the others as they are.
LEMMA OthersStay ==
  ASSUME Inv, NEW v \in Verifiers, Begin(v) \/ Step(v), NEW w \in Verifiers, w # v
  PROVE  UNCHANGED verifiers[w]
<1>1. ASSUME NEW r, verifiers' = [verifiers EXCEPT ![v] = r] PROVE verifiers'[w] = verifiers[w]
  BY <1>1 DEF Inv, TypeOK
<1>2. \E r : verifiers' = [verifiers EXCEPT ![v] = r]
  BY DEF Begin, Step, LoadNothing, LoadLarger, LoadConflicting, LoadSame, LoadSmaller,
     Consistent, Inconsistent, Swap, SwapLost, SwapUnacknowledged, StoreFails, Cancel,
     Fail, Accept, Proceed
<1> QED
  BY <1>1, <1>2

\* A verifier's history is refused for another's progress only, never for what
\* the verifier did itself (verifyHistoryEntries, advanceTrustedCheckpoint), also
\* when several of its proofs are against one checkpoint.
THEOREM NothingOfItsOwnIsRefused == Spec => NoSelfRejection
<1>1. Inv /\ [Next]_vars =>
        [\A v \in Verifiers : verifiers[v].pc # "idle" => ~SelfRejection(v)]_vars
  <2> SUFFICES ASSUME Inv, Next, NEW v \in Verifiers, verifiers[v].pc # "idle"
               PROVE  ~SelfRejection(v)
    BY DEF vars
  <2>1. Step(v) \/ UNCHANGED verifiers[v]
    <3>1. ASSUME NEW w \in Verifiers, Begin(w) \/ Step(w) PROVE Step(v) \/ UNCHANGED verifiers[v]
      BY <3>1, OthersStay DEF Begin
    <3>2. CASE Rebaseline \/ NewStore
      BY <3>2 DEF Rebaseline, NewStore
    <3> QED
      BY <3>1, <3>2 DEF Next
  <2> QED
    BY <2>1, StepNoSelfRejection
<1> QED
  BY <1>1, Invariance, PTL DEF Spec, NoSelfRejection

\* A verifier's step, in terms of the trusted checkpoint alone: it stays, or is
\* replaced by the first one or by an extension.
LEMMA StepExtends ==
  ASSUME Inv, NEW v \in Verifiers, Begin(v) \/ Step(v)
  PROVE  \/ trusted' = trusted
         \/ trusted' \in Tuple /\ (trusted = None \/ Extends(trusted'.cp, trusted.cp))
<1>1. CASE verifiers[v].pc = "cas" /\ Matches(v) /\ trusted' = Cand(v)
  BY <1>1, Running DEF Inv, VerifierOK, Matches
<1>2. CASE UNCHANGED trusted
  BY <1>2
<1> QED
  BY <1>1, <1>2 DEF Begin, Step, LoadNothing, LoadLarger, LoadConflicting, LoadSame,
     LoadSmaller, Consistent, Inconsistent, Swap, SwapLost, SwapUnacknowledged,
     StoreFails, Cancel

\* Verification never resets or rolls back trust.
THEOREM TrustOnlyExtends == Spec => VerificationOnlyExtends
<1>1. Inv /\ [Next]_vars =>
        [verifiers' # verifiers /\ trusted # None
           => trusted' # None /\ Extends(trusted'.cp, trusted.cp)]_vars
  <2> SUFFICES ASSUME Inv, Next, verifiers' # verifiers, trusted # None
               PROVE  trusted' # None /\ Extends(trusted'.cp, trusted.cp)
    BY DEF vars
  <2>1. PICK v \in Verifiers : Begin(v) \/ Step(v)
    BY DEF Next, Rebaseline, NewStore
  <2>2. Extends(trusted.cp, trusted.cp)
    BY CheckpointAssumption DEF Inv, TypeOK, Tuple
  <2> QED
    BY <2>1, <2>2, StepExtends, NoneAssumption
<1> QED
  BY <1>1, Invariance, PTL DEF Spec, VerificationOnlyExtends

-----------------------------------------------------------------------------
(* Refinement. *)

\* What acceptance means one level up: the accepted set grows by nothing or by
\* the candidate.
LEMMA StepAccepts ==
  ASSUME Inv, NEW v \in Verifiers, Begin(v) \/ Step(v)
  PROVE  \/ UNCHANGED <<trusted, accepted>>
         \/ UNCHANGED trusted /\ trusted # None /\ accepted' = accepted \cup {trusted.cp}
         \/ /\ trusted' \in Tuple
            /\ trusted = None \/ Extends(trusted'.cp, trusted.cp)
            /\ accepted' \in {accepted, accepted \cup {trusted'.cp}}
<1>1. CASE LoadSame(v)
  BY <1>1 DEF LoadSame, Accept
<1>2. CASE Swap(v) \/ SwapUnacknowledged(v)
  <2>1. verifiers[v].pc = "cas" /\ trusted = verifiers[v].seen /\ trusted' = Cand(v)
    BY <1>2 DEF Swap, SwapUnacknowledged, Matches
  <2>2. trusted' \in Tuple /\ (trusted = None \/ Extends(trusted'.cp, trusted.cp))
    BY <2>1, Running DEF Inv, VerifierOK
  <2>3. accepted' \in {accepted, accepted \cup {trusted'.cp}}
    BY <1>2, <2>1 DEF Swap, SwapUnacknowledged, Accept
  <2> QED
    BY <2>2, <2>3
<1>3. CASE UNCHANGED <<trusted, accepted>>
  BY <1>3
<1> QED
  BY <1>1, <1>2, <1>3 DEF Begin, Step, LoadNothing, LoadLarger, LoadConflicting,
     LoadSmaller, Consistent, Inconsistent, SwapLost, StoreFails, Cancel

\* The compare-and-swap store with its racing, retrying and failing verifiers
\* implements TrustedCheckpoints.
THEOREM Refinement == Spec => ImplementsTrustedCheckpoints
<1> DEFINE bar == IF trusted = None THEN None ELSE trusted.cp
<1>1. Init => Abstract!Init
  BY DEF Init, Abstract!Init
<1>2. ASSUME Inv, [Next]_vars PROVE [Abstract!Next]_(Abstract!vars)
  <2>0. trusted \in Tuple \cup {None} /\ (trusted # None => trusted.cp \in Checkpoint)
    BY <1>2 DEF Inv, TypeOK, Tuple
  <2>1. CASE UNCHANGED vars
    BY <2>1 DEF vars, Abstract!vars
  <2>2. ASSUME NEW v \in Verifiers, Begin(v) \/ Step(v)
        PROVE  [Abstract!Next]_(Abstract!vars)
    <3>1. CASE UNCHANGED <<trusted, accepted>>
      BY <3>1 DEF Abstract!vars
    <3>2. CASE UNCHANGED trusted /\ trusted # None /\ accepted' = accepted \cup {trusted.cp}
      <4>1. Abstract!Confirm
        BY <2>0, <3>2, NoneAssumption DEF Abstract!Confirm
      <4> QED
        BY <4>1 DEF Abstract!Next
    <3>3. CASE /\ trusted' \in Tuple
               /\ trusted = None \/ Extends(trusted'.cp, trusted.cp)
               /\ accepted' \in {accepted, accepted \cup {trusted'.cp}}
      <4>1. trusted'.cp \in Checkpoint /\ trusted' # None
        BY <3>3, NoneAssumption DEF Tuple
      <4>2. Abstract!Advance(trusted'.cp)
        BY <2>0, <3>3, <4>1, NoneAssumption DEF Abstract!Advance
      <4> QED
        BY <4>1, <4>2 DEF Abstract!Next
    <3> QED
      BY <1>2, <2>2, <3>1, <3>2, <3>3, StepAccepts
  <2>3. CASE Rebaseline \/ NewStore
    <3>1. accepted' = {} /\ trusted' \in Tuple \cup {None}
      BY <2>3 DEF Rebaseline, NewStore
    <3>2. bar' \in Checkpoint \cup {None} /\ Abstract!Baseline(bar')
      BY <3>1 DEF Abstract!Baseline, Tuple
    <3> QED
      BY <3>2 DEF Abstract!Next
  <2> QED
    BY <1>2, <2>1, <2>2, <2>3 DEF Next
<1> QED
  BY <1>1, <1>2, Invariance, PTL DEF Spec, ImplementsTrustedCheckpoints, Abstract!Spec
=============================================================================
