-------------------- MODULE VerificationCoordinatorProofs --------------------
(***************************************************************************)
(* Type correctness and the cancellation discipline of the verification    *)
(* coordinator, for any number of callers, any DNS lifetimes and any       *)
(* status check interval.                                                  *)
(***************************************************************************)
EXTENDS VerificationCoordinator, FiniteSetTheorems, TLAPS

\* The types of what is neither a call, a caller nor the map.
RestOK ==
  /\ clock \in Nat
  /\ active \in BOOLEAN
  /\ cache \in MaybeEvidence
  /\ dead \subseteq CallIds
  /\ ops \in 0 .. MaxOps
  /\ observed \in BOOLEAN
  /\ evictedAt \in Nat
  /\ high \in Nat

-----------------------------------------------------------------------------
(* The cache operations are well typed. *)

\* A call that has not started, and a finished one, are well typed.
LEMMA BlankIsCall == BlankCall \in Call /\ DoneCall \in Call
BY DEF BlankCall, DoneCall, Call, Kinds, CallPc, Fate, MaybeEvidence

\* An idle caller is well typed.
LEMMA IdleIsCaller == IdleCaller \in Caller
BY DEF IdleCaller, Caller, CallerPc, Kinds, MaybeEvidence

\* A flag of stored evidence names a call.
LEMMA FlagsTyped ==
  ASSUME NEW e \in MaybeEvidence
  PROVE  FlagsOf(e) \subseteq CallIds
BY NoEvidenceAssumption DEF FlagsOf, MaybeEvidence, Evidence, NoCall

\* IdentityCache.evict keeps the types.
LEMMA DropTyped ==
  ASSUME RestOK, DropEntry
  PROVE  cache' \in MaybeEvidence /\ dead' \subseteq CallIds
BY FlagsTyped DEF RestOK, DropEntry, MaybeEvidence

\* IdentityCache.get keeps the types.
LEMMA GetTyped ==
  ASSUME RestOK, Get
  PROVE  cache' \in MaybeEvidence /\ dead' \subseteq CallIds
BY DropTyped DEF RestOK, Get

\* A snapshot of a cache entry is evidence.
LEMMA SnapshotTyped ==
  ASSUME RestOK, cache # NoEvidence
  PROVE  Snapshot \in Evidence /\ Snapshot.flag = cache.flag /\ cache \in Evidence
BY DEF RestOK, Snapshot, MaybeEvidence, Evidence

\* What put stores is evidence with a cell, its own or the one c allocates.
LEMMA StoredTyped ==
  ASSUME NEW e \in Evidence, NEW c \in CallIds, calls[c] \in Call
  PROVE  /\ StoredBy(c, e) \in Evidence
         /\ StoredBy(c, e).flag = IF e.flag = NoCall THEN c ELSE e.flag
         /\ StoredBy(c, e).flag \in CallIds
<1>1. e.flag \in CallIds \cup {NoCall} /\ e.stray \in BOOLEAN
  BY DEF Evidence
<1>2. (e.stray \/ calls[c].fate = "abandoned") \in BOOLEAN
  BY <1>1
<1>3. StoredBy(c, e) \in Evidence
  BY <1>1, <1>2 DEF StoredBy, Evidence
<1>4. StoredBy(c, e).flag = IF e.flag = NoCall THEN c ELSE e.flag
  BY DEF StoredBy, Evidence
<1> QED
  BY <1>1, <1>3, <1>4

\* IdentityCache.put keeps the types.
LEMMA PutTyped ==
  ASSUME RestOK, NEW e \in Evidence, NEW c \in CallIds, calls[c] \in Call, Put(c, e)
  PROVE  cache' \in MaybeEvidence /\ dead' \subseteq CallIds /\ high' \in Nat
<1>1. e.acq \in Nat /\ high \in Nat
  BY DEF RestOK, Evidence
<1>2. CASE PutRefused(e)
  BY <1>2 DEF Put, RestOK
<1>3. CASE ~PutRefused(e) /\ ~Storable(e)
  BY <1>3, DropTyped DEF Put, RestOK
<1>4. CASE ~PutRefused(e) /\ Storable(e)
  <2>1. cache' = StoredBy(c, e) /\ dead' = dead \cup (FlagsOf(cache) \ {StoredBy(c, e).flag})
    BY <1>4 DEF Put
  <2>2. high' \in Nat
    BY <1>1, <1>4 DEF Put
  <2> QED
    BY <2>1, <2>2, StoredTyped, FlagsTyped DEF RestOK, MaybeEvidence
<1> QED
  BY <1>2, <1>3, <1>4

-----------------------------------------------------------------------------
(* Frames: what has to be shown of a step that changes only one part. *)

\* The typed variables other than the map, the calls and the callers.
LEMMA StructureParts ==
  Structure <=>
    /\ RestOK
    /\ verifying \in [Kinds -> CallIds \cup {NoCall}]
    /\ calls \in [CallIds -> Call]
    /\ callers \in [Callers -> Caller]
    /\ \A c \in CallIds : CallOK(c)
    /\ \A p \in Callers : CallerOK(p)
    /\ \A k \in Kinds : MapOK(k)
BY DEF Structure, TypeOK, RestOK

\* A step that leaves the map, the calls and the callers alone.
LEMMA RestMoves ==
  ASSUME Structure, RestOK', UNCHANGED <<verifying, calls, callers>>
  PROVE  Structure'
BY DEF Structure, TypeOK, RestOK, CallOK, CallerOK, MapOK, Running, Readers

\* A caller that neither waits before nor after the step.
LEMMA CallerMoves ==
  ASSUME Structure, RestOK', UNCHANGED <<verifying, calls>>,
         NEW p \in Callers, NEW r \in Caller, callers' = [callers EXCEPT ![p] = r],
         callers[p].pc # "wait", r.pc # "wait",
         r.pc \in {"hit", "return"} => r.vd # NoEvidence,
         r.pc = "join" /\ r.want = "status" => r.vd # NoEvidence
  PROVE  Structure'
<1>1. callers'[p] = r /\ \A q \in Callers \ {p} : callers'[q] = callers[q]
  BY DEF Structure, TypeOK
<1>2. callers' \in [Callers -> Caller]
  BY DEF Structure, TypeOK
<1>3. \A c \in CallIds : Readers(c)' = Readers(c)
  BY <1>1 DEF Readers
<1>4. \A c \in CallIds : CallOK(c)'
  BY <1>3 DEF Structure, CallOK, Running
<1>5. \A q \in Callers : CallerOK(q)'
  BY <1>1 DEF Structure, CallerOK
<1>6. \A k \in Kinds : MapOK(k)'
  BY DEF Structure, MapOK, Running
<1> QED
  BY <1>2, <1>4, <1>5, <1>6 DEF Structure, TypeOK, RestOK

\* A running call that goes on with other evidence.
LEMMA WorkerMoves ==
  ASSUME Structure, RestOK', UNCHANGED <<verifying, callers>>,
         NEW c \in CallIds, Running(c),
         NEW pc \in {"work", "checked", "finish"}, NEW e \in MaybeEvidence,
         calls' = [calls EXCEPT ![c].pc = pc, ![c].ev = e],
         pc # "finish" => e # NoEvidence
  PROVE  Structure'
<1> DEFINE r == [calls[c] EXCEPT !.pc = pc, !.ev = e]
<1>1. calls[c] \in Call /\ r \in Call
  BY DEF Structure, TypeOK, Call, CallPc
<1>2. calls' = [calls EXCEPT ![c] = r] /\ calls' \in [CallIds -> Call]
  BY <1>1 DEF Structure, TypeOK
<1>3. calls'[c] = r /\ \A d \in CallIds \ {c} : calls'[d] = calls[d]
  BY <1>2 DEF Structure, TypeOK
<1>4. /\ r.pc = pc /\ r.ev = e /\ r.kind = calls[c].kind
      /\ r.waiters = calls[c].waiters /\ r.cancelled = calls[c].cancelled
  BY <1>1 DEF Call
<1> HIDE DEF r
<1>5. \A d \in CallIds : Readers(d)' = Readers(d)
  BY DEF Readers
<1>6. ASSUME NEW d \in CallIds PROVE CallOK(d)'
  <2>1. CASE d = c
    <3>1. CallOK(c) /\ Readers(c)' = Readers(c)
      BY <1>5 DEF Structure
    <3>2. /\ calls'[c].pc = pc /\ calls'[c].ev = e /\ calls'[c].waiters = calls[c].waiters
          /\ calls'[c].cancelled = calls[c].cancelled
      BY <1>3, <1>4
    <3> QED
      BY <2>1, <3>1, <3>2 DEF CallOK, Running
  <2>2. CASE d # c
    BY <1>3, <1>5, <2>2 DEF Structure, CallOK, Running
  <2> QED
    BY <2>1, <2>2
<1>7. \A p \in Callers : CallerOK(p)'
  BY <1>3, <1>4 DEF Structure, CallerOK
<1>8. ASSUME NEW k \in Kinds PROVE MapOK(k)'
  <2>1. verifying[k] \in CallIds \cup {NoCall}
    BY DEF Structure, TypeOK
  <2>2. CASE verifying[k] = c
    BY <1>3, <1>4, <2>2 DEF Structure, MapOK, Running
  <2>3. CASE verifying[k] # c
    <3>1. verifying' = verifying /\ MapOK(k)
      BY DEF Structure
    <3>2. CASE verifying[k] = NoCall
      BY <3>1, <3>2 DEF MapOK
    <3>3. CASE verifying[k] # NoCall
      <4>1. calls'[verifying[k]] = calls[verifying[k]]
        BY <1>3, <2>1, <2>3, <3>3
      <4> QED
        BY <3>1, <4>1 DEF MapOK, Running
    <3> QED
      BY <3>2, <3>3
  <2> QED
    BY <2>2, <2>3
<1> QED
  BY <1>2, <1>6, <1>7, <1>8 DEF Structure, TypeOK, RestOK

\* A caller that waits for a finished call stops waiting.
LEMMA ReaderLeavesFinished ==
  ASSUME Structure, RestOK', UNCHANGED verifying,
         NEW p \in Callers, NEW r \in Caller, callers' = [callers EXCEPT ![p] = r],
         NEW c \in CallIds, callers[p].call = c, calls[c].pc = "done",
         calls' = [calls EXCEPT ![c] = Unread(c, p)], r.pc # "wait",
         r.pc \in {"hit", "return"} => r.vd # NoEvidence,
         r.pc = "join" => r.want # "status"
  PROVE  Structure'
<1>1. callers'[p] = r /\ \A q \in Callers \ {p} : callers'[q] = callers[q]
  BY DEF Structure, TypeOK
<1>2. Unread(c, p) \in Call /\ Unread(c, p).pc = "done"
  BY DEF Structure, TypeOK, Unread, Call, MaybeEvidence
<1>3. calls'[c] = Unread(c, p) /\ \A d \in CallIds \ {c} : calls'[d] = calls[d]
  BY DEF Structure, TypeOK
<1>4. callers' \in [Callers -> Caller] /\ calls' \in [CallIds -> Call]
  BY <1>2 DEF Structure, TypeOK
<1>5. \A d \in CallIds \ {c} : Readers(d)' = Readers(d)
  BY <1>1 DEF Readers
<1>6. ASSUME NEW d \in CallIds PROVE CallOK(d)'
  <2>1. CASE d = c
    BY <1>2, <1>3, <2>1 DEF CallOK, Running
  <2>2. CASE d # c
    BY <1>3, <1>5, <2>2 DEF Structure, CallOK, Running
  <2> QED
    BY <2>1, <2>2
<1>7. \A q \in Callers : CallerOK(q)'
  BY <1>1, <1>2, <1>3 DEF Structure, CallerOK
<1>8. ASSUME NEW k \in Kinds PROVE MapOK(k)'
  <2>1. verifying' = verifying /\ MapOK(k) /\ verifying[k] \in CallIds \cup {NoCall}
    BY DEF Structure, TypeOK
  <2>2. CASE verifying[k] = NoCall
    BY <2>1, <2>2 DEF MapOK
  <2>3. CASE verifying[k] # NoCall
    <3>1. verifying[k] # c
      BY <2>1, <2>3 DEF MapOK, Running
    <3>2. calls'[verifying[k]] = calls[verifying[k]]
      BY <1>3, <2>1, <2>3, <3>1
    <3> QED
      BY <2>1, <3>2 DEF MapOK, Running
  <2> QED
    BY <2>2, <2>3
<1> QED
  BY <1>4, <1>6, <1>7, <1>8 DEF Structure, TypeOK, RestOK

-----------------------------------------------------------------------------
(* The callers. *)

\* The initial state is structured: no call, no waiter, an empty map.
LEMMA InitStructure == Init => Structure
<1> SUFFICES ASSUME Init PROVE Structure
  OBVIOUS
<1>1. verifying \in [Kinds -> CallIds \cup {NoCall}]
  BY DEF Init
<1>2. calls \in [CallIds -> Call] /\ callers \in [Callers -> Caller]
  BY BlankIsCall, IdleIsCaller DEF Init
<1>3. TypeOK
  <2>1. 0 \in 0 .. MaxOps
    BY ConstantsAssumption
  <2>2. dead \subseteq CallIds /\ cache \in MaybeEvidence
    BY DEF Init, MaybeEvidence
  <2>3. clock \in Nat /\ evictedAt \in Nat /\ high \in Nat /\ ops \in 0 .. MaxOps
    BY <2>1 DEF Init
  <2>4. active \in BOOLEAN /\ observed \in BOOLEAN
    BY DEF Init
  <2> QED
    BY <1>1, <1>2, <2>2, <2>3, <2>4 DEF TypeOK
<1>4. \A c \in CallIds : CallOK(c)
  BY DEF Init, CallOK, Running, BlankCall
<1>5. \A p \in Callers : CallerOK(p)
  BY DEF Init, CallerOK, IdleCaller
<1>6. \A k \in Kinds : MapOK(k)
  BY DEF Init, MapOK
<1> QED
  BY <1>3, <1>4, <1>5, <1>6 DEF Structure

\* VerifyDomain's look at the cache preserves Structure.
LEMMA StartVerifyStructure ==
  ASSUME Structure, NEW p \in Callers, StartVerify(p)
  PROVE  Structure'
<1> DEFINE r == IF Hit THEN [IdleCaller EXCEPT !.pc = "hit", !.vd = Snapshot, !.after = evictedAt]
                       ELSE [IdleCaller EXCEPT !.pc = "join", !.after = evictedAt]
<1>1. RestOK
  BY StructureParts
<1>2. RestOK'
  BY <1>1, GetTyped, ConstantsAssumption DEF StartVerify, RestOK, history
<1>3. Hit => Snapshot \in Evidence
  BY <1>1, SnapshotTyped DEF Hit
<1>4. r \in Caller
  BY <1>1, <1>3, IdleIsCaller DEF RestOK, Caller, CallerPc, MaybeEvidence
<1>5. callers' = [callers EXCEPT ![p] = r] /\ callers[p].pc # "wait" /\ UNCHANGED <<verifying, calls>>
  BY DEF StartVerify
<1>6. /\ r.pc # "wait" /\ (r.pc = "join" => r.want # "status")
      /\ (r.pc \in {"hit", "return"} => r.vd # NoEvidence)
  BY <1>3, NoEvidenceAssumption DEF IdleCaller
<1> HIDE DEF r
<1> QED
  BY <1>2, <1>4, <1>5, <1>6, CallerMoves

\* The start of RefreshDomain preserves Structure.
LEMMA StartRefreshStructure ==
  ASSUME Structure, NEW p \in Callers, StartRefresh(p)
  PROVE  Structure'
<1> DEFINE r == [IdleCaller EXCEPT !.pc = "join", !.want = "refresh", !.after = evictedAt]
<1>1. RestOK
  BY StructureParts
<1>2. RestOK'
  BY <1>1, ConstantsAssumption DEF StartRefresh, RestOK, history
<1>3. r \in Caller
  BY <1>1, IdleIsCaller DEF RestOK, Caller, CallerPc, Kinds
<1>4. r.pc = "join" /\ r.want = "refresh"
  BY DEF IdleCaller
<1>5. callers' = [callers EXCEPT ![p] = r] /\ callers[p].pc # "wait" /\ UNCHANGED <<verifying, calls>>
  BY DEF StartRefresh
<1> HIDE DEF r
<1> QED
  BY <1>2, <1>3, <1>4, <1>5, CallerMoves

\* The decision to recheck the status preserves Structure.
LEMMA DecideHitStructure ==
  ASSUME Structure, NEW p \in Callers, DecideHit(p)
  PROVE  Structure'
<1> DEFINE r == IF NeedsRefresh(callers[p].vd)
                  THEN [callers[p] EXCEPT !.pc = "join", !.want = "status"]
                  ELSE [callers[p] EXCEPT !.pc = "return"]
<1>1. callers[p] \in Caller /\ callers[p].vd # NoEvidence /\ callers[p].pc = "hit"
  BY DEF Structure, TypeOK, CallerOK, DecideHit
<1>2. RestOK'
  BY StructureParts DEF DecideHit, RestOK, history, env
<1>3. r \in Caller
  BY <1>1 DEF Caller, CallerPc, Kinds
<1>4. r.pc \in {"join", "return"} /\ r.vd # NoEvidence
  BY <1>1 DEF Caller
<1>5. callers' = [callers EXCEPT ![p] = r] /\ UNCHANGED <<verifying, calls>>
  BY DEF DecideHit
<1> HIDE DEF r
<1> QED
  BY <1>1, <1>2, <1>3, <1>4, <1>5, CallerMoves

\* A caller's return preserves Structure.
LEMMA ReturnStructure ==
  ASSUME Structure, NEW p \in Callers, Return(p) \/ ReturnError(p)
  PROVE  Structure'
<1>1. RestOK
  BY StructureParts
<1>2. RestOK'
  BY <1>1, DropTyped DEF Return, ReturnError, RestOK, history, env
<1>3. callers' = [callers EXCEPT ![p] = IdleCaller] /\ callers[p].pc # "wait"
  BY DEF Return, ReturnError
<1>4. UNCHANGED <<verifying, calls>>
  BY DEF Return, ReturnError
<1>5. IdleCaller.pc = "idle"
  BY DEF IdleCaller
<1> QED
  BY <1>2, <1>3, <1>4, <1>5, IdleIsCaller, CallerMoves

\* A waiter that finds the call finished preserves Structure.
LEMMA WakeStructure ==
  ASSUME Structure, NEW p \in Callers, Wake(p) \/ LeaveFinished(p)
  PROVE  Structure'
<1> DEFINE c == callers[p].call
<1> DEFINE r == IF Wake(p) THEN Received(p) ELSE IdleCaller
<1>1. /\ callers[p] \in Caller /\ callers[p].pc = "wait" /\ c \in CallIds
      /\ calls[c] \in Call /\ calls[c].pc = "done"
  BY DEF Wake, LeaveFinished, Structure, TypeOK, CallerOK
<1>2. RestOK'
  BY StructureParts DEF Wake, LeaveFinished, RestOK, history, env
<1>3. /\ callers' = [callers EXCEPT ![p] = r]
      /\ calls' = [calls EXCEPT ![c] = Unread(c, p)]
      /\ UNCHANGED verifying
  BY DEF Wake, LeaveFinished
<1>4. /\ r \in Caller /\ r.pc # "wait" /\ r.pc # "join"
      /\ (r.pc \in {"hit", "return"} => r.vd # NoEvidence)
  <2>1. IdleCaller \in Caller /\ IdleCaller.pc = "idle"
    BY IdleIsCaller DEF IdleCaller
  <2>2. ASSUME calls[c].ev # NoEvidence
        PROVE  /\ Received(p) \in Caller /\ Received(p).pc \in {"hit", "return"}
               /\ Received(p).vd # NoEvidence
    BY <1>1, <2>2 DEF Received, Caller, CallerPc, Call
  <2>3. calls[c].ev = NoEvidence => Received(p) = IdleCaller
    BY DEF Received
  <2> QED
    BY <2>1, <2>2, <2>3
<1> HIDE DEF r
<1> QED
  BY <1>1, <1>2, <1>3, <1>4, ReaderLeavesFinished

\* A caller that joins a running call: it is counted and it waits.
LEMMA JoinRunningStructure ==
  ASSUME Structure, NEW p \in Callers, Join(p), verifying[callers[p].want] # NoCall
  PROVE  Structure'
<1>0. PICK c \in CallIds : c = verifying[callers[p].want]
  BY DEF Join, Structure, TypeOK, Caller
<1>1. /\ callers[p] \in Caller /\ callers[p].pc = "join" /\ c \in CallIds
      /\ calls[c] \in Call /\ Running(c) /\ ~calls[c].cancelled /\ CallOK(c)
      /\ calls[c].kind = callers[p].want
  BY <1>0 DEF Join, Structure, TypeOK, Caller, MapOK
<1>2. /\ calls' = [calls EXCEPT ![c].waiters = @ + 1]
      /\ callers' = [callers EXCEPT ![p] = Waiting(p, c)]
      /\ UNCHANGED verifying
  BY <1>0 DEF Join
<1>3. RestOK'
  BY StructureParts DEF Join, RestOK, history, env
<1>4. /\ Waiting(p, c) \in Caller /\ Waiting(p, c).pc = "wait" /\ Waiting(p, c).call = c
  BY <1>1 DEF Waiting, Caller, CallerPc
<1>5. callers'[p] = Waiting(p, c) /\ \A q \in Callers \ {p} : callers'[q] = callers[q]
  BY <1>2 DEF Structure, TypeOK
<1>6. /\ calls'[c] = [calls[c] EXCEPT !.waiters = @ + 1]
      /\ \A d \in CallIds \ {c} : calls'[d] = calls[d]
  BY <1>1, <1>2 DEF Structure, TypeOK
<1>7. calls'[c] \in Call
  BY <1>1, <1>6 DEF Call
<1>8. callers' \in [Callers -> Caller] /\ calls' \in [CallIds -> Call]
  BY <1>2, <1>4, <1>6, <1>7 DEF Structure, TypeOK
<1>9. /\ calls'[c].pc = calls[c].pc /\ calls'[c].kind = calls[c].kind /\ calls'[c].ev = calls[c].ev
      /\ calls'[c].cancelled = calls[c].cancelled /\ calls'[c].waiters = calls[c].waiters + 1
  BY <1>1, <1>6 DEF Call
<1>10. Readers(c)' = Readers(c) \cup {p} /\ p \notin Readers(c) /\ IsFiniteSet(Readers(c))
  <2>1. Readers(c) \subseteq Callers /\ p \notin Readers(c)
    BY <1>1 DEF Readers
  <2>2. IsFiniteSet(Readers(c))
    BY <2>1, ConstantsAssumption, FS_Subset
  <2>3. Readers(c)' = Readers(c) \cup {p}
    BY <1>4, <1>5 DEF Readers
  <2> QED
    BY <2>1, <2>2, <2>3
<1>11. Cardinality(Readers(c)') = Cardinality(Readers(c)) + 1
  BY <1>10, FS_AddElement
<1>12. CallOK(c)'
  BY <1>1, <1>9, <1>11 DEF CallOK, Running
<1>13. ASSUME NEW d \in CallIds \ {c} PROVE CallOK(d)'
  <2>1. Readers(d)' = Readers(d)
    BY <1>1, <1>4, <1>5 DEF Readers
  <2> QED
    BY <1>6, <2>1 DEF Structure, CallOK, Running
<1>14. ASSUME NEW q \in Callers PROVE CallerOK(q)'
  <2>1. \A d \in CallIds : calls'[d].pc = calls[d].pc
    BY <1>6, <1>9
  <2>2. CASE q = p
    BY <1>1, <1>4, <1>5, <2>1, <2>2 DEF CallerOK, Running
  <2>3. CASE q # p
    BY <1>5, <2>1, <2>3 DEF Structure, CallerOK
  <2> QED
    BY <2>2, <2>3
<1>15. ASSUME NEW k \in Kinds PROVE MapOK(k)'
  <2>1. verifying'[k] = verifying[k] /\ MapOK(k) /\ verifying[k] \in CallIds \cup {NoCall}
    BY <1>2 DEF Structure, TypeOK
  <2>2. \A d \in CallIds : /\ calls'[d].pc = calls[d].pc /\ calls'[d].kind = calls[d].kind
                           /\ calls'[d].cancelled = calls[d].cancelled
    BY <1>6, <1>9
  <2> QED
    BY <2>1, <2>2 DEF MapOK, Running
<1> QED
  BY <1>2, <1>3, <1>8, <1>12, <1>13, <1>14, <1>15 DEF Structure, TypeOK, RestOK

\* A caller that starts a call: it is the only waiter.
LEMMA JoinNewStructure ==
  ASSUME Structure, NEW p \in Callers, Join(p), verifying[callers[p].want] = NoCall
  PROVE  Structure'
<1>1. PICK c \in CallIds :
        /\ calls[c].pc = "none"
        /\ calls' = [calls EXCEPT ![c] = NewCall(p)]
        /\ callers' = [callers EXCEPT ![p] = Waiting(p, c)]
        /\ verifying' = [verifying EXCEPT ![callers[p].want] = c]
  BY DEF Join
<1>2. /\ callers[p] \in Caller /\ callers[p].pc = "join" /\ callers[p].want \in Kinds
      /\ (callers[p].want = "status" => callers[p].vd # NoEvidence)
  BY DEF Join, Structure, TypeOK, Caller, CallerOK
<1>3. RestOK'
  BY StructureParts DEF Join, RestOK, history, env
<1>4. /\ Waiting(p, c) \in Caller /\ Waiting(p, c).pc = "wait" /\ Waiting(p, c).call = c
  BY <1>2 DEF Waiting, Caller, CallerPc
<1>5. callers'[p] = Waiting(p, c) /\ \A q \in Callers \ {p} : callers'[q] = callers[q]
  BY <1>1 DEF Structure, TypeOK
<1>6. calls'[c] = NewCall(p) /\ \A d \in CallIds \ {c} : calls'[d] = calls[d]
  BY <1>1 DEF Structure, TypeOK
<1>7. /\ NewCall(p) \in Call /\ NewCall(p).pc = "start" /\ NewCall(p).waiters = 1
      /\ NewCall(p).cancelled = FALSE /\ NewCall(p).kind = callers[p].want
      /\ NewCall(p).ev = callers[p].vd
  <2>1. clock \in Nat
    BY DEF Structure, TypeOK
  <2>2. "start" \in CallPc /\ "attached" \in Fate
    BY DEF CallPc, Fate
  <2> QED
    BY <1>2, <2>1, <2>2 DEF NewCall, BlankCall, Call, Caller
<1>8. callers' \in [Callers -> Caller] /\ calls' \in [CallIds -> Call]
  BY <1>1, <1>4, <1>7 DEF Structure, TypeOK
<1>9. verifying' \in [Kinds -> CallIds \cup {NoCall}]
  BY <1>1 DEF Structure, TypeOK
<1>10. Readers(c)' = {p}
  <2>1. \A q \in Callers : callers[q].pc = "wait" => callers[q].call # c
    BY <1>1 DEF Structure, CallerOK
  <2> QED
    BY <1>4, <1>5, <2>1 DEF Readers
<1>11. Cardinality(Readers(c)') = 1
  BY <1>10, FS_Singleton
<1>12. CallOK(c)'
  BY <1>2, <1>6, <1>7, <1>11 DEF CallOK, Running
<1>13. ASSUME NEW d \in CallIds \ {c} PROVE CallOK(d)'
  <2>1. Readers(d)' = Readers(d)
    BY <1>2, <1>4, <1>5 DEF Readers
  <2> QED
    BY <1>6, <2>1 DEF Structure, CallOK, Running
<1>14. ASSUME NEW q \in Callers PROVE CallerOK(q)'
  <2>1. \A d \in CallIds : calls[d].pc # "none" => calls'[d].pc # "none"
    BY <1>1, <1>6
  <2>2. CASE q = p
    BY <1>4, <1>5, <1>6, <1>7, <2>2 DEF CallerOK
  <2>3. CASE q # p
    BY <1>5, <2>1, <2>3 DEF Structure, CallerOK
  <2> QED
    BY <2>2, <2>3
<1>15. ASSUME NEW k \in Kinds PROVE MapOK(k)'
  <2>1. MapOK(k) /\ verifying[k] \in CallIds \cup {NoCall}
    BY DEF Structure, TypeOK
  <2>2. CASE k = callers[p].want
    <3>1. verifying'[k] = c
      BY <1>1, <2>2 DEF Structure, TypeOK
    <3> QED
      BY <1>6, <1>7, <2>2, <3>1 DEF MapOK, Running
  <2>3. CASE k # callers[p].want
    <3>1. verifying'[k] = verifying[k]
      BY <1>1, <2>3 DEF Structure, TypeOK
    <3>2. CASE verifying[k] = NoCall
      BY <3>1, <3>2 DEF MapOK
    <3>3. CASE verifying[k] # NoCall
      <4>1. verifying[k] # c
        BY <1>1, <2>1, <3>3 DEF MapOK, Running
      <4>2. calls'[verifying[k]] = calls[verifying[k]]
        BY <1>6, <2>1, <3>3, <4>1
      <4> QED
        BY <2>1, <3>1, <4>2 DEF MapOK, Running
    <3> QED
      BY <3>2, <3>3
  <2> QED
    BY <2>2, <2>3
<1> QED
  BY <1>3, <1>8, <1>9, <1>12, <1>13, <1>14, <1>15 DEF Structure, TypeOK, RestOK

\* A waiter that leaves a running call is counted out exactly once; the last
\* one takes the call out of the map.
LEMMA LeaveRunningStructure ==
  ASSUME Structure, NEW p \in Callers, LeaveRunning(p)
  PROVE  Structure'
<1>0. PICK c \in CallIds : c = callers[p].call
  BY DEF LeaveRunning, Structure, CallerOK
<1>1. /\ callers[p] \in Caller /\ callers[p].pc = "wait" /\ callers[p].call = c
      /\ calls[c] \in Call /\ Running(c) /\ CallOK(c)
  BY <1>0 DEF LeaveRunning, Structure, TypeOK, CallerOK, Call, CallPc, Running
<1>2. /\ callers' = [callers EXCEPT ![p] = IdleCaller]
      /\ calls' = [calls EXCEPT ![c] = Left(c)]
      /\ verifying' = [k \in Kinds |->
           IF verifying[k] = c /\ calls[c].waiters = 1 THEN NoCall ELSE verifying[k]]
  BY <1>0 DEF LeaveRunning
<1>3. RestOK'
  BY StructureParts DEF LeaveRunning, RestOK, history, env
<1>4. /\ p \in Readers(c) /\ IsFiniteSet(Readers(c)) /\ Cardinality(Readers(c)) \in Nat
      /\ Cardinality(Readers(c) \ {p}) = Cardinality(Readers(c)) - 1
      /\ Cardinality(Readers(c) \ {p}) \in Nat
  <2>1. p \in Readers(c) /\ Readers(c) \subseteq Callers
    BY <1>1 DEF Readers
  <2>2. IsFiniteSet(Readers(c))
    BY <2>1, ConstantsAssumption, FS_Subset
  <2>3. IsFiniteSet(Readers(c) \ {p}) /\ Cardinality(Readers(c) \ {p}) = Cardinality(Readers(c)) - 1
    BY <2>1, <2>2, FS_RemoveElement
  <2> QED
    BY <2>1, <2>2, <2>3, FS_CardinalityType
<1>5. callers'[p] = IdleCaller /\ \A q \in Callers \ {p} : callers'[q] = callers[q]
  BY <1>2 DEF Structure, TypeOK
<1>6. calls'[c] = Left(c) /\ \A d \in CallIds \ {c} : calls'[d] = calls[d]
  BY <1>2 DEF Structure, TypeOK
<1>7. calls[c].waiters = Cardinality(Readers(c)) /\ ~calls[c].cancelled
  BY <1>1, <1>4 DEF CallOK
<1>8. /\ Left(c) \in Call /\ Left(c).pc = calls[c].pc /\ Left(c).kind = calls[c].kind
      /\ Left(c).ev = calls[c].ev /\ Left(c).waiters = calls[c].waiters - 1
      /\ (Left(c).cancelled => calls[c].waiters = 1)
  <2>1. calls[c].waiters - 1 \in Nat
    BY <1>4, <1>7
  <2>2. "abandoned" \in Fate
    BY DEF Fate
  <2> QED
    BY <1>1, <1>7, <2>1, <2>2 DEF Left, Call
<1>9. callers' \in [Callers -> Caller] /\ calls' \in [CallIds -> Call]
  BY <1>2, <1>8, IdleIsCaller DEF Structure, TypeOK
<1>10. verifying' \in [Kinds -> CallIds \cup {NoCall}]
  BY <1>2 DEF Structure, TypeOK
<1>11. IdleCaller.pc = "idle"
  BY DEF IdleCaller
<1>12. Readers(c)' = Readers(c) \ {p}
  BY <1>5, <1>11 DEF Readers
<1>13. CallOK(c)'
  <2>1. calls'[c].waiters = Cardinality(Readers(c)')
    BY <1>4, <1>6, <1>7, <1>8, <1>12
  <2>2. calls'[c].cancelled => calls'[c].waiters = 0
    BY <1>6, <1>8
  <2> QED
    BY <1>1, <1>6, <1>8, <2>1, <2>2 DEF CallOK, Running
<1>14. ASSUME NEW d \in CallIds \ {c} PROVE CallOK(d)'
  <2>1. Readers(d)' = Readers(d)
    BY <1>1, <1>5, <1>11 DEF Readers
  <2> QED
    BY <1>6, <2>1 DEF Structure, CallOK, Running
<1>15. ASSUME NEW q \in Callers PROVE CallerOK(q)'
  <2>1. \A d \in CallIds : calls'[d].pc = calls[d].pc
    BY <1>6, <1>8
  <2>2. CASE q = p
    BY <1>5, <1>11, <2>2 DEF CallerOK
  <2>3. CASE q # p
    BY <1>5, <2>1, <2>3 DEF Structure, CallerOK
  <2> QED
    BY <2>2, <2>3
<1>16. ASSUME NEW k \in Kinds PROVE MapOK(k)'
  <2> SUFFICES ASSUME verifying'[k] # NoCall PROVE MapOK(k)'
    BY DEF MapOK
  <2>1. MapOK(k) /\ verifying[k] \in CallIds \cup {NoCall}
    BY DEF Structure, TypeOK
  <2>2. /\ verifying'[k] = verifying[k] /\ verifying[k] \in CallIds
        /\ (verifying[k] = c => calls[c].waiters # 1)
    BY <1>2, <2>1
  <2>3. CASE verifying[k] = c
    BY <1>6, <1>8, <2>1, <2>2, <2>3 DEF MapOK, Running
  <2>4. CASE verifying[k] # c
    <3>1. calls'[verifying[k]] = calls[verifying[k]]
      BY <1>6, <2>2, <2>4
    <3> QED
      BY <2>1, <2>2, <3>1 DEF MapOK, Running
  <2> QED
    BY <2>3, <2>4
<1> QED
  BY <1>3, <1>9, <1>10, <1>13, <1>14, <1>15, <1>16 DEF Structure, TypeOK, RestOK

-----------------------------------------------------------------------------
(* The workers, and what takes calls out of the map. *)

\* Calls change without losing waiters or kind, or they finish; the map keeps
\* only calls that have not finished.
LEMMA CallsMove ==
  ASSUME Structure, RestOK', UNCHANGED callers,
         calls' \in [CallIds -> Call], verifying' \in [Kinds -> CallIds \cup {NoCall}],
         \A d \in CallIds :
           \/ Running(d) /\ calls'[d].pc = "done"
           \/ /\ calls'[d].kind = calls[d].kind
              /\ calls'[d].waiters = calls[d].waiters
              /\ calls'[d].cancelled = calls[d].cancelled
              /\ \/ calls'[d].pc = calls[d].pc /\ calls'[d].ev = calls[d].ev
                 \/ Running(d) /\ calls'[d].pc = "finish",
         \A k \in Kinds : verifying'[k] # NoCall =>
           verifying'[k] = verifying[k] /\ calls'[verifying[k]].pc # "done"
  PROVE  Structure'
<1>1. callers' = callers /\ callers' \in [Callers -> Caller]
  BY DEF Structure, TypeOK
<1>2. ASSUME NEW d \in CallIds PROVE CallOK(d)'
  <2>1. Readers(d)' = Readers(d) /\ CallOK(d)
    BY <1>1 DEF Readers, Structure
  <2>2. Running(d) /\ calls'[d].pc = "done" => CallOK(d)'
    BY DEF CallOK, Running
  <2>3. ASSUME calls'[d].kind = calls[d].kind,
               calls'[d].waiters = calls[d].waiters,
               calls'[d].cancelled = calls[d].cancelled,
               \/ calls'[d].pc = calls[d].pc /\ calls'[d].ev = calls[d].ev
               \/ Running(d) /\ calls'[d].pc = "finish"
        PROVE  CallOK(d)'
    BY <2>1, <2>3 DEF CallOK, Running
  <2> QED
    BY <2>2, <2>3
<1>3. ASSUME NEW q \in Callers PROVE CallerOK(q)'
  BY <1>1 DEF Structure, CallerOK, Running
<1>4. ASSUME NEW k \in Kinds PROVE MapOK(k)'
  <2> SUFFICES ASSUME verifying'[k] # NoCall PROVE MapOK(k)'
    BY DEF MapOK
  <2>1. verifying'[k] = verifying[k] /\ calls'[verifying[k]].pc # "done" /\ MapOK(k)
    BY DEF Structure
  <2>2. verifying[k] \in CallIds
    BY <2>1
  <2>3. /\ calls'[verifying[k]].kind = calls[verifying[k]].kind
        /\ calls'[verifying[k]].cancelled = calls[verifying[k]].cancelled
        /\ calls'[verifying[k]].pc \in {calls[verifying[k]].pc, "finish"}
    BY <2>1, <2>2
  <2> QED
    BY <2>1, <2>2, <2>3 DEF MapOK, Running
<1> QED
  BY <1>1, <1>2, <1>3, <1>4 DEF Structure, TypeOK, RestOK

\* Detach touches only the fields of a call that waiters do not share.
LEMMA DetachTyped ==
  ASSUME NEW d, NEW fate \in Fate, calls[d] \in Call
  PROVE  /\ Detach(fate, d) \in Call
         /\ Detach(fate, d).pc = calls[d].pc
         /\ Detach(fate, d).ev = calls[d].ev
         /\ Detach(fate, d).kind = calls[d].kind
         /\ Detach(fate, d).waiters = calls[d].waiters
         /\ Detach(fate, d).cancelled = calls[d].cancelled
<1>1. CASE verifying[calls[d].kind] = d
  BY <1>1 DEF Detach, Call
<1>2. CASE verifying[calls[d].kind] # d
  BY <1>2 DEF Detach
<1> QED
  BY <1>1, <1>2

\* EvictDomain preserves Structure.
LEMMA EvictDomainStructure == Structure /\ EvictDomain => Structure'
<1> SUFFICES ASSUME Structure, EvictDomain PROVE Structure'
  OBVIOUS
<1>1. RestOK'
  BY StructureParts, DropTyped DEF EvictDomain, RestOK, env
<1>2. \A d \in CallIds : calls'[d] = Detach("evicted", d)
  BY DEF EvictDomain
<1>3. \A d \in CallIds : calls[d] \in Call
  BY DEF Structure, TypeOK
<1>4. ASSUME NEW d \in CallIds
      PROVE  /\ Detach("evicted", d) \in Call
             /\ Detach("evicted", d).pc = calls[d].pc
             /\ Detach("evicted", d).ev = calls[d].ev
             /\ Detach("evicted", d).kind = calls[d].kind
             /\ Detach("evicted", d).waiters = calls[d].waiters
             /\ Detach("evicted", d).cancelled = calls[d].cancelled
  BY <1>3, DetachTyped DEF Fate
<1>5. calls' \in [CallIds -> Call] /\ verifying' \in [Kinds -> CallIds \cup {NoCall}]
  BY <1>4 DEF EvictDomain
<1>6. \A k \in Kinds : verifying'[k] = NoCall
  BY DEF EvictDomain
<1>7. UNCHANGED callers
  BY DEF EvictDomain
<1> QED
  BY <1>1, <1>2, <1>4, <1>5, <1>6, <1>7, CallsMove

\* invalidateNonActiveDomain preserves Structure.
LEMMA StatusNotActiveStructure ==
  ASSUME Structure, NEW c \in CallIds, StatusNotActive(c)
  PROVE  Structure'
<1> DEFINE D(d) == Detach("invalidated", d)
<1>1. RestOK'
  BY StructureParts, DropTyped DEF StatusNotActive, RestOK, env
<1>2. /\ calls'[c] = [D(c) EXCEPT !.pc = "finish", !.ev = NoEvidence]
      /\ \A d \in CallIds \ {c} : calls'[d] = D(d)
  BY DEF StatusNotActive
<1>3. ASSUME NEW d \in CallIds
      PROVE  /\ D(d) \in Call /\ D(d).pc = calls[d].pc /\ D(d).ev = calls[d].ev
             /\ D(d).kind = calls[d].kind /\ D(d).waiters = calls[d].waiters
             /\ D(d).cancelled = calls[d].cancelled
  BY DetachTyped DEF Fate, Structure, TypeOK
<1>4. /\ calls'[c] \in Call /\ calls'[c].pc = "finish" /\ calls'[c].kind = calls[c].kind
      /\ calls'[c].waiters = calls[c].waiters /\ calls'[c].cancelled = calls[c].cancelled
  BY <1>2, <1>3 DEF Call, CallPc, MaybeEvidence
<1>5. Running(c)
  BY DEF StatusNotActive, Running
<1>6. DOMAIN calls' = CallIds /\ calls' = [d \in CallIds |-> calls'[d]]
  BY DEF StatusNotActive
<1>7. calls' \in [CallIds -> Call]
  BY <1>2, <1>3, <1>4, <1>6
<1>8. verifying' \in [Kinds -> CallIds \cup {NoCall}] /\ \A k \in Kinds : verifying'[k] = NoCall
  BY DEF StatusNotActive
<1>9. UNCHANGED callers
  BY DEF StatusNotActive
<1> HIDE DEF D
<1>10. ASSUME NEW d \in CallIds
       PROVE  /\ calls'[d].kind = calls[d].kind
              /\ calls'[d].waiters = calls[d].waiters
              /\ calls'[d].cancelled = calls[d].cancelled
              /\ \/ calls'[d].pc = calls[d].pc /\ calls'[d].ev = calls[d].ev
                 \/ Running(d) /\ calls'[d].pc = "finish"
  BY <1>2, <1>3, <1>4, <1>5
<1> QED
  BY <1>1, <1>7, <1>8, <1>9, <1>10, CallsMove

\* The worker's last critical section preserves Structure.
LEMMA CompleteStructure ==
  ASSUME Structure, NEW c \in CallIds, Complete(c)
  PROVE  Structure'
<1> DEFINE A(d) == AfterPublish(c, d)
<1>1. RestOK /\ calls \in [CallIds -> Call] /\ calls[c] \in Call
  BY StructureParts DEF Structure, TypeOK
<1>2. RestOK'
  <2>1. CASE Publishes(c)
    <3>1. calls[c].ev \in Evidence
      BY <1>1, <2>1 DEF Publishes, Accepted, Call, MaybeEvidence
    <3>2. Put(c, calls[c].ev)
      BY <2>1 DEF Complete
    <3> QED
      BY <1>1, <3>1, <3>2, PutTyped DEF Complete, RestOK, env
  <2>2. CASE ~Publishes(c)
    BY <1>1, <2>2 DEF Complete, RestOK, env
  <2> QED
    BY <2>1, <2>2
<1>3. calls'[c] = Finished(c) /\ \A d \in CallIds \ {c} : calls'[d] = A(d)
  BY DEF Complete
<1>4. Finished(c) \in Call /\ Finished(c).pc = "done"
  BY <1>1, BlankIsCall DEF Finished, DoneCall, Call, CallPc, MaybeEvidence
<1>5. ASSUME NEW d \in CallIds
      PROVE  /\ A(d) \in Call /\ A(d).pc = calls[d].pc /\ A(d).ev = calls[d].ev
             /\ A(d).kind = calls[d].kind /\ A(d).waiters = calls[d].waiters
             /\ A(d).cancelled = calls[d].cancelled
  <2>1. CASE Publishes(c) /\ verifying[calls[d].kind] = d
    <3>1. A(d) = RaiseFloor(c, d)
      BY <2>1 DEF AfterPublish
    <3>2. calls[c].ev.acq \in Nat /\ calls[d] \in Call
      BY <1>1, <2>1 DEF Publishes, Accepted, Call, MaybeEvidence, Evidence
    <3> QED
      BY <3>1, <3>2 DEF RaiseFloor, Call
  <2>2. CASE ~(Publishes(c) /\ verifying[calls[d].kind] = d)
    BY <1>1, <2>2 DEF AfterPublish
  <2> QED
    BY <2>1, <2>2
<1>6. Running(c)
  BY DEF Complete, Running
<1>7. calls' \in [CallIds -> Call]
  <2>1. calls' = [d \in CallIds |-> IF d = c THEN Finished(c) ELSE A(d)]
    BY DEF Complete
  <2> HIDE DEF A
  <2> QED
    BY <1>4, <1>5, <2>1
<1>8. verifying' = [k \in Kinds |-> IF verifying[k] = c THEN NoCall ELSE verifying[k]]
  BY DEF Complete
<1>9. verifying' \in [Kinds -> CallIds \cup {NoCall}]
  BY <1>8 DEF Structure, TypeOK
<1>10. UNCHANGED callers
  BY DEF Complete
<1> HIDE DEF A
<1>11. ASSUME NEW k \in Kinds, verifying'[k] # NoCall
       PROVE  verifying'[k] = verifying[k] /\ calls'[verifying[k]].pc # "done"
  <2>1. verifying'[k] = verifying[k] /\ verifying[k] # c /\ verifying[k] \in CallIds
    BY <1>8, <1>9, <1>11
  <2>2. Running(verifying[k])
    BY <1>11, <2>1 DEF Structure, MapOK
  <2> QED
    BY <1>3, <1>5, <2>1, <2>2 DEF Running
<1>12. \A d \in CallIds :
         \/ Running(d) /\ calls'[d].pc = "done"
         \/ /\ calls'[d].kind = calls[d].kind
            /\ calls'[d].waiters = calls[d].waiters
            /\ calls'[d].cancelled = calls[d].cancelled
            /\ calls'[d].pc = calls[d].pc /\ calls'[d].ev = calls[d].ev
  BY <1>3, <1>4, <1>5, <1>6
<1> QED
  BY <1>2, <1>7, <1>9, <1>10, <1>11, <1>12, CallsMove

\* The steps of the shared work preserve Structure.
LEMMA WorkStructure ==
  ASSUME Structure, NEW c \in CallIds,
         \/ ServeFromCache(c) \/ BeginAcquisition(c) \/ BeginStatusRefresh(c)
         \/ WorkFails(c) \/ StatusActive(c) \/ ReturnWork(c)
  PROVE  Structure'
<1>1. RestOK /\ calls[c] \in Call /\ calls \in [CallIds -> Call]
  BY StructureParts DEF Structure, TypeOK
<1>2. calls[c].ev \in MaybeEvidence /\ NoEvidence \in MaybeEvidence
  BY <1>1 DEF Call, MaybeEvidence
<1>3. Hit => Snapshot \in Evidence
  BY <1>1, SnapshotTyped DEF Hit
<1>4. Evidence \subseteq MaybeEvidence /\ \A e \in Evidence : e # NoEvidence
  BY NoEvidenceAssumption DEF MaybeEvidence
<1>5. UNCHANGED <<verifying, callers>> /\ Running(c)
  BY DEF ServeFromCache, BeginAcquisition, BeginStatusRefresh, WorkFails, StatusActive,
         ReturnWork, Running
<1>6. CASE ServeFromCache(c)
  <2> DEFINE e == IF calls[c].cancelled THEN NoEvidence ELSE Snapshot
  <2>1. e \in MaybeEvidence
    BY <1>2, <1>3, <1>4, <1>6 DEF ServeFromCache, CacheServes
  <2>2. RestOK' /\ calls' = [calls EXCEPT ![c].pc = "finish", ![c].ev = e]
    BY <1>1, <1>6 DEF ServeFromCache, RestOK, env, history
  <2> HIDE DEF e
  <2> QED
    BY <1>5, <2>1, <2>2, WorkerMoves
<1>7. CASE BeginAcquisition(c)
  <2>1. PICK ttl \in TTLs : calls' = [calls EXCEPT ![c].pc = "work",
          ![c].ev = [acq |-> clock, exp |-> clock + ttl, chk |-> 0,
                     flag |-> NoCall, state |-> "fresh", stray |-> FALSE]]
    BY <1>7 DEF BeginAcquisition
  <2> DEFINE e == [acq |-> clock, exp |-> clock + ttl, chk |-> 0,
                   flag |-> NoCall, state |-> "fresh", stray |-> FALSE]
  <2>2. e \in Evidence
    BY <1>1, ConstantsAssumption DEF RestOK, Evidence
  <2>3. calls' = [calls EXCEPT ![c].pc = "work", ![c].ev = e]
    BY <2>1
  <2>4. RestOK'
    BY <1>1, <1>7, GetTyped DEF BeginAcquisition, RestOK, env, history
  <2> HIDE DEF e
  <2> QED
    BY <1>4, <1>5, <2>2, <2>3, <2>4, WorkerMoves
<1>8. CASE BeginStatusRefresh(c)
  <2> DEFINE e == IF Hit THEN Snapshot ELSE calls[c].ev
  <2>1. e \in MaybeEvidence /\ e # NoEvidence
    BY <1>2, <1>3, <1>4, <1>8 DEF BeginStatusRefresh, Structure, CallOK
  <2>2. calls' = [calls EXCEPT ![c].pc = "work", ![c].ev = e]
    BY <1>1, <1>8 DEF BeginStatusRefresh, Call
  <2>3. RestOK'
    BY <1>1, <1>8, GetTyped DEF BeginStatusRefresh, RestOK, env, history
  <2> HIDE DEF e
  <2> QED
    BY <1>5, <2>1, <2>2, <2>3, WorkerMoves
<1>9. CASE WorkFails(c)
  <2>1. RestOK' /\ calls' = [calls EXCEPT ![c].pc = "finish", ![c].ev = NoEvidence]
    BY <1>1, <1>9 DEF WorkFails, RestOK, env, history
  <2> QED
    BY <1>2, <1>5, <2>1, WorkerMoves
<1>10. CASE StatusActive(c)
  <2>1. calls[c].ev # NoEvidence
    BY <1>10 DEF StatusActive, Structure, CallOK
  <2>2. calls' = [calls EXCEPT ![c].pc = "checked", ![c].ev = calls[c].ev]
    BY <1>1, <1>10 DEF StatusActive, Call
  <2>3. RestOK'
    BY <1>1, <1>10 DEF StatusActive, RestOK, env, history
  <2> QED
    BY <1>2, <1>5, <2>1, <2>2, <2>3, WorkerMoves
<1>11. CASE ReturnWork(c)
  <2> DEFINE e == IF Usable(Assembled(c)) THEN Assembled(c) ELSE NoEvidence
  <2>1. Assembled(c) \in Evidence
    <3>1. calls[c].ev \in Evidence
      BY <1>2, <1>11 DEF ReturnWork, Structure, CallOK, MaybeEvidence
    <3> QED
      BY <1>1, <3>1 DEF Assembled, Evidence, RestOK
  <2>2. e \in MaybeEvidence
    BY <1>2, <1>4, <2>1
  <2>3. calls' = [calls EXCEPT ![c].pc = "finish", ![c].ev = e]
    BY <1>11 DEF ReturnWork
  <2>4. RestOK'
    BY <1>1, <1>11, DropTyped DEF ReturnWork, RestOK, env, history
  <2> HIDE DEF e
  <2> QED
    BY <1>5, <2>2, <2>3, <2>4, WorkerMoves
<1> QED
  BY <1>6, <1>7, <1>8, <1>9, <1>10, <1>11

\* The environment and stuttering preserve Structure.
LEMMA RestStructure ==
  ASSUME Structure, Tick \/ Revoke \/ CapacityEviction \/ UNCHANGED vars
  PROVE  Structure'
<1>1. RestOK
  BY StructureParts
<1>2. RestOK'
  <2>1. CASE Tick
    BY <1>1, <2>1 DEF Tick, RestOK, history
  <2>2. CASE Revoke
    BY <1>1, <2>2 DEF Revoke, RestOK, history
  <2>3. CASE CapacityEviction
    BY <1>1, <2>3, DropTyped DEF CapacityEviction, RestOK, env, history
  <2>4. CASE UNCHANGED vars
    BY <1>1, <2>4 DEF vars, RestOK
  <2> QED
    BY <2>1, <2>2, <2>3, <2>4
<1>3. UNCHANGED <<verifying, calls, callers>>
  BY DEF Tick, Revoke, CapacityEviction, vars
<1> QED
  BY <1>2, <1>3, RestMoves

\* Structure is inductive.
LEMMA NextStructure == Structure /\ [Next]_vars => Structure'
<1> SUFFICES ASSUME Structure, [Next]_vars PROVE Structure'
  OBVIOUS
<1>1. ASSUME NEW p \in Callers, CallerStep(p) PROVE Structure'
  BY <1>1, StartVerifyStructure, StartRefreshStructure, DecideHitStructure, JoinRunningStructure,
     JoinNewStructure, WakeStructure, LeaveRunningStructure, ReturnStructure DEF CallerStep
<1>2. ASSUME NEW c \in CallIds, WorkerStep(c) PROVE Structure'
  BY <1>2, WorkStructure, StatusNotActiveStructure, CompleteStructure DEF WorkerStep
<1> QED
  BY <1>1, <1>2, EvictDomainStructure, RestStructure DEF Next

-----------------------------------------------------------------------------
(* The theorems. *)

\* coalesceVerification's waiter count and map are consistent in every reachable
\* state, for any finite set of callers and any bounds.
THEOREM StructureHolds == Spec => []Structure
<1>1. Init => Structure
  BY InitStructure
<1>2. Structure /\ [Next]_vars => Structure'
  BY NextStructure
<1> QED
  BY <1>1, <1>2, PTL DEF Spec

\* Type correctness of the coordinator's state; among it, that the waiter count
\* of an inFlightVerification never goes below zero.
THEOREM TypeCorrect == Spec => []TypeOK
<1>1. Structure => TypeOK
  BY DEF Structure
<1> QED
  BY <1>1, StructureHolds, PTL

\* coalesceVerification: the shared work is cancelled only when nobody waits
\* for it any more.
THEOREM NobodyElseIsCancelled == Spec => []LeavingCancelsOnlyOwnWork
<1>1. ASSUME Structure PROVE LeavingCancelsOnlyOwnWork
  <2> SUFFICES ASSUME NEW p \in Callers, callers[p].pc = "wait",
                      calls[callers[p].call].pc # "done",
                      calls[callers[p].call].cancelled
               PROVE  FALSE
    BY DEF LeavingCancelsOnlyOwnWork
  <2>1. PICK c \in CallIds : c = callers[p].call
    BY <1>1 DEF Structure, CallerOK
  <2>2. Running(c)
    BY <1>1, <2>1 DEF Structure, TypeOK, CallerOK, Call, CallPc, Running
  <2>3. Cardinality(Readers(c)) = 0
    BY <1>1, <2>1, <2>2 DEF Structure, CallOK
  <2>4. p \in Readers(c) /\ Readers(c) \subseteq Callers
    BY <2>1 DEF Readers
  <2>5. IsFiniteSet(Readers(c))
    BY <2>4, ConstantsAssumption, FS_Subset
  <2> QED
    BY <2>3, <2>4, <2>5, FS_EmptySet
<1> QED
  BY <1>1, StructureHolds, PTL
=============================================================================
