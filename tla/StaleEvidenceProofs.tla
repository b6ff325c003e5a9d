------------------------- MODULE StaleEvidenceProofs -------------------------
(***************************************************************************)
(* The verification coordinator never stores or hands out evidence that an *)
(* eviction, an observed non-ACTIVE status or a newer acquisition has      *)
(* overtaken, outside the exceptions the properties name.                  *)
(***************************************************************************)
EXTENDS StaleWorkProofs

\* Evidence acquired since t was acquired since any earlier time.
LEMMA SinceEarlier ==
  ASSUME NEW e, e.acq \in Nat, NEW t \in Nat, NEW u \in Nat, u <= t, Since(e, t)
  PROVE  Since(e, u)
BY DEF Since

\* A caller that becomes idle holds nothing.
LEMMA IdleStays ==
  ASSUME NEW q \in Callers, callers'[q] = IdleCaller, evictedAt \in Nat, evictedAt' = evictedAt
  PROVE  WaitOK(q)' /\ HeldOK(q)'
<1>1. callers'[q].pc = "idle" /\ callers'[q].after = 0
  BY DEF IdleCaller
<1>2. callers'[q].after <= evictedAt'
  BY <1>1
<1> QED
  BY <1>1, <1>2 DEF WaitOK, HeldOK

\* A caller about to join an identity verification holds nothing either.
LEMMA JoiningStays ==
  ASSUME NEW q \in Callers, evictedAt \in Nat, evictedAt' = evictedAt, callers'[q].pc = "join",
         callers'[q].want # "status", callers'[q].after = evictedAt
  PROVE  WaitOK(q)' /\ HeldOK(q)'
<1>1. callers'[q].after <= evictedAt'
  OBVIOUS
<1> QED
  BY <1>1 DEF WaitOK, HeldOK

\* While a caller waits, its call keeps its kind and never comes by evidence
\* older than the eviction that came before the caller.
LEMMA WaitingStays ==
  ASSUME CurrentInv, [Next]_vars, NEW q \in Callers, callers[q].pc = "wait",
         NEW c \in CallIds, callers[q].call = c
  PROVE  /\ Running(c)' => calls'[c].kind = callers[q].want
         /\ callers[q].want # "status" /\ calls'[c].ev # NoEvidence
              /\ calls'[c].pc \in {"work", "checked", "finish", "done"}
              => Since(calls'[c].ev, callers[q].after)
<1>1. /\ Inv /\ Currency /\ WaitOK(q) /\ HeldOK(q) /\ calls[c].pc # "none"
      /\ calls[c] \in Call /\ callers[q].after \in Nat /\ evictedAt \in Nat /\ clock \in Nat
  BY Types DEF CurrentInv, Currency, CallerCurrent, Inv, Structure, CallerOK, Caller
<1>2. CASE ~Running(c)'
  <2>1. calls'[c].ev \in {NoEvidence, calls[c].ev} /\ calls[c].pc \in {"finish", "done"}
    BY <1>1, <1>2, StoppedCall
  <2> QED
    BY <1>1, <1>2, <2>1 DEF WaitOK
<1>3. CASE Running(c)'
  <2>1. Goes(c)
    BY <1>1, <1>3, CallSteps DEF Begins
  <2>2. calls'[c].kind = callers[q].want /\ calls[c].kind = callers[q].want
    BY <1>1, <2>1 DEF Goes, KeptCall, WaitOK
  <2> SUFFICES ASSUME callers[q].want # "status", calls'[c].ev # NoEvidence,
                      calls'[c].pc \in {"work", "checked", "finish", "done"}
               PROVE  Since(calls'[c].ev, callers[q].after)
    BY <2>2
  <2>3. ASSUME calls[c].pc \in {"work", "checked", "finish"}, calls[c].ev # NoEvidence,
               calls'[c].ev.stray = calls[c].ev.stray, calls'[c].ev.acq = calls[c].ev.acq
        PROVE  Since(calls'[c].ev, callers[q].after)
    BY <1>1, <2>3 DEF WaitOK, Since
  <2>4. CASE ~WorkStep(c)
    <3>1. calls'[c].pc = calls[c].pc /\ calls'[c].ev = calls[c].ev
      BY <2>1, <2>4 DEF Goes, WorkMoves
    <3>2. calls[c].pc \in {"work", "checked", "finish"}
      BY <1>3, <3>1 DEF Running
    <3> QED
      BY <2>3, <3>1, <3>2
  <2>5. CASE WorkStep(c)
    <3>1. CASE calls'[c].ev = Snapshot /\ cache # NoEvidence
      <4>1. Since(Snapshot, evictedAt) /\ callers[q].after <= evictedAt /\ Snapshot.acq \in Nat
        BY <1>1, <3>1, SnapshotSound, SnapshotIsEntry DEF HeldOK, Evidence
      <4> QED
        BY <1>1, <3>1, <4>1, SinceEarlier
    <3>2. CASE calls'[c].ev.acq = clock
      BY <1>1, <3>2 DEF Currency, Marks, HeldOK, Since
    <3>3. CASE calls[c].pc = "work" /\ calls'[c].ev = calls[c].ev
      BY <2>3, <3>3
    <3>4. CASE calls[c].pc = "checked" /\ calls'[c].ev = Assembled(c)
      BY <1>1, <2>3, <3>4, AssembledIsWork
    <3> QED
      BY <1>1, <2>2, <2>5, <3>1, <3>2, <3>3, <3>4, WorkStepEvidence
  <2> QED
    BY <2>4, <2>5
<1> QED
  BY <1>2, <1>3

\* A caller that joins a call joins one of its kind that has been attached since
\* the last eviction.
LEMMA JoinStays ==
  ASSUME CurrentInv, [Next]_vars, NEW q \in Callers, Join(q)
  PROVE  WaitOK(q)' /\ HeldOK(q)'
<1>1. /\ Inv /\ Currency /\ HeldOK(q) /\ callers \in [Callers -> Caller] /\ callers[q] \in Caller
      /\ calls \in [CallIds -> Call] /\ verifying \in [Kinds -> CallIds \cup {NoCall}]
      /\ callers[q].want \in Kinds /\ callers[q].after \in Nat /\ evictedAt \in Nat
  BY Types DEF CurrentInv, Currency, CallerCurrent, Caller
<1>2. evictedAt' = evictedAt /\ callers[q].pc = "join"
  BY DEF Join, history
<1>3. ASSUME NEW c \in CallIds, callers' = [callers EXCEPT ![q] = Waiting(q, c)],
             Running(c)' => calls'[c].kind = callers[q].want,
             callers[q].want # "status" /\ calls'[c].ev # NoEvidence
               /\ calls'[c].pc \in {"work", "checked", "finish", "done"}
               => Since(calls'[c].ev, callers[q].after)
      PROVE  WaitOK(q)' /\ HeldOK(q)'
  <2>1. /\ callers'[q].pc = "wait" /\ callers'[q].call = c /\ callers'[q].want = callers[q].want
        /\ callers'[q].after = callers[q].after
    BY <1>1, <1>3 DEF Waiting, Caller
  <2> QED
    BY <1>1, <1>2, <1>3, <2>1 DEF WaitOK, HeldOK
<1>4. CASE verifying[callers[q].want] # NoCall
  <2> DEFINE c == verifying[callers[q].want]
  <2>1. /\ calls' = [calls EXCEPT ![c].waiters = @ + 1]
        /\ callers' = [callers EXCEPT ![q] = Waiting(q, c)]
    BY <1>4 DEF Join
  <2>2. c \in CallIds /\ Running(c) /\ calls[c].kind = callers[q].want
    BY <1>1, <1>4 DEF Inv, Structure, MapOK
  <2>3. calls'[c].kind = calls[c].kind /\ calls'[c].pc = calls[c].pc /\ calls'[c].ev = calls[c].ev
    BY <1>1, <2>1, <2>2 DEF Call
  <2>4. FateOK(c) /\ RecentOK(c)
    BY <1>1, <2>2 DEF Currency, CallCurrent
  <2>5. calls[c].fate = "attached"
    BY <2>2, <2>4 DEF FateOK
  <2>6. ASSUME callers[q].want # "status", calls'[c].ev # NoEvidence,
               calls'[c].pc \in {"work", "checked", "finish", "done"}
        PROVE  Since(calls'[c].ev, callers[q].after)
    <3>1. Working(c)
      BY <2>2, <2>3, <2>6 DEF Working, Running
    <3>2. Since(calls[c].ev, evictedAt) /\ calls[c].ev.acq \in Nat /\ callers[q].after <= evictedAt
      BY <1>1, <2>2, <2>4, <2>5, <2>6, <3>1 DEF RecentOK, Working, Call, MaybeEvidence, Evidence, HeldOK
    <3> QED
      BY <1>1, <2>3, <3>2, SinceEarlier
  <2> QED
    BY <1>3, <2>1, <2>2, <2>3, <2>6
<1>5. CASE verifying[callers[q].want] = NoCall
  <2>1. PICK c \in CallIds : /\ calls' = [calls EXCEPT ![c] = NewCall(q)]
                             /\ callers' = [callers EXCEPT ![q] = Waiting(q, c)]
    BY <1>5 DEF Join
  <2>2. calls'[c].pc = "start" /\ calls'[c].kind = callers[q].want
    BY <1>1, <2>1, BeginsBlank
  <2> QED
    BY <1>3, <2>1, <2>2
<1> QED
  BY <1>4, <1>5

\* A caller that reads a result holds evidence acquired since the eviction that
\* came before it; a cache hit among the results carries a cell.
LEMMA WakeStays ==
  ASSUME CurrentInv, [Next]_vars, NEW q \in Callers, Wake(q)
  PROVE  WaitOK(q)' /\ HeldOK(q)'
<1> DEFINE e == calls[callers[q].call].ev
<1>1. /\ Inv /\ Currency /\ HeldOK(q) /\ WaitOK(q) /\ callers \in [Callers -> Caller]
      /\ callers[q] \in Caller /\ evictedAt \in Nat /\ callers[q].call \in CallIds
      /\ callers[q].pc = "wait" /\ calls[callers[q].call].pc = "done"
  BY Types DEF CurrentInv, Currency, CallerCurrent, Wake, Inv, Structure, CallerOK
<1>2. callers'[q] = Received(q) /\ evictedAt' = evictedAt
  BY <1>1 DEF Wake, history
<1>3. CASE e = NoEvidence
  <2>1. callers'[q] = IdleCaller
    BY <1>2, <1>3 DEF Received
  <2> QED
    BY <1>1, <1>2, <2>1, IdleStays
<1>4. CASE e # NoEvidence
  <2>1. Received(q) = [callers[q] EXCEPT
             !.pc = IF callers[q].want # "status" /\ e.state = "cached" THEN "hit" ELSE "return",
             !.call = NoCall, !.vd = e]
    BY <1>4 DEF Received
  <2>2. /\ callers'[q].pc = (IF callers[q].want # "status" /\ e.state = "cached" THEN "hit" ELSE "return")
        /\ callers'[q].vd = e /\ callers'[q].want = callers[q].want
        /\ callers'[q].after = callers[q].after
    BY <1>1, <1>2, <2>1 DEF Caller
  <2>3. e.state = "cached" => e.flag # NoCall
    BY <1>1, <1>4 DEF Currency, CallCurrent, Sound
  <2>4. callers[q].want # "status" => Since(e, callers[q].after)
    BY <1>1, <1>4 DEF WaitOK
  <2>5. callers'[q].pc \in {"hit", "return"}
    BY <2>2
  <2> HIDE DEF e
  <2>6. WaitOK(q)'
    BY <2>5 DEF WaitOK
  <2>7. HeldOK(q)'
    BY <1>1, <1>2, <2>2, <2>3, <2>4, <2>5 DEF HeldOK, Since
  <2> QED
    BY <2>6, <2>7
<1> QED
  BY <1>3, <1>4

\* The other steps of a caller.
LEMMA CallerMovesStay ==
  ASSUME CurrentInv, [Next]_vars, NEW q \in Callers,
         \/ StartVerify(q) \/ StartRefresh(q) \/ DecideHit(q) \/ LeaveRunning(q)
         \/ LeaveFinished(q) \/ Return(q) \/ ReturnError(q)
  PROVE  WaitOK(q)' /\ HeldOK(q)'
<1>1. /\ Inv /\ Currency /\ HeldOK(q) /\ callers \in [Callers -> Caller]
      /\ callers[q] \in Caller /\ evictedAt \in Nat
  BY Types DEF CurrentInv, Currency, CallerCurrent
<1>2. evictedAt' = evictedAt
  BY DEF StartVerify, StartRefresh, DecideHit, LeaveRunning, LeaveFinished, Return, ReturnError, history
<1>3. CASE LeaveRunning(q) \/ LeaveFinished(q) \/ Return(q) \/ ReturnError(q)
  <2>1. callers'[q] = IdleCaller
    BY <1>1, <1>3 DEF LeaveRunning, LeaveFinished, Return, ReturnError
  <2> QED
    BY <1>1, <1>2, <2>1, IdleStays
<1>4. CASE StartRefresh(q)
  <2>1. callers'[q].pc = "join" /\ callers'[q].want = "refresh" /\ callers'[q].after = evictedAt
    BY <1>1, <1>4 DEF StartRefresh, IdleCaller
  <2> QED
    BY <1>1, <1>2, <2>1, JoiningStays
<1>5. CASE StartVerify(q) /\ ~Hit
  <2>1. callers'[q].pc = "join" /\ callers'[q].want = "lookup" /\ callers'[q].after = evictedAt
    BY <1>1, <1>5 DEF StartVerify, IdleCaller
  <2> QED
    BY <1>1, <1>2, <2>1, JoiningStays
<1>6. CASE StartVerify(q) /\ Hit
  <2>1. /\ callers'[q].pc = "hit" /\ callers'[q].want = "lookup" /\ callers'[q].after = evictedAt
        /\ callers'[q].vd = Snapshot
    BY <1>1, <1>6 DEF StartVerify, IdleCaller
  <2>2. Snapshot.flag # NoCall /\ Since(Snapshot, evictedAt)
    BY <1>1, <1>6, SnapshotIsEntry, SnapshotSound DEF Hit
  <2>3. WaitOK(q)'
    BY <2>1 DEF WaitOK
  <2>4. callers'[q].vd.flag # NoCall /\ Since(callers'[q].vd, callers'[q].after)
    BY <2>1, <2>2
  <2>5. Since(callers[q].vd, callers[q].after)'
    BY <2>4 DEF Since
  <2>6. callers'[q].after <= evictedAt'
    BY <1>1, <1>2, <2>1
  <2> QED
    BY <2>3, <2>4, <2>5, <2>6 DEF HeldOK
<1>7. CASE DecideHit(q)
  <2>1. callers'[q] = IF NeedsRefresh(callers[q].vd)
                        THEN [callers[q] EXCEPT !.pc = "join", !.want = "status"]
                        ELSE [callers[q] EXCEPT !.pc = "return"]
    BY <1>1, <1>7 DEF DecideHit
  <2>2. /\ callers'[q].vd = callers[q].vd /\ callers'[q].after = callers[q].after
        /\ \/ callers'[q].pc = "join" /\ callers'[q].want = "status"
           \/ callers'[q].pc = "return" /\ callers'[q].want = callers[q].want
    BY <1>1, <2>1 DEF Caller
  <2>3. callers[q].pc = "hit"
    BY <1>7 DEF DecideHit
  <2> QED
    BY <1>1, <1>2, <2>2, <2>3 DEF WaitOK, HeldOK, Since
<1> QED
  BY <1>3, <1>4, <1>5, <1>6, <1>7

\* A caller that a step leaves alone.
LEMMA UntouchedCallerStays ==
  ASSUME CurrentInv, [Next]_vars, NEW q \in Callers, callers'[q] = callers[q]
  PROVE  WaitOK(q)' /\ HeldOK(q)'
<1>1. /\ Inv /\ Currency /\ HeldOK(q) /\ evictedAt \in Nat /\ clock \in Nat
      /\ callers[q].after \in Nat
  BY Types DEF CurrentInv, Currency, CallerCurrent, Caller
<1>2. evictedAt' >= evictedAt /\ evictedAt' \in Nat
  BY <1>1, MarkSteps DEF Currency, Marks
<1>3. HeldOK(q)'
  BY <1>1, <1>2 DEF HeldOK, Since
<1>4. WaitOK(q)'
  <2> SUFFICES ASSUME callers[q].pc = "wait"
               PROVE  WaitOK(q)'
    BY DEF WaitOK
  <2>1. PICK c \in CallIds : c = callers[q].call
    BY <1>1 DEF Inv, Structure, CallerOK
  <2>2. /\ Running(c)' => calls'[c].kind = callers[q].want
        /\ callers[q].want # "status" /\ calls'[c].ev # NoEvidence
             /\ calls'[c].pc \in {"work", "checked", "finish", "done"}
             => Since(calls'[c].ev, callers[q].after)
    BY <2>1, WaitingStays
  <2> QED
    BY <2>1, <2>2 DEF WaitOK, Running, Since
<1> QED
  BY <1>3, <1>4

\* Every step keeps what callers may rely on.
LEMMA CallersStay ==
  ASSUME CurrentInv, [Next]_vars, NEW q \in Callers
  PROVE  WaitOK(q)' /\ HeldOK(q)'
<1>1. callers \in [Callers -> Caller]
  BY Types DEF CurrentInv
<1>2. ASSUME NEW p \in Callers, CallerStep(p), p # q PROVE callers'[q] = callers[q]
  BY <1>1, <1>2 DEF CallerStep, StartVerify, StartRefresh, DecideHit, Join, Wake,
           LeaveRunning, LeaveFinished, Return, ReturnError
<1>3. ASSUME NEW c \in CallIds, WorkerStep(c) PROVE callers'[q] = callers[q]
  BY <1>3 DEF WorkerStep, ServeFromCache, BeginAcquisition, BeginStatusRefresh, WorkFails,
              StatusActive, StatusNotActive, ReturnWork, Complete
<1>4. EvictDomain \/ Tick \/ Revoke \/ CapacityEviction \/ UNCHANGED vars
        => callers'[q] = callers[q]
  BY DEF EvictDomain, Tick, Revoke, CapacityEviction, vars
<1>5. ASSUME CallerStep(q) PROVE WaitOK(q)' /\ HeldOK(q)'
  BY <1>5, JoinStays, WakeStays, CallerMovesStay DEF CallerStep
<1> QED
  BY <1>2, <1>3, <1>4, <1>5, UntouchedCallerStays DEF Next

-----------------------------------------------------------------------------
(* The theorems. *)

\* CurrentInv is inductive.
LEMMA NextCurrent == CurrentInv /\ [Next]_vars => CurrentInv'
<1> SUFFICES ASSUME CurrentInv, [Next]_vars PROVE CurrentInv'
  OBVIOUS
<1>1. Inv'
  BY NextInv DEF CurrentInv
<1>2. Marks' /\ Sound(cache)' /\ NonActiveFences'
  BY <1>1, MarksStay, EntrySound
<1>3. ASSUME NEW c \in CallIds PROVE CallCurrent(c)'
  BY <1>1, EvidenceSound, FateStays, StatusStays, RecentStays, SilencedStays DEF CallCurrent
<1>4. ASSUME NEW p \in Callers PROVE CallerCurrent(p)'
  BY <1>1, EvidenceSound, CallersStay DEF CallerCurrent
<1> QED
  BY <1>1, <1>2, <1>3, <1>4 DEF CurrentInv, Currency

\* Nothing has been acquired, evicted or observed at the start.
LEMMA InitCurrent == Init => CurrentInv
<1> SUFFICES ASSUME Init PROVE CurrentInv
  OBVIOUS
<1>1. Inv
  BY InitInv
<1>2. Marks /\ Sound(cache) /\ NonActiveFences
  BY DEF Init, Marks, Sound, NonActiveFences
<1>3. ASSUME NEW c \in CallIds PROVE CallCurrent(c)
  <2>1. calls[c] = BlankCall
    BY DEF Init
  <2>2. calls[c].pc = "none" /\ calls[c].ev = NoEvidence
    BY <2>1 DEF BlankCall
  <2> QED
    BY <2>2 DEF CallCurrent, Sound, FateOK, StatusOK, RecentOK, SilencedOK, Running, Working
<1>4. ASSUME NEW p \in Callers PROVE CallerCurrent(p)
  <2>1. callers[p] = IdleCaller /\ evictedAt = 0
    BY DEF Init
  <2>2. callers[p].pc = "idle" /\ callers[p].vd = NoEvidence /\ callers[p].after = 0
    BY <2>1 DEF IdleCaller
  <2>3. callers[p].after <= evictedAt
    BY <2>1, <2>2
  <2> QED
    BY <2>2, <2>3 DEF CallerCurrent, Sound, WaitOK, HeldOK
<1> QED
  BY <1>1, <1>2, <1>3, <1>4 DEF CurrentInv, Currency

\* The inductive invariant holds in every reachable state.
THEOREM CurrentInvariance == Spec => []CurrentInv
<1>1. Init => CurrentInv
  BY InitCurrent
<1>2. CurrentInv /\ [Next]_vars => CurrentInv'
  BY NextCurrent
<1> QED
  BY <1>1, <1>2, PTL DEF Spec

\* EvictDomain and invalidateNonActiveDomain: what an eviction or an observed
\* non-ACTIVE status has removed from the cache is not stored again, whatever
\* was in flight, except by a call that all its waiters had abandoned.
THEOREM RemovalHolds == Spec => []RemovedStaysRemoved
<1>1. ASSUME CurrentInv PROVE RemovedStaysRemoved
  <2>1. NonActiveFences
    BY <1>1 DEF CurrentInv, Currency
  <2>2. EvictionFences
    BY <1>1, SnapshotIsEntry DEF CurrentInv, Currency, Sound, Since, EvictionFences
  <2> QED
    BY <2>1, <2>2 DEF RemovedStaysRemoved
<1> QED
  BY <1>1, CurrentInvariance, PTL

\* VerifyDomain and RefreshDomain: a call that begins after EvictDomain gets
\* evidence acquired after it, unless it shares a status refresh or meets what
\* an abandoned call stored.
THEOREM EvictionIsSeen == Spec => []EvictionReachesCallers
<1>1. CurrentInv => EvictionReachesCallers
  BY DEF CurrentInv, Currency, CallerCurrent, HeldOK, Since, EvictionReachesCallers
<1> QED
  BY <1>1, CurrentInvariance, PTL

\* The acquisitionFloor and superseded: the cache never goes back to evidence
\* acquired before what it has held, even when that entry is gone.
LEMMA StoreNeverRegresses ==
  ASSUME CurrentInv, [Next]_vars, cache' # cache, cache' # NoEvidence
  PROVE  cache'.stray \/ cache'.acq >= high
<1>1. PICK c \in CallIds : Complete(c) /\ Publishes(c) /\ Put(c, calls[c].ev)
  BY CacheSteps DEF DropEntry
<1>2. calls[c].pc = "finish" /\ calls[c] \in Call /\ calls[c].ev \in Evidence
  BY <1>1, Types DEF Complete, CurrentInv, Publishes, Accepted, Call, MaybeEvidence
<1>3. ~PutRefused(calls[c].ev) /\ cache' = StoredBy(c, calls[c].ev)
  BY <1>1 DEF Put, DropEntry
<1>4. StoredBy(c, calls[c].ev).acq = calls[c].ev.acq
  BY <1>2 DEF StoredBy, Evidence
<1> QED
  BY <1>1, <1>2, <1>3, <1>4, StoreIsCurrent

\* The invalidated flag: work that a non-ACTIVE observation finds attached hands
\* no ACTIVE evidence to its waiters.
LEMMA SilencedWork ==
  ASSUME CurrentInv, [Next]_vars, NEW c \in CallIds, observed, calls[c].pc = "finish",
         calls'[c].pc = "done", calls'[c].ev # NoEvidence
  PROVE  calls[c].fate \in {"evicted", "abandoned"} \/ calls[c].ev.stray
<1>1. ~Running(c)' /\ Inv
  BY DEF Running, CurrentInv
<1>2. calls'[c].ev = calls[c].ev
  BY <1>1, StoppedCall
<1>3. SilencedOK(c) /\ Working(c)
  BY <1>2 DEF CurrentInv, Currency, CallCurrent, Working
<1>4. ~calls[c].invalidated
  <2>1. Complete(c)
    BY <1>1, StoppedCall
  <2>2. calls'[c] = Finished(c)
    BY <2>1 DEF Complete
  <2> QED
    BY <2>2 DEF Finished, DoneCall, BlankCall, Accepted
<1> QED
  BY <1>3, <1>4 DEF SilencedOK

\* Neither the store nor the waiters get back what is overtaken
\* (coalesceVerification): the two action properties about the past.
THEOREM OvertakenStaysGone == Spec => NothingComesBack
<1>1. CurrentInv /\ [Next]_vars =>
        [cache' # cache /\ cache' # NoEvidence => cache'.stray \/ cache'.acq >= high]_vars
  BY StoreNeverRegresses
<1>2. CurrentInv /\ [Next]_vars =>
        [\A c \in CallIds :
           observed /\ calls[c].pc = "finish" /\ calls'[c].pc = "done"
                    /\ calls'[c].ev # NoEvidence
             => calls[c].fate \in {"evicted", "abandoned"} \/ calls[c].ev.stray]_vars
  BY SilencedWork
<1>3. Spec => StoredNeverRegresses
  BY <1>1, CurrentInvariance, PTL DEF Spec, StoredNeverRegresses
<1>4. Spec => InFlightFences
  BY <1>2, CurrentInvariance, PTL DEF Spec, InFlightFences
<1> QED
  BY <1>3, <1>4 DEF NothingComesBack
=============================================================================
