--------------------------- MODULE StaleWorkProofs ---------------------------
(***************************************************************************)
(* What the calls of the verification coordinator and its cache entry know *)
(* about evictions, non-ACTIVE observations and newer acquisitions: the    *)
(* invariant Currency, and its preservation for the cache, the marks and   *)
(* every call.  StaleEvidenceProofs completes it for the callers.          *)
(***************************************************************************)
EXTENDS CacheFenceProofs

\* Evidence acquired at time t or later, or stored by an abandoned call.
Since(e, t) == e.stray \/ e.acq >= t

\* The two marks lie in the past, and after an observed non-ACTIVE status the
\* endpoint does not report ACTIVE again.
Marks ==
  /\ evictedAt <= clock
  /\ high <= clock
  /\ observed => ~active

\* A snapshot of the cache carries a cell.  While the cell is false the snapshot
\* has the acquisition of the entry and is overtaken by nothing.
Sound(e) ==
  e # NoEvidence =>
    /\ e.acq <= clock
    /\ e.state = "cached" => e.flag # NoCall
    /\ e.flag # NoCall /\ e.flag \notin dead =>
         e.acq = cache.acq /\ Since(e, evictedAt) /\ Since(e, high)

\* A running call is attached exactly while it is in the map, and what has been
\* detached by an eviction or an invalidation is superseded.
FateOK(c) ==
  Running(c) =>
    /\ calls[c].fate # "none"
    /\ calls[c].fate = "attached" <=> verifying[calls[c].kind] = c
    /\ calls[c].fate \in {"evicted", "invalidated"} => calls[c].superseded
    /\ calls[c].fate = "invalidated" => calls[c].invalidated

\* A status refresh works on evidence that was in the cache.
StatusOK(c) ==
  Running(c) /\ calls[c].kind = "status" /\ calls[c].ev # NoEvidence => calls[c].ev.flag # NoCall

\* What an attached call has acquired is recent enough to be stored, or its
\* acquisitionFloor refuses it.
Working(c) == calls[c].pc \in {"work", "checked", "finish"} /\ calls[c].ev # NoEvidence

RecentOK(c) ==
  Working(c) /\ calls[c].fate = "attached" =>
    /\ calls[c].kind # "status" => Since(calls[c].ev, evictedAt)
    /\ calls[c].ev.flag = NoCall => calls[c].floor >= high \/ calls[c].ev.acq >= high

\* Of the calls whose status half has reported ACTIVE, those that a non-ACTIVE
\* observation found attached are invalidated.
SilencedOK(c) ==
  Working(c) /\ calls[c].pc # "work" /\ observed =>
    calls[c].invalidated \/ calls[c].fate \in {"evicted", "abandoned"} \/ calls[c].ev.stray

CallCurrent(c) ==
  /\ Sound(calls[c].ev)
  /\ FateOK(c)
  /\ StatusOK(c)
  /\ RecentOK(c)
  /\ SilencedOK(c)

\* A waiting caller joined a call of its kind, whose evidence is not older than
\* the eviction that came before the caller.
WaitOK(p) ==
  callers[p].pc = "wait" =>
    /\ Running(callers[p].call) => calls[callers[p].call].kind = callers[p].want
    /\ callers[p].want # "status"
         /\ calls[callers[p].call].pc \in {"work", "checked", "finish", "done"}
         /\ calls[callers[p].call].ev # NoEvidence
         => Since(calls[callers[p].call].ev, callers[p].after)

HeldOK(p) ==
  /\ callers[p].after <= evictedAt
  /\ callers[p].pc = "hit" \/ (callers[p].pc = "join" /\ callers[p].want = "status")
       => callers[p].vd.flag # NoCall
  /\ callers[p].pc \in {"hit", "return"} /\ callers[p].want # "status"
       => Since(callers[p].vd, callers[p].after)

CallerCurrent(p) == Sound(callers[p].vd) /\ WaitOK(p) /\ HeldOK(p)

Currency ==
  /\ Marks
  /\ Sound(cache)
  /\ NonActiveFences
  /\ \A c \in CallIds : CallCurrent(c)
  /\ \A p \in Callers : CallerCurrent(p)

\* The inductive invariant.
CurrentInv == Inv /\ Currency

-----------------------------------------------------------------------------
(* What is stored, and what calls are handed. *)

\* A snapshot of a sound entry is sound, and not older than the last eviction.
LEMMA SnapshotSound ==
  ASSUME Inv, Currency, cache # NoEvidence
  PROVE  Sound(Snapshot) /\ Since(Snapshot, evictedAt) /\ (observed => Snapshot.stray)
BY SnapshotIsEntry DEF Currency, Sound, Since, NonActiveFences

\* The store of coalesceVerification: what is stored unmarked was acquired since
\* the last eviction and since everything stored before, and no non-ACTIVE
\* status has been observed.
LEMMA StoreIsCurrent ==
  ASSUME CurrentInv, NEW c \in CallIds, calls[c].pc = "finish", Publishes(c),
         ~PutRefused(calls[c].ev), ~StoredBy(c, calls[c].ev).stray
  PROVE  calls[c].ev.acq >= evictedAt /\ calls[c].ev.acq >= high /\ ~observed
<1> DEFINE e == calls[c].ev
<1>1. calls[c] \in Call /\ high \in Nat
  BY Types DEF CurrentInv
<1>2. e \in Evidence /\ e # NoEvidence /\ ~calls[c].invalidated /\ ~calls[c].superseded
      /\ e.acq >= calls[c].floor
  BY <1>1 DEF Publishes, Accepted, Call, MaybeEvidence
<1>3. ~e.stray /\ calls[c].fate # "abandoned"
  BY <1>2 DEF StoredBy, Evidence
<1>4. CallCurrent(c) /\ Running(c) /\ Working(c)
  BY <1>2 DEF CurrentInv, Currency, Running, Working
<1>5. calls[c].fate = "attached"
  BY <1>1, <1>2, <1>3, <1>4 DEF CallCurrent, FateOK, Call, Fate
<1>6. ~observed
  BY <1>2, <1>3, <1>4, <1>5 DEF CallCurrent, SilencedOK
<1>7. e.acq \in Nat /\ calls[c].floor \in Nat
  BY <1>1, <1>2 DEF Evidence, Call
<1>8. CASE e.flag = NoCall
  <2>1. Since(e, evictedAt) /\ (calls[c].floor >= high \/ e.acq >= high)
    BY <1>2, <1>4, <1>5, <1>8 DEF CallCurrent, RecentOK, StatusOK
  <2> QED
    BY <1>1, <1>2, <1>3, <1>6, <1>7, <2>1 DEF Since
<1>9. CASE e.flag # NoCall
  <2>1. e.flag \notin dead
    BY DEF PutRefused
  <2> QED
    BY <1>2, <1>3, <1>4, <1>6, <1>9, <2>1 DEF CallCurrent, Sound, Since
<1> QED
  BY <1>8, <1>9

\* Evidence that a step leaves in a call was sound before the step.
LEMMA CallSources ==
  ASSUME CurrentInv, [Next]_vars, NEW d \in CallIds
  PROVE  Sound(calls'[d].ev)
<1>1. Inv /\ Currency /\ Sound(calls[d].ev) /\ Sound(NoEvidence) /\ clock \in Nat
  BY Types DEF CurrentInv, Currency, CallCurrent, Sound
<1>2. CASE ~Running(d)'
  BY <1>1, <1>2, StoppedCall
<1>3. CASE Running(d)' /\ Begins(d)
  <2>1. PICK p \in Callers : calls'[d] = NewCall(p)
    BY <1>3 DEF Begins
  <2>2. calls'[d].ev = callers[p].vd
    BY <2>1 DEF NewCall, BlankCall
  <2> QED
    BY <1>1, <2>2 DEF Currency, CallerCurrent
<1>4. CASE Running(d)' /\ Goes(d) /\ ~WorkStep(d)
  BY <1>1, <1>4 DEF Goes, WorkMoves
<1>5. CASE WorkStep(d) /\ calls'[d].ev # NoEvidence
  <2>1. CASE ServeFromCache(d) /\ calls'[d].ev = Snapshot /\ cache # NoEvidence
    BY <1>1, <2>1, SnapshotSound
  <2>2. CASE calls'[d].ev.acq = clock /\ calls'[d].ev.flag = NoCall /\ calls'[d].ev.state = "fresh"
    BY <1>1, <2>2 DEF Sound
  <2>3. CASE calls'[d].ev = IF Hit THEN Snapshot ELSE calls[d].ev
    BY <1>1, <2>3, SnapshotSound DEF Hit
  <2>4. CASE calls[d].pc = "checked" /\ calls'[d].ev = Assembled(d)
    BY <1>1, <2>4, AssembledIsWork DEF Sound, Since
  <2> QED
    BY <1>1, <1>5, <2>1, <2>2, <2>3, <2>4, WorkStepEvidence
<1> QED
  BY <1>1, <1>2, <1>3, <1>4, <1>5, CallSteps

-----------------------------------------------------------------------------
(* The steps keep what is current. *)

\* Evidence that was sound before a step is sound after it: what drops or
\* replaces the entry sets the cell, and so does EvictDomain.
LEMMA StepSound ==
  ASSUME CurrentInv, Inv', [Next]_vars, NEW e \in Evidence, Fenced(e), Sound(e)
  PROVE  Sound(e)'
<1>1. /\ Inv /\ clock \in Nat /\ clock' \in Nat /\ clock' >= clock /\ e.acq \in Nat
      /\ e.flag \in CallIds \cup {NoCall} /\ e # NoEvidence
  BY Types, MarkSteps, NoEvidenceAssumption DEF CurrentInv, Inv, Structure, TypeOK, Evidence
<1>2. e.acq <= clock' /\ (e.state = "cached" => e.flag # NoCall)
  BY <1>1 DEF Sound
<1>3. CASE DropEntry
  <2>1. e.flag # NoCall => e.flag \in dead'
    BY <1>1, <1>3 DEF Fenced, DropEntry, FlagsOf
  <2> QED
    BY <1>2, <2>1 DEF Sound
<1>4. CASE UNCHANGED <<cache, dead, high, evictedAt, observed>>
  BY <1>2, <1>4 DEF Sound, Since
<1>5. ASSUME UNCHANGED <<clock, evictedAt, observed, active>>, NEW c \in CallIds, Complete(c),
             Publishes(c), Put(c, calls[c].ev)
      PROVE  Sound(e)'
  <2> DEFINE n == calls[c].ev
  <2>1. n \in Evidence /\ Fenced(n) /\ Sound(n) /\ calls[c] \in Call /\ calls[c].pc = "finish"
    BY <1>1, <1>5, Types DEF Publishes, Accepted, Call, MaybeEvidence, Inv, Fences, CurrentInv,
            Currency, CallCurrent, Complete
  <2>2. CASE PutRefused(n)
    BY <1>2, <1>5, <2>2 DEF Put, Sound, Since
  <2>3. CASE ~PutRefused(n) /\ ~Storable(n)
    BY <1>3, <1>5, <2>3 DEF Put
  <2>4. CASE ~PutRefused(n) /\ Storable(n)
    <3> SUFFICES ASSUME e.flag # NoCall, e.flag \notin dead'
                 PROVE  e.acq = cache'.acq /\ Since(e, evictedAt') /\ Since(e, high')
      BY <1>2 DEF Sound, Since
    <3>1. /\ cache' = StoredBy(c, n)
          /\ dead' = dead \cup (FlagsOf(cache) \ {StoredBy(c, n).flag})
          /\ high' = IF n.acq > high THEN n.acq ELSE high
      BY <1>5, <2>4 DEF Put
    <3>2. e.flag \notin dead /\ cache # NoEvidence /\ cache.flag = e.flag /\ calls[e.flag].pc = "done"
      BY <1>1, <3>1 DEF Fenced
    <3>3. StoredBy(c, n).flag = e.flag
      BY <3>1, <3>2 DEF FlagsOf
    <3>4. n.flag = e.flag /\ n.flag \notin dead /\ StoredBy(c, n).acq = n.acq
      BY <2>1, <3>2, <3>3 DEF StoredBy, Evidence
    <3>5. e.acq = cache.acq /\ n.acq = cache.acq /\ Since(e, evictedAt) /\ Since(e, high)
      BY <1>1, <2>1, <3>2, <3>4, NoEvidenceAssumption DEF Sound
    <3>6. cache'.acq = e.acq /\ high' \in {high, e.acq}
      BY <3>1, <3>4, <3>5
    <3>7. Since(e, high')
      BY <1>1, <3>5, <3>6 DEF Since
    <3> QED
      BY <1>5, <3>5, <3>6, <3>7
  <2> QED
    BY <2>2, <2>3, <2>4
<1> QED
  BY <1>3, <1>4, <1>5, CacheSteps

\* The entry itself stays sound, and after a non-ACTIVE status only an abandoned
\* call leaves one.
LEMMA EntrySound ==
  ASSUME CurrentInv, Inv', [Next]_vars
  PROVE  Sound(cache)' /\ NonActiveFences'
<1>1. /\ Inv /\ Currency /\ clock \in Nat /\ clock' \in Nat /\ clock' >= clock
      /\ cache \in MaybeEvidence
  BY Types, MarkSteps DEF CurrentInv, Inv, Structure, TypeOK
<1>2. CASE DropEntry
  BY <1>2 DEF DropEntry, Sound, NonActiveFences
<1>3. CASE UNCHANGED <<cache, dead, high, evictedAt, observed>>
  <2>1. NonActiveFences'
    BY <1>1, <1>3 DEF Currency, NonActiveFences
  <2>2. CASE cache = NoEvidence
    BY <1>3, <2>1, <2>2 DEF Sound
  <2>3. CASE cache # NoEvidence
    BY <1>1, <1>3, <2>1, <2>3 DEF Currency, Sound, Since, MaybeEvidence, Evidence
  <2> QED
    BY <2>2, <2>3
<1>4. ASSUME UNCHANGED <<clock, evictedAt, observed, active>>, NEW c \in CallIds, Complete(c),
             Publishes(c), Put(c, calls[c].ev)
      PROVE  Sound(cache)' /\ NonActiveFences'
  <2> DEFINE n == calls[c].ev
  <2> DEFINE s == StoredBy(c, n)
  <2>1. n \in Evidence /\ Sound(n) /\ n # NoEvidence /\ calls[c] \in Call /\ calls[c].pc = "finish"
    BY <1>1, <1>4, Types, NoEvidenceAssumption DEF Publishes, Accepted, Call, MaybeEvidence,
            Currency, CallCurrent, Complete
  <2>2. CASE PutRefused(n)
    BY <1>3, <1>4, <2>2 DEF Put
  <2>3. CASE ~PutRefused(n) /\ ~Storable(n)
    BY <1>2, <1>4, <2>3 DEF Put
  <2>4. CASE ~PutRefused(n) /\ Storable(n)
    <3>1. cache' = s /\ high' = IF n.acq > high THEN n.acq ELSE high
      BY <1>4, <2>4 DEF Put
    <3>2. s \in Evidence /\ s.flag \in CallIds /\ s.flag # NoCall /\ s.acq = n.acq
      <4>1. s.acq = n.acq
        BY <2>1 DEF StoredBy, Evidence
      <4>2. NoCall \notin CallIds
        BY <1>1, Types
      <4> QED
        BY <2>1, <4>1, <4>2, StoredTyped
    <3>3. ~s.stray => n.acq >= evictedAt /\ n.acq >= high /\ ~observed
      BY <1>4, <2>1, <2>4, StoreIsCurrent DEF CurrentInv
    <3>4. n.acq \in Nat /\ n.acq <= clock
      BY <2>1 DEF Sound, Evidence
    <3>5. NonActiveFences'
      BY <1>4, <3>1, <3>3 DEF NonActiveFences
    <3>6. Since(s, evictedAt') /\ Since(s, high')
      BY <1>4, <3>1, <3>2, <3>3, <3>4 DEF Since
    <3>7. s.acq <= clock'
      BY <1>4, <3>2, <3>4
    <3> HIDE DEF s, n
    <3> QED
      BY <3>1, <3>2, <3>5, <3>6, <3>7 DEF Sound, Since
  <2> QED
    BY <2>2, <2>3, <2>4
<1> QED
  BY <1>2, <1>3, <1>4, CacheSteps

\* The marks stay in the past.
LEMMA MarksStay ==
  ASSUME CurrentInv, [Next]_vars
  PROVE  Marks'
<1>1. /\ Inv /\ Currency /\ clock \in Nat /\ clock' >= clock /\ evictedAt \in Nat /\ high \in Nat
      /\ clock' \in Nat
  BY Types, MarkSteps, NextInv DEF CurrentInv, Inv, Structure, TypeOK
<1>2. evictedAt' <= clock' /\ (observed' => ~active')
  BY <1>1, MarkSteps DEF Currency, Marks
<1>3. high' <= clock'
  <2>1. CASE high' = high
    BY <1>1, <2>1 DEF Currency, Marks
  <2>2. ASSUME NEW c \in CallIds, UNCHANGED clock, Publishes(c), Put(c, calls[c].ev)
        PROVE  high' <= clock'
    <3>1. Sound(calls[c].ev) /\ calls[c].ev # NoEvidence
      BY <1>1, <2>2 DEF Currency, CallCurrent, Publishes, Accepted
    <3> QED
      BY <1>1, <2>2, <3>1 DEF Put, Sound, Currency, Marks
  <2> QED
    BY <2>1, <2>2, CacheSteps
<1> QED
  BY <1>2, <1>3 DEF Marks

\* What has left the map is fenced or abandoned.
LEMMA FateStays ==
  ASSUME CurrentInv, [Next]_vars, NEW d \in CallIds
  PROVE  FateOK(d)'
<1> SUFFICES ASSUME Running(d)'
             PROVE  /\ calls'[d].fate # "none"
                    /\ calls'[d].fate = "attached" <=> verifying'[calls'[d].kind] = d
                    /\ calls'[d].fate \in {"evicted", "invalidated"} => calls'[d].superseded
                    /\ calls'[d].fate = "invalidated" => calls'[d].invalidated
  BY DEF FateOK
<1>1. Inv /\ FateOK(d)
  BY DEF CurrentInv, Currency, CallCurrent
<1>2. CASE Begins(d)
  <2>1. PICK p \in Callers : /\ verifying' = [verifying EXCEPT ![callers[p].want] = d]
                             /\ calls'[d] = NewCall(p)
    BY <1>2 DEF Begins
  <2>2. verifying'[callers[p].want] = d
    BY <1>1, <2>1, Types DEF Caller
  <2> QED
    BY <1>1, <2>1, <2>2, BeginsBlank
<1>3. CASE Goes(d) /\ SamePlace(d)
  BY <1>1, <1>3 DEF Goes, SamePlace, KeptCall, FateOK
<1>4. CASE Goes(d) /\ Detached(d)
  BY <1>4 DEF Goes, Detached, KeptCall
<1> QED
  BY <1>1, <1>2, <1>3, <1>4, CallSteps DEF Goes

\* A status refresh goes on with evidence from the cache.
LEMMA StatusStays ==
  ASSUME CurrentInv, [Next]_vars, NEW d \in CallIds
  PROVE  StatusOK(d)'
<1> SUFFICES ASSUME Running(d)', calls'[d].kind = "status", calls'[d].ev # NoEvidence
             PROVE  calls'[d].ev.flag # NoCall
  BY DEF StatusOK
<1>1. Inv /\ StatusOK(d)
  BY DEF CurrentInv, Currency, CallCurrent
<1>2. CASE Begins(d)
  <2>1. PICK p \in Callers : Join(p) /\ calls'[d] = NewCall(p)
    BY <1>2 DEF Begins
  <2>2. callers[p].pc = "join" /\ callers[p].want = "status" /\ calls'[d].ev = callers[p].vd
    BY <1>1, <2>1, BeginsBlank DEF Join
  <2> QED
    BY <2>2 DEF CurrentInv, Currency, CallerCurrent, HeldOK
<1>3. CASE Goes(d) /\ ~WorkStep(d)
  BY <1>1, <1>3 DEF Goes, WorkMoves, KeptCall, StatusOK
<1>4. CASE Goes(d) /\ WorkStep(d)
  <2>1. calls[d].kind = "status" /\ Running(d)
    BY <1>4 DEF Goes, KeptCall
  <2>2. CASE calls'[d].ev = Snapshot /\ cache # NoEvidence
    BY <1>1, <2>2, SnapshotIsEntry
  <2>3. CASE calls'[d].ev = IF Hit THEN Snapshot ELSE calls[d].ev
    BY <1>1, <2>1, <2>3, SnapshotIsEntry DEF Hit, StatusOK
  <2>4. CASE calls'[d].ev = calls[d].ev
    BY <1>1, <2>1, <2>4 DEF StatusOK
  <2>5. CASE calls[d].pc = "checked" /\ calls'[d].ev = Assembled(d)
    BY <1>1, <2>1, <2>5, AssembledIsWork DEF StatusOK
  <2> QED
    BY <1>1, <1>4, <2>1, <2>2, <2>3, <2>4, <2>5, WorkStepEvidence
<1> QED
  BY <1>1, <1>2, <1>3, <1>4, CallSteps

\* Before the marks move, the evidence an attached call goes on with is recent.
LEMMA WorkIsRecent ==
  ASSUME CurrentInv, [Next]_vars, NEW d \in CallIds, Goes(d), calls[d].fate = "attached", Working(d)'
  PROVE  /\ calls'[d].kind # "status" => Since(calls'[d].ev, evictedAt)
         /\ calls'[d].ev.flag = NoCall => calls[d].floor >= high \/ calls'[d].ev.acq >= high
<1>1. /\ Inv /\ Currency /\ RecentOK(d) /\ StatusOK(d) /\ Marks /\ Running(d)
      /\ calls'[d].kind = calls[d].kind /\ calls'[d].ev # NoEvidence
  BY DEF CurrentInv, Currency, CallCurrent, Goes, KeptCall, Working
<1>2. ASSUME calls[d].pc \in {"work", "checked", "finish"}, calls[d].ev # NoEvidence,
             calls'[d].ev.acq = calls[d].ev.acq, calls'[d].ev.flag = calls[d].ev.flag,
             calls'[d].ev.stray = calls[d].ev.stray
      PROVE  /\ calls'[d].kind # "status" => Since(calls'[d].ev, evictedAt)
             /\ calls'[d].ev.flag = NoCall => calls[d].floor >= high \/ calls'[d].ev.acq >= high
  BY <1>1, <1>2 DEF RecentOK, Working, Since
<1>3. CASE ~WorkStep(d)
  BY <1>1, <1>2, <1>3 DEF Goes, WorkMoves, Working
<1>4. CASE WorkStep(d)
  <2>1. CASE calls'[d].ev = Snapshot /\ cache # NoEvidence
    BY <1>1, <2>1, SnapshotIsEntry, SnapshotSound
  <2>2. CASE calls'[d].ev.acq = clock
    BY <1>1, <2>2, Types DEF Marks, Since
  <2>3. CASE calls[d].kind = "status" /\ calls'[d].ev = IF Hit THEN Snapshot ELSE calls[d].ev
    BY <1>1, <2>3, SnapshotIsEntry DEF Hit, StatusOK
  <2>4. CASE calls[d].pc = "work" /\ calls'[d].ev = calls[d].ev
    BY <1>1, <1>2, <2>4
  <2>5. CASE calls[d].pc = "checked" /\ calls'[d].ev = Assembled(d)
    BY <1>1, <1>2, <2>5, AssembledIsWork
  <2> QED
    BY <1>1, <1>4, <2>1, <2>2, <2>3, <2>4, <2>5, WorkStepEvidence
<1> QED
  BY <1>3, <1>4

\* A publication raises the acquisitionFloor of every attached call at least as
\* far as it raises the high mark.
LEMMA FloorFollows ==
  ASSUME CurrentInv, [Next]_vars, NEW d \in CallIds, Running(d)', Goes(d),
         verifying[calls[d].kind] = d
  PROVE  high' = high \/ calls'[d].floor >= high'
<1>1. Inv /\ calls[d] \in Call /\ calls[d].floor \in Nat /\ high \in Nat /\ calls \in [CallIds -> Call]
  BY Types DEF CurrentInv, Call
<1>2. ASSUME NEW c \in CallIds, Complete(c), Publishes(c), Put(c, calls[c].ev)
      PROVE  high' = high \/ calls'[d].floor >= high'
  <2>1. calls[c].ev.acq \in Nat
    BY <1>1, <1>2 DEF Publishes, Accepted, Call, MaybeEvidence, Evidence
  <2>2. calls'[d] = IF d = c THEN Finished(c) ELSE AfterPublish(c, d)
    BY <1>2 DEF Complete
  <2>3. d # c
    BY <2>2 DEF Finished, DoneCall, BlankCall, Running
  <2>4. calls'[d] = RaiseFloor(c, d)
    BY <1>2, <2>2, <2>3 DEF AfterPublish
  <2>5. calls'[d].floor = IF calls[c].ev.acq > calls[d].floor THEN calls[c].ev.acq
                          ELSE calls[d].floor
    BY <1>1, <2>4 DEF RaiseFloor, Call
  <2>6. high' \in {high, calls[c].ev.acq}
    BY <1>2 DEF Put
  <2> QED
    BY <1>1, <2>1, <2>5, <2>6
<1> QED
  BY <1>2, CacheSteps

\* Attached work stays recent.
LEMMA RecentStays ==
  ASSUME CurrentInv, Inv', [Next]_vars, NEW d \in CallIds
  PROVE  RecentOK(d)'
<1> SUFFICES ASSUME Working(d)', calls'[d].fate = "attached"
             PROVE  /\ calls'[d].kind # "status" => Since(calls'[d].ev, evictedAt')
                    /\ calls'[d].ev.flag = NoCall =>
                         calls'[d].floor >= high' \/ calls'[d].ev.acq >= high'
  BY DEF RecentOK
<1>1. Inv /\ FateOK(d) /\ Running(d)' /\ calls[d].floor \in Nat /\ high \in Nat
      /\ calls'[d].floor \in Nat
  BY Types DEF CurrentInv, Currency, CallCurrent, Working, Running, Call, Inv, Structure, TypeOK
<1>2. ~Begins(d)
  <2> SUFFICES ASSUME NEW p \in Callers, calls'[d] = NewCall(p) PROVE FALSE
    BY DEF Begins
  <2> QED
    BY <1>1, BeginsBlank DEF Working
<1>3. Goes(d) /\ SamePlace(d)
  BY <1>1, <1>2, CallSteps DEF Goes, Detached
<1>4. /\ calls[d].fate = "attached" /\ verifying[calls[d].kind] = d /\ verifying'[calls[d].kind] = d
      /\ calls[d].kind \in Kinds /\ d # NoCall
  BY <1>1, <1>3, Types DEF SamePlace, FateOK, Goes, Call
<1>5. evictedAt' = evictedAt
  BY <1>1, <1>4, MarkSteps DEF EvictDomain
<1>6. /\ calls'[d].kind # "status" => Since(calls'[d].ev, evictedAt)
      /\ calls'[d].ev.flag = NoCall => calls[d].floor >= high \/ calls'[d].ev.acq >= high
  BY <1>3, <1>4, WorkIsRecent
<1>7. high' = high \/ calls'[d].floor >= high'
  BY <1>1, <1>3, <1>4, FloorFollows
<1>8. calls'[d].floor >= calls[d].floor
  BY <1>3 DEF Goes, KeptCall
<1> QED
  BY <1>1, <1>5, <1>6, <1>7, <1>8

\* What fences a call keeps fencing it.
LEMMA FencedStays ==
  ASSUME NEW d \in CallIds, Goes(d),
         calls[d].invalidated \/ calls[d].fate \in {"evicted", "abandoned"}
  PROVE  calls'[d].invalidated \/ calls'[d].fate \in {"evicted", "abandoned"}
BY DEF Goes, KeptCall, SamePlace, Detached

\* Work that had read ACTIVE before the observation stays silenced.
LEMMA SilencedStays ==
  ASSUME CurrentInv, [Next]_vars, NEW d \in CallIds
  PROVE  SilencedOK(d)'
<1> DEFINE Goal == \/ calls'[d].invalidated \/ calls'[d].fate \in {"evicted", "abandoned"}
                   \/ calls'[d].ev.stray
<1> SUFFICES ASSUME Working(d)', calls'[d].pc # "work", observed' PROVE Goal
  BY DEF SilencedOK
<1>1. Inv /\ Currency /\ FateOK(d) /\ SilencedOK(d) /\ Running(d)' /\ calls'[d].ev # NoEvidence
  BY DEF CurrentInv, Currency, CallCurrent, Working, Running
<1>2. ~Begins(d)
  <2> SUFFICES ASSUME NEW p \in Callers, calls'[d] = NewCall(p) PROVE FALSE
    BY DEF Begins
  <2> QED
    BY <1>1, BeginsBlank DEF Working
<1>3. Goes(d)
  BY <1>1, <1>2, CallSteps
<1>4. CASE observed
  <2>1. ASSUME calls[d].pc \in {"checked", "finish"}, calls[d].ev # NoEvidence,
               calls'[d].ev.stray = calls[d].ev.stray
        PROVE  Goal
    <3>1. CASE calls[d].ev.stray
      BY <2>1, <3>1
    <3>2. CASE ~calls[d].ev.stray
      <4>1. calls[d].invalidated \/ calls[d].fate \in {"evicted", "abandoned"}
        BY <1>1, <1>4, <2>1, <3>2 DEF SilencedOK, Working
      <4> QED
        BY <1>3, <4>1, FencedStays
    <3> QED
      BY <3>1, <3>2
  <2>2. CASE ~WorkStep(d)
    BY <1>1, <1>3, <2>1, <2>2 DEF Goes, WorkMoves, Working
  <2>3. CASE WorkStep(d)
    <3>1. CASE calls'[d].ev = Snapshot /\ cache # NoEvidence
      BY <1>1, <1>4, <3>1, SnapshotSound
    <3>2. CASE active
      BY <1>1, <1>4, <3>2 DEF Currency, Marks
    <3>3. CASE calls[d].pc = "checked" /\ calls'[d].ev = Assembled(d)
      BY <1>1, <2>1, <3>3, AssembledIsWork
    <3> QED
      BY <1>1, <2>3, <3>1, <3>2, <3>3, WorkStepEvidence
  <2> QED
    BY <2>2, <2>3
<1>5. CASE ~observed
  <2>1. PICK c \in CallIds : StatusNotActive(c)
    BY <1>1, <1>5, MarkSteps
  <2>2. verifying' = [k \in Kinds |-> NoCall] /\ calls[d].kind \in Kinds /\ NoCall \notin CallIds
    BY <1>1, <2>1, Types DEF StatusNotActive, Call
  <2>3. verifying'[calls[d].kind] # d
    BY <2>2
  <2>4. CASE SamePlace(d)
    <3>1. calls[d].fate \notin {"none", "attached"} /\ calls[d].fate \in Fate
      BY <1>1, <1>3, <2>3, <2>4, Types DEF SamePlace, FateOK, Goes, Call
    <3>2. calls[d].invalidated \/ calls[d].fate \in {"evicted", "abandoned"}
      BY <1>1, <1>3, <3>1 DEF FateOK, Goes, Fate
    <3> QED
      BY <1>3, <3>2, FencedStays
  <2>5. CASE Detached(d)
    BY <2>5 DEF Detached
  <2> QED
    BY <1>3, <2>4, <2>5 DEF Goes
<1> QED
  BY <1>4, <1>5

\* The evidence of calls and callers stays sound.
LEMMA EvidenceSound ==
  ASSUME CurrentInv, Inv', [Next]_vars
  PROVE  /\ \A c \in CallIds : Sound(calls[c].ev)'
         /\ \A p \in Callers : Sound(callers[p].vd)'
<1>1. Inv /\ Currency
  BY DEF CurrentInv
<1>2. ASSUME NEW c \in CallIds PROVE Sound(calls[c].ev)'
  <2>1. Sound(calls'[c].ev) /\ Fenced(calls'[c].ev)
    BY <1>1, CallSources, CallEvidence
  <2>2. calls'[c].ev \in Evidence \cup {NoEvidence}
    BY DEF Inv, Structure, TypeOK, Call, MaybeEvidence
  <2>3. CASE calls'[c].ev = NoEvidence
    BY <2>3 DEF Sound
  <2>4. CASE calls'[c].ev \in Evidence
    BY <2>1, <2>4, StepSound DEF Sound, Since
  <2> QED
    BY <2>2, <2>3, <2>4
<1>3. ASSUME NEW p \in Callers PROVE Sound(callers[p].vd)'
  <2>1. Sound(NoEvidence) /\ Sound(callers[p].vd) /\ \A c \in CallIds : Sound(calls[c].ev)
    BY <1>1 DEF Currency, CallCurrent, CallerCurrent, Sound
  <2>2. Sound(callers'[p].vd) /\ Fenced(callers'[p].vd)
    BY <1>1, <2>1, CallerSources, SnapshotSound, CallerEvidence
  <2>3. callers'[p].vd \in Evidence \cup {NoEvidence}
    BY DEF Inv, Structure, TypeOK, Caller, MaybeEvidence
  <2>4. CASE callers'[p].vd = NoEvidence
    BY <2>4 DEF Sound
  <2>5. CASE callers'[p].vd \in Evidence
    BY <2>2, <2>5, StepSound DEF Sound, Since
  <2> QED
    BY <2>3, <2>4, <2>5
<1> QED
  BY <1>2, <1>3
==============================================================================
