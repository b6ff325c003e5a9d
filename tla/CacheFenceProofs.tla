-------------------------- MODULE CacheFenceProofs --------------------------
(***************************************************************************)
(* What the steps of the verification coordinator do to the cache entry,   *)
(* to the calls and to the evidence in use, and from it the cache fence.   *)
(***************************************************************************)
EXTENDS VerificationCoordinatorProofs

-----------------------------------------------------------------------------
(* The state and its steps. *)

\* The types the proofs keep needing.
LEMMA Types ==
  ASSUME Inv
  PROVE  /\ clock \in Nat /\ evictedAt \in Nat /\ high \in Nat /\ active \in BOOLEAN
         /\ observed \in BOOLEAN
         /\ cache \in MaybeEvidence
         /\ calls \in [CallIds -> Call]
         /\ callers \in [Callers -> Caller]
         /\ verifying \in [Kinds -> CallIds \cup {NoCall}]
         /\ NoCall \notin CallIds
BY DEF Inv, Structure, TypeOK, NoCall, CallIds

\* A snapshot of a live entry is the entry but for its state.
LEMMA SnapshotIsEntry ==
  ASSUME Inv, cache # NoEvidence
  PROVE  /\ Snapshot \in Evidence /\ Snapshot # NoEvidence
         /\ Snapshot.acq = cache.acq /\ Snapshot.stray = cache.stray
         /\ Snapshot.flag = cache.flag /\ cache.flag # NoCall /\ cache.flag \notin dead
<1>1. cache \in Evidence
  BY Types DEF MaybeEvidence
<1>2. cache.flag # NoCall /\ cache.flag \notin dead
  BY DEF Inv, Fences, EntryFenced
<1> QED
  BY <1>1, <1>2, NoEvidenceAssumption DEF Snapshot, Evidence

\* What the steps do to the cache.
LEMMA CacheSteps ==
  ASSUME [Next]_vars
  PROVE  \/ DropEntry /\ high' = high
         \/ UNCHANGED <<cache, dead, high, evictedAt, observed>>
         \/ /\ UNCHANGED <<clock, evictedAt, observed, active>>
            /\ \E c \in CallIds : Complete(c) /\ Publishes(c) /\ Put(c, calls[c].ev)
<1>1. ASSUME NEW p \in Callers, CallerStep(p)
      PROVE  (DropEntry /\ high' = high) \/ UNCHANGED <<cache, dead, high, evictedAt, observed>>
  BY <1>1 DEF CallerStep, StartVerify, StartRefresh, DecideHit, Join, Wake, LeaveRunning,
              LeaveFinished, Return, ReturnError, Get, history
<1>2. ASSUME NEW c \in CallIds, WorkerStep(c), ~Complete(c)
      PROVE  (DropEntry /\ high' = high) \/ UNCHANGED <<cache, dead, high, evictedAt, observed>>
  BY <1>2 DEF WorkerStep, ServeFromCache, BeginAcquisition, BeginStatusRefresh, WorkFails,
              StatusActive, StatusNotActive, ReturnWork, Get, history
<1>3. ASSUME NEW c \in CallIds, Complete(c)
      PROVE  \/ UNCHANGED <<cache, dead, high, evictedAt, observed>>
             \/ /\ UNCHANGED <<clock, evictedAt, observed, active>>
                /\ Publishes(c) /\ Put(c, calls[c].ev)
  BY <1>3 DEF Complete, env
<1>4. EvictDomain \/ Tick \/ Revoke \/ CapacityEviction \/ UNCHANGED vars
        => (DropEntry /\ high' = high) \/ UNCHANGED <<cache, dead, high, evictedAt, observed>>
  BY DEF EvictDomain, Tick, Revoke, CapacityEviction, vars, history
<1> QED
  BY <1>1, <1>2, <1>3, <1>4 DEF Next

\* What the steps do to the clock and to the history of evictions and of
\* non-ACTIVE observations.
LEMMA MarkSteps ==
  ASSUME Inv, [Next]_vars
  PROVE  /\ clock' >= clock
         /\ evictedAt' = evictedAt \/ (EvictDomain /\ evictedAt' = clock /\ clock' = clock)
         /\ \/ observed' = observed
            \/ ~active /\ active' = active /\ \E c \in CallIds : StatusNotActive(c)
         /\ active' => active
<1>0. clock \in Nat
  BY Types
<1>1. ASSUME NEW p \in Callers, CallerStep(p)
      PROVE  UNCHANGED <<clock, evictedAt, observed, active>>
  BY <1>1 DEF CallerStep, StartVerify, StartRefresh, DecideHit, Join, Wake, LeaveRunning,
              LeaveFinished, Return, ReturnError, env, history
<1>2. ASSUME NEW c \in CallIds, WorkerStep(c), ~StatusNotActive(c)
      PROVE  UNCHANGED <<clock, evictedAt, observed, active>>
  BY <1>2 DEF WorkerStep, ServeFromCache, BeginAcquisition, BeginStatusRefresh, WorkFails,
              StatusActive, ReturnWork, Complete, env, history
<1>3. ASSUME NEW c \in CallIds, StatusNotActive(c)
      PROVE  UNCHANGED <<clock, evictedAt, active>> /\ ~active
  BY <1>3 DEF StatusNotActive, env
<1>4. EvictDomain => UNCHANGED <<clock, observed, active>> /\ evictedAt' = clock
  BY DEF EvictDomain, env
<1>5. Tick \/ Revoke \/ CapacityEviction \/ UNCHANGED vars
        => UNCHANGED <<evictedAt, observed>> /\ clock' >= clock /\ (active' => active)
  BY <1>0 DEF Tick, Revoke, CapacityEviction, vars, env, history
<1> QED
  BY <1>0, <1>1, <1>2, <1>3, <1>4, <1>5 DEF Next

\* A caller keeps its evidence, drops it, takes a snapshot of the entry or reads
\* the result of a call.
LEMMA CallerSources ==
  ASSUME Inv, [Next]_vars, NEW q \in Callers
  PROVE  \/ callers'[q].vd \in {NoEvidence, callers[q].vd}
         \/ cache # NoEvidence /\ callers'[q].vd = Snapshot
         \/ \E c \in CallIds : callers'[q].vd = calls[c].ev
<1>1. callers \in [Callers -> Caller]
  BY Types
<1>2. IdleCaller.vd = NoEvidence
  BY DEF IdleCaller
<1>3. ASSUME NEW p \in Callers, CallerStep(p), p # q PROVE callers'[q] = callers[q]
  BY <1>1, <1>3 DEF CallerStep, StartVerify, StartRefresh, DecideHit, Join, Wake,
           LeaveRunning, LeaveFinished, Return, ReturnError
<1>4. CASE StartVerify(q)
  <2>1. callers'[q].vd = IF Hit THEN Snapshot ELSE NoEvidence
    BY <1>1, <1>4 DEF StartVerify, IdleCaller
  <2> QED
    BY <2>1 DEF Hit
<1>5. CASE Wake(q)
  <2>1. callers'[q] = Received(q) /\ callers[q].call \in CallIds /\ callers[q] \in Caller
    BY <1>1, <1>5 DEF Wake, Inv, Structure, CallerOK
  <2>2. Received(q).vd = calls[callers[q].call].ev
    BY <1>2, <2>1 DEF Received, Caller
  <2> QED
    BY <2>1, <2>2
<1>6. CASE LeaveRunning(q) \/ LeaveFinished(q) \/ Return(q) \/ ReturnError(q)
  <2>1. callers' = [callers EXCEPT ![q] = IdleCaller]
    BY <1>6 DEF LeaveRunning, LeaveFinished, Return, ReturnError
  <2> QED
    BY <1>1, <1>2, <2>1
<1>7. CASE StartRefresh(q)
  <2>1. callers'[q].vd = NoEvidence
    BY <1>1, <1>7 DEF StartRefresh, IdleCaller
  <2> QED
    BY <2>1
<1>8. CASE DecideHit(q)
  <2>1. callers'[q].vd = callers[q].vd
    BY <1>1, <1>8 DEF DecideHit, Caller
  <2> QED
    BY <2>1
<1>9. CASE Join(q)
  <2>1. \E c : callers' = [callers EXCEPT ![q] = Waiting(q, c)]
    BY <1>9 DEF Join
  <2>2. \A c : Waiting(q, c).vd = callers[q].vd
    BY <1>1 DEF Waiting, Caller
  <2> QED
    BY <1>1, <2>1, <2>2
<1>10. ASSUME NEW c \in CallIds, WorkerStep(c) PROVE callers'[q] = callers[q]
  BY <1>10 DEF WorkerStep, ServeFromCache, BeginAcquisition, BeginStatusRefresh, WorkFails,
              StatusActive, StatusNotActive, ReturnWork, Complete
<1>11. EvictDomain \/ Tick \/ Revoke \/ CapacityEviction \/ UNCHANGED vars
        => callers'[q] = callers[q]
  BY DEF EvictDomain, Tick, Revoke, CapacityEviction, vars
<1>12. ASSUME NEW p \in Callers, CallerStep(p), p = q
       PROVE  \/ StartVerify(q) \/ Wake(q) \/ StartRefresh(q) \/ DecideHit(q) \/ Join(q)
              \/ LeaveRunning(q) \/ LeaveFinished(q) \/ Return(q) \/ ReturnError(q)
  BY <1>12 DEF CallerStep
<1> QED
  BY <1>3, <1>4, <1>5, <1>6, <1>7, <1>8, <1>9, <1>10, <1>11, <1>12 DEF Next

\* The steps that move the work of a call on.
WorkStep(c) ==
  \/ ServeFromCache(c) \/ BeginAcquisition(c) \/ BeginStatusRefresh(c)
  \/ WorkFails(c) \/ StatusActive(c) \/ ReturnWork(c)

\* A running call keeps its kind; its floor and its fences only rise.
KeptCall(d) ==
  /\ calls'[d].kind = calls[d].kind
  /\ calls'[d].floor >= calls[d].floor
  /\ calls[d].superseded => calls'[d].superseded
  /\ calls[d].invalidated => calls'[d].invalidated

\* It keeps its place in the map or out of it.
SamePlace(d) ==
  /\ calls'[d].fate = calls[d].fate
  /\ verifying'[calls[d].kind] = d <=> verifying[calls[d].kind] = d

\* It leaves the map, and is fenced unless it was abandoned.
Detached(d) ==
  /\ verifying[calls[d].kind] = d /\ verifying'[calls[d].kind] # d
  /\ calls'[d].fate \in {"abandoned", "evicted", "invalidated"}
  /\ calls'[d].fate # "abandoned" => calls'[d].superseded
  /\ calls'[d].fate = "invalidated" => calls'[d].invalidated

\* It keeps its evidence, goes on with its work or fails.
WorkMoves(d) ==
  \/ calls'[d].pc = calls[d].pc /\ calls'[d].ev = calls[d].ev
  \/ WorkStep(d)
  \/ calls'[d].ev = NoEvidence

Goes(d) ==
  /\ Running(d) /\ KeptCall(d) /\ WorkMoves(d)
  /\ SamePlace(d) \/ Detached(d)

Begins(d) ==
  /\ calls[d].pc = "none"
  /\ \E p \in Callers : /\ Join(p) /\ verifying[callers[p].want] = NoCall
                        /\ verifying' = [verifying EXCEPT ![callers[p].want] = d]
                        /\ calls'[d] = NewCall(p)

\* Detaching a call that is in the map, or leaving another one alone.
LEMMA DetachGoes ==
  ASSUME Inv, NEW d \in CallIds, Running(d), NEW fate \in {"evicted", "invalidated"},
         verifying' = [k \in Kinds |-> NoCall],
         calls'[d] = Detach(fate, d)
           \/ calls'[d] = [Detach(fate, d) EXCEPT !.pc = "finish", !.ev = NoEvidence]
  PROVE  Goes(d)
<1>1. calls[d] \in Call /\ NoCall \notin CallIds /\ calls[d].kind \in Kinds /\ calls[d].floor \in Nat
  BY Types DEF Call
<1>2. verifying'[calls[d].kind] # d
  BY <1>1
<1>3. /\ Detach(fate, d) \in Call /\ Detach(fate, d).kind = calls[d].kind
      /\ Detach(fate, d).pc = calls[d].pc /\ Detach(fate, d).ev = calls[d].ev
  BY <1>1, DetachTyped DEF Fate
<1>4. /\ calls'[d].kind = calls[d].kind /\ calls'[d].floor = Detach(fate, d).floor
      /\ calls'[d].superseded = Detach(fate, d).superseded
      /\ calls'[d].invalidated = Detach(fate, d).invalidated
      /\ calls'[d].fate = Detach(fate, d).fate
  <2>1. CASE calls'[d] = Detach(fate, d)
    BY <1>3, <2>1
  <2>2. CASE calls'[d] = [Detach(fate, d) EXCEPT !.pc = "finish", !.ev = NoEvidence]
    BY <1>3, <2>2 DEF Call
  <2> QED
    BY <2>1, <2>2
<1>5. WorkMoves(d)
  BY <1>3 DEF WorkMoves, Call
<1>6. CASE verifying[calls[d].kind] = d
  <2>1. /\ Detach(fate, d).superseded = TRUE /\ Detach(fate, d).fate = fate
        /\ Detach(fate, d).floor = calls[d].floor
        /\ Detach(fate, d).invalidated = (calls[d].invalidated \/ fate = "invalidated")
    BY <1>1, <1>6 DEF Detach, Call
  <2>2. calls'[d].floor >= calls[d].floor
    BY <1>1, <1>4, <2>1
  <2>3. KeptCall(d)
    BY <1>4, <2>1, <2>2, Zenon DEF KeptCall
  <2>4. Detached(d)
    BY <1>2, <1>4, <1>6, <2>1 DEF Detached
  <2> QED
    BY <1>5, <2>3, <2>4 DEF Goes
<1>7. CASE verifying[calls[d].kind] # d
  <2>1. Detach(fate, d) = calls[d]
    BY <1>7 DEF Detach
  <2>2. calls'[d].floor >= calls[d].floor
    BY <1>1, <1>4, <2>1
  <2>3. KeptCall(d) /\ SamePlace(d)
    BY <1>2, <1>4, <1>7, <2>1, <2>2, Zenon DEF KeptCall, SamePlace
  <2> QED
    BY <1>5, <2>3 DEF Goes
<1> QED
  BY <1>6, <1>7

\* A call that a step leaves alone.
LEMMA UntouchedGoes ==
  ASSUME Inv, NEW d \in CallIds, Running(d), calls'[d] = calls[d],
         verifying'[calls[d].kind] = d <=> verifying[calls[d].kind] = d
  PROVE  Goes(d)
<1>1. calls[d].floor \in Nat
  BY Types DEF Call
<1> QED
  BY <1>1 DEF Goes, KeptCall, SamePlace, WorkMoves

\* What the steps of callers do to a running call.
LEMMA CallerStepGoes ==
  ASSUME Inv, NEW p \in Callers, CallerStep(p), NEW d \in CallIds, Running(d)'
  PROVE  Goes(d) \/ Begins(d)
<1>1. /\ calls \in [CallIds -> Call] /\ calls[d] \in Call /\ calls[d].kind \in Kinds
      /\ calls[d].floor \in Nat /\ callers[p] \in Caller /\ callers[p].want \in Kinds
      /\ verifying \in [Kinds -> CallIds \cup {NoCall}] /\ NoCall \notin CallIds
  BY Types DEF Call, Caller
<1>2. CASE Join(p) /\ verifying[callers[p].want] # NoCall
  <2>1. calls' = [calls EXCEPT ![verifying[callers[p].want]].waiters = @ + 1] /\ verifying' = verifying
    BY <1>2 DEF Join
  <2>2. calls'[d] = calls[d] \/ calls'[d] = [calls[d] EXCEPT !.waiters = @ + 1]
    BY <1>1, <2>1
  <2>3. /\ calls'[d].kind = calls[d].kind /\ calls'[d].floor = calls[d].floor
        /\ calls'[d].superseded = calls[d].superseded /\ calls'[d].invalidated = calls[d].invalidated
        /\ calls'[d].fate = calls[d].fate /\ calls'[d].pc = calls[d].pc /\ calls'[d].ev = calls[d].ev
    BY <1>1, <2>2 DEF Call
  <2>4. calls'[d].floor >= calls[d].floor
    BY <1>1, <2>3
  <2>5. KeptCall(d) /\ SamePlace(d)
    BY <2>1, <2>3, <2>4, Zenon DEF KeptCall, SamePlace
  <2> QED
    BY <2>3, <2>5 DEF Goes, WorkMoves, Running
<1>3. CASE Join(p) /\ verifying[callers[p].want] = NoCall
  <2>1. PICK c \in CallIds : /\ calls[c].pc = "none" /\ calls' = [calls EXCEPT ![c] = NewCall(p)]
                             /\ verifying' = [verifying EXCEPT ![callers[p].want] = c]
    BY <1>3 DEF Join
  <2>2. CASE c = d
    BY <1>1, <1>3, <2>1, <2>2 DEF Begins
  <2>3. CASE c # d
    <3>1. calls'[d] = calls[d] /\ Running(d)
      BY <1>1, <2>1, <2>3 DEF Running
    <3>2. verifying'[calls[d].kind] = d <=> verifying[calls[d].kind] = d
      BY <1>1, <1>3, <2>1, <2>3
    <3> QED
      BY <3>1, <3>2, UntouchedGoes
  <2> QED
    BY <2>2, <2>3
<1>4. CASE Wake(p) \/ LeaveFinished(p)
  <2>1. /\ calls' = [calls EXCEPT ![callers[p].call] = Unread(callers[p].call, p)]
        /\ verifying' = verifying /\ calls[callers[p].call].pc = "done"
    BY <1>4 DEF Wake, LeaveFinished
  <2>2. d # callers[p].call
    <3> SUFFICES ASSUME d = callers[p].call PROVE FALSE
      OBVIOUS
    <3>1. Unread(d, p).pc = "done"
      BY <1>1, <2>1 DEF Unread, Call
    <3> QED
      BY <1>1, <2>1, <3>1 DEF Running
  <2> QED
    BY <1>1, <2>1, <2>2, UntouchedGoes DEF Running
<1>5. CASE LeaveRunning(p)
  <2> DEFINE c == callers[p].call
  <2>1. /\ calls' = [calls EXCEPT ![c] = Left(c)]
        /\ verifying' = [k \in Kinds |->
             IF verifying[k] = c /\ calls[c].waiters = 1 THEN NoCall ELSE verifying[k]]
    BY <1>5 DEF LeaveRunning
  <2>2. CASE c # d
    BY <1>1, <2>1, <2>2, UntouchedGoes DEF Running
  <2>3. CASE c = d
    <3>1. calls'[d] = Left(d)
      BY <1>1, <2>1, <2>3
    <3>2. /\ calls'[d].kind = calls[d].kind /\ calls'[d].floor = calls[d].floor
          /\ calls'[d].superseded = calls[d].superseded
          /\ calls'[d].invalidated = calls[d].invalidated
          /\ calls'[d].pc = calls[d].pc /\ calls'[d].ev = calls[d].ev
          /\ calls'[d].fate = IF calls[d].waiters = 1 /\ verifying[calls[d].kind] = d
                                THEN "abandoned" ELSE calls[d].fate
      BY <1>1, <3>1 DEF Left, Call
    <3>3. verifying'[calls[d].kind] =
            IF verifying[calls[d].kind] = d /\ calls[d].waiters = 1 THEN NoCall
            ELSE verifying[calls[d].kind]
      BY <1>1, <2>1, <2>3
    <3>4. KeptCall(d) /\ WorkMoves(d) /\ Running(d)
      BY <1>1, <3>2 DEF KeptCall, WorkMoves, Running
    <3>5. SamePlace(d) \/ Detached(d)
      BY <1>1, <3>2, <3>3 DEF SamePlace, Detached
    <3> QED
      BY <3>4, <3>5 DEF Goes
  <2> QED
    BY <2>2, <2>3
<1>6. CASE StartVerify(p) \/ StartRefresh(p) \/ DecideHit(p) \/ Return(p) \/ ReturnError(p)
  <2>1. calls' = calls /\ verifying' = verifying
    BY <1>6 DEF StartVerify, StartRefresh, DecideHit, Return, ReturnError
  <2> QED
    BY <2>1, UntouchedGoes DEF Running
<1> QED
  BY <1>2, <1>3, <1>4, <1>5, <1>6 DEF CallerStep

\* What the steps of workers do to a running call.
LEMMA WorkerStepGoes ==
  ASSUME Inv, NEW c \in CallIds, WorkerStep(c), NEW d \in CallIds, Running(d)'
  PROVE  Goes(d)
<1>1. /\ calls \in [CallIds -> Call] /\ calls[d] \in Call /\ calls[d].kind \in Kinds
      /\ calls[d].floor \in Nat
      /\ verifying \in [Kinds -> CallIds \cup {NoCall}] /\ NoCall \notin CallIds
  BY Types DEF Call
<1>2. CASE StatusNotActive(c)
  <2>1. /\ calls'[d] = (IF d = c THEN [Detach("invalidated", d) EXCEPT !.pc = "finish", !.ev = NoEvidence]
                                 ELSE Detach("invalidated", d))
        /\ verifying' = [k \in Kinds |-> NoCall] /\ calls[c].pc = "work"
    BY <1>2 DEF StatusNotActive
  <2>2. Detach("invalidated", d).pc = calls[d].pc
    BY <1>1, DetachTyped DEF Fate
  <2>3. Running(d)
    BY <2>1, <2>2 DEF Running
  <2> QED
    BY <2>1, <2>3, DetachGoes
<1>3. CASE Complete(c)
  <2>1. /\ calls'[d] = (IF d = c THEN Finished(c) ELSE AfterPublish(c, d))
        /\ verifying' = [k \in Kinds |-> IF verifying[k] = c THEN NoCall ELSE verifying[k]]
    BY <1>3 DEF Complete
  <2>2. d # c
    BY <2>1 DEF Running, Finished, DoneCall, BlankCall
  <2>3. verifying'[calls[d].kind] = d <=> verifying[calls[d].kind] = d
    BY <1>1, <2>1, <2>2
  <2>4. CASE calls'[d] = calls[d]
    BY <2>3, <2>4, UntouchedGoes DEF Running
  <2>5. CASE calls'[d] = RaiseFloor(c, d) /\ Publishes(c)
    <3>1. calls[c].ev.acq \in Nat
      BY <1>1, <2>5 DEF Publishes, Accepted, Call, MaybeEvidence, Evidence
    <3>2. /\ calls'[d].kind = calls[d].kind /\ calls'[d].fate = calls[d].fate
          /\ calls'[d].pc = calls[d].pc /\ calls'[d].ev = calls[d].ev
          /\ calls'[d].invalidated = calls[d].invalidated
          /\ calls'[d].superseded = (calls[d].superseded
               \/ (calls[c].kind # "status" /\ calls[d].startedAt < calls[c].startedAt))
          /\ calls'[d].floor = IF calls[c].ev.acq > calls[d].floor THEN calls[c].ev.acq
                               ELSE calls[d].floor
      BY <1>1, <2>5 DEF RaiseFloor, Call
    <3>3. calls'[d].floor >= calls[d].floor
      BY <1>1, <3>1, <3>2
    <3>4. KeptCall(d) /\ SamePlace(d)
      BY <2>3, <3>2, <3>3, Zenon DEF KeptCall, SamePlace
    <3> QED
      BY <3>2, <3>4 DEF Goes, WorkMoves, Running
  <2> QED
    BY <2>1, <2>2, <2>4, <2>5 DEF AfterPublish
<1>4. CASE WorkStep(c)
  <2>1. verifying' = verifying
    BY <1>4 DEF WorkStep, ServeFromCache, BeginAcquisition, BeginStatusRefresh, WorkFails,
                StatusActive, ReturnWork
  <2>2. CASE c # d
    <3>1. calls'[d] = calls[d]
      BY <1>1, <1>4, <2>2 DEF WorkStep, ServeFromCache, BeginAcquisition, BeginStatusRefresh,
                WorkFails, StatusActive, ReturnWork
    <3> QED
      BY <2>1, <3>1, UntouchedGoes DEF Running
  <2>3. CASE c = d
    <3>1. \E pc, e : \/ calls' = [calls EXCEPT ![d].pc = pc, ![d].ev = e]
                     \/ calls' = [calls EXCEPT ![d].pc = pc]
      BY <1>4, <2>3 DEF WorkStep, ServeFromCache, BeginAcquisition, BeginStatusRefresh, WorkFails,
                  StatusActive, ReturnWork
    <3>2. /\ calls'[d].kind = calls[d].kind /\ calls'[d].fate = calls[d].fate
          /\ calls'[d].floor = calls[d].floor
          /\ calls'[d].invalidated = calls[d].invalidated
          /\ calls'[d].superseded = calls[d].superseded
      BY <1>1, <3>1 DEF Call
    <3>3. Running(d)
      BY <1>4, <2>3 DEF WorkStep, ServeFromCache, BeginAcquisition, BeginStatusRefresh, WorkFails,
                  StatusActive, ReturnWork, Running
    <3>4. calls'[d].floor >= calls[d].floor
      BY <1>1, <3>2
    <3>5. KeptCall(d) /\ SamePlace(d)
      BY <2>1, <3>2, <3>4, Zenon DEF KeptCall, SamePlace
    <3> QED
      BY <1>4, <2>3, <3>3, <3>5 DEF Goes, WorkMoves
  <2> QED
    BY <2>2, <2>3
<1> QED
  BY <1>2, <1>3, <1>4 DEF WorkerStep, WorkStep

\* A call that runs after a step began with it, or ran before and goes on.
LEMMA CallSteps ==
  ASSUME Inv, [Next]_vars, NEW d \in CallIds, Running(d)'
  PROVE  Goes(d) \/ Begins(d)
<1>1. CASE EvictDomain
  <2>1. calls'[d] = Detach("evicted", d) /\ verifying' = [k \in Kinds |-> NoCall]
    BY <1>1 DEF EvictDomain
  <2>2. Detach("evicted", d).pc = calls[d].pc
    BY Types, DetachTyped DEF Fate
  <2> QED
    BY <2>1, <2>2, DetachGoes DEF Running
<1>2. CASE Tick \/ Revoke \/ CapacityEviction \/ UNCHANGED vars
  <2>1. calls' = calls /\ verifying' = verifying
    BY <1>2 DEF Tick, Revoke, CapacityEviction, vars
  <2> QED
    BY <2>1, UntouchedGoes DEF Running
<1> QED
  BY <1>1, <1>2, CallerStepGoes, WorkerStepGoes DEF Next

\* The evidence with which the work of a call goes on.
LEMMA WorkStepEvidence ==
  ASSUME Inv, NEW d \in CallIds, WorkStep(d), calls'[d].ev # NoEvidence
  PROVE  \/ /\ ServeFromCache(d) /\ calls'[d].pc = "finish"
            /\ calls'[d].ev = Snapshot /\ cache # NoEvidence
         \/ /\ BeginAcquisition(d) /\ calls'[d].pc = "work" /\ calls[d].kind # "status"
            /\ calls'[d].ev.acq = clock /\ calls'[d].ev.flag = NoCall /\ calls'[d].ev.state = "fresh"
         \/ /\ BeginStatusRefresh(d) /\ calls'[d].pc = "work" /\ calls[d].kind = "status"
            /\ calls'[d].ev = IF Hit THEN Snapshot ELSE calls[d].ev
         \/ StatusActive(d) /\ active /\ calls'[d].pc = "checked" /\ calls[d].pc = "work"
            /\ calls'[d].ev = calls[d].ev
         \/ ReturnWork(d) /\ calls[d].pc = "checked" /\ calls'[d].pc = "finish"
            /\ calls'[d].ev = Assembled(d)
<1>1. calls \in [CallIds -> Call] /\ calls[d] \in Call
  BY Types
<1>2. CASE ServeFromCache(d)
  BY <1>1, <1>2 DEF ServeFromCache, CacheServes, Hit, Call
<1>3. CASE BeginAcquisition(d)
  <2>1. PICK ttl \in TTLs :
          calls' = [calls EXCEPT ![d].pc = "work",
                      ![d].ev = [acq |-> clock, exp |-> clock + ttl, chk |-> 0,
                                 flag |-> NoCall, state |-> "fresh", stray |-> FALSE]]
    BY <1>3 DEF BeginAcquisition
  <2>2. calls'[d].pc = "work" /\ calls'[d].ev = [acq |-> clock, exp |-> clock + ttl, chk |-> 0,
                                 flag |-> NoCall, state |-> "fresh", stray |-> FALSE]
    BY <1>1, <2>1 DEF Call
  <2>3. /\ calls'[d].ev.acq = clock /\ calls'[d].ev.flag = NoCall
        /\ calls'[d].ev.state = "fresh"
    BY <2>2
  <2>4. calls[d].kind # "status"
    BY <1>3 DEF BeginAcquisition
  <2> QED
    BY <1>3, <2>2, <2>3, <2>4
<1>4. CASE BeginStatusRefresh(d)
  BY <1>1, <1>4 DEF BeginStatusRefresh, Call
<1>5. CASE StatusActive(d)
  BY <1>1, <1>5 DEF StatusActive, Call
<1>6. CASE ReturnWork(d)
  BY <1>1, <1>6 DEF ReturnWork, Call
<1>7. CASE WorkFails(d)
  BY <1>1, <1>7 DEF WorkFails, Call
<1> QED
  BY <1>2, <1>3, <1>4, <1>5, <1>6, <1>7 DEF WorkStep

\* Assembling a result dates the status check and leaves the acquisition alone.
LEMMA AssembledIsWork ==
  ASSUME Inv, NEW d \in CallIds, calls[d].pc \in {"work", "checked"}
  PROVE  /\ calls[d].ev \in Evidence /\ calls[d].ev # NoEvidence
         /\ Assembled(d).acq = calls[d].ev.acq /\ Assembled(d).flag = calls[d].ev.flag
         /\ Assembled(d).stray = calls[d].ev.stray /\ Assembled(d).state # "cached"
<1>1. calls[d].ev \in Evidence /\ calls[d].ev # NoEvidence
  BY Types, NoEvidenceAssumption DEF Inv, Structure, CallOK, Call, MaybeEvidence
<1> QED
  BY <1>1 DEF Assembled, Evidence

\* A call that does not run after a step has finished, before it or with it, or
\* has not begun: it gets no evidence it did not have.
LEMMA StoppedCall ==
  ASSUME Inv, [Next]_vars, NEW d \in CallIds, ~Running(d)'
  PROVE  /\ calls'[d].ev \in {NoEvidence, calls[d].ev}
         /\ calls'[d].pc = "none" => calls'[d] = calls[d]
         /\ calls'[d].pc # "none" =>
              calls[d].pc = "done" \/ (calls[d].pc = "finish" /\ Complete(d))
<1>1. /\ calls \in [CallIds -> Call] /\ calls[d] \in Call /\ callers \in [Callers -> Caller]
      /\ verifying \in [Kinds -> CallIds \cup {NoCall}]
  BY Types
<1>2. ASSUME calls'[d] = calls[d]
      PROVE  calls[d].pc \in {"none", "done"}
  BY <1>1, <1>2 DEF Running, Call, CallPc
<1>3. ASSUME NEW p \in Callers, CallerStep(p), calls'[d] # calls[d]
      PROVE  /\ calls'[d].ev \in {NoEvidence, calls[d].ev}
             /\ calls'[d].pc = "done" /\ calls[d].pc = "done"
  <2>1. CASE Join(p) /\ verifying[callers[p].want] # NoCall
    <3>1. calls' = [calls EXCEPT ![verifying[callers[p].want]].waiters = @ + 1]
      BY <2>1 DEF Join
    <3>2. Running(verifying[callers[p].want])
      BY <1>1, <2>1 DEF Inv, Structure, MapOK, Caller
    <3>3. d = verifying[callers[p].want] /\ calls'[d].pc = calls[d].pc
      BY <1>1, <1>3, <3>1 DEF Call
    <3> QED
      BY <3>2, <3>3 DEF Running
  <2>2. CASE Join(p) /\ verifying[callers[p].want] = NoCall
    <3>1. PICK c \in CallIds : calls' = [calls EXCEPT ![c] = NewCall(p)]
      BY <2>2 DEF Join
    <3>2. calls'[d] = NewCall(p)
      BY <1>1, <1>3, <3>1
    <3> QED
      BY <3>2 DEF NewCall, BlankCall, Running
  <2>3. CASE Wake(p) \/ LeaveFinished(p)
    <3>1. /\ calls' = [calls EXCEPT ![callers[p].call] = Unread(callers[p].call, p)]
          /\ calls[callers[p].call].pc = "done"
      BY <2>3 DEF Wake, LeaveFinished
    <3>2. d = callers[p].call /\ calls'[d] = Unread(d, p)
      BY <1>1, <1>3, <3>1
    <3> QED
      BY <1>1, <3>1, <3>2 DEF Unread, Call
  <2>4. CASE LeaveRunning(p)
    <3>1. /\ calls' = [calls EXCEPT ![callers[p].call] = Left(callers[p].call)]
          /\ calls[callers[p].call].pc # "done" /\ calls[callers[p].call].pc # "none"
      BY <2>4 DEF LeaveRunning, Inv, Structure, CallerOK
    <3>2. d = callers[p].call /\ calls'[d] = Left(d)
      BY <1>1, <1>3, <3>1
    <3>3. Left(d).pc = calls[d].pc
      BY <1>1 DEF Left, Call
    <3> QED
      BY <1>1, <3>1, <3>2, <3>3 DEF Running, Call, CallPc
  <2>5. CASE StartVerify(p) \/ StartRefresh(p) \/ DecideHit(p) \/ Return(p) \/ ReturnError(p)
    BY <1>3, <2>5 DEF StartVerify, StartRefresh, DecideHit, Return, ReturnError
  <2> QED
    BY <1>3, <2>1, <2>2, <2>3, <2>4, <2>5 DEF CallerStep
<1>4. ASSUME NEW c \in CallIds, WorkerStep(c), calls'[d] # calls[d]
      PROVE  /\ calls'[d].ev \in {NoEvidence, calls[d].ev}
             /\ calls'[d].pc # "none" /\ calls[d].pc = "finish" /\ Complete(d)
  <2>1. CASE WorkStep(c)
    <3>1. c = d
      BY <1>1, <1>4, <2>1 DEF WorkStep, ServeFromCache, BeginAcquisition, BeginStatusRefresh,
                WorkFails, StatusActive, ReturnWork
    <3>2. calls'[d].pc \in {"work", "checked", "finish"}
      BY <1>1, <2>1, <3>1 DEF WorkStep, ServeFromCache, BeginAcquisition, BeginStatusRefresh,
                WorkFails, StatusActive, ReturnWork, Call
    <3> QED
      BY <3>2 DEF Running
  <2>2. CASE StatusNotActive(c)
    <3>1. /\ calls'[d] = (IF d = c THEN [Detach("invalidated", d) EXCEPT !.pc = "finish", !.ev = NoEvidence]
                                   ELSE Detach("invalidated", d))
      BY <2>2 DEF StatusNotActive
    <3>2. Detach("invalidated", d) \in Call /\ Detach("invalidated", d).pc = calls[d].pc
      BY <1>1, DetachTyped DEF Fate
    <3>3. verifying[calls[d].kind] = d
      BY <1>4, <3>1, <3>2 DEF Detach, Running, Call
    <3>4. Running(d)
      BY <1>1, <3>3 DEF Inv, Structure, MapOK, Call, NoCall, CallIds
    <3> QED
      BY <3>1, <3>2, <3>4 DEF Running, Call
  <2>3. CASE Complete(c)
    <3>1. /\ calls'[d] = (IF d = c THEN Finished(c) ELSE AfterPublish(c, d))
          /\ calls[c].pc = "finish"
      BY <2>3 DEF Complete
    <3>2. CASE d = c
      BY <2>3, <3>1, <3>2 DEF Finished, DoneCall, BlankCall
    <3>3. CASE d # c
      <4>1. verifying[calls[d].kind] = d /\ calls'[d] = RaiseFloor(c, d)
        BY <1>4, <3>1, <3>3 DEF AfterPublish
      <4>2. Running(d)
        BY <1>1, <4>1 DEF Inv, Structure, MapOK, Call, NoCall, CallIds
      <4>3. calls'[d].pc = calls[d].pc
        BY <1>1, <4>1 DEF RaiseFloor, Call
      <4> QED
        BY <4>2, <4>3 DEF Running
    <3> QED
      BY <3>2, <3>3
  <2> QED
    BY <1>4, <2>1, <2>2, <2>3 DEF WorkerStep, WorkStep
<1>5. ASSUME EvictDomain, calls'[d] # calls[d] PROVE FALSE
  <2>1. calls'[d] = Detach("evicted", d) /\ Detach("evicted", d).pc = calls[d].pc
    BY <1>1, <1>5, DetachTyped DEF EvictDomain, Fate
  <2>2. verifying[calls[d].kind] = d
    BY <1>5, <2>1 DEF Detach
  <2>3. Running(d)
    BY <1>1, <2>2 DEF Inv, Structure, MapOK, Call, NoCall, CallIds
  <2> QED
    BY <2>1, <2>3 DEF Running
<1>6. Tick \/ Revoke \/ CapacityEviction \/ UNCHANGED vars => calls'[d] = calls[d]
  BY DEF Tick, Revoke, CapacityEviction, vars
<1>7. CASE calls'[d] = calls[d]
  BY <1>2, <1>7
<1>8. CASE calls'[d] # calls[d]
  BY <1>3, <1>4, <1>5, <1>6, <1>8 DEF Next
<1> QED
  BY <1>7, <1>8

\* A call that begins is attached, and none of its work is done.
LEMMA BeginsBlank ==
  ASSUME Inv, NEW d \in CallIds, NEW p \in Callers, calls'[d] = NewCall(p)
  PROVE  /\ calls'[d].fate = "attached" /\ calls'[d].kind = callers[p].want
         /\ calls'[d].pc = "start" /\ calls'[d].ev = callers[p].vd
BY DEF NewCall, BlankCall

-----------------------------------------------------------------------------
(***************************************************************************)
(* The fence.  A cell that some evidence carries is allocated by a finished*)
(* call, and holds true unless the cache entry carries it too.             *)
(***************************************************************************)
CellOK(f) ==
  /\ calls[f].pc = "done"
  /\ f \in dead \/ (cache # NoEvidence /\ cache.flag = f)

\* A finished call stays finished.
LEMMA DoneStays ==
  ASSUME Structure, [Next]_vars, NEW d \in CallIds, calls[d].pc = "done"
  PROVE  calls'[d].pc = "done"
<1>1. calls \in [CallIds -> Call] /\ calls[d] \in Call /\ ~Running(d)
  BY DEF Structure, TypeOK, Running
<1>2. ASSUME NEW p \in Callers, CallerStep(p) PROVE calls'[d].pc = "done"
  <2>1. CASE Join(p)
    <3>1. CASE verifying[callers[p].want] # NoCall
      <4>1. calls' = [calls EXCEPT ![verifying[callers[p].want]].waiters = @ + 1]
        BY <2>1, <3>1 DEF Join
      <4>2. verifying[callers[p].want] # d
        BY <1>1, <3>1 DEF Structure, TypeOK, Caller, MapOK
      <4> QED
        BY <1>1, <4>1, <4>2
    <3>2. CASE verifying[callers[p].want] = NoCall
      <4>1. PICK c \in CallIds : calls[c].pc = "none" /\ calls' = [calls EXCEPT ![c] = NewCall(p)]
        BY <2>1, <3>2 DEF Join
      <4> QED
        BY <1>1, <4>1
    <3> QED
      BY <3>1, <3>2
  <2>2. CASE Wake(p) \/ LeaveFinished(p)
    <3>1. calls' = [calls EXCEPT ![callers[p].call] = Unread(callers[p].call, p)]
      BY <2>2 DEF Wake, LeaveFinished
    <3>2. Unread(d, p).pc = "done"
      BY <1>1 DEF Unread, Call
    <3> QED
      BY <1>1, <3>1, <3>2
  <2>3. CASE LeaveRunning(p)
    <3>1. calls' = [calls EXCEPT ![callers[p].call] = Left(callers[p].call)] /\ callers[p].call # d
      BY <2>3 DEF LeaveRunning
    <3> QED
      BY <1>1, <3>1
  <2>4. CASE StartVerify(p) \/ StartRefresh(p) \/ DecideHit(p) \/ Return(p) \/ ReturnError(p)
    BY <2>4 DEF StartVerify, StartRefresh, DecideHit, Return, ReturnError
  <2> QED
    BY <1>2, <2>1, <2>2, <2>3, <2>4 DEF CallerStep
<1>3. ASSUME NEW c \in CallIds, WorkerStep(c) PROVE calls'[d].pc = "done"
  <2>1. c # d
    BY <1>1, <1>3 DEF WorkerStep, ServeFromCache, BeginAcquisition, BeginStatusRefresh, WorkFails,
                      StatusActive, StatusNotActive, ReturnWork, Complete
  <2>2. CASE StatusNotActive(c)
    <3>1. calls'[d] = Detach("invalidated", d)
      BY <2>1, <2>2 DEF StatusNotActive
    <3> QED
      BY <1>1, <3>1, DetachTyped DEF Fate
  <2>3. CASE Complete(c)
    <3>1. calls'[d] = AfterPublish(c, d)
      BY <2>1, <2>3 DEF Complete
    <3>2. verifying[calls[d].kind] # d
      BY <1>1 DEF Structure, MapOK, Call, NoCall, CallIds
    <3> QED
      BY <3>1, <3>2 DEF AfterPublish
  <2>4. CASE ~StatusNotActive(c) /\ ~Complete(c)
    BY <1>1, <1>3, <2>1, <2>4 DEF WorkerStep, ServeFromCache, BeginAcquisition,
         BeginStatusRefresh, WorkFails, StatusActive, ReturnWork
  <2> QED
    BY <2>2, <2>3, <2>4
<1>4. CASE EvictDomain
  <2>1. calls'[d] = Detach("evicted", d)
    BY <1>4 DEF EvictDomain
  <2> QED
    BY <1>1, <2>1, DetachTyped DEF Fate
<1>5. CASE Tick \/ Revoke \/ CapacityEviction \/ UNCHANGED vars
  BY <1>5 DEF Tick, Revoke, CapacityEviction, vars
<1> QED
  BY <1>2, <1>3, <1>4, <1>5 DEF Next

\* Dropping the entry, or leaving it, keeps the fence.
LEMMA DropFences ==
  ASSUME Inv, [Next]_vars, DropEntry \/ UNCHANGED <<cache, dead>>
  PROVE  EntryFenced' /\ \A f \in CallIds : CellOK(f) => CellOK(f)'
<1>1. \A f \in CallIds : calls[f].pc = "done" => calls'[f].pc = "done"
  BY DoneStays DEF Inv
<1>2. /\ dead \subseteq CallIds /\ EntryFenced
      /\ (cache # NoEvidence => cache.flag \in CallIds)
  BY DEF Inv, Structure, TypeOK, Fences, EntryFenced, MaybeEvidence, Evidence
<1>3. CASE DropEntry
  <2>1. cache' = NoEvidence /\ dead' = dead \cup FlagsOf(cache)
    BY <1>3 DEF DropEntry
  <2>2. FlagsOf(cache) = IF cache = NoEvidence THEN {} ELSE {cache.flag}
    BY <1>2 DEF FlagsOf, EntryFenced
  <2> QED
    BY <1>1, <1>2, <2>1, <2>2 DEF EntryFenced, CellOK
<1>4. CASE UNCHANGED <<cache, dead>>
  BY <1>1, <1>2, <1>4 DEF EntryFenced, CellOK
<1> QED
  BY <1>3, <1>4

\* So does a put: the entry it stores carries its own evidence's cell, which is
\* still false, or a new one.
LEMMA PutFences ==
  ASSUME Inv, [Next]_vars, NEW c \in CallIds, calls[c].pc = "finish", calls'[c].pc = "done",
         NEW e \in Evidence, Fenced(e), Put(c, e)
  PROVE  EntryFenced' /\ \A f \in CallIds : CellOK(f) => CellOK(f)'
<1>1. \A f \in CallIds : calls[f].pc = "done" => calls'[f].pc = "done"
  BY DoneStays DEF Inv
<1>2. /\ dead \subseteq CallIds /\ EntryFenced
      /\ (cache # NoEvidence => cache.flag \in CallIds)
  BY DEF Inv, Structure, TypeOK, Fences, EntryFenced, MaybeEvidence, Evidence
<1>3. CASE PutRefused(e)
  BY <1>3, DropFences DEF Put
<1>4. CASE ~PutRefused(e) /\ ~Storable(e)
  BY <1>4, DropFences DEF Put
<1>5. CASE ~PutRefused(e) /\ Storable(e)
  <2> DEFINE s == StoredBy(c, e)
  <2>1. cache' = s /\ dead' = dead \cup (FlagsOf(cache) \ {s.flag})
    BY <1>5 DEF Put
  <2>2. s \in Evidence /\ s # NoEvidence
    BY StoredTyped, NoEvidenceAssumption DEF Inv, Structure, TypeOK
  <2>3. s.flag = (IF e.flag = NoCall THEN c ELSE e.flag) /\ e.flag \in CallIds \cup {NoCall}
    BY DEF StoredBy, Evidence
  <2>4. FlagsOf(cache) = IF cache = NoEvidence THEN {} ELSE {cache.flag}
    BY <1>2 DEF FlagsOf, EntryFenced
  <2>5. s.flag \in CallIds /\ s.flag # NoCall /\ s.flag \notin dead /\ calls'[s.flag].pc = "done"
    BY <1>1, <1>2, <1>5, <2>3, NoEvidenceAssumption
       DEF PutRefused, EntryFenced, Fenced, CallIds, NoCall
  <2> HIDE DEF s
  <2> QED
    BY <1>1, <1>2, <2>1, <2>2, <2>4, <2>5 DEF EntryFenced, CellOK
<1> QED
  BY <1>3, <1>4, <1>5

\* Every step keeps the fence of the cache entry and of the cells in use.
LEMMA StepFences ==
  ASSUME Inv, [Next]_vars
  PROVE  EntryFenced' /\ \A f \in CallIds : CellOK(f) => CellOK(f)'
<1> DEFINE Goal == EntryFenced' /\ \A f \in CallIds : CellOK(f) => CellOK(f)'
<1>1. Get => DropEntry \/ UNCHANGED <<cache, dead>>
  BY DEF Get
<1>2. ASSUME NEW p \in Callers, CallerStep(p) PROVE DropEntry \/ UNCHANGED <<cache, dead>>
  BY <1>1, <1>2 DEF CallerStep, StartVerify, StartRefresh, DecideHit, Join, Wake, LeaveRunning,
                    LeaveFinished, Return, ReturnError
<1>3. ASSUME NEW c \in CallIds, WorkerStep(c), ~Complete(c)
      PROVE  DropEntry \/ UNCHANGED <<cache, dead>>
  BY <1>1, <1>3 DEF WorkerStep, ServeFromCache, BeginAcquisition, BeginStatusRefresh, WorkFails,
                    StatusActive, StatusNotActive, ReturnWork
<1>4. ASSUME NEW c \in CallIds, Complete(c) PROVE Goal
  <2>1. calls[c].pc = "finish" /\ calls'[c].pc = "done"
    BY <1>4 DEF Complete, Finished, DoneCall, BlankCall
  <2>2. CASE Publishes(c)
    <3>1. calls[c].ev \in Evidence /\ Fenced(calls[c].ev) /\ Put(c, calls[c].ev)
      BY <1>4, <2>2 DEF Complete, Publishes, Accepted, Inv, Structure, TypeOK, Call,
                        MaybeEvidence, Fences
    <3> QED
      BY <2>1, <3>1, PutFences
  <2>3. CASE ~Publishes(c)
    BY <1>4, <2>3, DropFences DEF Complete
  <2> QED
    BY <2>2, <2>3
<1>5. EvictDomain \/ Tick \/ Revoke \/ CapacityEviction \/ UNCHANGED vars
        => DropEntry \/ UNCHANGED <<cache, dead>>
  BY DEF EvictDomain, Tick, Revoke, CapacityEviction, vars
<1> QED
  BY <1>2, <1>3, <1>4, <1>5, DropFences DEF Next

\* A snapshot of the entry shares the entry's cell.
LEMMA SnapshotFenced ==
  ASSUME Inv, cache # NoEvidence
  PROVE  Fenced(Snapshot)
BY SnapshotIsEntry DEF Inv, Fences, EntryFenced, Fenced

\* Evidence that a step hands to a caller was fenced before the step.
LEMMA CallerEvidence ==
  ASSUME Inv, [Next]_vars, NEW q \in Callers
  PROVE  Fenced(callers'[q].vd)
<1>1. /\ Fenced(NoEvidence) /\ Fenced(callers[q].vd)
      /\ \A c \in CallIds : Fenced(calls[c].ev)
  BY DEF Inv, Fences, Fenced
<1> QED
  BY <1>1, CallerSources, SnapshotFenced

\* Evidence that a step leaves in a call was fenced before the step.
LEMMA CallEvidence ==
  ASSUME Inv, [Next]_vars, NEW d \in CallIds
  PROVE  Fenced(calls'[d].ev)
<1>1. /\ Fenced(NoEvidence) /\ Fenced(calls[d].ev)
      /\ \A p \in Callers : Fenced(callers[p].vd)
  BY DEF Inv, Fences, Fenced
<1>2. CASE ~Running(d)'
  BY <1>1, <1>2, StoppedCall
<1>3. CASE Begins(d)
  <2>1. PICK p \in Callers : calls'[d] = NewCall(p)
    BY <1>3 DEF Begins
  <2>2. calls'[d].ev = callers[p].vd
    BY <2>1, BeginsBlank
  <2> QED
    BY <1>1, <2>2
<1>4. CASE Goes(d) /\ ~WorkStep(d)
  BY <1>1, <1>4 DEF Goes, WorkMoves
<1>5. CASE WorkStep(d) /\ calls'[d].ev # NoEvidence
  <2>1. CASE calls'[d].ev = Snapshot /\ cache # NoEvidence
    BY <2>1, SnapshotFenced
  <2>2. CASE calls'[d].ev.flag = NoCall
    BY <2>2 DEF Fenced
  <2>3. CASE calls'[d].ev = IF Hit THEN Snapshot ELSE calls[d].ev
    BY <1>1, <2>3, SnapshotFenced DEF Hit
  <2>4. CASE calls[d].pc = "checked" /\ calls'[d].ev = Assembled(d)
    BY <1>1, <2>4, AssembledIsWork DEF Fenced
  <2> QED
    BY <1>1, <1>5, <2>1, <2>2, <2>3, <2>4, WorkStepEvidence
<1> QED
  BY <1>1, <1>2, <1>3, <1>4, <1>5, CallSteps

-----------------------------------------------------------------------------
(* The theorems. *)

\* Inv is inductive.
LEMMA NextInv == Inv /\ [Next]_vars => Inv'
<1> SUFFICES ASSUME Inv, [Next]_vars PROVE Inv'
  OBVIOUS
<1>1. Structure'
  BY NextStructure DEF Inv
<1>2. EntryFenced' /\ \A f \in CallIds : CellOK(f) => CellOK(f)'
  BY StepFences
<1>3. ASSUME NEW p \in Callers PROVE Fenced(callers[p].vd)'
  <2>1. Fenced(callers'[p].vd)
    BY CallerEvidence
  <2>2. callers'[p].vd # NoEvidence => callers'[p].vd.flag \in CallIds \cup {NoCall}
    BY <1>1 DEF Structure, TypeOK, Caller, MaybeEvidence, Evidence
  <2> QED
    BY <1>2, <2>1, <2>2 DEF Fenced, CellOK
<1>4. ASSUME NEW c \in CallIds PROVE Fenced(calls[c].ev)'
  <2>1. Fenced(calls'[c].ev)
    BY CallEvidence
  <2>2. calls'[c].ev # NoEvidence => calls'[c].ev.flag \in CallIds \cup {NoCall}
    BY <1>1 DEF Structure, TypeOK, Call, MaybeEvidence, Evidence
  <2> QED
    BY <1>2, <2>1, <2>2 DEF Fenced, CellOK
<1> QED
  BY <1>1, <1>2, <1>3, <1>4 DEF Inv, Fences

\* No evidence carries a cell at the start.
LEMMA InitInv == Init => Inv
<1> SUFFICES ASSUME Init PROVE Inv
  OBVIOUS
<1>1. Structure
  BY InitStructure
<1>2. cache = NoEvidence /\ dead = {}
  BY DEF Init
<1>3. \A p \in Callers : callers[p].vd = NoEvidence
  BY DEF Init, IdleCaller
<1>4. \A c \in CallIds : calls[c].ev = NoEvidence
  BY DEF Init, BlankCall
<1> QED
  BY <1>1, <1>2, <1>3, <1>4 DEF Inv, Fences, EntryFenced, Fenced

\* The coordinator's inductive invariant holds in every reachable state, for any
\* finite set of callers and any bounds: coalesceVerification's waiter count and
\* map, and the fence that cache.go keeps around every snapshot.
THEOREM Invariance == Spec => []Inv
<1>1. Init => Inv
  BY InitInv
<1>2. Inv /\ [Next]_vars => Inv'
  BY NextInv
<1> QED
  BY <1>1, <1>2, PTL DEF Spec

\* cacheInvalidated: evidence whose cell is still false shares it with the
\* entry now in the cache, so no delayed put restores an entry that is gone.
THEOREM FenceHolds == Spec => []FenceExact
<1>1. Inv => FenceExact
  BY DEF Inv, Fences, Fenced, FenceExact, HeldEvidence
<1> QED
  BY <1>1, Invariance, PTL
=============================================================================
