---------------------- MODULE VerificationCoordinator ----------------------
(***************************************************************************)
(* IdentityManager's verification coordinator for one domain: the identity *)
(* cache entry of the domain, the map of in-flight verifications           *)
(* (m.verifying), the goroutines that do the shared work, and the callers  *)
(* of VerifyDomain, RefreshDomain and EvictDomain.                         *)
(*                                                                         *)
(* Each action is one critical section or one stretch of code between two  *)
(* accesses to shared state.  IdentityCache.get releases the read lock     *)
(* before it takes the write lock to drop an expired entry and looks at    *)
(* the entry again under it; the outcome is the one of a single atomic get *)
(* at the second look, so get is one step here.                            *)
(***************************************************************************)
EXTENDS Naturals, FiniteSets

CONSTANTS
  Callers,      \* goroutines that call the public API
  TTLs,         \* DNS lifetimes the resolver may report, 0 included
  Interval,     \* VerificationConfig.StatusCheckInterval
  MaxOps,       \* bound: API calls started
  MaxTime,      \* bound: the clock
  NoEvidence    \* a nil *VerifiedDomain

ASSUME ConstantsAssumption ==
  /\ IsFiniteSet(Callers)
  /\ TTLs \subseteq Nat
  /\ Interval \in Nat
  /\ MaxOps \in Nat
  /\ MaxTime \in Nat

Kinds == {"lookup", "status", "refresh"}

\* An operation joins at most an identity call and then a status call.
CallIds == 1 .. (2 * MaxOps)
NoCall == 0

(***************************************************************************)
(* The part of a VerifiedDomain that the coordinator looks at.  acq is     *)
(* acquiredAt, exp the earliest of the deadlines in expiry (exp = acq for  *)
(* a zero DNS TTL), chk is lastStatusCheckAt.  flag names the shared       *)
(* cacheInvalidated cell by the call whose put allocated it, NoCall for a  *)
(* nil pointer.  stray is a history variable: the evidence was stored by a *)
(* call that its last waiter had abandoned.                                *)
(***************************************************************************)
Evidence == [acq : Nat, exp : Nat, chk : Nat, flag : CallIds \cup {NoCall},
             state : {"fresh", "cached", "refreshed"}, stray : BOOLEAN]
MaybeEvidence == Evidence \cup {NoEvidence}

ASSUME NoEvidenceAssumption == NoEvidence \notin Evidence

(***************************************************************************)
(* inFlightVerification and its goroutine.  pc is the goroutine's position:*)
(* "work" while evidence is being fetched, "checked" once the status half  *)
(* has reported ACTIVE, "finish" between the last look at the shared       *)
(* context and the final critical section.  ev is the evidence gathered so *)
(* far and, in the end, call.result; an error is NoEvidence.  cancelled    *)
(* says that the last waiter cancelled the shared context.  fate is a      *)
(* history variable: how the call left m.verifying.  A finished call keeps *)
(* only what its waiters can still read.                                   *)
(***************************************************************************)
CallPc == {"none", "start", "work", "checked", "finish", "done"}
Fate == {"none", "attached", "abandoned", "evicted", "invalidated"}
Call == [kind : Kinds, startedAt : Nat, floor : Nat, superseded : BOOLEAN,
         invalidated : BOOLEAN, cancelled : BOOLEAN, waiters : Nat,
         pc : CallPc, ev : MaybeEvidence, fate : Fate]

BlankCall == [kind |-> "lookup", startedAt |-> 0, floor |-> 0,
              superseded |-> FALSE, invalidated |-> FALSE, cancelled |-> FALSE,
              waiters |-> 0, pc |-> "none", ev |-> NoEvidence, fate |-> "none"]
DoneCall == [BlankCall EXCEPT !.pc = "done"]

\* A caller: what it is about to join or waits for, and the evidence it holds.
\* after is a history variable: the time of the last EvictDomain before its call.
CallerPc == {"idle", "hit", "join", "wait", "return"}
Caller == [pc : CallerPc, want : Kinds, call : CallIds \cup {NoCall},
           vd : MaybeEvidence, after : Nat]

IdleCaller == [pc |-> "idle", want |-> "lookup", call |-> NoCall,
               vd |-> NoEvidence, after |-> 0]

VARIABLES
  clock,      \* time.Now()
  active,     \* whether the status endpoint reports ACTIVE
  cache,      \* the domain's IdentityCache entry
  dead,       \* the cacheInvalidated cells that hold true
  verifying,  \* m.verifying, by kind
  calls,      \* every inFlightVerification ever started
  callers,    \* the API callers
  ops,        \* API calls started
  observed,   \* history: a non-ACTIVE status has been observed
  evictedAt,  \* history: time of the last EvictDomain
  high        \* history: the latest acquisition ever stored

vars == <<clock, active, cache, dead, verifying, calls, callers, ops,
          observed, evictedAt, high>>

env == <<clock, active, ops>>
history == <<observed, evictedAt, high>>

TypeOK ==
  /\ clock \in Nat
  /\ active \in BOOLEAN
  /\ cache \in MaybeEvidence
  /\ dead \subseteq CallIds
  /\ verifying \in [Kinds -> CallIds \cup {NoCall}]
  /\ calls \in [CallIds -> Call]
  /\ callers \in [Callers -> Caller]
  /\ ops \in 0 .. MaxOps
  /\ observed \in BOOLEAN
  /\ evictedAt \in Nat
  /\ high \in Nat

Init ==
  /\ clock = 0
  /\ active = TRUE
  /\ cache = NoEvidence
  /\ dead = {}
  /\ verifying = [k \in Kinds |-> NoCall]
  /\ calls = [c \in CallIds |-> BlankCall]
  /\ callers = [p \in Callers |-> IdleCaller]
  /\ ops = 0
  /\ observed = FALSE
  /\ evictedAt = 0
  /\ high = 0

-----------------------------------------------------------------------------
(* The identity cache. *)

Expired(e) == clock >= e.exp

\* requireFreshIdentityEvidence: zero-TTL evidence is good only when fresh.
Usable(e) == IF e.exp > e.acq THEN ~Expired(e) ELSE e.state = "fresh"

FlagsOf(e) == IF e = NoEvidence THEN {} ELSE {e.flag} \ {NoCall}

\* Mutant: the entry goes but its cacheInvalidated cell stays false.
DropEntryUnfenced ==
  /\ cache' = NoEvidence
  /\ UNCHANGED dead

\* IdentityCache.evict, also the deletions inside get and put.
DropEntry ==
  /\ cache' = NoEvidence
  /\ dead' = dead \cup FlagsOf(cache)

Hit == cache # NoEvidence /\ ~Expired(cache)
Snapshot == [cache EXCEPT !.state = "cached"]

\* IdentityCache.get: an expired entry is dropped on the way.
Get == IF cache # NoEvidence /\ Expired(cache)
         THEN DropEntry
         ELSE UNCHANGED <<cache, dead>>

\* IdentityCache.put of evidence e by call c.
PutRefused(e) == \/ e.flag \in dead
                 \/ cache # NoEvidence /\ e.acq < cache.acq
Storable(e) == ~Expired(e) /\ e.exp > e.acq

StoredBy(c, e) ==
  [e EXCEPT !.flag = IF e.flag = NoCall THEN c ELSE e.flag,
            !.stray = e.stray \/ calls[c].fate = "abandoned"]

Put(c, e) ==
  IF PutRefused(e) THEN UNCHANGED <<cache, dead, high>>
  ELSE IF ~Storable(e) THEN DropEntry /\ UNCHANGED high
  ELSE /\ cache' = StoredBy(c, e)
       /\ dead' = dead \cup (FlagsOf(cache) \ {StoredBy(c, e).flag})
       /\ high' = IF e.acq > high THEN e.acq ELSE high

-----------------------------------------------------------------------------
(* API callers. *)

NeedsRefresh(e) == Interval = 0 \/ clock >= e.chk + Interval

\* VerifyDomain up to its first look at the cache.
StartVerify(p) ==
  /\ callers[p].pc = "idle"
  /\ ops < MaxOps
  /\ ops' = ops + 1
  /\ callers' = [callers EXCEPT ![p] =
       IF Hit THEN [IdleCaller EXCEPT !.pc = "hit", !.vd = Snapshot, !.after = evictedAt]
              ELSE [IdleCaller EXCEPT !.pc = "join", !.after = evictedAt]]
  /\ Get
  /\ UNCHANGED <<clock, active, verifying, calls, history>>

\* RefreshDomain and VerifyLocalPublication bypass the cache.
StartRefresh(p) ==
  /\ callers[p].pc = "idle"
  /\ ops < MaxOps
  /\ ops' = ops + 1
  /\ callers' = [callers EXCEPT ![p] =
       [IdleCaller EXCEPT !.pc = "join", !.want = "refresh", !.after = evictedAt]]
  /\ UNCHANGED <<clock, active, cache, dead, verifying, calls, history>>

\* refreshCachedStatusIfNeeded up to the coordinator.
DecideHit(p) ==
  /\ callers[p].pc = "hit"
  /\ callers' = [callers EXCEPT ![p] =
       IF NeedsRefresh(callers[p].vd) THEN [callers[p] EXCEPT !.pc = "join", !.want = "status"]
                                      ELSE [callers[p] EXCEPT !.pc = "return"]]
  /\ UNCHANGED <<env, cache, dead, verifying, calls, history>>

\* The first critical section of coalesceVerification.
Waiting(p, c) == [callers[p] EXCEPT !.pc = "wait", !.call = c]

NewCall(p) == [BlankCall EXCEPT !.kind = callers[p].want, !.startedAt = clock,
                                !.waiters = 1, !.pc = "start", !.ev = callers[p].vd,
                                !.fate = "attached"]

Join(p) ==
  /\ callers[p].pc = "join"
  /\ LET k == callers[p].want IN
     IF verifying[k] # NoCall
       THEN /\ calls' = [calls EXCEPT ![verifying[k]].waiters = @ + 1]
            /\ callers' = [callers EXCEPT ![p] = Waiting(p, verifying[k])]
            /\ UNCHANGED verifying
       ELSE \E c \in CallIds :
            /\ calls[c].pc = "none"
            /\ \A d \in CallIds : d < c => calls[d].pc # "none"
            /\ calls' = [calls EXCEPT ![c] = NewCall(p)]
            /\ callers' = [callers EXCEPT ![p] = Waiting(p, c)]
            /\ verifying' = [verifying EXCEPT ![k] = c]
  /\ UNCHANGED <<env, cache, dead, history>>

\* The readers of a call, and the call once p no longer reads it.
Readers(c) == {p \in Callers : callers[p].pc = "wait" /\ callers[p].call = c}

Unread(c, p) == IF Readers(c) = {p} THEN [calls[c] EXCEPT !.ev = NoEvidence]
                                    ELSE calls[c]

\* A waiter reads the shared result.  A result that turned out to be a cache
\* hit goes through the status check of cached results.
Received(p) ==
  LET e == calls[callers[p].call].ev
  IN IF e = NoEvidence THEN IdleCaller
     ELSE [callers[p] EXCEPT
             !.pc = IF callers[p].want # "status" /\ e.state = "cached" THEN "hit" ELSE "return",
             !.call = NoCall, !.vd = e]

Wake(p) ==
  LET c == callers[p].call
  IN /\ callers[p].pc = "wait"
     /\ calls[c].pc = "done"
     /\ callers' = [callers EXCEPT ![p] = Received(p)]
     /\ calls' = [calls EXCEPT ![c] = Unread(c, p)]
     /\ UNCHANGED <<env, cache, dead, verifying, history>>

\* Mutant: the first waiter to leave cancels the work.
LeftCancelling(c) == [calls[c] EXCEPT !.waiters = @ - 1, !.cancelled = TRUE]

\* The waiter's own context ends first.  The last waiter to leave cancels the
\* shared work and detaches the call.
Left(c) ==
  LET last == calls[c].waiters = 1
  IN [calls[c] EXCEPT
        !.waiters = @ - 1,
        !.cancelled = @ \/ last,
        !.fate = IF last /\ verifying[calls[c].kind] = c THEN "abandoned" ELSE @]

LeaveRunning(p) ==
  LET c == callers[p].call
  IN /\ callers[p].pc = "wait"
     /\ calls[c].pc # "done"
     /\ callers' = [callers EXCEPT ![p] = IdleCaller]
     /\ calls' = [calls EXCEPT ![c] = Left(c)]
     /\ verifying' = [k \in Kinds |->
          IF verifying[k] = c /\ calls[c].waiters = 1 THEN NoCall ELSE verifying[k]]
     /\ UNCHANGED <<env, cache, dead, history>>

\* The result is there, but select picks the cancelled context.
LeaveFinished(p) ==
  LET c == callers[p].call
  IN /\ callers[p].pc = "wait"
     /\ calls[c].pc = "done"
     /\ callers' = [callers EXCEPT ![p] = IdleCaller]
     /\ calls' = [calls EXCEPT ![c] = Unread(c, p)]
     /\ UNCHANGED <<env, cache, dead, verifying, history>>

\* verifyDomain's deferred checks: freshness is rechecked on every return, and
\* evidence that went stale evicts whatever the cache holds by then.
Return(p) ==
  /\ callers[p].pc = "return"
  /\ callers' = [callers EXCEPT ![p] = IdleCaller]
  /\ IF Usable(callers[p].vd) THEN UNCHANGED <<cache, dead>> ELSE DropEntry
  /\ UNCHANGED <<env, verifying, calls, history>>

\* The caller's own policy or acceptance check refuses the evidence, or its
\* context is over: it returns an error and rechecks nothing.
ReturnError(p) ==
  /\ callers[p].pc \in {"hit", "return"}
  /\ callers' = [callers EXCEPT ![p] = IdleCaller]
  /\ UNCHANGED <<env, cache, dead, verifying, calls, history>>

\* Mutants: detached work is not superseded; nor invalidated.
DetachNotSuperseded(fate, c) ==
  IF verifying[calls[c].kind] = c
    THEN [calls[c] EXCEPT !.fate = fate, !.invalidated = @ \/ fate = "invalidated"]
    ELSE calls[c]
DetachOnly(fate, c) ==
  IF verifying[calls[c].kind] = c THEN [calls[c] EXCEPT !.fate = fate] ELSE calls[c]

\* EvictDomain.
Detach(fate, c) ==
  IF verifying[calls[c].kind] = c
    THEN [calls[c] EXCEPT !.superseded = TRUE, !.fate = fate,
                          !.invalidated = @ \/ fate = "invalidated"]
    ELSE calls[c]

EvictDomain ==
  /\ DropEntry
  /\ calls' = [c \in CallIds |-> Detach("evicted", c)]
  /\ verifying' = [k \in Kinds |-> NoCall]
  /\ evictedAt' = clock
  /\ UNCHANGED <<env, callers, observed, high>>

-----------------------------------------------------------------------------
(* The shared work of a call. *)

\* verifyReusableDomain's and refreshCachedStatusIfNeeded's look at the cache.
CacheServes(c) ==
  /\ Hit
  /\ \/ calls[c].kind = "lookup"
     \/ calls[c].kind = "status" /\ Interval > 0 /\ ~NeedsRefresh(cache)

ServeFromCache(c) ==
  /\ calls[c].pc = "start"
  /\ CacheServes(c)
  /\ calls' = [calls EXCEPT
       ![c].pc = "finish",
       ![c].ev = IF calls[c].cancelled THEN NoEvidence ELSE Snapshot]
  /\ UNCHANGED <<env, cache, dead, verifying, callers, history>>

\* A new acquisition: dnsAcquiredAt is taken before the lookup.
BeginAcquisition(c) ==
  /\ calls[c].pc = "start"
  /\ calls[c].kind # "status"
  /\ ~CacheServes(c)
  /\ \E ttl \in TTLs :
       calls' = [calls EXCEPT
         ![c].pc = "work",
         ![c].ev = [acq |-> clock, exp |-> clock + ttl, chk |-> 0,
                    flag |-> NoCall, state |-> "fresh", stray |-> FALSE]]
  /\ IF calls[c].kind = "lookup" THEN Get ELSE UNCHANGED <<cache, dead>>
  /\ UNCHANGED <<env, verifying, callers, history>>

\* A status refresh of the current entry, or of the initiator's snapshot.
BeginStatusRefresh(c) ==
  /\ calls[c].pc = "start"
  /\ calls[c].kind = "status"
  /\ ~CacheServes(c)
  /\ calls' = [calls EXCEPT ![c].pc = "work",
                            ![c].ev = IF Hit THEN Snapshot ELSE @]
  /\ Get
  /\ UNCHANGED <<env, verifying, callers, history>>

\* The work fails: DNS, DNSSEC policy, record, JWKS, signature, log evidence,
\* record policy, an unreachable or unreadable status endpoint, the shared
\* deadline, or the cancellation of the shared context.
WorkFails(c) ==
  /\ calls[c].pc \in {"work", "checked"}
  /\ calls' = [calls EXCEPT ![c].pc = "finish", ![c].ev = NoEvidence]
  /\ UNCHANGED <<env, cache, dead, verifying, callers, history>>

\* The status half reports ACTIVE; the identity half may still be running.
StatusActive(c) ==
  /\ calls[c].pc = "work"
  /\ active
  /\ calls' = [calls EXCEPT ![c].pc = "checked"]
  /\ UNCHANGED <<env, cache, dead, verifying, callers, history>>

\* invalidateNonActiveDomain, as soon as the status half reports.
StatusNotActive(c) ==
  /\ calls[c].pc = "work"
  /\ ~active
  /\ DropEntry
  /\ calls' = [d \in CallIds |->
       IF d = c THEN [Detach("invalidated", d) EXCEPT !.pc = "finish", !.ev = NoEvidence]
                ELSE Detach("invalidated", d)]
  /\ verifying' = [k \in Kinds |-> NoCall]
  /\ observed' = TRUE
  /\ UNCHANGED <<env, callers, evictedAt, high>>

\* lastStatusCheckAt is not read when every hit is rechecked.
Assembled(c) ==
  [calls[c].ev EXCEPT !.chk = IF Interval = 0 THEN 0 ELSE clock,
                      !.state = IF calls[c].kind = "status" THEN "refreshed" ELSE "fresh"]

\* Both halves are in: assemble, recheck freshness (stale evidence evicts what
\* the cache holds), then the shared context.
ReturnWork(c) ==
  /\ calls[c].pc = "checked"
  /\ ~calls[c].cancelled
  /\ IF Usable(Assembled(c))
       THEN /\ calls' = [calls EXCEPT ![c].pc = "finish", ![c].ev = Assembled(c)]
            /\ UNCHANGED <<cache, dead>>
       ELSE /\ calls' = [calls EXCEPT ![c].pc = "finish", ![c].ev = NoEvidence]
            /\ DropEntry
  /\ UNCHANGED <<env, verifying, callers, history>>

\* The last critical section of the worker goroutine.
Accepted(c) ==
  /\ ~calls[c].invalidated
  /\ calls[c].ev # NoEvidence

Publishes(c) ==
  /\ Accepted(c)
  /\ ~calls[c].superseded
  /\ calls[c].ev.acq >= calls[c].floor

\* Mutant: neither floor nor supersession.
FloorUnraised(c, d) == calls[d]

\* What a publishing call c does to call d of the map.
RaiseFloor(c, d) ==
  [calls[d] EXCEPT
     !.floor = IF calls[c].ev.acq > @ THEN calls[c].ev.acq ELSE @,
     !.superseded = @ \/ (calls[c].kind # "status" /\ calls[d].startedAt < calls[c].startedAt)]

AfterPublish(c, d) ==
  IF Publishes(c) /\ verifying[calls[d].kind] = d THEN RaiseFloor(c, d) ELSE calls[d]

\* The call as its waiters find it.
Finished(c) ==
  [DoneCall EXCEPT
     !.ev = IF Accepted(c) /\ Readers(c) # {} THEN calls[c].ev ELSE NoEvidence]

\* Mutant: a superseded worker returns without closing call.done.
CompleteUnlessSuperseded(c) ==
  /\ calls[c].pc = "finish"
  /\ ~calls[c].superseded
  /\ IF Publishes(c) THEN Put(c, calls[c].ev) ELSE UNCHANGED <<cache, dead, high>>
  /\ calls' = [d \in CallIds |-> IF d = c THEN Finished(c) ELSE AfterPublish(c, d)]
  /\ verifying' = [k \in Kinds |-> IF verifying[k] = c THEN NoCall ELSE verifying[k]]
  /\ UNCHANGED <<env, callers, observed, evictedAt>>

Complete(c) ==
  /\ calls[c].pc = "finish"
  /\ IF Publishes(c) THEN Put(c, calls[c].ev) ELSE UNCHANGED <<cache, dead, high>>
  /\ calls' = [d \in CallIds |-> IF d = c THEN Finished(c) ELSE AfterPublish(c, d)]
  /\ verifying' = [k \in Kinds |-> IF verifying[k] = c THEN NoCall ELSE verifying[k]]
  /\ UNCHANGED <<env, callers, observed, evictedAt>>

-----------------------------------------------------------------------------
(* The environment. *)

Tick ==
  /\ clock < MaxTime
  /\ clock' = clock + 1
  /\ UNCHANGED <<active, cache, dead, verifying, calls, callers, ops, history>>

\* The status endpoint stops reporting ACTIVE, for good: the identity is revoked
\* or retired.
Revoke ==
  /\ active
  /\ active' = FALSE
  /\ UNCHANGED <<clock, cache, dead, verifying, calls, callers, ops, history>>

\* A put for another domain finds the cache full and picks this entry.
CapacityEviction ==
  /\ cache # NoEvidence
  /\ DropEntry
  /\ UNCHANGED <<env, verifying, calls, callers, history>>

CallerStep(p) ==
  \/ StartVerify(p)
  \/ StartRefresh(p)
  \/ DecideHit(p)
  \/ Join(p)
  \/ Wake(p)
  \/ LeaveRunning(p)
  \/ LeaveFinished(p)
  \/ Return(p)
  \/ ReturnError(p)

WorkerStep(c) ==
  \/ ServeFromCache(c)
  \/ BeginAcquisition(c)
  \/ BeginStatusRefresh(c)
  \/ WorkFails(c)
  \/ StatusActive(c)
  \/ StatusNotActive(c)
  \/ ReturnWork(c)
  \/ Complete(c)

Next ==
  \/ \E p \in Callers : CallerStep(p)
  \/ \E c \in CallIds : WorkerStep(c)
  \/ EvictDomain
  \/ Tick
  \/ Revoke
  \/ CapacityEviction

Spec == Init /\ [][Next]_vars

\* Goroutines are scheduled, every fetch ends by the shared deadline, and a
\* caller proceeds when what it waits for is there.
Fairness ==
  /\ \A c \in CallIds : WF_vars(WorkerStep(c))
  /\ \A p \in Callers :
       WF_vars(DecideHit(p) \/ Join(p) \/ Wake(p) \/ Return(p))

FairSpec == Spec /\ Fairness

-----------------------------------------------------------------------------
(* Properties. *)

\* Every snapshot of the cache entry that a caller or a worker still holds.
HeldEvidence ==
  {callers[p].vd : p \in Callers} \cup {calls[c].ev : c \in CallIds}

\* The fence of cache.go: a snapshot whose cacheInvalidated cell is still
\* false shares the cell of the entry now in the cache.  So no put of a
\* delayed status refresh can bring back an entry that was evicted, expired,
\* displaced for capacity or replaced.
FenceExact ==
  \A e \in HeldEvidence \ {NoEvidence} :
    e.flag # NoCall /\ e.flag \notin dead
      => cache # NoEvidence /\ cache.flag = e.flag

\* What makes the invariants inductive.  A call in the map is running, has the
\* kind it is filed under and is not cancelled; waiters counts the callers that
\* wait; work under way has evidence to work on.
Running(c) == calls[c].pc \in {"start", "work", "checked", "finish"}

CallOK(c) ==
  /\ Running(c) => calls[c].waiters = Cardinality(Readers(c))
  /\ Running(c) /\ calls[c].cancelled => calls[c].waiters = 0
  /\ calls[c].pc \in {"work", "checked"} => calls[c].ev # NoEvidence
  /\ calls[c].pc = "start" /\ calls[c].kind = "status" => calls[c].ev # NoEvidence

CallerOK(p) ==
  /\ callers[p].pc = "wait" =>
       callers[p].call \in CallIds /\ calls[callers[p].call].pc # "none"
  /\ callers[p].pc \in {"hit", "return"} => callers[p].vd # NoEvidence
  /\ callers[p].pc = "join" /\ callers[p].want = "status" => callers[p].vd # NoEvidence

MapOK(k) ==
  verifying[k] # NoCall =>
    /\ Running(verifying[k])
    /\ calls[verifying[k]].kind = k
    /\ ~calls[verifying[k]].cancelled

Structure ==
  /\ TypeOK
  /\ \A c \in CallIds : CallOK(c)
  /\ \A p \in Callers : CallerOK(p)
  /\ \A k \in Kinds : MapOK(k)

\* A cacheInvalidated cell belongs to a finished call; evidence that carries
\* one shares it with the cache entry or finds it set.
Fenced(e) ==
  e # NoEvidence /\ e.flag # NoCall =>
    /\ calls[e.flag].pc = "done"
    /\ e.flag \in dead \/ (cache # NoEvidence /\ cache.flag = e.flag)

EntryFenced ==
  /\ cache # NoEvidence =>
       cache.flag # NoCall /\ cache.flag \notin dead /\ calls[cache.flag].pc = "done"
  /\ \A f \in dead : calls[f].pc = "done"

Fences ==
  /\ EntryFenced
  /\ \A p \in Callers : Fenced(callers[p].vd)
  /\ \A c \in CallIds : Fenced(calls[c].ev)

\* The inductive invariant behind the two theorems about the fence and about
\* cancellation.
Inv == Structure /\ Fences

\* EvictDomain forces re-verification: what the cache holds was acquired after
\* the last EvictDomain, whatever lookups, refreshes and status refreshes were
\* in flight.  The exception is the store of an abandoned call.
EvictionFences ==
  cache # NoEvidence /\ ~cache.stray => cache.acq >= evictedAt

\* An observed non-ACTIVE status (invalidateNonActiveDomain) leaves no ACTIVE
\* evidence in the cache, and none is stored later by work that had read the
\* status before.  The exception is the store of an abandoned call.
NonActiveFences ==
  observed /\ cache # NoEvidence => cache.stray

\* Once evidence acquired at some time has been stored, nothing acquired
\* earlier is stored again, not even after the newer entry is gone
\* (acquisitionFloor and superseded in coalesceVerification).  The exception is
\* the store of an abandoned call.
StoredNeverRegresses ==
  [][cache' # cache /\ cache' # NoEvidence => cache'.stray \/ cache'.acq >= high]_vars

\* A caller that stops waiting never cancels work another caller waits for.
LeavingCancelsOnlyOwnWork ==
  \A p \in Callers :
    callers[p].pc = "wait" /\ calls[callers[p].call].pc # "done"
      => ~calls[callers[p].call].cancelled

\* Work that was attached when a non-ACTIVE status was observed never succeeds
\* afterwards: only a call that EvictDomain or its last waiter had already
\* detached can still complete with ACTIVE evidence, or one that was served what
\* such an abandoned call had stored.
InFlightFences ==
  [][\A c \in CallIds :
       observed /\ calls[c].pc = "finish" /\ calls'[c].pc = "done"
                /\ calls'[c].ev # NoEvidence
         => calls[c].fate \in {"evicted", "abandoned"} \/ calls[c].ev.stray]_vars

\* A VerifyDomain or RefreshDomain call that begins after EvictDomain gets
\* evidence acquired after it, as long as it does not take part in a shared
\* status refresh.  The exception is what an abandoned call stored.
EvictionReachesCallers ==
  \A p \in Callers :
    callers[p].pc \in {"hit", "return"} /\ callers[p].want # "status"
      => callers[p].vd.stray \/ callers[p].vd.acq >= callers[p].after

\* What EvictDomain or an observed non-ACTIVE status has removed is not in the
\* cache again, whatever lookups, refreshes and status refreshes were in flight
\* (EvictDomain, invalidateNonActiveDomain).
RemovedStaysRemoved == EvictionFences /\ NonActiveFences

\* Nothing is stored that was acquired before what has been stored, and work in
\* flight hands no ACTIVE evidence to its waiters after a non-ACTIVE status was
\* observed, outside the named exceptions (coalesceVerification).
NothingComesBack == StoredNeverRegresses /\ InFlightFences

\* RefreshDomain's documentation: an observed non-ACTIVE status invalidates
\* cached evidence.  Stated without the exception for abandoned calls.
NonActiveLeavesNoCachedEvidence == observed => cache = NoEvidence

\* RefreshDomain's documentation: an observed non-ACTIVE status invalidates
\* in-flight evidence.  No caller that still waits is handed evidence by a call
\* that completes after the observation.
NonActiveInvalidatesInFlight ==
  [][\A c \in CallIds :
       observed /\ calls[c].pc = "finish" /\ calls'[c].pc = "done"
         => calls'[c].ev = NoEvidence]_vars

\* EvictDomain's documentation: the next call performs a full re-verification.
\* A VerifyDomain call that begins after EvictDomain, and meets no evidence of
\* an abandoned call, returns evidence acquired after the eviction.
EvictForcesReverification ==
  \A p \in Callers :
    callers[p].pc = "return" => callers[p].vd.stray \/ callers[p].vd.acq >= callers[p].after

\* Every caller that waits for shared work stops waiting.
WaitersReturn ==
  \A p \in Callers : callers[p].pc = "wait" ~> callers[p].pc # "wait"
=============================================================================
