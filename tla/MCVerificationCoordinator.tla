--------------------- MODULE MCVerificationCoordinator ---------------------
(* Model-checking instances of VerificationCoordinator. *)
EXTENDS VerificationCoordinator, TLC

CallerSymmetry == Permutations(Callers)

\* A state Init reaches: the first verification has run alone to its end, and
\* call 1 has left its evidence in the cache.
WarmInit ==
  /\ clock = 0
  /\ active = TRUE
  /\ \E ttl \in TTLs \ {0} :
       cache = [acq |-> 0, exp |-> ttl, chk |-> 0, flag |-> 1,
                state |-> "fresh", stray |-> FALSE]
  /\ dead = {}
  /\ verifying = [k \in Kinds |-> NoCall]
  /\ calls = [c \in CallIds |-> IF c = 1 THEN DoneCall ELSE BlankCall]
  /\ callers = [p \in Callers |-> IdleCaller]
  /\ ops = 1
  /\ observed = FALSE
  /\ evictedAt = 0
  /\ high = 0

\* A later state: one caller has hit that entry and decided to recheck its
\* status, and EvictDomain has run at time 1, before the caller joins the work.
EvictedInit ==
  /\ clock = 1
  /\ active = TRUE
  /\ cache = NoEvidence
  /\ dead = {1}
  /\ verifying = [k \in Kinds |-> NoCall]
  /\ calls = [c \in CallIds |-> IF c = 1 THEN DoneCall ELSE BlankCall]
  /\ \E q \in Callers, ttl \in TTLs \ {0} :
       callers = [p \in Callers |->
         IF p # q THEN IdleCaller
         ELSE [IdleCaller EXCEPT !.pc = "join", !.want = "status",
                 !.vd = [acq |-> 0, exp |-> ttl, chk |-> 0, flag |-> 1,
                         state |-> "cached", stray |-> FALSE]]]
  /\ ops = 2
  /\ observed = FALSE
  /\ evictedAt = 1
  /\ high = 0

WarmSpec == WarmInit /\ [][Next]_vars
EvictedSpec == EvictedInit /\ [][Next]_vars
=============================================================================
