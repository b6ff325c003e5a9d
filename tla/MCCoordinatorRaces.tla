------------------------- MODULE MCCoordinatorRaces -------------------------
(* The races of VerificationCoordinator over a warm cache entry, with every hit
   rechecked (StatusCheckInterval 0) and with hits that are served unchecked
   while the last check is recent (StatusCheckInterval 1). *)
EXTENDS MCVerificationCoordinator

\* The StatusCheckInterval of the behaviour.
VARIABLE interval

Timed == INSTANCE VerificationCoordinator WITH Interval <- 1, TTLs <- TTLs \ {0}

RaceInit == WarmInit /\ interval \in {Interval, 1}

RaceNext ==
  \/ interval = Interval /\ Next /\ UNCHANGED interval
  \/ interval = 1 /\ Timed!Next /\ UNCHANGED interval

RaceSpec == RaceInit /\ [][RaceNext]_<<vars, interval>>
=============================================================================
