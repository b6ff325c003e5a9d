--------------------------- MODULE LimitedRefreshes ---------------------------
(***************************************************************************)
(* The limiter as a machine: verifications of several domains ask it at    *)
(* any time.                                                                *)
(***************************************************************************)
EXTENDS RefreshLimiter

CONSTANTS Domains, MaxTime, None

VARIABLES retryAt, now, last   \* last: when each domain was last allowed a refresh

vars == <<retryAt, now, last>>

Init == retryAt = <<>> /\ now = 0 /\ last = [d \in Domains |-> None]

Ask(d) ==
    /\ retryAt' = AfterAsking(retryAt, d, now)
    /\ last' = IF AllowRefresh(retryAt, d, now) THEN [last EXCEPT ![d] = now] ELSE last
    /\ UNCHANGED now

Tick == now < MaxTime /\ now' = now + 1 /\ UNCHANGED <<retryAt, last>>

Next == Tick \/ \E d \in Domains : Ask(d)

Spec == Init /\ [][Next]_vars

\* The domains refreshed within the window, by the history of what was allowed.
Recent == {d \in Domains : last[d] # None /\ now < last[d] + Window}

\* The table remembers exactly the refreshes of the last window and never
\* outgrows its capacity; a domain is refused if and only if it was refreshed
\* within the window, or Capacity others were (allowKeyRefresh).
LimiterExact ==
    /\ Live(retryAt, now) = Recent
    /\ Cardinality(DOMAIN retryAt) <= Capacity
    /\ \A d \in Domains : AllowRefresh(retryAt, d, now) <=> d \notin Recent /\ Cardinality(Recent) < Capacity
=============================================================================
