---------------------------- MODULE RefreshLimiter ----------------------------
(***************************************************************************)
(* The limiter in front of forced identity refreshes: allowKeyRefresh       *)
(* (webbotauth/rotation.go) and allowSignatureFailureRefresh (jose/jose.go) *)
(* are the same code with another window.  A table maps a domain to the     *)
(* time until which it may not be refreshed again.                          *)
(***************************************************************************)
EXTENDS Naturals, FiniteSets, Functions

CONSTANTS Window,    \* 5 s in webbotauth, 30 s in jose
          Capacity   \* 1024 domains in both

\* Mutant: the entry's last instant still counts.
LiveAtEnd(at, t) == {d \in DOMAIN at : t <= at[d]}

Until(t) == t + Window

Live(at, t) == {d \in DOMAIN at : t < at[d]}

Full(at, t) == Cardinality(Live(at, t)) >= Capacity

\* The answer ...
AllowRefresh(at, d, t) == d \notin Live(at, t) /\ ~Full(at, t)

\* ... and the table after it: a refusal for the domain itself comes before
\* the entries that have run out are dropped.
AfterAsking(at, d, t) ==
    IF d \in Live(at, t) THEN at
    ELSE LET kept == Restrict(at, Live(at, t))
         IN IF Full(at, t) THEN kept
            ELSE [e \in DOMAIN kept \cup {d} |-> IF e = d THEN Until(t) ELSE kept[e]]
=============================================================================
