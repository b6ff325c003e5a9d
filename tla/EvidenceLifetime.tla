--------------------------- MODULE EvidenceLifetime ---------------------------
(***************************************************************************)
(* How long evidence about a domain is used: the record behind a CNAME in   *)
(* DNS, a recursive resolver that caches both, the TTLs that the SDK takes  *)
(* from the replies its stub resolver sees (dns_ttl.go), the expiry of the  *)
(* evidence and the checks of its freshness.                                *)
(*                                                                         *)
(* A target of the alias holds one version of the record; a version's       *)
(* operational key is bound in the log when the version is published.       *)
(***************************************************************************)
EXTENDS Integers, FiniteSets, FiniteSetsExt

CONSTANTS Targets,
          RecordTTL, AliasTTL,
          KeyAges,      \* the values of ka=, 0 for none
          Lifetimes,    \* how long certificates are valid when they are fetched
          MaxVersions, MaxTime,
          None

VARIABLES now,
          zone,       \* the authoritative alias and the version at each target
          publishedAt, goneAt,  \* of each version
          recursive,  \* what the recursive resolver has cached, with its expiry
          lookup,     \* the lookup in progress: its start, TTLs and last value
          cache,      \* the evidence in the identity cache
          used        \* the last use of evidence

vars == <<now, zone, publishedAt, goneAt, recursive, lookup, cache, used>>

Versions == 1 .. MaxVersions
Never == MaxTime + RecordTTL + AliasTTL + 1
Current(z) == z.at[z.alias]

(* Mutants. *)
AliasIgnored(txt, alias) == txt

-----------------------------------------------------------------------------
(* DNS: external *)

\* When each version stopped being the current one, if z follows zone.
GoneWith(z) == [v \in Versions |-> CASE v = Current(z) -> Never
                                     [] v = Current(zone) /\ v # Current(z) -> now
                                     [] OTHER -> goneAt[v]]

Published == {v \in Versions : publishedAt[v] # None}

Publish ==
    /\ Published # Versions
    /\ \E t \in Targets : LET v == Cardinality(Published) + 1
                              z == [zone EXCEPT !.at[t] = v]
                          IN  /\ zone' = z
                              /\ publishedAt' = [publishedAt EXCEPT ![v] = now]
                              /\ goneAt' = [GoneWith(z) EXCEPT ![v] = IF v = Current(z) THEN Never ELSE now]
    /\ UNCHANGED <<now, recursive, lookup, cache, used>>

SwitchAlias ==
    /\ \E t \in Targets \ {zone.alias} : LET z == [zone EXCEPT !.alias = t] IN zone' = z /\ goneAt' = GoneWith(z)
    /\ UNCHANGED <<now, publishedAt, recursive, lookup, cache, used>>

\* The resolver answers from its cache, after fetching what has expired.
Refreshed ==
    LET alias == IF recursive.alias.until > now THEN recursive.alias ELSE [target |-> zone.alias, until |-> now + AliasTTL]
        txt == recursive.txt[alias.target]
    IN  [alias |-> alias,
         txt |-> IF txt.until > now THEN recursive.txt
                 ELSE [recursive.txt EXCEPT ![alias.target] = [version |-> zone.at[alias.target], until |-> now + RecordTTL]]]

-----------------------------------------------------------------------------
(* netDNSResolver.FetchTXT *)

\* txtTTLCapture.observe: the alias cannot be trusted longer than its CNAME.
ReplyTTL(txt, alias) == Min({txt, alias})

\* Lookup start is conservative.
AcquiredAt == lookup.start

StartLookup ==
    /\ lookup = None
    /\ lookup' = [start |-> now, ttls |-> [v \in Versions |-> None], value |-> None]
    /\ UNCHANGED <<now, zone, publishedAt, goneAt, recursive, cache, used>>

\* One reply, of possibly several: the least TTL of each value is kept.
ObserveReply ==
    /\ lookup # None
    /\ recursive' = Refreshed
    /\ LET txt == Refreshed.txt[Refreshed.alias.target]
           ttl == ReplyTTL(txt.until - now, Refreshed.alias.until - now)
       IN  lookup' = [lookup EXCEPT !.value = txt.version,
                                    !.ttls[txt.version] = IF @ = None \/ ttl < @ THEN ttl ELSE @]
    /\ UNCHANGED <<now, zone, publishedAt, goneAt, cache, used>>

\* A resolver injected by the caller may report no lifetime at all.
ReportedTTLs == {lookup.ttls[lookup.value], 0}

-----------------------------------------------------------------------------
(* The evidence *)

\* verifiedDomainExpiry
Expiry(e) == Min({e.acquired + e.ttl, e.notAfter} \cup (IF e.keyAge > 0 THEN {publishedAt[e.version] + e.keyAge} ELSE {}))

\* requireFreshIdentityEvidence
Fresh(e, freshDNS) ==
    /\ now < e.notAfter
    /\ e.keyAge > 0 => now < publishedAt[e.version] + e.keyAge
    /\ IF e.ttl > 0 THEN now < e.acquired + e.ttl ELSE freshDNS

Use(e, fresh) == used' = [version |-> e.version, at |-> now, fresh |-> fresh, acquired |-> e.acquired, ttl |-> e.ttl]

\* The rest of the verification: the key's age, the certificates, freshness;
\* then the result is used and stored, unless it may not outlive the call.
FinishVerification ==
    /\ lookup # None /\ lookup.value # None
    /\ \E ttl \in ReportedTTLs, keyAge \in KeyAges, life \in Lifetimes :
         LET e == [version |-> lookup.value, acquired |-> AcquiredAt, ttl |-> ttl,
                   keyAge |-> keyAge, notAfter |-> now + life]
         IN  IF Fresh(e, TRUE)
             THEN Use(e, TRUE) /\ cache' = IF now < Expiry(e) /\ ttl > 0 THEN e ELSE None
             ELSE cache' = None /\ UNCHANGED used
    /\ lookup' = None
    /\ UNCHANGED <<now, zone, publishedAt, goneAt, recursive>>

UseCached ==
    /\ cache # None
    /\ IF now < Expiry(cache) /\ Fresh(cache, FALSE) THEN Use(cache, FALSE) /\ UNCHANGED cache
                                                      ELSE cache' = None /\ UNCHANGED used
    /\ UNCHANGED <<now, zone, publishedAt, goneAt, recursive, lookup>>

Tick == now < MaxTime /\ now' = now + 1 /\ UNCHANGED <<zone, publishedAt, goneAt, recursive, lookup, cache, used>>

Init ==
    /\ now = 0
    /\ \E t \in Targets :
         /\ zone = [alias |-> t, at |-> [u \in Targets |-> 1]]
         /\ recursive = [alias |-> [target |-> t, until |-> 0], txt |-> [u \in Targets |-> [version |-> 1, until |-> 0]]]
    /\ publishedAt = [v \in Versions |-> IF v = 1 THEN 0 ELSE None]
    /\ goneAt = [v \in Versions |-> Never]
    /\ lookup = None /\ cache = None /\ used = None

Next == Publish \/ SwitchAlias \/ StartLookup \/ ObserveReply \/ FinishVerification \/ UseCached \/ Tick

Spec == Init /\ [][Next]_vars

-----------------------------------------------------------------------------
(* Properties *)

MaxTTL == Max({RecordTTL, AliasTTL})

\* A record that the domain's owner has replaced, in place or by pointing the
\* alias elsewhere, is not used once the longer of the two TTLs has passed.  A
\* lifetime of zero only serves the operation that looked it up.
WithdrawnNotUsed ==
    used # None => LET end == goneAt[used.version] + MaxTTL
                   IN  used.at < end \/ (used.fresh /\ used.ttl = 0 /\ used.acquired < end)

\* The expiry of stored evidence, computed once, is exactly the time at which
\* the freshness check begins to refuse it: the cache neither serves evidence
\* that is then refused nor drops evidence that is still good.
HitIffFresh == cache # None => (now < Expiry(cache) <=> Fresh(cache, FALSE))
=============================================================================
