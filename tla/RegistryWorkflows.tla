-------------------------- MODULE RegistryWorkflows --------------------------
(***************************************************************************)
(* The workflows a client runs against the registry (registry.go) while    *)
(* the registry, the DNS and the client's own keys change under them:      *)
(* WaitForRegistryStatus and AwaitRegistryManagedPublication poll, and      *)
(* PublishClientControlledRecord takes four calls, between which the        *)
(* entity key may be rotated and the registry may prepare other content.    *)
(*                                                                         *)
(* A call of a workflow is a step: it reads the registry's answer and      *)
(* acts on it.  Verification of the published record is reduced to the     *)
(* cache entry of the domain, one other full verification in flight and    *)
(* another caller's status refresh; VerificationCoordinator has the rest.  *)
(***************************************************************************)
EXTENDS Naturals, FiniteSets

CONSTANTS Targets,    \* the statuses WaitForRegistryStatus is asked for
          Kids,       \* the entity keys of the client
          Tags,       \* values of a record's known tags
          Local,      \* those of the local identity's unsigned record
          Versions,   \* DNSid versions
          Profile,    \* the version the client publishes
          None

VARIABLES status,     \* registry: the workflow status of the agent
          authority,  \* registry: who signs the record
          prepared,   \* registry: the canonical content it would hand out
          dns,        \* the version of the record in the DNS, or None
          active,     \* the client's active entity key
          wait,       \* WaitForRegistryStatus
          await,      \* AwaitRegistryManagedPublication
          publish,    \* PublishClientControlledRecord
          submitted,  \* the signatures handed to PublishSignature
          cache,      \* the cached verification of the client's own domain
          other,      \* another full verification of the domain in flight
          refresh     \* another caller that hit the cache, and its status refresh

registryVars == <<status, authority, prepared, dns>>
verifyVars   == <<cache, other, refresh>>
vars == <<registryVars, active, wait, await, publish, submitted, verifyVars>>

Failures == {"REJECTED", "CANCELLED", "ERROR", "FAILED", "RETIRED", "REVOKED"}

(* Mutants. *)
TerminalNotReady(s) == s \in Failures \cup {"ACTIVE"}
EvictKeepsOther == cache' = None /\ UNCHANGED <<other, refresh>>

IsTerminalRegistryStatus(s) == s \in {"READY", "ACTIVE"} \cup Failures
AwaitFails(s) == s \in Failures

Idle(outcome) == [pc |-> "idle", outcome |-> outcome]

Content == [tags : Tags, version : Versions, kid : Kids]

Init ==
    /\ status = "PENDING"
    /\ authority \in {"client", "registry"}
    /\ prepared \in Content
    /\ dns \in Versions \cup {None}
    /\ active \in Kids
    /\ wait = Idle(None) /\ await = Idle(None) /\ publish = Idle(None)
    /\ submitted = {}
    /\ cache = None /\ other = None /\ refresh = None

-----------------------------------------------------------------------------
(* The registry, the DNS and the key provider: they move at any time. *)

After(s) == CASE s = "PENDING" -> {"READY"} \cup Failures
              [] s = "READY"   -> {"ACTIVE", "REVOKED", "RETIRED"}
              [] s = "ACTIVE"  -> {"REVOKED", "RETIRED"}
              [] OTHER         -> {}

RegistryAdvances ==
    /\ status' \in After(status)
    /\ UNCHANGED <<authority, prepared, dns, active, wait, await, publish, submitted, verifyVars>>

RegistryPrepares ==
    /\ prepared' \in Content
    /\ UNCHANGED <<status, authority, dns, active, wait, await, publish, submitted, verifyVars>>

\* A record read from the DNS before it changed is no longer fresh: the wait
\* that has seen the publication remembers it as one of the records since.
DNSChanges ==
    /\ dns' \in Versions
    /\ await' = IF await.pc \in {"evict", "verify", "hit"} THEN [await EXCEPT !.since = @ \cup {dns'}] ELSE await
    /\ UNCHANGED <<status, authority, prepared, active, wait, publish, submitted, verifyVars>>

AuthorityChanges ==
    /\ authority' \in {"client", "registry"}
    /\ UNCHANGED <<status, prepared, dns, active, wait, await, publish, submitted, verifyVars>>

Activate ==
    /\ active' \in Kids
    /\ UNCHANGED <<registryVars, wait, await, publish, submitted, verifyVars>>

-----------------------------------------------------------------------------
(* Another caller's verification of the domain: it reads the DNS, and puts  *)
(* what it read into the cache unless it was superseded meanwhile.          *)

OtherReads ==
    /\ other = None /\ cache = None /\ dns # None
    /\ other' = [record |-> dns, superseded |-> FALSE]
    /\ UNCHANGED <<registryVars, active, wait, await, publish, submitted, cache, refresh>>

OtherEnds ==
    /\ other # None
    /\ other' = None
    /\ cache' = IF other.superseded THEN cache ELSE other.record
    /\ UNCHANGED <<registryVars, active, wait, await, publish, submitted, refresh>>

\* Another caller finds the entry in the cache and keeps a copy of it.
OtherHits ==
    /\ refresh = None /\ cache # None
    /\ refresh' = [pc |-> "hit", record |-> cache, overtaken |-> FALSE]
    /\ UNCHANGED <<registryVars, active, wait, await, publish, submitted, cache, other>>

\* It starts a status refresh, which others may join from now on.
RefreshStarts ==
    /\ refresh # None /\ refresh.pc = "hit"
    /\ refresh' = [refresh EXCEPT !.pc = "started"]
    /\ UNCHANGED <<registryVars, active, wait, await, publish, submitted, cache, other>>

\* The refresh works on the entry in the cache, or else on the caller's copy.
Refreshed == IF cache # None THEN cache ELSE refresh.record

RefreshReads ==
    /\ refresh # None /\ refresh.pc = "started"
    /\ refresh' = [refresh EXCEPT !.pc = "running", !.record = Refreshed]
    /\ UNCHANGED <<registryVars, active, wait, await, publish, submitted, cache, other>>

\* It ends.  Its evidence is that of the entry, or an entry that was removed
\* and is marked so: the record in the cache stays as it is.
RefreshEnds ==
    /\ refresh # None /\ refresh.pc # "hit"
    /\ refresh' = None
    /\ UNCHANGED <<registryVars, active, wait, await, publish, submitted, cache, other>>

\* The entry's lifetime ends; a refresh of a copy of it fails.
CacheExpires ==
    /\ cache # None
    /\ cache' = None
    /\ refresh' = IF refresh # None /\ ~refresh.overtaken THEN None ELSE refresh
    /\ UNCHANGED <<registryVars, active, wait, await, publish, submitted, other>>

\* A status refresh in flight is detached; a caller that has a copy of the entry
\* and has not started one yet is not noticed.
EvictOwnDomain ==
    /\ cache' = None
    /\ other' = IF other = None THEN None ELSE [other EXCEPT !.superseded = TRUE]
    /\ refresh' = IF refresh # None /\ refresh.pc = "hit" THEN [refresh EXCEPT !.overtaken = TRUE] ELSE None

-----------------------------------------------------------------------------
(* WaitForRegistryStatus *)

StartWait ==
    /\ wait.pc = "idle"
    /\ wait' = [pc |-> "poll"]
    /\ UNCHANGED <<registryVars, active, await, publish, submitted, verifyVars>>

PollStatus ==
    /\ wait.pc = "poll"
    /\ \/ status \in Targets /\ wait' = Idle([status |-> status, err |-> FALSE])
       \/ /\ status \notin Targets /\ IsTerminalRegistryStatus(status)
          /\ wait' = Idle([status |-> status, err |-> TRUE])
       \/ /\ status \notin Targets /\ ~IsTerminalRegistryStatus(status)
          /\ wait' = [pc |-> "sleep"]
    /\ UNCHANGED <<registryVars, active, await, publish, submitted, verifyVars>>

\* time.After(interval).
WaitInterval ==
    /\ wait.pc = "sleep"
    /\ wait' = [pc |-> "poll"]
    /\ UNCHANGED <<registryVars, active, await, publish, submitted, verifyVars>>

\* The call fails, or the context ends during the call or the interval.
WaitInterrupted ==
    /\ wait.pc # "idle"
    /\ wait' = Idle(None)
    /\ UNCHANGED <<registryVars, active, await, publish, submitted, verifyVars>>

-----------------------------------------------------------------------------
(* AwaitRegistryManagedPublication *)

StartAwait ==
    /\ await.pc = "idle"
    /\ await' = [pc |-> "poll", since |-> {}]
    /\ UNCHANGED <<registryVars, active, wait, publish, submitted, verifyVars>>

PollRegistration ==
    /\ await.pc = "poll"
    /\ await' = IF authority # "registry" \/ AwaitFails(status)
                THEN Idle(None)
                ELSE IF status = "READY" /\ dns # None
                THEN [pc |-> "evict", since |-> {dns}]
                ELSE [await EXCEPT !.pc = "sleep"]
    /\ UNCHANGED <<registryVars, active, wait, publish, submitted, verifyVars>>

AwaitInterval ==
    /\ await.pc = "sleep"
    /\ await' = [await EXCEPT !.pc = "poll"]
    /\ UNCHANGED <<registryVars, active, wait, publish, submitted, verifyVars>>

AwaitEvicts ==
    /\ await.pc = "evict"
    /\ await' = [await EXCEPT !.pc = "verify"]
    /\ EvictOwnDomain
    /\ UNCHANGED <<registryVars, active, wait, publish, submitted>>

\* verifyDomain answers from the cache, from a verification in flight that
\* has not been superseded, or from the DNS.
Verified == IF cache # None THEN cache
            ELSE IF other # None /\ ~other.superseded THEN other.record
            ELSE dns

\* The version of the record is the one that the client publishes.
Confirm(record, overtaken) ==
    Idle(IF record = Profile
         THEN [record |-> record, since |-> await.since, overtaken |-> overtaken]
         ELSE None)

\* A hit whose status was checked a while ago needs a status refresh first.
AwaitVerifies ==
    /\ await.pc = "verify"
    /\ \/ await' = Confirm(Verified, FALSE)
       \/ cache # None /\ await' = [await EXCEPT !.pc = "hit"]
    /\ UNCHANGED <<registryVars, active, wait, publish, submitted, verifyVars>>

\* It joins the refresh in flight, or starts one on the entry.
AwaitRefreshes ==
    /\ await.pc = "hit"
    /\ IF refresh # None /\ refresh.pc # "hit"
       THEN \E record \in {refresh.record, IF refresh.pc = "started" THEN Refreshed ELSE refresh.record} :
              await' = Confirm(record, refresh.overtaken)
       ELSE cache # None /\ await' = Confirm(cache, FALSE)
    /\ UNCHANGED <<registryVars, active, wait, publish, submitted, verifyVars>>

\* A call or the verification fails, or the context ends.
AwaitInterrupted ==
    /\ await.pc \in {"poll", "sleep", "verify", "hit"}
    /\ await' = Idle(None)
    /\ UNCHANGED <<registryVars, active, wait, publish, submitted, verifyVars>>

-----------------------------------------------------------------------------
(* PublishClientControlledRecord *)

StartPublish ==
    /\ publish.pc = "idle"
    /\ publish' = IF authority = "client" THEN [pc |-> "kid"] ELSE Idle(None)
    /\ UNCHANGED <<registryVars, active, wait, await, submitted, verifyVars>>

ActiveSigningKid ==
    /\ publish.pc = "kid"
    /\ publish' = [pc |-> "content", kid |-> active]
    /\ UNCHANGED <<registryVars, active, wait, await, submitted, verifyVars>>

Acceptable(c, kid) == c.kid = kid /\ c.version = Profile /\ c.tags = Local

CanonicalRecordContent ==
    /\ publish.pc = "content"
    /\ publish' = IF Acceptable(prepared, publish.kid)
                  THEN [pc |-> "sign", kid |-> publish.kid, content |-> prepared]
                  ELSE Idle(None)
    /\ UNCHANGED <<registryVars, active, wait, await, submitted, verifyVars>>

\* Sign uses the key that is active now; its kid must be the one the content
\* was prepared for.
SignedWith(kid) == active = kid

SignContent ==
    /\ publish.pc = "sign"
    /\ publish' = IF SignedWith(publish.kid)
                  THEN [pc |-> "submit", kid |-> active, content |-> publish.content]
                  ELSE Idle(None)
    /\ UNCHANGED <<registryVars, active, wait, await, submitted, verifyVars>>

\* The registry receives the signature, whether or not its answer arrives.
PublishSignature ==
    /\ publish.pc = "submit"
    /\ submitted' = submitted \cup {[kid |-> publish.kid, content |-> publish.content]}
    /\ publish' \in {Idle(None), Idle("published")}
    /\ UNCHANGED <<registryVars, active, wait, await, verifyVars>>

PublishFails ==
    /\ publish.pc # "idle"
    /\ publish' = Idle(None)
    /\ UNCHANGED <<registryVars, active, wait, await, submitted, verifyVars>>

-----------------------------------------------------------------------------
Environment == RegistryAdvances \/ RegistryPrepares \/ DNSChanges \/ AuthorityChanges \/ Activate
Others      == OtherReads \/ OtherEnds \/ OtherHits \/ RefreshStarts \/ RefreshReads \/ RefreshEnds \/ CacheExpires
Wait        == StartWait \/ PollStatus \/ WaitInterval \/ WaitInterrupted
Await       == StartAwait \/ PollRegistration \/ AwaitInterval \/ AwaitEvicts \/ AwaitVerifies \/ AwaitRefreshes \/ AwaitInterrupted
Publish     == StartPublish \/ ActiveSigningKid \/ CanonicalRecordContent \/ SignContent \/ PublishSignature \/ PublishFails

Next == Environment \/ Others \/ Wait \/ Await \/ Publish

Spec == Init /\ [][Next]_vars

\* One workflow at a time; the others, and what only they read, keep still.
Polling    == (Environment /\ UNCHANGED <<prepared, active>>) \/ Wait \/ Await
Publishing == RegistryPrepares \/ AuthorityChanges \/ Activate \/ Publish
Awaiting   == (Environment /\ UNCHANGED <<prepared, active>>) \/ Others \/ Await

-----------------------------------------------------------------------------
(* Properties *)

\* A signature that reaches the registry is over the local record, made by
\* the key the registry prepared the content for, whatever rotation or change
\* of content happens between the four calls of PublishClientControlledRecord.
SubmittedIsLocalRecord ==
    \A s \in submitted : /\ s.content.tags = Local
                         /\ s.content.version = Profile
                         /\ s.kid = s.content.kid

\* The record AwaitRegistryManagedPublication returns was in the DNS when the
\* registry reported the publication or later: no evidence cached, or in
\* flight, from before that report confirms it (EvictDomain before verifyDomain).
\* The one exception is a joined status refresh of a caller that had hit the
\* cache before the eviction and started its refresh after it.
ConfirmationIsFresh ==
    await.pc = "idle" /\ await.outcome # None =>
        await.outcome.record \in await.outcome.since \/ await.outcome.overtaken

\* The polling loop of WaitForRegistryStatus runs although the registry's
\* workflow has ended.
WaitIsDue == wait.pc \in {"poll", "sleep"} /\ status # "PENDING"
WaitEnded == wait.pc = "idle"
=============================================================================
