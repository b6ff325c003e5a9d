# A TLA+ verification of dnsid-go

This directory holds TLA+ models of the parts of the DNSid Go SDK whose
correctness depends on the order in which things happen, the TLC configurations
that check them on small instances, and TLAPS proofs of main properties for
every instance. `PROJECT.json` is the machine-readable index: components, runs,
mutants, the map from definitions to source lines, findings, hazards, theorems.

## The system

| Part | Source | State it owns | Concurrency and failures |
|---|---|---|---|
| Verification coordinator | `identity_manager.go`, `verification_context.go` | `m.verifying`: in-flight calls by domain and kind | callers and worker goroutines, cancellation, eviction, status changes |
| Identity cache | `cache.go` | one entry per domain and manager, a shared `cacheInvalidated` cell per entry | the coordinator, expiry, capacity |
| Acquisition of evidence | `identity_manager.go`, `internal/dnsttl` | the goroutines of one verification | partial failure, cancellation, TTLs |
| c2sp-tlog client | `log/c2sptlog` | the trusted checkpoint of each origin; preloaded histories | compare-and-swap, replicas, witnesses, age |
| Lifecycle rules | `log/log.go`; `event.go`, `check_append.go`, `migration.go` in `log/c2sptlog` | functions of a history | writers that race, strangers' entries |
| Managed rotation, issuance | `managed_*.go`, `prepared.go` in `log/c2sptlog` | a persisted workflow record | crash and resume, lost answers |
| Key providers | `keyprovider.go`, `key/aws`, `key/gcp` | key states; a key file | power loss between write, rename and sync; KMS failures |
| Registry client | `registry.go`, `registration.go` | none | polling, retries, partial failure |
| Signed messages | `webbotauth`, `jose`, `oidc`, `httpsig` | refresh limiters | key rotation, expiry, delivery |
| Records, configuration, network guard | the rest | none | parsing, cryptography, I/O |

A caller of `VerifyDomain` is served by the cache or joins shared work. The work
acquires DNS, keys, log evidence and the agent status; log evidence goes through
the c2sp-tlog client, which reads the stream from tiles, scans or bundles, checks
its checkpoints against the witness policy, advances the trusted checkpoint and
replays the events by the lifecycle rules. Rotation and issuance change what is
published, through a key provider and the registry. The message profiles verify
an identity and then a signature made with its keys.

## Modules

| Module | Models |
|---|---|
| `VerificationCoordinator` | the coordinator and the cache, for one domain |
| `DomainAcquisition` | `verifyReusableDomain`: its goroutines, their errors and cancellation |
| `EvidenceLifetime` | DNS TTLs through an alias, key age, certificates, the cache's expiry and `CheckFreshness` |
| `TrustedCheckpoints`, `CheckpointStore` | what trusting the checkpoints of an origin promises; the store and the verifiers that advance it |
| `LifecycleRules` | the rules as functions: `SnapshotAt`, the replay of a stream, migration results |
| `DomainLog`, `LifecycleStream`, `LogMigration` | the reducer over any events; a stream with writers, strangers and `CheckAppend`; `RebuildHistoryThrough` over chains of logs |
| `TiledLog` | Merkle roots, hash tiles, scans and consistency over free hash terms |
| `StreamBundles` | bundles, the fallback to scans, preloaded histories, single reads |
| `WitnessPolicy` | policy documents, quorum, accepted time, age and scope of a checkpoint |
| `KeyStore`, `LocalKeyProvider`, `KeyFileCreation` | a key store as an abstract object; the file-backed provider; the first creation of its file |
| `AWSKeyProvider`, `GCPKeyProvider` | the cloud providers |
| `ManagedRotation`, `ManagedIssuance` | the workflows, step by step, over store, journal, registry and gate |
| `RegistryWorkflows`, `AgentRegistration`, `LiveRegistration` | polling and publication; registration and its recovery; proofs of possession |
| `RefreshLimiter`, `LimitedRefreshes` | the limiter of Web Bot Auth and JOSE, and callers of it |
| `WebBotAuth`, `JoseTokens`, `HTTPSignatures`, `OIDCFederation` | the message profiles |
| `*Proofs` | theorems, see Proofs |
| `MC*`, `Parts` | instances for TLC |

The `map` of `PROJECT.json` gives the lines behind each definition. A few words
on the abstractions a reader should know:

- **VerificationCoordinator.** One domain is enough: the map and the cache are
  keyed by domain, and another domain can only displace the entry
  (`CapacityEviction`). `cache` is the entry, `dead` the set of
  `cacheInvalidated` cells that are true, a cell being named by the call whose
  `put` allocated it. Each critical section of `inFlightMu` is one action, and so
  is each stretch between two accesses to shared state. The identity half of a
  verification is one step; the status half is separate, because its result acts
  on shared state at once. A status that is not acceptable is final. `observed`,
  `evictedAt`, `high`, `fate`, `after` and `stray` are history for the
  properties.
- **CheckpointStore.** A checkpoint stands for its tree; `Extends` is the prefix
  relation, and `CheckpointAssumption` what a hash without collisions gives. Each
  turn of the retry loop is a load, a check and a swap. A swap may be performed
  and reported as failed. Baselines are replaced with verification stopped.
- **Lifecycle.** Events are their signed content. Every entry also says whether
  its date is after the log time its reader accepts (`late`) and whether it is
  nested beyond the limit of the parser (`deep`), which makes a stream unreadable
  whoever appended it. The byte limit of a migration response is left out.
- **TiledLog.** Hashes are free terms; tiles are 2 or 4 wide instead of 256; the
  log has one alternative branch. `tlog.CheckRecord` is external.
- **StreamBundles.** The producer's index is complete where the bundle asserts
  so. An empty history is refused. Other than preloaded ones, histories are not
  looked at again for expiry after they were loaded.
- **WitnessPolicy.** Components are referred to by position. Witness clocks are
  right within `ClockError`. A `CheckpointTime` of the policy replaces the whole
  witness rule.
- **Key files.** A write becomes durable with the sync of the directory; before
  it, a power loss leaves either store.
- **ManagedRotation.** `torn` remembers the operations on the key store in which
  the process stopped between the rename and the sync of the directory.
- **WebBotAuth** counts time in units of 5 s. The replay policy follows its
  documented contract. `ServedIsUsable` assumes clocks within 5 s of each other, signing
  within 5 s and a directory lifetime of 20 s.
- **JoseTokens, OIDCFederation** have half-second ticks and claims in whole
  seconds. Tokens are those that the issuer made; the OIDC issuer is external and
  answers discovery with any document, each time anew. Issuers may share an
  origin. How old a subject's status may be is one bound, `MaxStatusAge`: the
  status check interval and the time that a verification in flight may take.
- **HTTPSignatures.** "@target-uri" stands for "@authority" as well. Candidates
  are tried one by one, in any order, each at its own time, and the identity of
  each may be unavailable. Extra components, size limits and syntax are left out.

## Runs

Five runs examine several components each. Such a run is a sum: the variable
`part` of `Parts` names one component, whose variables are the first of `v1` to
`v18`, and the behaviours of the run are those of its components, one at a time.
The components do not interact in it; where the code composes them (the journal
and the key store of a rotation, a cache and a registry wait) one module has
both. A property of the run names the component it is about.

| Run | Question |
|---|---|
| `coordinator_races` | Do lookups, refreshes, evictions, revocations, cancellations and expiry keep the cache fence exact, removed evidence removed, and other callers' work alive? |
| `coordinator_live` | Does every waiter return? |
| `checkpoints` | Do verifiers that race for one store accept one history, implement `TrustedCheckpoints`, refuse nothing of their own, and end? |
| `progress` | Do acquisitions, rotations, issuances, key generations, waits and live registrations get to their end after failures? |
| `workflows` | Are keys kept, is only an eligible and published key used, can what was accepted be resumed, is what is confirmed what was meant, under crashes, power loss and lost answers? |
| `lifecycle` | Do all ways to read a history agree, over short histories, racing writers, strangers' entries, early readers and migrations? |
| `evidence` | Is what scans, tiles, bundles, witnesses and TTLs let pass authentic and recent? |
| `requests` | Is what is accepted what the named key signed, in time and for this receiver, while keys rotate? |
| `coordinator_revoked`, `coordinator_inflight`, `coordinator_evict`, `oidc_assertion` | violations, see Findings |

**Bounds.**

- `coordinator_*`: `MaxOps` bounds API calls, `MaxTime` the clock; evictions are
  not bounded. Two callers and two calls after the first let any two of a lookup,
  a refresh and a status refresh overlap with each other, with abandoned work and
  with evictions; three callers at once are left to the proofs. Lifetimes of 0, 1
  and 2 against one tick give evidence that is never cached, that expires and
  that does not. `coordinator_races` has the status check intervals 0 and 1.
- `checkpoints`: two verifiers give every conflict of one load and swap with
  another; the trees fork at size 0 and at size 1; batches of two. The proofs cover
  any number.
- `progress`: two or three failures anywhere, two generations and one signer, two
  live registrations of one domain. `workflows`: three keys, three
  stores, five failures in a rotation (both operations on the key store can be
  interrupted, and the power fail afterwards), two workers of an issuance, three
  processes that create a key file, three agents, three live registrations of
  which two share a key and two a domain.
- `lifecycle`: all histories of three events for the reducer; two writers and
  three entries, or two without `CheckAppend`; any three entries of one date
  ("noise") or two of two dates ("dates"); one migration of two-entry streams,
  two migrations read from bundles ("chain"), and chains of four logs against a
  depth of two.
- `evidence`: scans of seven entries with tiles of width 2; consistency up to 13
  entries with width 4 (partial tiles of every width on two levels) and up to
  nine with width 2 (four levels); bundles over two time units with lifetimes 1
  and 2 against a checkpoint age of 1; policies of four components over two
  witnesses; a record of TTL 2 behind an alias of TTL 3, over three units.
- `requests`: one request or token at a time, two verifiers, two keys; requests
  altered up to three times and signed by a proxy; two exchanges whose responses
  may be swapped; three OIDC issuers, two of them at one origin; token lifetimes
  of half and one and a half seconds under a maximum of one and a half; a limiter with
  room for two and four domains.

Symmetry is used for interchangeable callers, keys and verifiers, in runs without
liveness properties only.

**Initial states.** `coordinator_races` and `coordinator_revoked` start after a
first verification has run alone (`WarmInit`), `coordinator_evict` later, with
one caller between its cache hit and the coordinator (`EvictedInit`). `Init`
reaches both: their negations, as invariants of `Spec`, are violated. Races of
the first verification are in `coordinator_live`, `coordinator_inflight` and the
proofs, which start from `Init`.

**Fairness.** Goroutines are scheduled, and fetches end because the shared context
has a deadline (`VerificationContext`); callers proceed when what they wait for
is there. A verifier's step is fair, since store calls return. A workflow's
process is restarted and resumes (weak fairness; strong for an issuance, which a
second blocked attempt may disable again and again), and the registry decides
and publishes in the end. In the GCP provider a deadline ends generation and
signatures, and recording a generated key needs strong fairness because it waits
for a lock that signatures share: Go's `RWMutex` does not starve writers. Polling
loops wake up by their timers. No failure, cancellation, eviction, status change
or tick is required to happen.

**Deadlock** is not checked in the sum runs, whose components may be done. In the
coordinator and checkpoint runs it says little, because an eviction or a restart
is nearly always possible; progress is what the liveness properties show.

## Findings

Four are shown by a violated property that states the documentation's sentence.

1. `coordinator_revoked`. "Observed non-ACTIVE status invalidates cached and
   in-flight evidence" (`identity_manager.go:994`). A call that its last waiter
   abandons after the worker's last look at the shared context is neither
   superseded nor invalidated, and still stores ACTIVE evidence after another
   call has observed a non-ACTIVE status.
2. `coordinator_inflight`. The same sentence. A call that `EvictDomain` has
   detached hands ACTIVE evidence to its waiters after the observation. It does
   not reach the cache.
3. `coordinator_evict`. "so the next VerifyDomain call performs a full
   re-verification" (`identity_manager.go:1673`). A call begun after the
   eviction can join a status refresh of a snapshot taken before it;
   `AwaitRegistryManagedPublication`, which evicts and verifies, can too.
4. `oidc_assertion`. `signJWT` of `oidc.go` names the active key and signs in a
   second call, without the comparison that the other profiles make: a rotation
   in between gives an assertion that its own key does not verify.

Six more come with a property that passes because it states the code's behaviour,
with the case that the documentation excludes as its named exception.

5. `SnapshotAt` refuses events of other domains and a MIGRATION after a terminal
   state; its comment says that the former are ignored and the latter is allowed
   (`SnapshotExact`).
6. A later copy of a stream's only event, as the cutoff of a migration, gives
   evidence that non-revocation always refuses; `migration.go:14` allows it
   (`StitchedHistoryHolds`).
7. A policy with a `CheckpointTime` accepts a public checkpoint without a witness
   (`QuorumSinceAcceptedTime`).
8. A process that stops between rename and directory sync in both key store
   operations of a rotation leaves a resume that releases signing before the
   activation is durable (`AcceptedIsRecoverable`).
9. A retry that is answered with an unclassified HTTP 4xx is recorded as a
   rejection of an entry which the log has accepted (`AcceptedIsRecoverable`).
10. With a `MaxLifetime` that is not whole seconds, a created JWT can last longer
    than it, and the same configuration then refuses it (`EvidenceHoldsSigner`).

Behaviour that no document excludes, and that the properties name: with two
workers a later save may replace a recorded acceptance of an issuance (activation
stays closed all the same); of two good HTTP signatures, the one that is tried
first is taken for the signer if the other goes stale meanwhile or its identity
is not available; an OIDC assertion may go to the endpoint of another issuer at
the same origin; a subject revoked recently is accepted as long as its status may
be cached.

## Proofs

`tlapm` checks six modules to the last leaf. The assumptions are the named
`ASSUME`s of the component modules, which TLC evaluates on the instances.

**CheckpointStoreProofs**, for any verifiers, any checkpoints that satisfy
`CheckpointAssumption`, any witness times and any `MaxBatch`. `Inv` adds what a
verifier knows at each point: past the consistency check its candidate extends
the state it will ask the store to replace, and everything accepted is a prefix
of what is trusted. Without the first, a swap could replace the trusted tree by
anything; without the second, `NoSplitView` says nothing about what earlier
verifiers accepted. `FailInv`, `RefuseInv`, `MoveInv` and `AcceptInv` cover the
ways a verifier can move. From `Invariance` follow `TypeCorrect`, `OneView`,
`OneHistoryPerBatch`, `NothingOfItsOwnIsRefused`, `TrustOnlyExtends` and
`Refinement`.

**VerificationCoordinatorProofs**, for any finite set of callers, any lifetimes,
interval and bounds. `Structure` makes the waiter count of a running call the
number of callers that wait for it and keeps cancelled calls out of the map. The
proof goes by frame lemmas (`CallerMoves`, `WorkerMoves`, `CallsMove`,
`ReaderLeavesFinished`), one lemma per action. `TypeCorrect` and
`NobodyElseIsCancelled` follow.

**CacheFenceProofs.** `Inv` is `Structure /\ Fences`: a cell that some evidence
carries was allocated by a finished call and is set unless the cache entry
carries it. "Finished" is needed so that a later `put` allocates a new one.
`StepFences` says what a step may do to entry and cells, `CallerEvidence` and
`CallEvidence` where evidence comes from. `FenceHolds` follows.

**StaleWorkProofs, StaleEvidenceProofs.** `CurrentInv` adds `Currency`: a snapshot
whose cell is false is overtaken by nothing, a running call is attached exactly
while it is in the map, a call that still counts has evidence since the last
eviction, and one that checked its status before a non-ACTIVE observation is
silenced. From `CurrentInvariance` follow `RemovalHolds`, `EvictionIsSeen` and
`OvertakenStaysGone`. Each holds with the exceptions that the findings 1 to 3
made necessary.

**LocalKeyProviderProofs**, for any keys and goroutines. `LKPInv` says that every
store a power loss may leave has one active key and all keys that callers were
told of, and that a change under way is legal and remembers what to undo. Without
the latter the undo after a failed write could not be shown to restore the file's
content. `StoredKeysAreKept` and the refinement `FileIsKeyStore` follow.

**Model-checked only.** The liveness properties, which are outside the prover's
reach. What recursions and folds compute (`LifecycleRules`, `LogMigration`,
`TiledLog`, `WitnessPolicy`): it needs induction over data. The workflows, the
cloud providers, the acquisition, bundles and the message profiles have no proofs
yet.

## Not modelled

`PROJECT.json` lists every component. Parsing, formatting, canonicalization,
cryptography, configuration and plain I/O have no state whose order matters. In
what is modelled these are left out: the public `IdentityCache.Get`, `Put` and
`Evict`, which use a namespace that no manager shares; `coalesceVerification`
with a nil context; evidence whose certificates are not valid yet; the contents
of what `DomainAcquisition` fetches; more than one recursive resolver.
