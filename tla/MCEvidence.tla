----------------------------- MODULE MCEvidence -----------------------------
(***************************************************************************)
(* What the evidence of a domain rests on: the log's tiles, scans and      *)
(* bundles, the witnesses of its checkpoints, and the lifetimes of DNS     *)
(* records and keys.                                                       *)
(***************************************************************************)
EXTENDS Parts

CONSTANTS Pair

\* Scans of a log of up to seven entries, in tiles of width two.
ScannedLog == INSTANCE TiledLog WITH
    Width <- 2, MaxTreeSize <- 7, MaxSize <- 8, MaxLevel <- 4,
    size <- v1, fork <- v2, scan <- v3, trusted <- v4, verdict <- v5

\* Consistency of checkpoints of up to 13 entries: partial tiles of every width
\* on two levels.
Log == INSTANCE TiledLog WITH
    Width <- 4, MaxTreeSize <- 13, MaxSize <- 13, MaxLevel <- 3,
    size <- v1, fork <- v2, scan <- v3, trusted <- v4, verdict <- v5

\* The same with narrow tiles: a checkpoint of nine entries has four levels of
\* them.
DeepLog == INSTANCE TiledLog WITH
    Width <- 2, MaxTreeSize <- 9, MaxSize <- 9, MaxLevel <- 4,
    size <- v1, fork <- v2, scan <- v3, trusted <- v4, verdict <- v5

\* Histories of a domain from bundles, scans and preloads, over two time units.
Histories == INSTANCE StreamBundles WITH
    Signers <- {"accepted"}, BundleVerifiers <- {"accepted"}, Lifetimes <- {1, 2},
    MaxBundleLifetime <- 2, MaxCheckpointAge <- 1, Domains <- {"d"}, MaxTime <- 2,
    MaxEntries <- 2,
    now <- v1, requireBundle <- v2, log <- v3, checkpoint <- v4, served <- v5,
    call <- v6, preloaded <- v7, result <- v8

\* Single reads in a log of two domains.
Reads == INSTANCE StreamBundles WITH
    Signers <- {"accepted", "unknown"}, BundleVerifiers <- {"accepted"},
    Lifetimes <- {3}, MaxBundleLifetime <- 3, MaxCheckpointAge <- 1, Domains <- Pair,
    MaxTime <- 1, MaxEntries <- 2,
    now <- v1, requireBundle <- v2, log <- v3, checkpoint <- v4, served <- v5,
    call <- v6, preloaded <- v7, result <- v8

\* Policies of up to four components over two witnesses.
Policy == INSTANCE WitnessPolicy WITH
    Keys <- Pair, MaxComponents <- 4, ClockError <- 1, ClockSkew <- 1,
    MaxCheckpointAge <- 1, MaxTime <- 2,
    now <- v1, doc <- v2, policy <- v3, sigs <- v4, result <- v5

\* Two versions of a record behind an alias, whose TTL is the longer one.
Lifetime == INSTANCE EvidenceLifetime WITH
    Targets <- Pair, RecordTTL <- 2, AliasTTL <- 3, KeyAges <- {0, 2},
    Lifetimes <- {1, 9}, MaxVersions <- 2, MaxTime <- 3,
    now <- v1, zone <- v2, publishedAt <- v3, goneAt <- v4, recursive <- v5,
    lookup <- v6, cache <- v7, used <- v8

-----------------------------------------------------------------------------
Init ==
    \/ part = "scan" /\ ScannedLog!Init /\ Unused(5)
    \/ part = "tiles" /\ Log!Init /\ Unused(5)
    \/ part = "deep" /\ DeepLog!Init /\ Unused(5)
    \/ part = "bundles" /\ Histories!Init /\ Unused(8)
    \/ part = "reads" /\ Reads!Init /\ Unused(8)
    \/ part = "policy" /\ Policy!Init /\ Unused(5)
    \/ part = "lifetime" /\ Lifetime!Init /\ Unused(8)

Next ==
    \/ part = "scan" /\ ScannedLog!ScanNext /\ Still(5)
    \/ part = "tiles" /\ Log!TileNext /\ Still(5)
    \/ part = "deep" /\ DeepLog!TileNext /\ Still(5)
    \/ part = "bundles" /\ Histories!HistoryNext /\ Still(8)
    \/ part = "reads" /\ Reads!ReadNext /\ Still(8)
    \/ part = "policy" /\ Policy!Next /\ Still(5)
    \/ part = "lifetime" /\ Lifetime!Next /\ Still(8)

Spec == Init /\ [][Next]_vars

Symmetry == Permutations(Pair)

-----------------------------------------------------------------------------
(* Properties *)

\* A completed scan holds the entries that the signed checkpoint covers, though
\* the log grows meanwhile and replicas answer from different branches; it is
\* found invalid only if a replica strayed, and every proof derived from it
\* verifies (tlog scan and provenEntry).
ScanIsTheLog ==
    part = "scan" => ScannedLog!ScanIsTheLog /\ ScannedLog!InvalidOnlyIfStrayed /\ ScannedLog!ProofsVerify

\* A checkpoint is found consistent with the trusted one only if that is of a
\* prefix of its log, and contradicted only if it is not: tiles of another
\* branch never decide (checkpoint consistency over tiles).
ConsistentIsPrefix ==
    /\ part = "tiles" => Log!ConsistentIsPrefix /\ Log!ContradictionIsReal
    /\ part = "deep" => DeepLog!ConsistentIsPrefix /\ DeepLog!ContradictionIsReal

\* A history holds every event logged more than the maximum checkpoint age
\* before its proofs were verified, whether from a bundle, a scan or a preload,
\* and a preloaded bundle is not used after its own expiry or the verifier's
\* limit. A scan stands in for a bundle only when none could be had, and the
\* entry that ReadEvent returns is the log's, though the one that named the
\* domain was not authenticated (bundle.go).
EventsNotMissed ==
    /\ part = "bundles" => Histories!EventsNotMissed /\ Histories!PreloadedBeforeExpiry /\ Histories!UsedWithinLifetime
    /\ part = "reads" => Reads!ScanOnlyIfUnavailable /\ Reads!EntryIsTheLogs

\* The witnesses that cosigned at or after the accepted time of a checkpoint
\* are a quorum by themselves; a recent quorum suffices, whichever members
\* signed; integration is never dated before the checkpoint; and a public
\* checkpoint is witnessed. Only a policy with a CheckpointTime of its own
\* accepts without regard to the witnesses (witness policy).
QuorumSinceAcceptedTime ==
    part = "policy" => /\ Policy!QuorumSinceAcceptedTime /\ Policy!QuorumSuffices
                       /\ Policy!IntegratedAfterCreation /\ Policy!PublicIsWitnessed

\* A record that its owner has replaced is not used once the longer TTL of
\* record and alias has passed, and the cache drops evidence exactly when the
\* freshness check begins to refuse it (TTL tracking and evidence expiry).
WithdrawnNotUsed ==
    part = "lifetime" => Lifetime!WithdrawnNotUsed /\ Lifetime!HitIffFresh
=============================================================================
