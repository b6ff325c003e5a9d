----------------------------- MODULE MCLifecycle ----------------------------
(***************************************************************************)
(* The lifecycle rules: their reducer, streams in checked and in open logs,*)
(* and migration between logs.                                             *)
(***************************************************************************)
EXTENDS Parts

CONSTANTS Keys, Entity, Callers, Logs, NoKey, NoEvent, NoLog

AllKeys == Keys \cup {Entity}

\* Any three events, of two domains, for the reducer.
Reducer == INSTANCE DomainLog WITH
    Own <- 1, Domains <- {1, 2}, Times <- {1, 2}, MaxEvents <- 3,
    events <- v1

\* Two writers of a stream whose log applies CheckAppend.
CheckedStream == INSTANCE LifecycleStream WITH
    Keys <- AllKeys, EntityKey <- Entity, Own <- "d", Log <- "l", Nothing <- None,
    Writers <- Callers, Checked <- TRUE, Times <- {1, 2}, MaxEntries <- 3,
    MaxForeign <- 0,
    log <- v1, replayed <- v2, foreign <- v3, writer <- v4

\* Two writers of a log that takes what they submit.
OpenStream == INSTANCE LifecycleStream WITH
    Keys <- AllKeys, EntityKey <- Entity, Own <- "d", Log <- "l", Nothing <- None,
    Writers <- Callers, Checked <- FALSE, Times <- {1, 2}, MaxEntries <- 2,
    MaxForeign <- 0,
    log <- v1, replayed <- v2, foreign <- v3, writer <- v4

\* Any three entries, as anybody may append them to an open log.
NoisyStream == INSTANCE LifecycleStream WITH
    Keys <- AllKeys, EntityKey <- Entity, Own <- "d", Log <- "l", Nothing <- None,
    Writers <- {}, Checked <- FALSE, Times <- {1}, MaxEntries <- 3, MaxForeign <- 3,
    log <- v1, replayed <- v2, foreign <- v3, writer <- v4

\* Any two entries of two dates, as anybody may append them.
DatedStream == INSTANCE LifecycleStream WITH
    Keys <- AllKeys, EntityKey <- Entity, Own <- "d", Log <- "l", Nothing <- None,
    Writers <- {}, Checked <- FALSE, Times <- {1, 2}, MaxEntries <- 2,
    MaxForeign <- 2,
    log <- v1, replayed <- v2, foreign <- v3, writer <- v4

\* A stream that migrated from another log.
Migrated == INSTANCE LogMigration WITH
    Keys <- AllKeys, EntityKey <- Entity, Own <- "d", Times <- {1, 2}, MaxDepth <- 1,
    MaxHistoryEvents <- 4, MaxEntries <- 2, Bundled <- FALSE,
    logs <- v1

\* A stream that migrated twice, with all events at one time, read from
\* bundles.
Chain == INSTANCE LogMigration WITH
    Keys <- AllKeys, Logs <- {"l1", "l2", "l3"}, EntityKey <- Entity, Own <- "d",
    Times <- {1}, MaxDepth <- 2, MaxHistoryEvents <- 4, MaxEntries <- 2,
    Bundled <- TRUE,
    logs <- v1

\* Chains of logs that may exceed the depth allowed.
Depth == INSTANCE LogMigration WITH
    Keys <- AllKeys, Logs <- {"l1", "l2", "l3", "l4"}, EntityKey <- Entity,
    Own <- "d", Times <- {1}, MaxDepth <- 2, MaxHistoryEvents <- 4, MaxEntries <- 1,
    Bundled <- FALSE,
    logs <- v1

-----------------------------------------------------------------------------
Init ==
    \/ part = "domain" /\ Reducer!Init /\ Unused(1)
    \/ part = "checked" /\ CheckedStream!Init /\ Unused(4)
    \/ part = "open" /\ OpenStream!Init /\ Unused(4)
    \/ part = "noise" /\ NoisyStream!Init /\ Unused(4)
    \/ part = "dates" /\ DatedStream!Init /\ Unused(4)
    \/ part = "migration" /\ Migrated!Init /\ Unused(1)
    \/ part = "chain" /\ Chain!Init /\ Unused(1)
    \/ part = "depth" /\ Depth!Init /\ Unused(1)

Next ==
    \/ part = "domain" /\ Reducer!Next /\ Still(1)
    \/ part = "checked" /\ CheckedStream!Next /\ Still(4)
    \/ part = "open" /\ OpenStream!Next /\ Still(4)
    \/ part = "noise" /\ NoisyStream!Next /\ Still(4)
    \/ part = "dates" /\ DatedStream!Next /\ Still(4)
    \/ part = "migration" /\ Migrated!Next /\ Still(1)
    \/ part = "chain" /\ Chain!Next /\ Still(1)
    \/ part = "depth" /\ Depth!Next /\ Still(1)

Spec == Init /\ [][Next]_vars

Symmetry == Permutations(Keys) \cup Permutations(Callers)

-----------------------------------------------------------------------------
(* Properties *)

\* SnapshotAt accepts exactly the well-formed histories, and its state, active
\* key and binding time are those of the last terminal and the last key event
\* known at that time (log/log.go).
SnapshotExact == part = "domain" => Reducer!SnapshotExact

\* The accepted log time decides whether a history is read, never which: a
\* reader with early log times reads what it will read later, or is refused
\* because of an event dated ahead that a key of the stream signed. A log that
\* applies CheckAppend is read in full by exactly the readers whose log times
\* have reached its dates; it is looked at while no writer is under way, and
\* every log is reached so (verifyHistoryEntries).
LogTimeOnlyDelays ==
    /\ part = "dates" => DatedStream!LogTimeOnlyDelays
    /\ part = "checked" /\ (\A w \in Callers : v4[w] = CheckedStream!Idle) => CheckedStream!CheckedLogVerifies

\* A history only grows: what is appended adds at most one event to what was
\* applied or makes the stream invalid, and an invalid stream stays invalid, as
\* long as no event is dated after the accepted log time. Entries signed by no
\* key of the stream, and later copies of applied events, change nothing, but
\* for an entry nested beyond the limit, which ends the reading of the stream.
HistoryOnlyGrows ==
    [][(part = "open" => OpenStream!OnlyGrows) /\ (part = "noise" => NoisyStream!OnlyGrows /\ NoisyStream!NoiseIsIgnored)]_vars

\* Whatever was appended, the ways to read a stream agree: the replay of the
\* entries with the reducer of the events, the binding with KeyTimestamp and
\* with non-revocation, and every applied event is read at its own index, under
\* keys that each put the next in force.
ReadsAgree ==
    part = "noise" =>
        NoisyStream!TypeOK /\ NoisyStream!ReducersAgree /\ NoisyStream!ReadsAgree /\ NoisyStream!AppliedIsReadable /\ NoisyStream!ContinuousKeys

\* A stitched history is one history, in the state that replay reached, and the
\* evidence that RebuildHistoryThrough builds for it is the evidence that non-
\* revocation accepts, exactly unless a cutoff is a later copy of a stream's
\* only event; the limit on the number of migrations is exact.
StitchedHistoryHolds ==
    /\ part = "migration" => Migrated!StitchedHistoryHolds /\ Migrated!EvidenceFits
    /\ part = "chain" => Chain!StitchedHistoryHolds /\ Chain!EvidenceFits
    /\ part = "depth" => Depth!LimitsExact
=============================================================================
