------------------------------- MODULE TiledLog -------------------------------
(***************************************************************************)
(* Reading a C2SP tiled log (log/c2sptlog/scan_source.go, hash_tiles.go and *)
(* the Merkle trees of checkpoint_store.go): complete scans that are        *)
(* authenticated against a signed checkpoint and yield inclusion proofs,    *)
(* and the check through hash tiles that a checkpoint extends a trusted one.*)
(*                                                                         *)
(* The log is served by replicas.  One of them may hold another branch of   *)
(* the log, the same up to an entry and different from there on; signed     *)
(* checkpoints are always of the main branch.  Hashes are terms, so that    *)
(* they are free of collisions.  Tiles hold Width hashes (256 in the code,  *)
(* like an entry bundle).                                                   *)
(***************************************************************************)
EXTENDS Naturals, Sequences, SequencesExt

CONSTANTS Width,        \* entriesPerC2spBundle, a power of two
          MaxTreeSize,  \* the source's limit
          MaxSize,      \* bound on the log
          MaxLevel,     \* a level of tiles above all that a log of that size has
          None

VARIABLES size,      \* entries in the log
          fork,      \* the first entry in which the other branch differs
          scan,      \* the scan
          trusted,   \* a checkpoint accepted earlier
          verdict    \* the outcome of the last check against it

vars == <<size, fork, scan, trusted, verdict>>

Branches == {"main", "other"}

Entry(branch, i) == [at |-> i, on |-> IF branch = "other" /\ i >= fork THEN "other" ELSE "main"]
LogOf(branch) == [i \in 1 .. size |-> Entry(branch, i)]

Leaf(e) == <<"leaf", e>>
NodeHash(l, r) == <<"node", l, r>>
EmptyRoot == <<"empty">>

RECURSIVE MerkleRoot(_), HashTileRoot(_), Levels(_), RunRecordProof(_, _, _, _, _), TileRoot(_, _, _, _), Authenticated(_, _, _),
          SplitFrom(_, _)

(* Mutants. *)
RootUnchecked(entries, cp) == TRUE
NothingAuthenticated(tiles, key, n) == TRUE

-----------------------------------------------------------------------------
(* Merkle trees *)

\* The largest power of two below n.
SplitFrom(s, n) == IF 2 * s < n THEN SplitFrom(2 * s, n) ELSE s
Split(n) == SplitFrom(1, n)

\* The root of an uneven tree over hashes of complete subtrees.
HashTileRoot(hashes) ==
    IF Len(hashes) = 1 THEN hashes[1]
    ELSE LET k == Split(Len(hashes))
         IN  NodeHash(HashTileRoot(SubSeq(hashes, 1, k)), HashTileRoot(SubSeq(hashes, k + 1, Len(hashes))))

MerkleRoot(entries) ==
    IF entries = <<>> THEN EmptyRoot
    ELSE IF Len(entries) = 1 THEN Leaf(entries[1])
    ELSE LET k == Split(Len(entries))
         IN  NodeHash(MerkleRoot(SubSeq(entries, 1, k)), MerkleRoot(SubSeq(entries, k + 1, Len(entries))))

\* merkleLevels pairs neighbours; the last one of an odd level moves up as it is.
NextLevel(level) ==
    [i \in 1 .. (Len(level) + 1) \div 2 |->
        IF 2 * i > Len(level) THEN level[2 * i - 1] ELSE NodeHash(level[2 * i - 1], level[2 * i])]

Levels(level) == IF Len(level) <= 1 THEN <<level>> ELSE <<level>> \o Levels(NextLevel(level))

MerkleLevels(entries) ==
    IF entries = <<>> THEN << <<>>, <<EmptyRoot>> >>
    ELSE Levels([i \in DOMAIN entries |-> Leaf(entries[i])])

\* The sibling, if there is one, of position p (from 0) of a level.
Sibling(level, p) ==
    IF p % 2 = 1 THEN <<level[p]>> ELSE IF p + 1 < Len(level) THEN <<level[p + 2]>> ELSE <<>>

\* The inclusion proof that provenEntry derives from the levels.
ProvenEntry(levels, index) ==
    FlattenSeq([l \in 1 .. Len(levels) - 1 |-> Sibling(levels[l], index \div (2 ^ (l - 1)))])

\* tlog.CheckRecord, of the checksum database library: the root that a proof
\* gives for the leaf at index n of the entries lo .. hi - 1.
RunRecordProof(p, lo, hi, n, leaf) ==
    IF lo + 1 = hi THEN IF p = <<>> THEN leaf ELSE None
    ELSE IF p = <<>> THEN None
    ELSE LET k == CHOOSE k \in 1 .. (hi - lo - 1) : (\E e \in 0 .. 10 : k = 2 ^ e) /\ 2 * k >= hi - lo
         IN  IF n < lo + k THEN NodeHash(RunRecordProof(Front(p), lo, lo + k, n, leaf), Last(p))
                           ELSE NodeHash(Last(p), RunRecordProof(Front(p), lo + k, hi, n, leaf))

CheckRecord(p, n, root, index, leaf) == RunRecordProof(p, 0, n, index, leaf) = root

Checkpoint(branch, n) == [size |-> n, root |-> MerkleRoot(SubSeq(LogOf(branch), 1, n))]

-----------------------------------------------------------------------------
(* ScanSource.scan *)

NoScan == [pc |-> "idle", checkpoint |-> None, entries |-> <<>>, strayed |-> FALSE]

\* The checkpoint is fetched and verified; its size is limited.
ScanCheckpoint ==
    /\ scan.pc \in {"idle", "done", "invalid"}
    /\ size <= MaxTreeSize
    /\ scan' = [NoScan EXCEPT !.pc = "bundles", !.checkpoint = Checkpoint("main", size)]
    /\ UNCHANGED <<size, fork, trusted, verdict>>

\* The bundle of entries and the tile of their hashes come each from a replica;
\* the hashes must be those of the entries.
ScanBundle ==
    /\ scan.pc = "bundles" /\ Len(scan.entries) < scan.checkpoint.size
    /\ \E bundleOf, tileOf \in Branches :
         LET from == Len(scan.entries)
             to == IF scan.checkpoint.size - from < Width THEN scan.checkpoint.size ELSE from + Width
             decoded == SubSeq(LogOf(bundleOf), from + 1, to)
             matches == decoded = SubSeq(LogOf(tileOf), from + 1, to)
         IN  scan' = [scan EXCEPT !.pc = IF matches THEN "bundles" ELSE "invalid",
                                  !.entries = IF matches THEN @ \o decoded ELSE @,
                                  !.strayed = @ \/ "other" \in {bundleOf, tileOf}]
    /\ UNCHANGED <<size, fork, trusted, verdict>>

RootMatches(entries, cp) == Last(MerkleLevels(entries))[1] = cp.root

ScanRoot ==
    /\ scan.pc = "bundles" /\ Len(scan.entries) = scan.checkpoint.size
    /\ scan' = [scan EXCEPT !.pc = IF RootMatches(scan.entries, scan.checkpoint) THEN "done" ELSE "invalid"]
    /\ UNCHANGED <<size, fork, trusted, verdict>>

\* A resource cannot be fetched: a partial bundle or tile of an earlier size,
\* for which the scan knows no other place, may be gone.
ScanUnavailable ==
    /\ scan.pc = "bundles" /\ scan' = NoScan
    /\ UNCHANGED <<size, fork, trusted, verdict>>

-----------------------------------------------------------------------------
(* ScanSource.verifyTileConsistency *)

\* The tiles a root of size n folds: <<level, index>> of each digit to the base Width.
TilesOfRoot(n) == {<<l, n \div (Width ^ (l + 1))>> : l \in {k \in 0 .. MaxLevel : (n \div (Width ^ k)) % Width # 0}}

Parents(key) == {<<key[1] + l, key[2] \div (Width ^ l)>> : l \in 0 .. MaxLevel}

\* The width a tile has in the tree of size n; zero where it has no hashes.
TileWidth(key, n) ==
    LET available == n \div (Width ^ key[1])
        before == key[2] * Width
    IN  IF available <= before THEN 0 ELSE IF available - before < Width THEN available - before ELSE Width

\* fetch: the hashes of a tile, the first ones of the full tile where the
\* partial one is gone.
Fetch(branch, key, n) ==
    [j \in 1 .. TileWidth(key, n) |->
        LET span == Width ^ key[1]
            first == (key[2] * Width + j - 1) * span
        IN  MerkleRoot(SubSeq(LogOf(branch), first + 1, first + span))]

\* root: the smaller subtrees of lower levels are the rightmost.
TileRoot(tiles, n, level, right) ==
    IF n = 0 THEN right[1]
    ELSE LET w == n % Width
         IN  TileRoot(tiles, n \div Width, level + 1,
                      IF w = 0 THEN right
                      ELSE <<HashTileRoot(SubSeq(tiles[<<level, n \div Width>>], 1, w) \o right)>>)

\* authenticate: a tile that is not on the right edge hashes to the entry its
\* parent has for it, and so up to the edge.
Authenticated(tiles, key, n) ==
    LET available == n \div (Width ^ key[1])
        parent == <<key[1] + 1, key[2] \div Width>>
    IN  \/ available % Width # 0 /\ key[2] = available \div Width
        \/ /\ HashTileRoot(tiles[key]) = tiles[parent][1 + (key[2] % Width)]
           /\ Authenticated(tiles, parent, n)

VerifyTiles(tiles, used, old, next) ==
    IF TileRoot(tiles, next.size, 0, <<>>) # next.root THEN "invalid"
    ELSE IF \E key \in used : ~Authenticated(tiles, key, next.size) THEN "invalid"
    ELSE IF TileRoot(tiles, old.size, 0, <<>>) # old.root THEN "contradiction"
    ELSE "consistent"

CheckTiles ==
    /\ trusted # None /\ trusted.size \in 1 .. size - 1 /\ size <= MaxTreeSize
    /\ LET used == TilesOfRoot(size) \cup TilesOfRoot(trusted.size)
           keys == {key \in UNION {Parents(k) : k \in used} : TileWidth(key, size) > 0}
           held == [key \in keys, b \in Branches |-> Fetch(b, key, size)]
           next == Checkpoint("main", size)
       IN  \E from \in [keys -> Branches] :
             verdict' = [outcome |-> VerifyTiles([key \in keys |-> held[key, from[key]]], used, trusted, next),
                         old |-> trusted, next |-> size]
    /\ UNCHANGED <<size, fork, scan, trusted>>

\* verifyScanConsistency: the same from a complete scan of either branch.
VerifyEntries(entries, old, next) ==
    IF MerkleRoot(entries) # next.root THEN "invalid"
    ELSE IF MerkleRoot(SubSeq(entries, 1, old.size)) # old.root THEN "contradiction"
    ELSE "consistent"

CheckEntries ==
    /\ trusted # None /\ trusted.size \in 1 .. size - 1
    /\ \E b \in Branches :
         verdict' = [outcome |-> VerifyEntries(LogOf(b), trusted, Checkpoint("main", size)), old |-> trusted, next |-> size]
    /\ UNCHANGED <<size, fork, scan, trusted>>

-----------------------------------------------------------------------------
Append1 == size < MaxSize /\ size' = size + 1 /\ UNCHANGED <<fork, scan, trusted, verdict>>

\* A checkpoint was accepted, of the main branch or, before the branches were
\* told apart, of the other one.
Trust ==
    /\ trusted = None
    /\ \E b \in Branches : trusted' = Checkpoint(b, size)
    /\ UNCHANGED <<size, fork, scan, verdict>>

Init ==
    /\ size \in 0 .. 1 /\ fork \in 1 .. MaxSize
    /\ scan = NoScan /\ trusted = None /\ verdict = None

Next == \/ Append1 \/ Trust \/ ScanCheckpoint \/ ScanBundle \/ ScanRoot \/ ScanUnavailable
        \/ CheckTiles \/ CheckEntries

Spec == Init /\ [][Next]_vars

\* Scans alone, and the checks of consistency alone.
ScanNext == Append1 \/ ScanCheckpoint \/ ScanBundle \/ ScanRoot \/ ScanUnavailable
TileNext == Append1 \/ Trust \/ CheckTiles \/ CheckEntries

-----------------------------------------------------------------------------
(* Properties *)

\* A completed scan holds the entries that the signed checkpoint covers, though
\* the log grows meanwhile and replicas answer from different branches.
ScanIsTheLog == scan.pc = "done" => scan.entries = SubSeq(LogOf("main"), 1, scan.checkpoint.size)

\* A scan is found invalid only if a replica answered from another branch: the
\* root built level by level is the one of the recursive definition.
InvalidOnlyIfStrayed == scan.pc = "invalid" => scan.strayed

\* Every proof that provenEntry derives from a completed scan verifies.
ProofsVerify ==
    scan.pc = "done" =>
        \A i \in 1 .. scan.checkpoint.size :
            CheckRecord(ProvenEntry(MerkleLevels(scan.entries), i - 1), scan.checkpoint.size, scan.checkpoint.root,
                        i - 1, Leaf(scan.entries[i]))

Prefix(n) == Checkpoint("main", n)

\* A checkpoint is found consistent with the trusted one only if that is of a
\* prefix of its log, whichever branch each tile came from.
ConsistentIsPrefix == verdict # None => (verdict.outcome = "consistent" => verdict.old = Prefix(verdict.old.size))

\* The log is found to contradict the trusted checkpoint only if it does: a tile
\* of another branch alone never reads as a fork.
ContradictionIsReal == verdict # None => (verdict.outcome = "contradiction" => verdict.old # Prefix(verdict.old.size))
=============================================================================
