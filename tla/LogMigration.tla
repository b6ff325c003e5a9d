---------------------------- MODULE LogMigration ----------------------------
(***************************************************************************)
(* Several c2sp-tlog streams of one identity, linked by MIGRATION geneses. *)
(* A reader verifies a stream by replaying it; a migration genesis makes it*)
(* verify the previous stream up to the signed cutoff first, and so on.    *)
(* The injected MigrationVerifier picks the client of the previous log and *)
(* calls RebuildHistoryThrough, as its documentation asks.                 *)
(***************************************************************************)
EXTENDS LifecycleRules

CONSTANTS
  Logs,              \* log references
  EntityKey,         \* the identity's entity key
  Own,               \* the identity's domain
  Times,             \* event timestamps
  MaxDepth,          \* MigrationVerificationLimits.MaxDepth
  MaxHistoryEvents,  \* MigrationVerificationLimits.MaxHistoryEvents
  MaxEntries,        \* bound: entries of one log
  Bundled            \* the source is a bundle, which leaves out later copies of entries

VARIABLE logs   \* the entries of every log

NoEvidence == [log |-> NoLog, start |-> <<>>, end |-> <<>>, through |-> 0, prior |-> <<>>]
Failed(code) ==
  [outcome |-> "error", code |-> code, entity |-> NoKey, operational |-> NoKey, history |-> <<>>,
   refs |-> <<>>, evidence |-> NoEvidence]
Migrations(history) == SelectSeq(history, LAMBDA e : e.type = "MIGRATION")

-----------------------------------------------------------------------------
(* Limits. *)

\* migrationPath: the streams on the way from the one that a caller asked for.
StartPath == [next |-> NoLog, depth |-> 0, seen |-> {}]

\* enterMigration.
EnterMigration(e, log, path) ==
  LET seen == IF path = StartPath THEN {log} ELSE path.seen
  IN  [ok |-> (path # StartPath => path.next = log /\ path.depth < MaxDepth) /\ e.from \notin seen,
       path |-> [next |-> e.from, depth |-> path.depth + 1, seen |-> seen \cup {e.from}]]

\* validateMigrationResources: a chain of different logs that ends at the previous one.
WithinResources(e, m) ==
  LET hops == Migrations(m.history)
      visited == IF hops = <<>> THEN <<e.from>>
                 ELSE <<hops[1].from>> \o [i \in 1 .. Len(hops) |-> hops[i].to]
  IN  /\ Len(m.history) <= MaxHistoryEvents
      /\ \A i \in 2 .. Len(hops) : hops[i].from = hops[i - 1].to
      /\ Len(hops) + 1 <= MaxDepth
      /\ Last(visited) = e.from
      /\ IsInjective(Append(visited, e.to))

-----------------------------------------------------------------------------
(* Evidence. *)

\* validatedPriorEvidence: the evidence of every stream before this one joins up at
\* the signed cutoffs, from the genesis of the identity on.
PriorEvidence(e, m) ==
  LET all == Append(m.evidence.prior, m.evidence)
      hops == {i \in 1 .. Len(m.history) : m.history[i].type = "MIGRATION"}
      Nth(i) == Cardinality({j \in hops : j <= i})
  IN  /\ Len(m.refs) = Len(m.history) /\ m.refs # <<>> /\ Last(m.refs) = <<e.from, e.final>>
      /\ m.evidence.log = e.from /\ m.evidence.end = <<e.from, e.final>>
      /\ all[1].start = m.refs[1]
      /\ Len(all) = Cardinality(hops) + 1
      /\ \A i \in hops :
           LET h == m.history[i] IN
           /\ i > 1
           /\ all[Nth(i)].log = h.from /\ all[Nth(i)].end = m.refs[i - 1]
           /\ m.refs[i - 1] = <<h.from, h.final>>
           /\ all[Nth(i) + 1].log = h.to /\ all[Nth(i) + 1].start = m.refs[i]
      /\ IsInjective([i \in 1 .. Len(all) |-> all[i].log])

\* The evidence that precedes a replayed history, and the reference of each event.
EvidenceBefore(m) == IF m = NoVerifier THEN <<>> ELSE Append(m.evidence.prior, [m.evidence EXCEPT !.prior = <<>>])
References(log, r, m) ==
  (IF m = NoVerifier THEN <<>> ELSE m.refs) \o [i \in 1 .. Len(r.applied) |-> <<log, r.applied[i].index>>]

-----------------------------------------------------------------------------
(* Verification. *)

\* The import that a replayed history rests on.
ImportOf(r, imported) ==
  IF r.err = "" /\ r.applied[1].event.type = "MIGRATION" THEN imported[r.applied[1].event] ELSE NoVerifier

\* RebuildHistoryThrough: "cannot migrate terminal history".
Migratable(r) == r.err = "" /\ StateOf(r.applied).status = "ACTIVE"

\* What the source supplies of a log: all its entries, or a bundle's.
Supplied(all, log) ==
  SelectSeq(Indices(all[log]), LAMBDA i : Bundled => \A j \in 1 .. i - 1 : all[log][j] # all[log][i])

\* RebuildHistoryThrough: "Later source events are not imported."  A cutoff that the
\* source did not supply is read on its own and added.
Prefix(all, log, index) ==
  LET before == SelectSeq(Supplied(all, log), LAMBDA i : i <= index)
  IN  IF index \in Range(before) THEN before ELSE Append(before, index)

RECURSIVE Import(_, _, _, _)

\* The imports that the entries of a log may ask for on a path.
Imports(all, log, indices, path) ==
  [e \in {x.event : x \in {all[log][i] : i \in {j \in Range(indices) : all[log][j].event.type = "MIGRATION"}}}
     |-> Import(all, e, log, path)]

\* RebuildHistoryThrough: the history of a log up to a cutoff that is a fully signed
\* copy of its last event, from the replay of its entries.
Rebuilt(all, log, index, r, m) ==
  LET last == Last(r.applied)
      authority == IF Len(r.applied) = 1 THEN last.after ELSE r.applied[Len(r.applied) - 1].after
      refs == References(log, r, m)
  IN  IF r.err # "" THEN Failed(r.err)
      ELSE IF last.event # all[log][index].event
                \/ ~Authorized(all[log][index], authority.entity, authority.operational)
        THEN Failed("occurrence")
      ELSE IF ~Migratable(r) THEN Failed("terminal")
      ELSE IF m # NoVerifier /\ ~PriorEvidence(r.applied[1].event, m) THEN Failed("evidence")
      ELSE IF Len(r.prior) + Len(r.applied) > MaxHistoryEvents THEN Failed("limit")
      ELSE [outcome |-> "ok", code |-> "", entity |-> StateOf(r.applied).entity,
            operational |-> StateOf(r.applied).operational, history |-> r.prior \o Events(r.applied),
            refs |-> [refs EXCEPT ![Len(refs)] = <<log, index>>],
            evidence |-> [log |-> log, start |-> <<log, r.applied[1].index>>, end |-> <<log, index>>,
                          through |-> Len(all[log]), prior |-> EvidenceBefore(m)]]

RebuiltFrom(all, log, index, r, imports) == Rebuilt(all, log, index, r, ImportOf(r, imports))

ReplayedThrough(all, log, index, imports) ==
  RebuiltFrom(all, log, index, ReplayOf(all[log], Prefix(all, log, index), log, imports), imports)

RebuildHistoryThrough(all, log, index, path) ==
  IF index \notin 1 .. Len(all[log]) THEN Failed("cutoff")
  ELSE ReplayedThrough(all, log, index, Imports(all, log, Prefix(all, log, index), path))

\* verifyBoundedMigration.
Bounded(e, m) == IF m.outcome = "ok" /\ ~WithinResources(e, m) THEN Failed("resources") ELSE m

Import(all, e, log, path) ==
  LET entered == EnterMigration(e, log, path)
  IN  IF ~entered.ok THEN Failed("path")
      ELSE Bounded(e, RebuildHistoryThrough(all, e.from, e.final, entered.path))

\* verifyHistoryEntries of a whole log, with the stitched history.
Stitched(log, r, m) ==
  [err |-> IF r.err = "" /\ r.prior # <<>> /\ Len(r.applied) + Len(r.prior) > MaxHistoryEvents
             THEN "INVALID_MIGRATION" ELSE r.err,
   events |-> r.prior \o Events(r.applied), state |-> StateOf(r.applied),
   genesis |-> IF r.err = "" THEN r.applied[1].event ELSE NoEvent,
   m |-> m, own |-> [i \in 1 .. Len(r.applied) |-> <<log, r.applied[i].index>>]]

StitchedFrom(log, r, imports) == Stitched(log, r, ImportOf(r, imports))

VerifiedWith(all, log, imports) ==
  StitchedFrom(log, ReplayOf(all[log], Supplied(all, log), log, imports), imports)

VerifyIn(all, log) == VerifiedWith(all, log, Imports(all, log, Supplied(all, log), StartPath))
Verify(log) == VerifyIn(logs, log)

\* The end of the history that VerifyNonRevocation reports for a time.
HistoryEnd(v, at) ==
  LET n == SnapshotAt(Own, v.events, at).n
      prior == IF v.m = NoVerifier THEN <<>> ELSE v.m.refs
  IN  IF n <= Len(prior) THEN prior[n] ELSE v.own[n - Len(prior)]

-----------------------------------------------------------------------------

Init == logs = [l \in Logs |-> <<>>]

\* Geneses: an ISSUANCE, or a MIGRATION from any log at any cutoff.
Geneses(l) ==
  {Entry(Issuance(Own, t, EntityKey, k), EntityKey, k) : t \in Times, k \in Keys \ {EntityKey}}
  \cup {Entry(Migration(Own, t, f, l, i), EntityKey, NoKey) : t \in Times, f \in Logs \ {l}, i \in 1 .. MaxEntries}

\* What the holder of the keys appends to a verified log.
Continuations(v, l) ==
  LET c == [seq |-> Len(v.own), prev |-> Last(v.events), state |-> v.state]
  IN  {Entry(Rotation(Own, t, c, v.state.operational, k), v.state.operational, k) :
         t \in Times, k \in Keys \ {EntityKey}}
      \cup {Entry(Event("REVOCATION", Own, t, c), EntityKey, NoKey) : t \in Times}

AppendGenesis(l) ==
  /\ Len(logs[l]) < MaxEntries
  /\ \E x \in Geneses(l) : logs' = [logs EXCEPT ![l] = Append(@, x)]

AppendEvent(l) ==
  /\ Len(logs[l]) < MaxEntries
  /\ \E v \in {Verify(l)} :
       /\ v.err = ""
       /\ \E x \in Continuations(v, l) : logs' = [logs EXCEPT ![l] = Append(@, x)]

Next == \E l \in Logs : AppendGenesis(l) \/ AppendEvent(l)

Spec == Init /\ [][Next]_logs

-----------------------------------------------------------------------------

\* A stitched history is one history: it begins with the only ISSUANCE, its times do
\* not go back, the reducer accepts it, and it ends in the state that replay reached
\* under the entity key of that ISSUANCE.
OneHistory(v, s) ==
  /\ \A i \in 1 .. Len(v.events) : v.events[i].type = "ISSUANCE" <=> i = 1
  /\ \A i \in 2 .. Len(v.events) : v.events[i - 1].ts <= v.events[i].ts
  /\ s.err = "" /\ s.state = v.state.status /\ s.key = v.state.operational
  /\ v.state.entity = v.events[1].entity

HoldsTogether(v) == v.err = "" => OneHistory(v, SnapshotAt(Own, v.events, Max(Times)))

StitchedHistoryHolds == \A l \in Logs : HoldsTogether(Verify(l))

\* The limits are exact: a chain of logs, each migrated from the next at its genesis,
\* verifies exactly when it has no more than MaxDepth migrations.
LimitsExact ==
  \A n \in 1 .. Cardinality(Logs) - 1 : \A p \in [1 .. n + 1 -> Logs] :
    /\ IsInjective(p)
    /\ \A i \in 1 .. n + 1 : Len(logs[p[i]]) = 1
    /\ \A i \in 1 .. n : logs[p[i]][1].event = Migration(Own, Min(Times), p[i + 1], p[i], 1)
    /\ logs[p[n + 1]][1].event.type = "ISSUANCE"
    => (Verify(p[1]).err = "" <=> n <= MaxDepth /\ n < MaxHistoryEvents)

\* A previous stream of one event, whose cutoff is a later copy of that event.
CopyOfTheOnlyEvent(m) ==
  m # NoVerifier /\ \E x \in Range(Append(m.evidence.prior, m.evidence)) :
    x.start # x.end /\ Cardinality({i \in 1 .. Len(m.refs) : m.refs[i][1] = x.log}) = 1

\* The evidence that RebuildHistoryThrough builds is the evidence that non-revocation
\* accepts, exactly unless the cutoff is a later copy of a stream's only event, and the
\* history it reports for a time ends at the reference of the last event of that time.
Fits(v, refs) ==
  /\ v.m # NoVerifier => (PriorEvidence(v.genesis, v.m) <=> ~CopyOfTheOnlyEvent(v.m))
  /\ Len(refs) = Len(v.events)
  /\ \A at \in Times :
       SnapshotAt(Own, v.events, at).err = "" =>
         HistoryEnd(v, at) = refs[Max({i \in 1 .. Len(refs) : v.events[i].ts <= at})]

FitsTogether(v) == v.err = "" => Fits(v, (IF v.m = NoVerifier THEN <<>> ELSE v.m.refs) \o v.own)

EvidenceFits == \A l \in Logs : FitsTogether(Verify(l))

\* The evidence that RebuildHistoryThrough builds for a cutoff is accepted by
\* non-revocation: "A valid later copy of the final logical event is allowed; its
\* exact occurrence evidence is retained" (its documentation in migration.go).
CopyIsAllowed(v) == v.err = "" /\ v.m # NoVerifier => PriorEvidence(v.genesis, v.m)
LaterCopyAllowed == \A l \in Logs : CopyIsAllowed(Verify(l))
=============================================================================
