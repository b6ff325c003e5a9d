--------------------------- MODULE LifecycleRules ---------------------------
(***************************************************************************)
(* Lifecycle events and what is computed from them: the reducer SnapshotAt *)
(* of a verified history, the replay of a c2sp-tlog stream that decides    *)
(* which entries are applied, and the reads built on the two.  A key stands*)
(* for its JWK, kid and thumbprint; an event for its canonical signed      *)
(* bytes, hence for its event ID; a state for its hash.                    *)
(***************************************************************************)
EXTENDS Naturals, FiniteSetsExt, SequencesExt

CONSTANTS
  Keys,      \* entity and operational keys
  NoKey,     \* no key, no signature, or one that does not verify
  NoEvent,   \* an absent prev_event_id
  NoLog      \* an absent log reference

Terminal == {"REVOKED", "RETIRED"}

\* LifecycleState; its hash is prev_state_hash.
NoState == [status |-> "", entity |-> NoKey, operational |-> NoKey]
ActiveState(entity, operational) ==
  [status |-> "ACTIVE", entity |-> entity, operational |-> operational]

\* The logical chain fields of an event.
GenesisChain == [seq |-> 0, prev |-> NoEvent, state |-> NoState]

\* LogEvent.  ok: the fields that validateLifecycleFields requires of this type are
\* there and well formed (reasons, key bindings, delegation fields).  key is the
\* initial or new operational key, prevKey the one a rotation replaces.
Event(type, domain, ts, chain) ==
  [type |-> type, domain |-> domain, ts |-> ts, chain |-> chain, entity |-> NoKey,
   key |-> NoKey, prevKey |-> NoKey, from |-> NoLog, to |-> NoLog, final |-> 0, ok |-> TRUE]
Issuance(domain, ts, entity, key) ==
  [Event("ISSUANCE", domain, ts, GenesisChain) EXCEPT !.entity = entity, !.key = key,
                                                     !.ok = (entity # key)]
Rotation(domain, ts, chain, prevKey, key) ==
  [Event("KEY_ROTATION", domain, ts, chain) EXCEPT !.prevKey = prevKey, !.key = key]
Migration(domain, ts, from, to, final) ==
  [Event("MIGRATION", domain, ts, GenesisChain) EXCEPT !.from = from, !.to = to,
                                                      !.final = final, !.ok = (from # to)]

-----------------------------------------------------------------------------
(* DomainLog.SnapshotAt. *)

EmptySnapshot == [err |-> "", state |-> "", key |-> NoKey, boundAt |-> 0, n |-> 0, past |-> FALSE]
SnapshotError(s, code) == [s EXCEPT !.err = code]

\* Mutant: a rotation need not continue from the active key.
SnapshotEventLoose(s, e) ==
  CASE e.type = "ISSUANCE" ->
         [s EXCEPT !.state = "ACTIVE", !.key = e.key, !.boundAt = e.ts, !.n = @ + 1]
    [] e.type = "KEY_ROTATION" -> [s EXCEPT !.key = e.key, !.boundAt = e.ts, !.n = @ + 1]
    [] e.type = "REVOCATION" -> [s EXCEPT !.state = "REVOKED", !.n = @ + 1]
    [] e.type = "RETIREMENT" -> [s EXCEPT !.state = "RETIRED", !.n = @ + 1]
    [] OTHER -> [s EXCEPT !.n = @ + 1]

\* The switch over the event type.
SnapshotEvent(s, e) ==
  CASE e.type = "ISSUANCE" ->
         IF s.state # "" THEN SnapshotError(s, "DUPLICATE_ISSUANCE")
         ELSE IF ~e.ok \/ e.entity = e.key THEN SnapshotError(s, "INVALID_ISSUANCE")
         ELSE [s EXCEPT !.state = "ACTIVE", !.key = e.key, !.boundAt = e.ts, !.n = @ + 1]
    [] e.type = "KEY_ROTATION" ->
         IF e.prevKey # s.key \/ ~e.ok \/ e.key = s.key THEN SnapshotError(s, "KEY_CONTINUITY")
         ELSE [s EXCEPT !.key = e.key, !.boundAt = e.ts, !.n = @ + 1]
    [] e.type = "REVOCATION" ->
         IF ~e.ok THEN SnapshotError(s, "INVALID_REVOCATION_REASON")
         ELSE [s EXCEPT !.state = "REVOKED", !.n = @ + 1]
    [] e.type = "RETIREMENT" -> [s EXCEPT !.state = "RETIRED", !.n = @ + 1]
    [] e.type = "MIGRATION" ->
         IF ~e.ok \/ e.from = e.to THEN SnapshotError(s, "INVALID_MIGRATION")
         ELSE [s EXCEPT !.n = @ + 1]
    [] e.type = "DELEGATION" -> [s EXCEPT !.n = @ + 1]

\* One round of the loop over the events.
SnapshotStep(domain, at, s, e) ==
  IF s.err # "" THEN s
  ELSE IF e.domain # domain THEN SnapshotError(s, "DOMAIN_MISMATCH")
  ELSE IF e.ts > at THEN [s EXCEPT !.past = TRUE]
  ELSE IF s.past THEN SnapshotError(s, "SNAPSHOT_NON_PREFIX")
  ELSE IF s.state = "" /\ e.type # "ISSUANCE" THEN SnapshotError(s, "GENESIS_REQUIRED")
  ELSE IF s.state \in Terminal THEN SnapshotError(s, "TERMINAL_STATE")
  ELSE SnapshotEvent(s, e)

SnapshotAt(domain, events, at) ==
  LET s == FoldLeft(LAMBDA t, e : SnapshotStep(domain, at, t, e), EmptySnapshot, events)
  IN  IF s.err = "" /\ s.state = "" THEN SnapshotError(s, "SNAPSHOT_EMPTY") ELSE s

-----------------------------------------------------------------------------
(* verifyLifecycleVerifiedWithMigration: the replay of a stream's entries. *)

\* An entry: an event with the keys its signatures verify under, first the entity's
\* or the previous operational key's, then the countersignature.  late: its date is
\* after the log time that the reader accepted; deep: it is nested beyond the limit.
Entry(e, first, counter) ==
  [event |-> e, first |-> first, counter |-> counter, late |-> FALSE, deep |-> FALSE]

\* The payload has a validation error.
Invalid(entry) == ~entry.event.ok \/ entry.late

\* candidateAuthorizedByCurrentHistory.
Authorized(entry, entity, operational) ==
  /\ entry.first # NoKey
  /\ entry.first = (IF entry.event.type = "KEY_ROTATION" THEN operational ELSE entity)
  /\ entry.event.type \in {"ISSUANCE", "KEY_ROTATION"} => entry.counter = entry.event.key

\* applied: the accepted entries in order with the state after each; prior: the
\* history that a migration genesis imports.
EmptyReplay == [err |-> "", applied |-> <<>>, prior |-> <<>>, sawMigration |-> FALSE]
ReplayError(r, code) == [r EXCEPT !.err = code]
Apply(r, entry, i, state) ==
  [r EXCEPT !.applied = Append(@, [event |-> entry.event, index |-> i, after |-> state])]

\* lifecycleStateFromVerified of the applied entries.
StateOf(applied) == IF applied = <<>> THEN NoState ELSE Last(applied).after
Events(applied) == [i \in 1 .. Len(applied) |-> applied[i].event]

\* The keys that may speak for the state that an event names as its predecessor.
AuthorityFor(applied, e) ==
  LET named == {i \in 1 .. Len(applied) : applied[i].event = e.chain.prev}
  IN  IF named = {} THEN StateOf(applied) ELSE applied[CHOOSE i \in named : TRUE].after

NextChain(applied) ==
  [seq |-> Len(applied), prev |-> Last(applied).event, state |-> StateOf(applied)]

\* What the verification of an inbound MIGRATION gives, by event: no verifier is configured, an
\* error, or the keys at the cutoff and the history before it.
NoVerifier == [outcome |-> "none", entity |-> NoKey, operational |-> NoKey, history |-> <<>>]

\* Mutant: the migration may be older than what it imports.
ValidMigrationAnyTime(e, m) == m.history # <<>> /\ m.entity # m.operational

\* validateMigrationResult.
ValidMigrationResult(e, m) ==
  LET h == m.history
      latest == CHOOSE t \in {x.ts : x \in Range(h)} : \A x \in Range(h) : x.ts <= t
      snapshot == SnapshotAt(e.domain, h, latest)
      issuances == {i \in 1 .. Len(h) : h[i].type = "ISSUANCE"}
  IN  /\ h # <<>>
      /\ m.entity # m.operational
      /\ ~\E x \in Range(h) : x.type = "MIGRATION" /\ x.from = e.from /\ x.to = e.to /\ x.final = e.final
      /\ latest <= e.ts
      /\ snapshot.err = "" /\ snapshot.state = "ACTIVE" /\ snapshot.key = m.operational
      /\ issuances # {} /\ h[Min(issuances)].entity = m.entity

\* The genesis of a stream: an ISSUANCE that its own keys sign, or a MIGRATION that
\* the entity key of the imported history signs.
Genesis(r, entry, i, log, imported) ==
  LET e == entry.event IN
  CASE e.type = "ISSUANCE" ->
         IF ~Authorized(entry, e.entity, e.key) THEN r
         ELSE IF Invalid(entry) THEN ReplayError(r, "INVALID_EVIDENCE")
         ELSE IF e.chain # GenesisChain THEN ReplayError(r, "CHAIN_CONTINUITY")
         ELSE Apply(r, entry, i, ActiveState(e.entity, e.key))
    [] e.type = "MIGRATION" ->
         LET q == [r EXCEPT !.sawMigration = TRUE]
             m == IF e \in DOMAIN imported THEN imported[e] ELSE NoVerifier
         IN  IF m.outcome = "none" \/ e.from = e.to \/ e.to # log THEN q
             ELSE IF m.outcome = "error" THEN ReplayError(q, "INVALID_MIGRATION")
             ELSE IF entry.first # m.entity THEN q
             ELSE IF Invalid(entry) \/ ~ValidMigrationResult(e, m) THEN ReplayError(q, "INVALID_MIGRATION")
             ELSE IF e.chain # GenesisChain THEN ReplayError(q, "CHAIN_CONTINUITY")
             ELSE [Apply(q, entry, i, ActiveState(m.entity, m.operational))
                     EXCEPT !.prior = m.history]
    [] OTHER -> r

\* Mutant: of two events on one predecessor the later wins.
ContinueForking(r, entry, i) ==
  LET e == entry.event
      a == AuthorityFor(r.applied, e)
      q == [r EXCEPT !.applied = SelectSeq(@, LAMBDA x : x.event.chain.seq < e.chain.seq)]
  IN  IF ~Authorized(entry, a.entity, a.operational) \/ e.chain.seq = 0 THEN r
      ELSE IF q.applied = <<>> \/ e.chain # NextChain(q.applied) THEN ReplayError(r, "CHAIN_CONTINUITY")
      ELSE Apply(q, entry, i, IF e.type = "KEY_ROTATION" THEN ActiveState(a.entity, e.key) ELSE a)

\* An event after the genesis: what no key of the stream has signed is skipped, what
\* is signed and breaks a rule makes the history invalid.
Continue(r, entry, i) ==
  LET e == entry.event
      s == StateOf(r.applied)
      a == AuthorityFor(r.applied, e)
  IN  CASE ~Authorized(entry, a.entity, a.operational) -> r
        [] OTHER ->
             IF s.status \in Terminal THEN ReplayError(r, "TERMINAL_STATE")
             ELSE IF e.type = "ISSUANCE" THEN ReplayError(r, "DUPLICATE_ISSUANCE")
             ELSE IF e.chain # NextChain(r.applied) THEN ReplayError(r, "CHAIN_CONTINUITY")
             ELSE IF e.ts < Last(r.applied).event.ts THEN ReplayError(r, "CHAIN_CONTINUITY")
             ELSE IF Invalid(entry) THEN ReplayError(r, "INVALID_EVIDENCE")
             ELSE IF e.type = "MIGRATION" THEN ReplayError(r, "INVALID_MIGRATION")
             ELSE IF e.type = "KEY_ROTATION"
                       /\ (e.prevKey # s.operational \/ e.key \in {s.operational, s.entity})
               THEN ReplayError(r, "KEY_CONTINUITY")
             ELSE Apply(r, entry, i,
                    CASE e.type = "KEY_ROTATION" -> ActiveState(s.entity, e.key)
                      [] e.type = "REVOCATION" -> [s EXCEPT !.status = "REVOKED"]
                      [] e.type = "RETIREMENT" -> [s EXCEPT !.status = "RETIRED"]
                      [] e.type = "DELEGATION" -> s)

\* Mutant: a date after the log time fails the history, whoever signed the entry.
ReplayStepLate(r, entry, i, log, imported) ==
  IF r.err # "" THEN r
  ELSE IF entry.late \/ entry.deep THEN ReplayError(r, "INVALID_EVIDENCE")
  ELSE IF r.applied = <<>> THEN Genesis(r, entry, i, log, imported)
  ELSE Continue(r, entry, i)

\* A copy of an applied event is skipped, whatever its signatures.  The limit on
\* nesting is on every entry, before the replay.
ReplayStep(r, entry, i, log, imported) ==
  IF entry.deep THEN ReplayError(r, "LIMIT")
  ELSE IF r.err # "" \/ \E j \in 1 .. Len(r.applied) : r.applied[j].event = entry.event THEN r
  ELSE IF r.applied = <<>> THEN Genesis(r, entry, i, log, imported)
  ELSE Continue(r, entry, i)

\* The end of the replay: a stream without a genesis has no history.
Finished(r) ==
  IF r.err = "" /\ r.applied = <<>>
    THEN ReplayError(r, IF r.sawMigration THEN "INVALID_MIGRATION" ELSE "LOG_ERROR")
    ELSE r

\* The replay of a stream's entries at some indices, in their order.
ReplayOf(entries, indices, log, imported) ==
  Finished(FoldLeft(LAMBDA s, i : ReplayStep(s, entries[i], i, log, imported), EmptyReplay, indices))

\* The replay of all of them.
Indices(entries) == [i \in 1 .. Len(entries) |-> i]
Replay(entries, log, imported) == ReplayOf(entries, Indices(entries), log, imported)
=============================================================================
