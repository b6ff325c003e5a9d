-------------------------- MODULE LifecycleStream ---------------------------
(***************************************************************************)
(* One c2sp-tlog stream: writers that prepare, sign and append lifecycle   *)
(* events, anybody who appends to a public log, and readers that verify    *)
(* the history.  The log may run CheckAppend on what it sequences.         *)
(***************************************************************************)
EXTENDS LifecycleRules

CONSTANTS
  Writers,      \* processes that write with this library
  Checked,      \* the log applies CheckAppend when it sequences an entry
  EntityKey,    \* the identity's entity key
  Own,          \* the identity's domain
  Log,          \* the stream's reference
  Times,        \* timestamps, which writers take from their own clocks
  MaxEntries,   \* bound: length of the log
  MaxForeign,   \* bound: entries that were not written with this library
  Nothing       \* a writer without a prepared event

VARIABLES
  log,      \* the entries of the stream in index order
  replayed, \* their replay, when the accepted log time is past every date in them
  foreign,  \* how many of them were not written with this library
  writer    \* what each writer is doing, with which prepared event

vars == <<log, replayed, foreign, writer>>

\* Without a MigrationVerifier, inbound migrations are not followed.
NoImport == <<>>
Replayed(x) == ReplayStep(replayed, x, Len(log) + 1, Log, NoImport)
Verified == Finished(replayed)

\* verifyHistoryEntries by a reader whose proof of the i-th entry gives the log time t[i].
LogTimes == [1 .. Len(log) -> Times]
AtLogTime(x, t) == [x EXCEPT !.late = (x.event.ts > t)]
ReadAt(t) == Replay([i \in 1 .. Len(log) |-> AtLogTime(log[i], t[i])], Log, NoImport)

Idle == [pc |-> "idle", entry |-> Nothing]

\* requiredSignerRoles, and validateSignatureShape of a complete entry.
CountersignedTypes == {"ISSUANCE", "KEY_ROTATION"}
Signed(x) == x.first # NoKey /\ (x.event.type \in CountersignedTypes => x.counter # NoKey)

TypeOK ==
  /\ Len(log) <= MaxEntries
  /\ foreign \in 0 .. MaxForeign
  /\ \A w \in Writers : writer[w].pc \in {"idle", "prepared", "append"}
  /\ \A w \in Writers : writer[w].pc = "append" => Signed(writer[w].entry)

Init ==
  /\ log = <<>>
  /\ replayed = EmptyReplay
  /\ foreign = 0
  /\ writer = [w \in Writers |-> Idle]

Goto(w, l, x) == writer' = [writer EXCEPT ![w] = [pc |-> l, entry |-> x]]

-----------------------------------------------------------------------------
(* Writers.  One that reads before the log time has passed a date gets nothing to  *)
(* continue, and has to try again.                                              *)

\* ChainForWrite and PrepareEventWithChain: the events that a writer may prepare on
\* the history it reads.
Preparable ==
  {Issuance(Own, t, EntityKey, k) : t \in Times, k \in Keys \ {EntityKey}}
  \cup IF Verified.err # "" THEN {}
       ELSE LET c == NextChain(Verified.applied)
            IN  {Rotation(Own, t, c, StateOf(Verified.applied).operational, k) : t \in Times, k \in Keys}
                \cup {Event(y, Own, t, c) : y \in {"REVOCATION", "RETIREMENT", "DELEGATION"}, t \in Times}

Prepare(w) ==
  /\ writer[w].pc = "idle"
  /\ \E e \in Preparable : Goto(w, "prepared", Entry(e, NoKey, NoKey))
  /\ UNCHANGED <<log, replayed, foreign>>

\* preparedSignerKeys: the key of each signer role, from the event or from the
\* history as it is now.
SignerKeys(e) ==
  CASE e.type = "ISSUANCE" -> [ok |-> TRUE, first |-> e.entity, counter |-> e.key]
    [] e.type = "KEY_ROTATION" ->
         LET s == StateOf(Verified.applied)
         IN  [ok |-> Verified.err = "" /\ e.key # s.entity, first |-> s.operational, counter |-> e.key]
    [] OTHER ->
         [ok |-> Verified.err = "", first |-> StateOf(Verified.applied).entity, counter |-> NoKey]

\* verifyPresentSignatures.
PresentVerify(x) ==
  LET k == SignerKeys(x.event)
  IN  k.ok /\ x.first \in {NoKey, k.first} /\ x.counter \in {NoKey, k.counter}

\* SignPreparedEvent for one of the two roles; it fails when a signature that is
\* already there no longer verifies, and then the event is dropped.
Sign(w) ==
  /\ writer[w].pc = "prepared"
  /\ LET x == writer[w].entry
         k == SignerKeys(x.event)
     IN  \/ ~PresentVerify(x) /\ writer' = [writer EXCEPT ![w] = Idle]
         \/ PresentVerify(x) /\ x.first = NoKey /\ Goto(w, "prepared", [x EXCEPT !.first = k.first])
         \/ PresentVerify(x) /\ x.counter # k.counter
              /\ Goto(w, "prepared", [x EXCEPT !.counter = k.counter])
  /\ UNCHANGED <<log, replayed, foreign>>

\* validatePreparedChainAgainstHistory.
ChainHolds(e) ==
  \/ e.type = "ISSUANCE" /\ e.chain = GenesisChain
  \/ e.type # "ISSUANCE" /\ Verified.err = "" /\ e.chain = NextChain(Verified.applied)

\* WritePreparedEvent up to the call of the appender.
Write(w) ==
  /\ writer[w].pc = "prepared"
  /\ LET x == writer[w].entry
     IN  IF Signed(x) /\ PresentVerify(x) /\ ChainHolds(x.event)
           THEN Goto(w, "append", x) ELSE writer' = [writer EXCEPT ![w] = Idle]
  /\ UNCHANGED <<log, replayed, foreign>>

-----------------------------------------------------------------------------
(* The log. *)

\* CheckAppend of the history and a candidate: it is applied as the next event of a
\* history that replays in full.
CheckAppend(x) ==
  /\ Finished(Replayed(x)).err = ""
  /\ Len(Replayed(x).applied) = Len(log) + 1

\* The log sequences an entry.
Sequence(x) ==
  /\ Len(log) < MaxEntries
  /\ Checked => CheckAppend(x)
  /\ log' = Append(log, x)
  /\ replayed' = Replayed(x)

\* The appender; an answer may be lost after the entry was sequenced, and the writer
\* then appends the same bytes again.
Submit(w) ==
  /\ writer[w].pc = "append"
  /\ \/ Sequence(writer[w].entry) /\ (writer' = [writer EXCEPT ![w] = Idle] \/ UNCHANGED writer)
     \/ writer' = [writer EXCEPT ![w] = Idle] /\ UNCHANGED <<log, replayed>>
  /\ UNCHANGED foreign

\* Entries made by other software, or by nobody in particular: any event on any
\* predecessor that the log shows, under any signatures.
ForeignEntries ==
  LET applied == replayed.applied
      chains == {GenesisChain} \cup {NextChain(SubSeq(applied, 1, i)) : i \in 1 .. Len(applied)}
  IN  {Entry(Issuance(Own, t, e, k), f, k) : t \in Times, e \in Keys, k \in Keys, f \in Keys}
      \cup {Entry(Rotation(Own, t, c, p, k), f, IF both THEN k ELSE NoKey) :
              t \in Times, c \in chains, p \in Keys \ {EntityKey}, k \in Keys, f \in Keys, both \in BOOLEAN}
      \cup {Entry([Event(y, Own, t, c) EXCEPT !.ok = ok], f, NoKey) :
              y \in {"REVOCATION", "DELEGATION"}, t \in Times, c \in chains, f \in Keys, ok \in BOOLEAN}
      \cup {Entry(Migration(Own, t, NoLog, Log, 0), f, NoKey) : t \in Times, f \in Keys}
      \cup {[Entry(Event("DELEGATION", Own, Min(Times), GenesisChain), f, NoKey) EXCEPT !.deep = TRUE] : f \in Keys}

AppendForeign ==
  /\ foreign < MaxForeign
  /\ \E x \in ForeignEntries : Sequence(x)
  /\ foreign' = foreign + 1
  /\ UNCHANGED writer

Next ==
  \/ \E w \in Writers : Prepare(w) \/ Sign(w) \/ Write(w) \/ Submit(w)
  \/ AppendForeign

Spec == Init /\ [][Next]_vars

-----------------------------------------------------------------------------
(* Reads. *)

\* Mutant: any logged state will do.
ActiveSnapshotAny == Verified.err = "" /\ SnapshotAt(Own, Events(Verified.applied), Max(Times)).err = ""

\* activeHistoricalSnapshot at the reader's clock.
Now == Max(Times)
Snapshot == SnapshotAt(Own, Events(Verified.applied), Now)
ActiveSnapshot == Verified.err = "" /\ LET s == Snapshot IN s.err = "" /\ s.state = "ACTIVE"

\* verifyBilateralBinding: the genesis against the record's entity key.
BilateralBinding(entity) == Verified.err = "" /\ Verified.applied[1].event.entity = entity

\* verifyOperationalContinuity.
OperationalContinuity(initial, current) ==
  /\ ActiveSnapshot
  /\ Verified.applied[1].event.key = initial
  /\ Snapshot.key = current

\* VerifyLifecycleBinding.
LifecycleBinding(entity, current) ==
  /\ BilateralBinding(entity)
  /\ OperationalContinuity(Verified.applied[1].event.key, current)

\* KeyTimestamp: when a key became the active one, or 0 when it is not.
KeyTimestamp(key) == IF ActiveSnapshot /\ Snapshot.key = key THEN Snapshot.boundAt ELSE 0

\* VerifyNonRevocation over a complete history.
NonRevocation == ActiveSnapshot /\ Verified.applied[1].event.ts <= Now

\* ReadEvent: the entry at an index is the event that replay applied, or a later copy
\* of it under signatures that the same authority accepts.
ReadEvent(i) ==
  /\ Verified.err = ""
  /\ \E j \in 1 .. Len(Verified.applied) :
       LET a == Verified.applied[j]
           auth == IF j = 1 THEN a.after ELSE Verified.applied[j - 1].after
       IN  a.index <= i /\ a.event = log[i].event /\ Authorized(log[i], auth.entity, auth.operational)

-----------------------------------------------------------------------------

\* A log that applies CheckAppend, however writers race, retry and take their time
\* from different clocks, is read in full by every reader whose log times have reached
\* the dates in it, and by no other: CheckAppend does not look at the log's time.
CheckedLogVerifies ==
  log # <<>> => \A t \in LogTimes :
    LET read == ReadAt(t)
    IN  IF \A i \in 1 .. Len(log) : log[i].event.ts <= t[i]
          THEN read.err = "" /\ Len(read.applied) = Len(log)
          ELSE read.err = "INVALID_EVIDENCE"

\* A key of the stream, or of an ISSUANCE that would begin it, signed the entry.
OwnKeySigned(x, applied) ==
  x.first \in {x.event.entity} \cup UNION {{a.after.entity, a.after.operational} : a \in Range(applied)}

\* Log time decides whether a history is read, never which: a reader with early log
\* times reads what it will read when they are past every date, or it is refused
\* because of an event dated ahead that a key of the stream signed.  What strangers
\* date ahead delays nobody.
LogTimeOnlyDelays ==
  \A t \in LogTimes :
    LET early == ReadAt(t)
    IN  \/ early.err = Verified.err /\ (early.err = "" => early = Verified)
        \/ /\ early.err = "INVALID_EVIDENCE"
           /\ \E i \in 1 .. Len(log) : log[i].event.ts > t[i] /\ OwnKeySigned(log[i], Verified.applied)

\* The replay of the entries and the reducer of the events agree on the status, on
\* the active key and on who may sign next.
ReducersAgree ==
  Verified.err = "" =>
    LET s == Snapshot
    IN  /\ s.err = ""
        /\ s.state = StateOf(Verified.applied).status
        /\ s.key = StateOf(Verified.applied).operational
        /\ s.n = Len(Verified.applied)

\* Entries signed by no key that the stream ever had, and later copies of applied
\* events under any signatures, change nothing.  An entry that is nested beyond the
\* limit makes the stream unreadable, whoever appended it.
NoiseIsIgnored ==
  Verified.err = "" /\ log' # log =>
   IF Last(log').deep THEN Verified'.err = "LIMIT" ELSE
    LET x == Last(log')
        after == {Verified.applied[j].after : j \in 1 .. Len(Verified.applied)}
    IN  x.event \in Range(Events(Verified.applied))
          \/ x.first \notin {s.entity : s \in after} \cup {s.operational : s \in after}
        => Verified' = Verified

\* A history only grows: what is appended adds at most one event to what was applied
\* or makes the stream invalid, and an invalid stream stays invalid, as long as no
\* event is dated after the accepted log time.
OnlyGrows ==
  /\ Verified.err \notin {"", "LOG_ERROR", "INVALID_MIGRATION"} => Verified'.err \in {Verified.err, "LIMIT"}
  /\ Verified.err = "" /\ Verified'.err = "" =>
       \/ Verified'.applied = Verified.applied
       \/ Front(Verified'.applied) = Verified.applied

\* The read operations hold together: the binding verifies for exactly the entity key
\* of the genesis and the one key whose time KeyTimestamp gives, and for none once
\* the identity is revoked or retired.
ReadsAgree ==
  \A e, k \in Keys :
    /\ LifecycleBinding(e, k) => KeyTimestamp(k) # 0 /\ NonRevocation
    /\ NonRevocation /\ KeyTimestamp(k) # 0 /\ BilateralBinding(e) => LifecycleBinding(e, k)
    /\ Verified.err = "" /\ StateOf(Verified.applied).status \in Terminal => ~LifecycleBinding(e, k)

\* Every operational key in an applied history was put in force by the key before it:
\* the previous key signed the event that replaced it, and the new one countersigned.
ContinuousKeys ==
  Verified.err = "" =>
    \A j \in 2 .. Len(Verified.applied) :
      Verified.applied[j].event.type = "KEY_ROTATION" =>
        /\ log[Verified.applied[j].index].first = Verified.applied[j - 1].after.operational
        /\ log[Verified.applied[j].index].counter = Verified.applied[j].after.operational

\* Every applied event can be read at its own index, and nothing else is read that
\* replay did not apply.
AppliedIsReadable ==
  Verified.err = "" =>
    /\ \A j \in 1 .. Len(Verified.applied) : ReadEvent(Verified.applied[j].index)
    /\ \A i \in 1 .. Len(log) : ReadEvent(i) => log[i].event \in Range(Events(Verified.applied))
=============================================================================
