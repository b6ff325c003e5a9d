-------------------------- MODULE LocalKeyProvider --------------------------
(***************************************************************************)
(* LocalKeyProvider: the in-memory key table, the key store file, and the  *)
(* goroutines that generate, activate, supersede, purge and sign, across   *)
(* failing writes, failing directory syncs, crashes and power losses.      *)
(*                                                                         *)
(* A mutation holds p.mu from its check to its return.  Its steps are the  *)
(* change in memory, the rename of the temporary file (everything before   *)
(* it touches the temporary file only) and the sync of the directory.      *)
(* Readers take the lock for reading, so they run only between mutations.  *)
(***************************************************************************)
EXTENDS KeyStore, FiniteSets

CONSTANTS
  Threads,   \* goroutines that use the provider
  MaxStores, \* bound: stores that a power loss may choose from
  NoKid      \* the empty kid

VARIABLES
  up,        \* the process runs with a loaded provider
  keys,      \* p.keys, as the state of every kid
  activeKid, \* p.activeKid
  op,        \* the mutation that holds p.mu
  thread,    \* what each goroutine is doing
  used,      \* kids ever generated
  owed,      \* history: keys an operation has reported as stored
  result     \* history: what the last mutation returned

vars == <<file, disk, up, keys, activeKid, op, thread, used, owed, result>>
table == <<file, disk, up, keys, activeKid, op, used, owed, result>>

\* undo and undoKid are what the operation restores when publication fails.
OpKinds == {"generate", "activate", "purge"}
Idle == [kind |-> "none", kid |-> NoKid, undo |-> [k \in Kids |-> "none"],
         undoKid |-> NoKid, stage |-> "free"]
Op == [kind : OpKinds, kid : Kids, undo : Store, undoKid : Kids \cup {NoKid},
       stage : {"write", "sync"}] \cup {Idle}

\* pc "picked": Sign or the caller of SignKey has chosen kid and not yet looked it
\* up; "signing": SignKey holds the signer outside the lock; "supersede":
\* Supersede has seen kid retained and not yet called Purge.  stale is a history
\* variable: the kids that could not sign when the call began nor since.
Thread == [pc : {"idle", "picked", "signing", "supersede"},
           kid : Kids \cup {NoKid}, stale : SUBSET Kids]
IdleThread == [pc |-> "idle", kid |-> NoKid, stale |-> {}]

TypeOK ==
  /\ file \in Store
  /\ disk \subseteq Store
  /\ up \in BOOLEAN
  /\ keys \in Store
  /\ activeKid \in (IF up THEN Kids ELSE {NoKid})
  /\ op \in Op
  /\ thread \in [Threads -> Thread]
  /\ used \subseteq Kids
  /\ owed \subseteq Kids
  /\ result \in {"none", "nil", "undone", "unsure"}

MaySign(s) == {k \in Kids : s[k] \in {"active", "pending"}}

LKPInit ==
  /\ Init
  /\ up = TRUE
  /\ keys = file
  /\ activeKid \in Active(file)
  /\ op = Idle
  /\ thread = [t \in Threads |-> IdleThread]
  /\ used = {activeKid}
  /\ owed = {activeKid}
  /\ result = "nil"

-----------------------------------------------------------------------------
(* Mutations, up to the call of persistLocked. *)

Unlocked == up /\ op.stage = "free"

Begin(kind, k, s, active) ==
  /\ Cardinality(disk \cup {s}) <= MaxStores
  /\ keys' = s
  /\ activeKid' = active
  /\ op' = [kind |-> kind, kid |-> k, undo |-> keys, undoKid |-> activeKid,
            stage |-> "write"]
  /\ result' = "none"
  /\ UNCHANGED <<file, disk, up>>

\* generateSigner: random keys do not repeat.
Fresh(k) == k \notin used

GenerateKey(k) ==
  /\ Unlocked
  /\ Fresh(k)
  /\ used' = used \cup {k}
  /\ Begin("generate", k, WithGenerated(keys, k), activeKid)
  /\ UNCHANGED <<thread, owed>>

\* Activate; for the active kid it persists the unchanged store again.
Activate(k) ==
  /\ Unlocked
  /\ Holds(keys, k)
  /\ Begin("activate", k, WithActive(keys, k), k)
  /\ UNCHANGED <<thread, used, owed>>

\* Mutant: the state of the key is not checked under the write lock.
PurgeUnchecked(k) ==
  /\ Unlocked
  /\ Begin("purge", k, Without(keys, k), activeKid)
  /\ owed' = owed \ {k}
  /\ UNCHANGED used

\* Purge; a purged key is owed to nobody from here on.
Purge(k) ==
  /\ Unlocked
  /\ keys[k] \in {"pending", "retained"}
  /\ Begin("purge", k, Without(keys, k), activeKid)
  /\ owed' = owed \ {k}
  /\ UNCHANGED used

PurgeCall(k) == Purge(k) /\ UNCHANGED thread

\* Supersede looks at the key, releases the lock, and calls Purge, which refuses
\* if the key is active or gone by then.
SupersedeCheck(t, k) ==
  /\ Unlocked
  /\ thread[t].pc = "idle"
  /\ keys[k] = "retained"
  /\ thread' = [thread EXCEPT ![t] = [IdleThread EXCEPT !.pc = "supersede", !.kid = k]]
  /\ UNCHANGED table

SupersedePurge(t) ==
  /\ thread[t].pc = "supersede"
  /\ Purge(thread[t].kid)
  /\ thread' = [thread EXCEPT ![t] = IdleThread]

SupersedeRefused(t) ==
  /\ thread[t].pc = "supersede"
  /\ Unlocked
  /\ keys[thread[t].kid] \in {"none", "active"}
  /\ thread' = [thread EXCEPT ![t] = IdleThread]
  /\ UNCHANGED table

-----------------------------------------------------------------------------
(* persistLocked and writeFileAtomic. *)

\* A failure before the rename: the caller undoes its change.
WriteFails ==
  /\ op.stage = "write"
  /\ keys' = op.undo
  /\ activeKid' = op.undoKid
  /\ op' = Idle
  /\ result' = "undone"
  /\ UNCHANGED <<file, disk, up, thread, used, owed>>

\* The change is published: the readers that come next will see it.
Published ==
  /\ file' = keys
  /\ op' = [op EXCEPT !.stage = "sync"]
  /\ thread' = [t \in Threads |->
                  [thread[t] EXCEPT !.stale = @ \ MaySign(keys)]]
  /\ UNCHANGED <<up, keys, activeKid, used, owed, result>>

Rename ==
  /\ op.stage = "write"
  /\ disk' = disk \cup {keys}
  /\ Published

\* syncKeyDirectory succeeds and the operation returns nil.
SyncDirectory ==
  /\ op.stage = "sync"
  /\ disk' = {file}
  /\ op' = Idle
  /\ result' = "nil"
  /\ owed' = {k \in Kids : Holds(keys, k)}
  /\ UNCHANGED <<file, up, keys, activeKid, thread, used>>

\* ErrKeyStoreDurability: the change stays, in memory and in the file.
SyncFails ==
  /\ op.stage = "sync"
  /\ op' = Idle
  /\ result' = "unsure"
  /\ UNCHANGED <<file, disk, up, keys, activeKid, thread, used, owed>>

-----------------------------------------------------------------------------
(* Signing. *)

Pick(t, k) ==
  /\ Unlocked
  /\ thread[t].pc = "idle"
  /\ thread' = [thread EXCEPT ![t] = [pc |-> "picked", kid |-> k,
                                      stale |-> Kids \ MaySign(keys)]]
  /\ UNCHANGED table

\* Sign reads activeKid under the read lock, releases it and calls SignKey.
Sign(t) == activeKid # NoKid /\ Pick(t, activeKid)

\* A caller of SignKey names any key.
CallSignKey(t, k) == Pick(t, k)

\* SignKey takes the signer out, or refuses a key that may not sign (any more).
SignKey(t) ==
  /\ Unlocked
  /\ thread[t].pc = "picked"
  /\ thread' = IF thread[t].kid \in MaySign(keys)
                 THEN [thread EXCEPT ![t].pc = "signing"]
                 ELSE [thread EXCEPT ![t] = IdleThread]
  /\ UNCHANGED table

\* The signature is made outside the lock, whatever happens to the key meanwhile.
SignReturn(t) ==
  /\ up
  /\ thread[t].pc = "signing"
  /\ thread' = [thread EXCEPT ![t] = IdleThread]
  /\ UNCHANGED table

-----------------------------------------------------------------------------
(* The process and the machine. *)

Stop ==
  /\ up' = FALSE
  /\ keys' = Idle.undo
  /\ activeKid' = NoKid
  /\ op' = Idle
  /\ thread' = [t \in Threads |-> IdleThread]
  /\ UNCHANGED <<used, owed, result>>

Crash == up /\ Stop /\ UNCHANGED <<file, disk>>

PowerFails == PowerLoss /\ Stop

\* A store file parses when it names one active key and no kid twice.
Loadable(s) == Cardinality(Active(s)) = 1

\* NewLocalKeyProvider: memory is what the file says; nothing is written.
Load ==
  /\ ~up
  /\ up' = TRUE
  /\ Loadable(file)
  /\ keys' = file
  /\ activeKid' \in Active(file)
  /\ UNCHANGED <<file, disk, op, thread, used, owed, result>>

LKPNext ==
  \/ \E k \in Kids : GenerateKey(k) \/ Activate(k) \/ PurgeCall(k)
  \/ \E t \in Threads :
       \/ Sign(t) \/ SignKey(t) \/ SignReturn(t)
       \/ SupersedePurge(t) \/ SupersedeRefused(t)
       \/ \E k \in Kids : SupersedeCheck(t, k) \/ CallSignKey(t, k)
  \/ WriteFails \/ Rename \/ SyncDirectory \/ SyncFails
  \/ Crash \/ PowerFails \/ Load

LKPSpec == LKPInit /\ [][LKPNext]_vars

-----------------------------------------------------------------------------

\* A key that an operation has reported as stored survives every crash and power
\* loss until it is purged (GenerateKey: "persisted ... before the kid is
\* returned").
StoredKeysSurvive ==
  \A k \in owed : Holds(file, k) /\ \A s \in disk : Holds(s, k)

\* Every store that a restart can find can be loaded by NewLocalKeyProvider,
\* whatever was interrupted.
AlwaysLoadable == \A s \in disk \cup {file} : Loadable(s)

\* Between operations memory and file agree: a failed write left nothing behind in
\* either of them, and ErrKeyStoreDurability left the change in both.
MemoryMatchesFile == Unlocked => keys = file /\ Active(keys) = {activeKid}

\* Once an operation has returned nil a power loss can undo nothing; in particular
\* the Activate(active kid) that OPERATIONS.md prescribes after a durability error
\* makes all the earlier changes durable.
NilMeansDurable == op.stage = "free" /\ result = "nil" => disk = {file}

\* A signature is never made with a key that was retired before the call began and
\* stayed so: the key is chosen and looked up under two lock acquisitions.
NoSignatureByRetiredKey ==
  \A t \in Threads : thread[t].pc = "signing" => thread[t].kid \notin thread[t].stale

\* What the provider reported as stored survives every crash and power loss,
\* memory and file agree, and retired keys do not sign.
KeysSurvive ==
  /\ TypeOK /\ StoredKeysSurvive /\ AlwaysLoadable /\ MemoryMatchesFile
  /\ NilMeansDurable /\ NoSignatureByRetiredKey

\* The file is a KeyStore: one whole store after the other, by legal changes only.
ImplementsKeyStore == Spec
=============================================================================
