----------------------- MODULE LocalKeyProviderProofs -----------------------
(***************************************************************************)
(* The local key provider keeps its promises for any set of keys and of    *)
(* goroutines, and its file is a KeyStore.                                 *)
(***************************************************************************)
EXTENDS LocalKeyProvider, FiniteSetTheorems, TLAPS

\* A store with exactly one active key, as NewLocalKeyProvider asks for.
OneActive(s) == \E k \in Kids : Active(s) = {k}

\* Every key of the store was generated, and none that is owed is missing.
Complete(s) == \A k \in Kids : (k \in owed => Holds(s, k)) /\ (Holds(s, k) => k \in used)

\* What a mutation under way has changed in memory, and what it would undo.
Mutation ==
  /\ up => Active(keys) = {activeKid}
  /\ up /\ op.stage # "write" => keys = file
  /\ op.stage # "free" => up /\ result = "none"
  /\ op.stage = "write" =>
       /\ op.undo = file /\ Active(file) = {op.undoKid}
       /\ Legal(file, keys) /\ Complete(keys)

\* Every store that a power loss can leave is sound, and the file is one of them.
Stores ==
  /\ file \in disk
  /\ \A s \in disk : OneActive(s) /\ Complete(s)
  /\ NilMeansDurable

\* A goroutine that is not idle has named a key, and a key that a signing call
\* regards as stale cannot sign by the file.
Signers ==
  /\ \A t \in Threads : /\ thread[t].pc # "idle" => thread[t].kid \in Kids
                        /\ thread[t].stale \cap MaySign(file) = {}
  /\ NoSignatureByRetiredKey

LKPInv == TypeOK /\ Mutation /\ Stores /\ Signers

-----------------------------------------------------------------------------
(* The changes of a store. *)

\* Generating a key that the store does not hold leaves its active key alone.
LEMMA GeneratedStore ==
  ASSUME NEW s \in Store, NEW k \in Kids, ~Holds(s, k)
  PROVE  /\ WithGenerated(s, k) \in Store
         /\ Active(WithGenerated(s, k)) = Active(s)
         /\ \A j \in Kids : Holds(WithGenerated(s, k), j) <=> j = k \/ Holds(s, j)
BY DEF Store, KeyState, WithGenerated, Active, Holds

\* After Activate the key is the only active one, and no key is lost.
LEMMA ActivatedStore ==
  ASSUME NEW s \in Store, NEW k \in Kids, Holds(s, k)
  PROVE  /\ WithActive(s, k) \in Store
         /\ Active(WithActive(s, k)) = {k}
         /\ \A j \in Kids : Holds(WithActive(s, k), j) <=> Holds(s, j)
BY DEF Store, KeyState, WithActive, Active, Holds

\* Purging a key that is not active leaves the active key alone.
LEMMA PurgedStore ==
  ASSUME NEW s \in Store, NEW k \in Kids, s[k] \in {"pending", "retained"}
  PROVE  /\ Without(s, k) \in Store
         /\ Active(Without(s, k)) = Active(s)
         /\ \A j \in Kids : Holds(Without(s, k), j) <=> j # k /\ Holds(s, j)
BY DEF Store, KeyState, Without, Active, Holds

\* The first store has one active key.
LEMMA FirstIsStore ==
  ASSUME NEW k \in Kids
  PROVE  /\ FirstStore(k) \in Store
         /\ Active(FirstStore(k)) = {k}
         /\ \A j \in Kids : Holds(FirstStore(k), j) <=> j = k
BY DEF Store, KeyState, FirstStore, Active, Holds

\* A store with one active key can be loaded.
LEMMA OneActiveLoads ==
  ASSUME NEW s, OneActive(s)
  PROVE  Loadable(s)
BY FS_Singleton DEF OneActive, Loadable

-----------------------------------------------------------------------------
(* The steps, by what they do to the table. *)

\* A mutation has changed the table in memory, and is about to write it.
Started ==
  /\ Unlocked
  /\ \E kind \in OpKinds, k \in Kids :
       op' = [kind |-> kind, kid |-> k, undo |-> keys, undoKid |-> activeKid, stage |-> "write"]
  /\ Legal(keys, keys') /\ keys' \in Store
  /\ activeKid' \in Kids /\ Active(keys') = {activeKid'}
  /\ used \subseteq used' /\ used' \subseteq Kids
  /\ owed' \subseteq owed
  /\ \A j \in Kids : /\ Holds(keys, j) /\ j \in owed' => Holds(keys', j)
                     /\ Holds(keys', j) => Holds(keys, j) \/ j \in used'
  /\ result' = "none"
  /\ UNCHANGED <<file, disk, up>>

\* GenerateKey, Activate and Purge, called or from Supersede, start a mutation.
LEMMA MutationStarts ==
  ASSUME LKPInv,
         \/ \E k \in Kids : GenerateKey(k) \/ Activate(k) \/ PurgeCall(k)
         \/ \E t \in Threads : SupersedePurge(t)
  PROVE  Started
<1> USE DEF LKPInv
<1>0. /\ keys \in Store /\ used \subseteq Kids /\ owed \subseteq Kids
      /\ Unlocked => /\ activeKid \in Kids /\ Active(keys) = {activeKid} /\ keys = file
                     /\ \A j \in Kids : Holds(keys, j) => j \in used
  BY DEF TypeOK, Mutation, Stores, Complete, Unlocked
<1>1. ASSUME NEW k \in Kids, GenerateKey(k)
      PROVE  Started
  <2>1. ~Holds(keys, k) /\ Unlocked
    BY <1>0, <1>1 DEF GenerateKey, Fresh
  <2>2. /\ keys' = WithGenerated(keys, k) /\ activeKid' = activeKid /\ owed' = owed
        /\ used' = used \cup {k} /\ result' = "none"
        /\ op' = [kind |-> "generate", kid |-> k, undo |-> keys, undoKid |-> activeKid, stage |-> "write"]
        /\ UNCHANGED <<file, disk, up>>
    BY <1>1 DEF GenerateKey, Begin
  <2>3. Legal(keys, keys')
    BY <2>1, <2>2 DEF Legal
  <2> QED
    BY <1>0, <2>1, <2>2, <2>3, GeneratedStore DEF Started, OpKinds
<1>2. ASSUME NEW k \in Kids, Activate(k)
      PROVE  Started
  <2>1. Holds(keys, k) /\ Unlocked
    BY <1>2 DEF Activate
  <2>2. /\ keys' = WithActive(keys, k) /\ activeKid' = k /\ owed' = owed
        /\ used' = used /\ result' = "none"
        /\ op' = [kind |-> "activate", kid |-> k, undo |-> keys, undoKid |-> activeKid, stage |-> "write"]
        /\ UNCHANGED <<file, disk, up>>
    BY <1>2 DEF Activate, Begin
  <2>3. Legal(keys, keys')
    BY <2>1, <2>2 DEF Legal
  <2> QED
    BY <1>0, <2>1, <2>2, <2>3, ActivatedStore DEF Started, OpKinds
<1>3. ASSUME NEW k \in Kids, Purge(k)
      PROVE  Started
  <2>1. keys[k] \in {"pending", "retained"} /\ Unlocked
    BY <1>3 DEF Purge
  <2>2. /\ keys' = Without(keys, k) /\ activeKid' = activeKid /\ owed' = owed \ {k}
        /\ used' = used /\ result' = "none"
        /\ op' = [kind |-> "purge", kid |-> k, undo |-> keys, undoKid |-> activeKid, stage |-> "write"]
        /\ UNCHANGED <<file, disk, up>>
    BY <1>3 DEF Purge, Begin
  <2>3. Legal(keys, keys')
    BY <2>1, <2>2 DEF Legal
  <2> QED
    BY <1>0, <2>1, <2>2, <2>3, PurgedStore DEF Started, OpKinds
<1>4. ASSUME NEW t \in Threads, SupersedePurge(t)
      PROVE  \E k \in Kids : Purge(k)
  <2>1. keys[thread[t].kid] \in {"pending", "retained"} /\ Purge(thread[t].kid)
    BY <1>4 DEF SupersedePurge, Purge
  <2> QED
    BY <1>4, <2>1 DEF Signers, SupersedePurge
<1> QED
  BY <1>1, <1>2, <1>3, <1>4 DEF PurgeCall

-----------------------------------------------------------------------------
(* The steps preserve the invariant. *)

\* A step that leaves the table alone moves one goroutine.
LEMMA ThreadStep ==
  ASSUME LKPInv, UNCHANGED table, thread' \in [Threads -> Thread], Signers'
  PROVE  LKPInv'
BY DEF LKPInv, TypeOK, Mutation, Stores, OneActive, Complete, NilMeansDurable, Active, Holds, Legal,
       WithGenerated, WithActive, Without, table

\* Goroutines that keep their kid and do not add stale keys stay sound while the
\* file stays.
LEMMA SignersKeep ==
  ASSUME LKPInv, UNCHANGED <<file, thread>>
  PROVE  Signers'
BY DEF LKPInv, Signers, NoSignatureByRetiredKey, MaySign

\* A goroutine that becomes idle leaves nothing to show.
LEMMA IdleThreadStep ==
  ASSUME LKPInv, NEW t \in Threads, thread' = [thread EXCEPT ![t] = IdleThread], UNCHANGED file
  PROVE  thread' \in [Threads -> Thread] /\ Signers'
<1>1. IdleThread \in Thread /\ IdleThread.pc = "idle" /\ IdleThread.stale = {}
  BY DEF IdleThread, Thread
<1>2. thread \in [Threads -> Thread]
  BY DEF LKPInv, TypeOK
<1> QED
  BY <1>1, <1>2 DEF LKPInv, Signers, NoSignatureByRetiredKey, MaySign

\* Sign, SignKey and Supersede, up to the Purge.
LEMMA ThreadMoves ==
  ASSUME LKPInv, NEW t \in Threads,
         \/ Sign(t) \/ SignKey(t) \/ SignReturn(t) \/ SupersedeRefused(t)
         \/ \E k \in Kids : SupersedeCheck(t, k) \/ CallSignKey(t, k)
  PROVE  LKPInv'
<1>0. thread \in [Threads -> Thread] /\ thread[t] \in Thread
  BY DEF LKPInv, TypeOK
<1>1. ASSUME NEW k \in Kids, Pick(t, k)
      PROVE  LKPInv'
  <2>1. UNCHANGED table /\ keys = file
    BY <1>1 DEF Pick, Unlocked, LKPInv, Mutation
  <2> DEFINE th == [pc |-> "picked", kid |-> k, stale |-> Kids \ MaySign(keys)]
  <2>2. thread' = [thread EXCEPT ![t] = th]
    BY <1>1 DEF Pick
  <2>3. th \in Thread /\ th.pc = "picked" /\ th.kid \in Kids /\ th.stale \cap MaySign(file) = {}
    BY <2>1 DEF Thread
  <2> HIDE DEF th
  <2>4. thread' \in [Threads -> Thread]
    BY <1>0, <2>2, <2>3
  <2>5. Signers'
    BY <1>0, <2>1, <2>2, <2>3 DEF LKPInv, Signers, NoSignatureByRetiredKey, MaySign, table
  <2> QED
    BY <2>1, <2>4, <2>5, ThreadStep
<1>2. ASSUME SignKey(t)
      PROVE  LKPInv'
  <2>1. UNCHANGED table /\ keys = file
    BY <1>2 DEF SignKey, Unlocked, LKPInv, Mutation
  <2>2. CASE thread[t].kid \in MaySign(keys)
    <3>1. thread' = [thread EXCEPT ![t].pc = "signing"]
      BY <1>2, <2>2 DEF SignKey
    <3>2. thread' \in [Threads -> Thread]
      BY <1>0, <3>1 DEF Thread
    <3>3. thread[t].kid \notin thread[t].stale
      BY <2>1, <2>2 DEF LKPInv, Signers
    <3>4. thread[t].kid \in Kids
      BY <2>2 DEF MaySign
    <3>5. /\ thread'[t].pc = "signing" /\ thread'[t].kid = thread[t].kid /\ thread'[t].stale = thread[t].stale
          /\ \A q \in Threads \ {t} : thread'[q] = thread[q]
      BY <1>0, <3>1 DEF Thread
    <3>6. Signers'
      BY <2>1, <3>3, <3>4, <3>5 DEF LKPInv, Signers, NoSignatureByRetiredKey, MaySign, table
    <3> QED
      BY <2>1, <3>2, <3>6, ThreadStep
  <2>3. CASE thread[t].kid \notin MaySign(keys)
    BY <1>2, <2>1, <2>3, ThreadStep, IdleThreadStep DEF SignKey, table
  <2> QED
    BY <2>2, <2>3
<1>3. ASSUME SignReturn(t) \/ SupersedeRefused(t)
      PROVE  LKPInv'
  BY <1>3, ThreadStep, IdleThreadStep DEF SignReturn, SupersedeRefused, table
<1>4. ASSUME NEW k \in Kids, SupersedeCheck(t, k)
      PROVE  LKPInv'
  <2> DEFINE th == [IdleThread EXCEPT !.pc = "supersede", !.kid = k]
  <2>1. UNCHANGED table /\ thread' = [thread EXCEPT ![t] = th]
    BY <1>4 DEF SupersedeCheck
  <2>2. th \in Thread /\ th.pc = "supersede" /\ th.kid \in Kids /\ th.stale = {}
    BY DEF IdleThread, Thread
  <2> HIDE DEF th
  <2>3. thread' \in [Threads -> Thread] /\ Signers'
    BY <1>0, <2>1, <2>2 DEF LKPInv, Signers, NoSignatureByRetiredKey, MaySign, table
  <2> QED
    BY <2>1, <2>3, ThreadStep
<1>5. Sign(t) => \E k \in Kids : Pick(t, k)
  BY DEF Sign, Pick, Unlocked, LKPInv, TypeOK
<1> QED
  BY <1>1, <1>2, <1>3, <1>4, <1>5 DEF CallSignKey

\* A mutation that starts is undone by restoring the file's store, and it keeps
\* all that is owed.
LEMMA StartedStep ==
  ASSUME LKPInv, Started, thread' \in [Threads -> Thread], Signers'
  PROVE  LKPInv'
<1>1. /\ up /\ op.stage = "free" /\ keys = file /\ Active(file) = {activeKid} /\ file \in disk
      /\ activeKid \in Kids /\ keys \in Store
  BY DEF LKPInv, Started, Unlocked, TypeOK, Mutation, Stores
<1>2. PICK kind \in OpKinds, k \in Kids :
        op' = [kind |-> kind, kid |-> k, undo |-> keys, undoKid |-> activeKid, stage |-> "write"]
  BY DEF Started
<1>3. TypeOK'
  BY <1>1, <1>2 DEF LKPInv, Started, TypeOK, Op
<1>4. ASSUME NEW s \in disk
      PROVE  OneActive(s) /\ Complete(s)'
  BY DEF LKPInv, TypeOK, Stores, Complete, Started
<1>5. Complete(keys)'
  BY <1>1, <1>4 DEF LKPInv, TypeOK, Complete, Started
<1>6. Mutation'
  BY <1>1, <1>2, <1>5 DEF Started, Mutation
<1>7. Stores'
  BY <1>1, <1>2, <1>4 DEF Started, Stores, OneActive, NilMeansDurable
<1> QED
  BY <1>3, <1>6, <1>7 DEF LKPInv

\* persistLocked: what the rename, its failure and the directory sync do.
LEMMA PersistStep ==
  ASSUME LKPInv, WriteFails \/ Rename \/ SyncDirectory \/ SyncFails
  PROVE  LKPInv'
<1>0. /\ keys \in Store /\ file \in Store /\ disk \subseteq Store /\ file \in disk
      /\ op \in Op /\ Idle \in Op /\ Idle.stage = "free" /\ thread \in [Threads -> Thread]
  BY DEF LKPInv, TypeOK, Stores, Op, Idle
<1>1. CASE WriteFails
  <2>1. /\ keys' = file /\ activeKid' = op.undoKid /\ op' = Idle /\ result' = "undone"
        /\ up /\ op.undoKid \in Kids /\ Active(file) = {op.undoKid}
        /\ UNCHANGED <<file, disk, up, thread, used, owed>>
    BY <1>0, <1>1 DEF WriteFails, LKPInv, Mutation, Active
  <2>2. TypeOK'
    BY <1>0, <2>1 DEF LKPInv, TypeOK
  <2>3. Mutation' /\ Stores'
    BY <1>0, <2>1 DEF LKPInv, Mutation, Stores, OneActive, Complete, NilMeansDurable
  <2> QED
    BY <2>1, <2>2, <2>3, SignersKeep DEF LKPInv
<1>2. CASE Rename
  <2>1. /\ file' = keys /\ op' = [op EXCEPT !.stage = "sync"] /\ disk' = disk \cup {keys}
        /\ op.stage = "write" /\ up /\ result = "none" /\ activeKid \in Kids
        /\ Active(keys) = {activeKid} /\ Complete(keys)
        /\ UNCHANGED <<up, keys, activeKid, used, owed, result>>
    BY <1>2 DEF Rename, Published, LKPInv, TypeOK, Mutation
  <2>2. op.kind \in OpKinds /\ op' \in Op /\ op'.stage = "sync"
    BY <1>0, <2>1 DEF Op, Idle
  <2>3. thread' = [t \in Threads |-> [thread[t] EXCEPT !.stale = @ \ MaySign(keys)]]
    BY <1>2 DEF Rename, Published
  <2>4. \A t \in Threads : /\ thread'[t] \in Thread
                           /\ thread'[t].pc = thread[t].pc /\ thread'[t].kid = thread[t].kid
                           /\ thread'[t].stale = thread[t].stale \ MaySign(keys)
    BY <1>0, <2>3 DEF Thread
  <2>5. TypeOK'
    BY <1>0, <2>1, <2>2, <2>3, <2>4 DEF LKPInv, TypeOK
  <2>6. Mutation'
    BY <2>1, <2>2 DEF Mutation
  <2>7. Stores'
    BY <2>1, <2>2 DEF LKPInv, Stores, OneActive, Complete, NilMeansDurable
  <2>8. Signers'
    BY <2>1, <2>4 DEF LKPInv, Signers, NoSignatureByRetiredKey, MaySign
  <2> QED
    BY <2>5, <2>6, <2>7, <2>8 DEF LKPInv
<1>3. CASE SyncDirectory
  <2>1. /\ op.stage = "sync" /\ up /\ keys = file
        /\ disk' = {file} /\ op' = Idle /\ result' = "nil" /\ owed' = {k \in Kids : Holds(keys, k)}
        /\ UNCHANGED <<file, up, keys, activeKid, thread, used>>
    BY <1>3 DEF SyncDirectory, LKPInv, Mutation
  <2>2. TypeOK'
    BY <1>0, <2>1 DEF LKPInv, TypeOK
  <2>3. Mutation'
    BY <1>0, <2>1 DEF LKPInv, Mutation
  <2>4. Stores'
    BY <1>0, <2>1 DEF LKPInv, Stores, OneActive, Complete, NilMeansDurable
  <2> QED
    BY <2>1, <2>2, <2>3, <2>4, SignersKeep DEF LKPInv
<1>4. CASE SyncFails
  <2>1. /\ op.stage = "sync" /\ up /\ keys = file /\ op' = Idle /\ result' = "unsure"
        /\ UNCHANGED <<file, disk, up, keys, activeKid, thread, used, owed>>
    BY <1>4 DEF SyncFails, LKPInv, Mutation
  <2>2. TypeOK'
    BY <1>0, <2>1 DEF LKPInv, TypeOK
  <2>3. Mutation' /\ Stores'
    BY <1>0, <2>1 DEF LKPInv, Mutation, Stores, OneActive, Complete, NilMeansDurable
  <2> QED
    BY <2>1, <2>2, <2>3, SignersKeep DEF LKPInv
<1> QED
  BY <1>1, <1>2, <1>3, <1>4

\* A crash or a power loss anywhere, and the next start.
LEMMA RestartStep ==
  ASSUME LKPInv, Crash \/ PowerFails \/ Load
  PROVE  LKPInv'
<1>0. /\ file \in Store /\ disk \subseteq Store /\ file \in disk
      /\ Idle \in Op /\ Idle.stage = "free" /\ Idle.undo \in Store
  BY DEF LKPInv, TypeOK, Stores, Op, Idle, Store, KeyState
<1>1. ASSUME Crash \/ PowerFails
      PROVE  LKPInv'
  <2>1. /\ up' = FALSE /\ keys' = Idle.undo /\ activeKid' = NoKid /\ op' = Idle
        /\ thread' = [t \in Threads |-> IdleThread]
        /\ UNCHANGED <<used, owed, result>>
    BY <1>1 DEF Crash, PowerFails, Stop
  <2>2. UNCHANGED <<file, disk>> \/ (file' \in disk /\ disk' = {file'})
    BY <1>1 DEF Crash, PowerFails, PowerLoss
  <2>3. IdleThread \in Thread /\ IdleThread.pc = "idle" /\ IdleThread.stale = {}
    BY DEF IdleThread, Thread
  <2>4. TypeOK'
    BY <1>0, <2>1, <2>2, <2>3 DEF LKPInv, TypeOK
  <2>5. Mutation'
    BY <1>0, <2>1 DEF Mutation
  <2>6. result = "nil" => op.stage = "free"
    BY DEF LKPInv, Mutation
  <2>7. Stores'
    BY <1>0, <2>1, <2>2, <2>6 DEF LKPInv, Stores, OneActive, Complete, NilMeansDurable
  <2>8. Signers'
    BY <2>1, <2>3 DEF Signers, NoSignatureByRetiredKey
  <2> QED
    BY <2>4, <2>5, <2>7, <2>8 DEF LKPInv
<1>2. CASE Load
  <2>1. /\ ~up /\ up' = TRUE /\ keys' = file /\ activeKid' \in Active(file)
        /\ UNCHANGED <<file, disk, op, thread, used, owed, result>>
    BY <1>2 DEF Load
  <2>2. op.stage = "free" /\ OneActive(file)
    BY <1>0, <2>1 DEF LKPInv, TypeOK, Op, Idle, Mutation, Stores
  <2>3. activeKid' \in Kids /\ Active(file) = {activeKid'}
    BY <2>1, <2>2 DEF OneActive
  <2>4. TypeOK'
    BY <1>0, <2>1, <2>3 DEF LKPInv, TypeOK
  <2>5. Mutation' /\ Stores'
    BY <1>0, <2>1, <2>2, <2>3 DEF LKPInv, Mutation, Stores, OneActive, Complete, NilMeansDurable
  <2> QED
    BY <2>1, <2>4, <2>5, SignersKeep DEF LKPInv
<1> QED
  BY <1>1, <1>2

LEMMA InitLKP == LKPInit => LKPInv
<1> SUFFICES ASSUME LKPInit PROVE LKPInv
  OBVIOUS
<1>1. PICK k \in Kids : file = FirstStore(k)
  BY DEF LKPInit, Init
<1>2. /\ file \in Store /\ Active(file) = {k} /\ activeKid = k /\ disk = {file} /\ keys = file
      /\ \A j \in Kids : Holds(file, j) <=> j = k
  BY <1>1, FirstIsStore DEF LKPInit, Init
<1>3. Idle \in Op /\ Idle.stage = "free"
  BY DEF Op, Idle
<1>4. IdleThread \in Thread /\ IdleThread.pc = "idle" /\ IdleThread.stale = {}
  BY DEF IdleThread, Thread
<1>5. TypeOK
  BY <1>2, <1>3, <1>4 DEF LKPInit, TypeOK
<1>6. Mutation /\ Stores
  BY <1>2, <1>3 DEF LKPInit, Mutation, Stores, OneActive, Complete, NilMeansDurable
<1>7. Signers
  BY <1>4 DEF LKPInit, Signers, NoSignatureByRetiredKey
<1> QED
  BY <1>5, <1>6, <1>7 DEF LKPInv

LEMMA NextLKP == LKPInv /\ [LKPNext]_vars => LKPInv'
<1> SUFFICES ASSUME LKPInv, [LKPNext]_vars PROVE LKPInv'
  OBVIOUS
<1>1. ASSUME NEW k \in Kids, GenerateKey(k) \/ Activate(k) \/ PurgeCall(k)
      PROVE  LKPInv'
  <2>1. Started
    BY <1>1, MutationStarts
  <2>2. UNCHANGED <<file, thread>>
    BY <1>1, <2>1 DEF GenerateKey, Activate, PurgeCall, Started
  <2> QED
    BY <2>1, <2>2, StartedStep, SignersKeep DEF LKPInv, TypeOK
<1>2. ASSUME NEW t \in Threads, SupersedePurge(t)
      PROVE  LKPInv'
  <2>1. Started
    BY <1>2, MutationStarts
  <2>2. UNCHANGED file /\ thread' = [thread EXCEPT ![t] = IdleThread]
    BY <1>2, <2>1 DEF SupersedePurge, Started
  <2> QED
    BY <2>1, <2>2, StartedStep, IdleThreadStep
<1>3. ASSUME NEW t \in Threads,
             \/ Sign(t) \/ SignKey(t) \/ SignReturn(t) \/ SupersedeRefused(t)
             \/ \E k \in Kids : SupersedeCheck(t, k) \/ CallSignKey(t, k)
      PROVE  LKPInv'
  BY <1>3, ThreadMoves
<1>4. CASE UNCHANGED vars
  BY <1>4, ThreadStep, SignersKeep DEF vars, table, LKPInv, TypeOK
<1> QED
  BY <1>1, <1>2, <1>3, <1>4, PersistStep, RestartStep DEF LKPNext

-----------------------------------------------------------------------------
(* Theorems *)

\* The inductive invariant of the local key provider: a mutation under way can
\* be undone to the store in the file, and every store that a power loss can
\* leave is loadable and holds what is owed.
THEOREM ProviderInvariance == LKPSpec => []LKPInv
BY InitLKP, NextLKP, PTL DEF LKPSpec

\* Whatever write, sync, process or machine fails: a key that GenerateKey or
\* Activate reported as stored stays stored, every file a restart finds can be
\* loaded, memory and file agree between mutations, a mutation that returned nil
\* is durable, and SignKey never signs with a retired key.
THEOREM StoredKeysAreKept == LKPSpec => []KeysSurvive
<1>1. LKPInv => KeysSurvive
  <2> SUFFICES ASSUME LKPInv PROVE KeysSurvive
    OBVIOUS
  <2>1. StoredKeysSurvive
    BY DEF LKPInv, TypeOK, Stores, Complete, StoredKeysSurvive
  <2>2. AlwaysLoadable
    BY OneActiveLoads DEF LKPInv, Stores, AlwaysLoadable
  <2>3. MemoryMatchesFile
    BY DEF LKPInv, Mutation, MemoryMatchesFile, Unlocked
  <2> QED
    BY <2>1, <2>2, <2>3 DEF LKPInv, Stores, Signers, KeysSurvive
<1> QED
  BY <1>1, ProviderInvariance, PTL

\* The provider's file is a KeyStore: persistLocked moves it from one whole store
\* to the next by legal changes only, and a power loss falls back to a store
\* published since the last directory sync.
THEOREM FileIsKeyStore == LKPSpec => ImplementsKeyStore
<1>1. LKPInit => Init
  BY DEF LKPInit
<1>2. LKPInv /\ [LKPNext]_vars => [Next]_<<file, disk>>
  <2> SUFFICES ASSUME LKPInv, [LKPNext]_vars PROVE [Next]_<<file, disk>>
    OBVIOUS
  <2>1. ASSUME \/ \E k \in Kids : GenerateKey(k) \/ Activate(k) \/ PurgeCall(k)
               \/ \E t \in Threads : SupersedePurge(t)
        PROVE  UNCHANGED <<file, disk>>
    BY <2>1, MutationStarts DEF Started
  <2>2. ASSUME NEW t \in Threads,
               \/ Sign(t) \/ SignKey(t) \/ SignReturn(t) \/ SupersedeRefused(t)
               \/ \E k \in Kids : SupersedeCheck(t, k) \/ CallSignKey(t, k)
        PROVE  UNCHANGED <<file, disk>>
    BY <2>2 DEF Sign, Pick, SignKey, SignReturn, SupersedeRefused, SupersedeCheck, CallSignKey, table
  <2>3. CASE WriteFails \/ SyncFails \/ Load
    BY <2>3 DEF WriteFails, SyncFails, Load
  <2>4. CASE Rename
    BY <2>4 DEF Rename, Published, LKPInv, Mutation, Next, Publish
  <2>5. CASE SyncDirectory
    BY <2>5 DEF SyncDirectory, Next, Settle
  <2>6. CASE Crash \/ PowerFails
    BY <2>6 DEF Crash, PowerFails, Next
  <2>7. CASE UNCHANGED vars
    BY <2>7 DEF vars
  <2> QED
    BY <2>1, <2>2, <2>3, <2>4, <2>5, <2>6, <2>7 DEF LKPNext
<1> QED
  BY <1>1, <1>2, ProviderInvariance, PTL DEF LKPSpec, ImplementsKeyStore, Spec
=============================================================================
