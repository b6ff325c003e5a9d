-------------------------- MODULE ManagedRotation ---------------------------
(***************************************************************************)
(* RotateManagedOperationalKey and ResumeManagedOperationalKeyRotation:    *)
(* one workflow over a key provider, a durable journal (the                *)
(* ManagedKeyRotationStore), the registry and the application's signing    *)
(* gate, any of which may fail at any step, in a process that may die      *)
(* anywhere.  The provider is a KeyStore: an operation succeeds, is undone *)
(* or reports ErrKeyStoreDurability.  The registry and the application are *)
(* external.                                                               *)
(***************************************************************************)
EXTENDS KeyStore, FiniteSets

CONSTANTS
  MaxFaults,  \* bound: failures of any kind
  None        \* no record

VARIABLES
  unsure,    \* the provider reported a durability error that is not repaired yet
  used,      \* kids ever generated
  saved,     \* the journal
  held,      \* the record that the last call returned to the application
  rot,       \* the record that the running call works on
  pc,        \* where the running call is
  answer,    \* the registry's classified answer to the submission
  paused,    \* the application's signing gate
  current,   \* registry: the operational key that the log and the publication name
  queue,     \* registry: entries received and not decided
  decided,   \* registry: entries accepted and not yet published
  log,       \* registry: entries published and appended to the log
  refused,   \* registry: entries rejected for good
  faults,    \* failures so far
  rejected,  \* history: entries whose rejection has been recorded
  torn       \* history: the operations that the process died in since the last
             \* directory sync, and whether a power loss took both back

registry == <<current, queue, decided, log, refused>>
keystore == <<file, disk, unsure, used, torn>>
journal == <<saved, rejected>>
vars == <<file, disk, unsure, used, saved, held, rot, pc, answer, paused,
          current, queue, decided, log, refused, faults, rejected, torn>>

\* The signed KEY_ROTATION entry, fixed before it is first saved.
Entry == [prev : Kids, new : Kids]

\* ManagedKeyRotationState.  sub is Submission.State; "none" before there is one.
\* "pending" also stands for Prepared and Submitting.
SubmissionState == {"none", "pending", "indeterminate", "accepted", "rejected"}
Record == [prev : Kids, new : Kids, sub : SubmissionState, activated : BOOLEAN,
           paused : BOOLEAN]

Pc == {"idle", "prepare", "save", "pause", "send", "await", "recordError",
       "recordResult", "verify", "reconcile", "supersede", "saveActivated",
       "release", "saveReleased"}

TypeOK ==
  /\ file \in Store
  /\ disk \subseteq Store
  /\ unsure \in BOOLEAN
  /\ used \subseteq Kids
  /\ saved \in Record \cup {None}
  /\ held \in Record \cup {None}
  /\ rot \in Record \cup {None}
  /\ pc \in Pc /\ (pc = "idle" <=> rot = None)
  /\ answer \in SubmissionState
  /\ paused \in BOOLEAN
  /\ current \in Kids
  /\ queue \subseteq Entry /\ decided \subseteq Entry
  /\ log \subseteq Entry /\ refused \subseteq Entry
  /\ faults \in 0 .. MaxFaults
  /\ rejected \subseteq Entry
  /\ torn \subseteq {"reconcile", "supersede", "reverted"}

RotInit ==
  /\ Init
  /\ unsure = FALSE
  /\ used = Active(file)
  /\ saved = None /\ held = None /\ rot = None
  /\ pc = "idle"
  /\ answer = "none"
  /\ paused = FALSE
  /\ current \in Active(file)
  /\ queue = {} /\ decided = {} /\ log = {} /\ refused = {}
  /\ faults = 0
  /\ rejected = {}
  /\ torn = {}

\* The entry bytes fix both keys; a record that disagrees with its bytes is refused.
EntryOf(r) == [prev |-> r.prev, new |-> r.new]
Terminal(r) == r.activated /\ ~r.paused
Over(r) == r # None => Terminal(r) \/ r.sub = "rejected"

Fault == faults < MaxFaults /\ faults' = faults + 1
NoFault == UNCHANGED faults

\* The call returns r to the application.
Return(r) ==
  /\ held' = r
  /\ rot' = None
  /\ pc' = "idle"

Continue(r, l) ==
  /\ rot' = r
  /\ pc' = l
  /\ UNCHANGED held

-----------------------------------------------------------------------------
(* The collaborators. *)

\* A provider operation that makes the store s: it succeeds, it fails and is undone,
\* or it reports ErrKeyStoreDurability.
ProviderOk(s) ==
  /\ file' = s
  /\ disk' = {s}
  /\ torn' = torn \cap {"reverted"}
  /\ UNCHANGED unsure
  /\ NoFault

ProviderFails(s) ==
  /\ Fault
  /\ \/ file' = s /\ disk' = disk \cup {s} /\ unsure' = TRUE
     \/ UNCHANGED <<file, disk, unsure>>
  /\ UNCHANGED torn

\* persistManagedRotation: on an error the record may or may not have been written.
PersistOk(r) ==
  /\ saved' = r
  /\ rejected' = rejected \cup (IF r.sub = "rejected" THEN {EntryOf(r)} ELSE {})
  /\ NoFault

PersistFails(r) ==
  /\ Fault
  /\ \/ UNCHANGED journal
     \/ /\ saved' = r
        /\ rejected' = rejected \cup (IF r.sub = "rejected" THEN {EntryOf(r)} ELSE {})

-----------------------------------------------------------------------------
(* RotateManagedOperationalKey up to the first save. *)

\* The application starts a rotation only when the last one is over.
MayStart == pc = "idle" /\ ~unsure /\ Over(saved) /\ Over(held)

Generated(k) ==
  [prev |-> CHOOSE p \in Active(file) : TRUE, new |-> k, sub |-> "none",
   activated |-> FALSE, paused |-> TRUE]

GenerateKey(k) ==
  /\ MayStart
  /\ k \notin used
  /\ used' = used \cup {k}
  /\ \/ ProviderOk(WithGenerated(file, k)) /\ Continue(Generated(k), "prepare")
     \/ ProviderFails(WithGenerated(file, k)) /\ UNCHANGED <<held, rot, pc>>
  /\ UNCHANGED <<journal, answer, paused, registry>>

\* validateManagedPreparedRotation: the registry prepares a rotation only from the
\* key that it names current, to the key that it was given.
PreparedFor(r) == r.prev = current

\* PrepareKeyRotation, the checks of what it returns and the two signatures.
Prepare ==
  /\ pc = "prepare"
  /\ \/ PreparedFor(rot) /\ Continue(rot, "save") /\ NoFault
     \/ /\ IF PreparedFor(rot) THEN Fault ELSE NoFault
        /\ rot' = None
        /\ pc' = "idle"
        /\ UNCHANGED held
  /\ UNCHANGED <<keystore, journal, answer, paused, registry>>

-----------------------------------------------------------------------------
(* ResumeManagedOperationalKeyRotation up to its first save. *)


\* validateManagedProvider.
ValidProvider(r) ==
  LET accepted == r.sub = "accepted"
      newActive == Active(file) = {r.new}
  IN /\ Active(file) = {r.prev} \/ (accepted /\ newActive)
     /\ r.activated => accepted /\ newActive
     /\ Holds(file, r.new)
     /\ r.prev \in Listed(file) \/ (accepted /\ newActive)

\* What Resume does with a record: nothing, release only, or the whole workflow.
ResumeAt(r) == IF r.activated THEN "release" ELSE "save"

Resume(r) ==
  /\ pc = "idle"
  /\ ~unsure
  /\ r \in {saved, held} \ {None}
  /\ ~Over(r)
  /\ IF ValidProvider(r) THEN Continue(r, ResumeAt(r)) ELSE Return(r)
  /\ UNCHANGED <<keystore, journal, answer, paused, registry, faults>>

Save ==
  /\ pc = "save"
  /\ LET r == [rot EXCEPT !.paused = TRUE]
     IN \/ PersistOk(r) /\ Continue(r, "pause")
        \/ PersistFails(r) /\ Return(r)
  /\ UNCHANGED <<keystore, answer, paused, registry>>

\* Mutant: the gate is left open.
PauseSkipped ==
  /\ pc = "pause"
  /\ Continue(rot, IF rot.sub = "accepted" THEN "verify" ELSE "send")
  /\ UNCHANGED <<keystore, journal, answer, paused, registry, faults>>

\* SetApplicationSigningPaused(true).
Pause ==
  /\ pc = "pause"
  /\ \/ /\ paused' = TRUE
        /\ Continue(rot, IF rot.sub = "accepted" THEN "verify" ELSE "send")
        /\ NoFault
     \/ Fault /\ paused' \in {paused, TRUE} /\ Return(rot)
  /\ UNCHANGED <<keystore, journal, answer, registry>>

-----------------------------------------------------------------------------
(* submitManagedRotation. *)

\* SubmitPreparedEvent: the request may be lost, or arrive and be decided later.
Send ==
  /\ pc = "send"
  /\ Continue(rot, "await")
  /\ \/ Fault /\ UNCHANGED queue
     \/ /\ queue' = queue \cup ({EntryOf(rot)} \ (decided \cup log \cup refused))
        /\ NoFault
  /\ UNCHANGED <<keystore, journal, answer, paused, current, decided, log, refused>>

\* A transport error, HTTP 408, 425, 429 or 5xx and TLOG_SUBMISSION_INDETERMINATE
\* are indeterminate, TLOG_SUBMISSION_BUSY is pending.
AnswerError ==
  /\ pc = "await"
  /\ Fault
  /\ answer' \in {"indeterminate", "pending"}
  /\ Continue(rot, "recordError")
  /\ UNCHANGED <<keystore, journal, paused, registry>>

\* Every other status is a rejection, such as HTTP 401 for a request that never
\* reached the registry's log.
SendRefused ==
  /\ pc = "send"
  /\ Fault
  /\ answer' = "rejected"
  /\ Continue(rot, "recordError")
  /\ UNCHANGED <<keystore, journal, paused, registry>>

\* What a result bound to the entry may say (validateManagedSubmission).
ResultStates(e) ==
  IF e \in decided \cup log THEN {"accepted"}
  ELSE IF e \in refused THEN {"rejected"}
  ELSE {"pending", "indeterminate"}

AnswerResult ==
  /\ pc = "await"
  /\ answer' \in ResultStates(EntryOf(rot))
  /\ Continue(rot, "recordResult")
  /\ UNCHANGED <<keystore, journal, paused, registry, faults>>

\* A result that is not about these bytes is an error and is not recorded.
AnswerInvalid ==
  /\ pc = "await"
  /\ Fault
  /\ Return(rot)
  /\ UNCHANGED <<keystore, journal, answer, paused, registry>>

\* The answer is saved; a failure to save a failure returns the old record.
RecordAnswer ==
  /\ pc \in {"recordError", "recordResult"}
  /\ LET next == [rot EXCEPT !.sub = answer]
     IN \/ PersistOk(next) /\ (IF answer = "accepted" THEN Continue(next, "verify")
                                                      ELSE Return(next))
        \/ PersistFails(next) /\ Return(IF pc = "recordError" THEN rot ELSE next)
  /\ answer' = "none"
  /\ UNCHANGED <<keystore, paused, registry>>

-----------------------------------------------------------------------------
(* finishManagedRotation. *)

\* verifyManagedPublication: fresh evidence that names the new key and the entry.
Verify ==
  /\ pc = "verify"
  /\ \/ rot.sub = "accepted" /\ current = rot.new /\ EntryOf(rot) \in log
        /\ Continue(rot, "reconcile") /\ NoFault
     \/ Fault /\ Return(rot)
     \/ current # rot.new /\ Return(rot) /\ NoFault
  /\ UNCHANGED <<keystore, journal, answer, paused, registry>>

\* reconcileManagedRotation: Activate, unless the new key is active already, ...
Reconcile ==
  /\ pc = "reconcile"
  /\ \/ ~ValidProvider(rot) /\ Return(rot) /\ UNCHANGED <<file, disk, unsure, torn, faults>>
     \/ /\ ValidProvider(rot)
        /\ IF Active(file) = {rot.new}
             THEN Continue(rot, "supersede") /\ UNCHANGED <<file, disk, unsure, torn, faults>>
             ELSE \/ ProviderOk(WithActive(file, rot.new)) /\ Continue(rot, "supersede")
                  \/ ProviderFails(WithActive(file, rot.new)) /\ Return(rot)
  /\ UNCHANGED <<used, journal, answer, paused, registry>>

\* ... and Supersede, unless the previous key is gone already.
Supersede ==
  /\ pc = "supersede"
  /\ IF rot.prev \notin Listed(file)
       THEN Continue(rot, "saveActivated") /\ UNCHANGED <<file, disk, unsure, torn, faults>>
       ELSE \/ ProviderOk(Without(file, rot.prev)) /\ Continue(rot, "saveActivated")
            \/ ProviderFails(Without(file, rot.prev)) /\ Return(rot)
  /\ UNCHANGED <<used, journal, answer, paused, registry>>

SaveActivated ==
  /\ pc = "saveActivated"
  /\ LET r == [rot EXCEPT !.activated = TRUE, !.paused = TRUE]
     IN \/ PersistOk(r) /\ Continue(r, "release")
        \/ PersistFails(r) /\ Return(rot)
  /\ UNCHANGED <<keystore, answer, paused, registry>>

\* releaseManagedSigning.
Release ==
  /\ pc = "release"
  /\ \/ paused' = FALSE /\ Continue(rot, "saveReleased") /\ NoFault
     \/ Fault /\ paused' \in {paused, FALSE} /\ Return(rot)
  /\ UNCHANGED <<keystore, journal, answer, registry>>

SaveReleased ==
  /\ pc = "saveReleased"
  /\ LET r == [rot EXCEPT !.paused = FALSE]
     IN \/ PersistOk(r) /\ Return(r)
        \/ PersistFails(r) /\ Return(rot)
  /\ UNCHANGED <<keystore, answer, paused, registry>>

-----------------------------------------------------------------------------
(* The registry, the operator, the process and the machine. *)

RegistryAccepts(e) ==
  /\ e \in queue
  /\ e.prev = current
  /\ decided = {}
  /\ decided' = {e}
  /\ queue' = queue \ {e}
  /\ UNCHANGED <<current, log, refused, keystore, journal, held, rot, pc, answer, paused, faults>>

\* An entry whose previous key is no longer current, or that policy rejects.
RegistryRefuses(e) ==
  /\ e \in queue
  /\ IF e.prev = current THEN Fault ELSE NoFault
  /\ queue' = queue \ {e}
  /\ refused' = refused \cup {e}
  /\ UNCHANGED <<current, decided, log, keystore, journal, held, rot, pc, answer, paused>>

RegistryPublishes(e) ==
  /\ e \in decided
  /\ current' = e.new
  /\ decided' = {}
  /\ log' = log \cup {e}
  /\ UNCHANGED <<queue, refused, keystore, journal, held, rot, pc, answer, paused, faults>>

\* Activate(active kid), as OPERATIONS.md prescribes after a durability error.
Repair ==
  /\ pc = "idle"
  /\ unsure
  /\ disk' = {file}
  /\ unsure' = FALSE
  /\ torn' = torn \cap {"reverted"}
  /\ UNCHANGED <<file, used, journal, held, rot, pc, answer, paused, registry, faults>>

\* The process dies and starts again: the provider loads the file, which is no
\* durability retry, and the application keeps signing paused while the journal
\* says so.  A durability error that was reported is still to be repaired.
Restart ==
  /\ held' = None /\ rot' = None
  /\ pc' = "idle"
  /\ answer' = "none"
  /\ paused' = (saved # None /\ saved.paused)
  /\ UNCHANGED <<unsure, used, journal, registry>>

\* The process died in both operations on the key store, Activate and Supersede,
\* after their renames, and no directory sync has completed since: Resume finds
\* nothing to do.
Unsynced == {"reconcile", "supersede"} \subseteq torn

\* The process may die inside a provider operation, after its rename.
InFlightStores ==
  CASE pc = "reconcile" -> {file, WithActive(file, rot.new)}
    [] pc = "supersede" -> {file, Without(file, rot.prev)}
    [] OTHER -> {file}

Crash ==
  /\ Fault
  /\ file' \in InFlightStores
  /\ disk' = disk \cup {file'}
  /\ torn' = IF file' = file THEN torn ELSE torn \cup {pc}
  /\ Restart

PowerFails ==
  /\ Fault
  /\ PowerLoss
  /\ torn' = IF Unsynced \/ "reverted" \in torn THEN {"reverted"} ELSE {}
  /\ Restart

Step ==
  \/ \E k \in Kids : GenerateKey(k)
  \/ Prepare \/ Save \/ Pause \/ Send \/ SendRefused \/ AnswerError \/ AnswerResult \/ AnswerInvalid
  \/ RecordAnswer \/ Verify \/ Reconcile \/ Supersede \/ SaveActivated \/ Release
  \/ SaveReleased \/ Repair
  \/ \E r \in {saved, held} : Resume(r)

RotNext ==
  \/ Step
  \/ \E e \in queue : RegistryAccepts(e) \/ RegistryRefuses(e)
  \/ \E e \in decided : RegistryPublishes(e)
  \/ Crash \/ PowerFails

RotSpec == RotInit /\ [][RotNext]_vars

\* What a call of the application does next, calls of the provider and of the
\* registry returned.
ResumeEither == \E r \in {saved, held} : Resume(r)
RegistryPublishesOne == \E e \in decided : RegistryPublishes(e)
Working ==
  \/ Prepare \/ Save \/ Pause \/ Send \/ AnswerResult \/ RecordAnswer \/ Verify
  \/ Reconcile \/ Supersede \/ SaveActivated \/ Release \/ SaveReleased

\* The application resumes until the rotation is over, calls return, and the
\* registry decides; failures are finite.
Fairness ==
  /\ WF_vars(Working)
  /\ WF_vars(Repair)
  /\ WF_vars(ResumeEither)
  /\ WF_vars(RegistryPublishesOne)

LiveSpec == RotSpec /\ Fairness

-----------------------------------------------------------------------------

\* The key that the log names current is in every key store that a crash or a power
\* loss can leave: the identity can always sign again.
CurrentKeyNeverLost == \A s \in disk \cup {file} : Holds(s, current)

\* The provider's active key was made current by the log first: activation waits for
\* acceptance and publication, through every retry.
ActiveOnlyIfAccepted ==
  \A k \in Active(file) : k = current \/ \E e \in log : e.prev = k

\* While the gate is open the application signs with the published key, unless a
\* power loss took back the activation and the supersession, in both of which the
\* process had died before their directory sync.
SignsOnlyWithPublishedKey == ~paused => Active(file) = {current} \/ "reverted" \in torn

\* Once the log has accepted an entry, the journal still holds its rotation until
\* its key is active, unless the journal has recorded its rejection.
AcceptedIsRecoverable ==
  \A e \in log :
    e.new = current /\ Active(file) # {current} =>
      e \in rejected \/ (saved # None /\ EntryOf(saved) = e)

\* Signing is released only when no power loss can take the activation back, unless
\* the process died in both operations on the key store: one interrupted operation
\* is made good by the other.
ReleasedOnlyWhenActivationDurable ==
  pc = "saveReleased" => Unsynced \/ \A s \in disk : Active(s) = {rot.new}

\* Signing is released only when no power loss can take the activation back:
\* "signing resumes only after successful activation has been durably saved"
\* (config/README.md).
ReleaseFollowsDurableActivation ==
  pc = "saveReleased" => \A s \in disk : Active(s) = {rot.new}

\* The entry that rotates to the key reached the log, and the journal holds its
\* rotation.
Accepted(k) == \E e \in log : e.new = k /\ saved # None /\ EntryOf(saved) = e

\* Its key is active and signing released, or its rejection was recorded.
Completed(k) == (\E e \in rejected : e.new = k) \/ (Accepted(k) /\ Terminal(saved))
=============================================================================
