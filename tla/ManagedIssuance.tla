-------------------------- MODULE ManagedIssuance ---------------------------
(***************************************************************************)
(* BeginManagedIssuance, ResumeManagedIssuance and CompleteManagedIssuance *)
(* for one domain: workers over one durable record, the registry and the   *)
(* activation controller.  A Begin that finds a record tells its caller to *)
(* resume it, while the worker that created it may still be running.       *)
(***************************************************************************)
EXTENDS Naturals

CONSTANTS
  Workers,    \* processes that begin, resume or complete the issuance
  Bytes,      \* completed entries; more than one when signing is not deterministic
  MaxFaults,  \* bound: failures of any kind
  NoBytes,    \* EntryBytes not set yet
  None        \* no durable record

VARIABLES
  saved,     \* the ManagedIssuanceStore's record
  blocked,   \* the ManagedIssuanceActivationController
  worker,    \* what each worker is doing, on which copy of the record
  bound,     \* registry: the entry bound to the idempotency key
  outcome,   \* registry: what became of it
  faults     \* failures so far

vars == <<saved, blocked, worker, bound, outcome, faults>>
registry == <<bound, outcome>>

\* ManagedIssuanceState; sub is Submission.State, "none" before there is one.
SubmissionState == {"none", "pending", "indeterminate", "accepted", "rejected"}
Record == [bytes : Bytes \cup {NoBytes}, sub : SubmissionState, terminal : BOOLEAN,
           complete : BOOLEAN, blocked : BOOLEAN]
Initial == [bytes |-> NoBytes, sub |-> "none", terminal |-> FALSE,
            complete |-> FALSE, blocked |-> TRUE]

Pc == {"idle", "block", "prepare", "saveFailure", "saveBytes", "send", "await",
       "record", "complete", "saveComplete", "unblock", "saveUnblocked"}
Worker == [pc : Pc, rec : Record \cup {None}]
IdleWorker == [pc |-> "idle", rec |-> None]

TypeOK ==
  /\ saved \in Record \cup {None}
  /\ blocked \in BOOLEAN
  /\ worker \in [Workers -> Worker]
  /\ bound \in Bytes \cup {NoBytes}
  /\ outcome \in {"none", "queued", "accepted", "refused"}
  /\ faults \in 0 .. MaxFaults
  /\ \A w \in Workers : worker[w].pc \in {"send", "await"} => worker[w].rec.bytes # NoBytes

Init ==
  /\ saved = None
  /\ blocked = FALSE
  /\ worker = [w \in Workers |-> IdleWorker]
  /\ bound = NoBytes
  /\ outcome = "none"
  /\ faults = 0

Fault == faults < MaxFaults /\ faults' = faults + 1
NoFault == UNCHANGED faults

Goto(w, l, r) == worker' = [worker EXCEPT ![w] = [pc |-> l, rec |-> r]]
Return(w) == worker' = [worker EXCEPT ![w] = IdleWorker]
At(w, l) == worker[w].pc = l
Rec(w) == worker[w].rec

\* persistManagedIssuance overwrites the record; on an error it may have been
\* written all the same.
Persist(w, r, l) ==
  \/ saved' = r /\ Goto(w, l, r) /\ NoFault
  \/ Fault /\ saved' \in {saved, r} /\ Return(w)

-----------------------------------------------------------------------------

\* CreateManagedIssuance is atomic; whoever comes second is told to resume.
Begin(w) ==
  /\ At(w, "idle")
  /\ saved = None
  /\ Persist(w, Initial, "block")
  /\ UNCHANGED <<blocked, registry>>

\* Resume returns the record and takes no further step.
NothingToDo(r) == r.complete /\ ~r.blocked

\* validatePersistedManagedIssuance: what a resumed record must look like.
ValidPersisted(r) ==
  /\ r.complete => r.sub = "accepted"
  /\ r.blocked \/ r.complete
  /\ r.bytes = NoBytes => r.sub = "none"

Resume(w) ==
  /\ At(w, "idle")
  /\ saved # None
  /\ ValidPersisted(saved)
  /\ ~NothingToDo(saved)
  /\ Goto(w, IF saved.complete THEN "complete" ELSE "block", saved)
  /\ UNCHANGED <<saved, blocked, registry, faults>>

\* Mutant: an indeterminate submission is not sent again.
AfterBlockGivingUp(r) ==
  IF r.sub # "none" \/ r.terminal THEN "idle" ELSE IF r.bytes = NoBytes THEN "prepare" ELSE "send"

\* Where Begin and Resume go once activation is blocked.
AfterBlock(r) ==
  IF r.sub \in {"accepted", "rejected"} \/ r.terminal THEN "idle"
  ELSE IF r.bytes = NoBytes THEN "prepare" ELSE "send"

\* SetManagedIssuanceActivationBlocked(true).
Block(w) ==
  /\ At(w, "block")
  /\ \/ /\ blocked' = TRUE
        /\ IF AfterBlock(Rec(w)) = "idle" THEN Return(w)
                                          ELSE Goto(w, AfterBlock(Rec(w)), Rec(w))
        /\ NoFault
     \/ Fault /\ blocked' \in {blocked, TRUE} /\ Return(w)
  /\ UNCHANGED <<saved, registry>>

\* PrepareIssuance, the checks of the entry and the operational countersignature.
Prepare(w) ==
  /\ At(w, "prepare")
  /\ \E b \in Bytes : Goto(w, "saveBytes", [Rec(w) EXCEPT !.bytes = b, !.terminal = FALSE])
  /\ UNCHANGED <<saved, blocked, registry, faults>>

\* A preparation error is recorded, as terminal unless it is transient; an
\* unusable preparation is not.
PrepareFails(w) ==
  /\ At(w, "prepare")
  /\ Fault
  /\ \/ \E t \in BOOLEAN : Goto(w, "saveFailure", [Rec(w) EXCEPT !.terminal = t])
     \/ Return(w)
  /\ UNCHANGED <<saved, blocked, registry>>

SaveFailure(w) ==
  /\ At(w, "saveFailure")
  /\ \/ saved' = Rec(w) /\ Return(w) /\ NoFault
     \/ Fault /\ saved' \in {saved, Rec(w)} /\ Return(w)
  /\ UNCHANGED <<blocked, registry>>

\* The completed bytes are fixed durably before they are submitted.
SaveBytes(w) ==
  /\ At(w, "saveBytes")
  /\ Persist(w, Rec(w), "send")
  /\ UNCHANGED <<blocked, registry>>

\* SubmitPreparedEvent; the first entry to arrive is bound to the idempotency key.
Send(w) ==
  /\ At(w, "send")
  /\ Goto(w, "await", Rec(w))
  /\ \/ Fault /\ UNCHANGED registry
     \/ NoFault /\ IF bound = NoBytes
                     THEN bound' = Rec(w).bytes /\ outcome' = "queued"
                     ELSE UNCHANGED registry
  /\ UNCHANGED <<saved, blocked>>

Answered(w, s) ==
  Goto(w, "record", [Rec(w) EXCEPT !.sub = s, !.terminal = (s = "rejected")])

\* The registry answers a 4xx before it looks at the entry; one that the code does
\* not classify counts as a rejection.
SendRefused(w) ==
  /\ At(w, "send")
  /\ Fault
  /\ Answered(w, "rejected")
  /\ UNCHANGED <<saved, blocked, registry>>

\* managedSubmissionFailure and validateManagedIssuanceSubmission: what the answer
\* to this entry may be recorded as.  Another entry under the same idempotency key
\* is IDEMPOTENCY_MISMATCH.
Answers(b) ==
  IF b # bound THEN (IF bound = NoBytes THEN {"indeterminate"} ELSE {"rejected"})
  ELSE CASE outcome = "accepted" -> {"accepted"}
         [] outcome = "refused" -> {"rejected"}
         [] OTHER -> {"pending", "indeterminate"}

Answer(w) ==
  /\ At(w, "await")
  /\ \E s \in Answers(Rec(w).bytes) : Answered(w, s)
  /\ UNCHANGED <<saved, blocked, registry, faults>>

\* A lost answer, or one that does not belong to these bytes.
AnswerLost(w) ==
  /\ At(w, "await")
  /\ Fault
  /\ Answered(w, "indeterminate") \/ Return(w)
  /\ UNCHANGED <<saved, blocked, registry>>

RecordAnswer(w) ==
  /\ At(w, "record")
  /\ \/ saved' = Rec(w) /\ NoFault
     \/ Fault /\ saved' \in {saved, Rec(w)}
  /\ Return(w)
  /\ UNCHANGED <<blocked, registry>>

-----------------------------------------------------------------------------
(* CompleteManagedIssuance. *)

\* Mutant: completion does not ask for the accepted submission.
CompletableAlways(r) == r # None

\* Completion asks for an accepted exact-byte result.
Completable(r) == r # None /\ r.sub = "accepted" /\ r.bytes # NoBytes

\* The caller completes once it has verified the published resources.
CallComplete(w) ==
  /\ At(w, "idle")
  /\ saved # None
  /\ Goto(w, "complete", saved)
  /\ UNCHANGED <<saved, blocked, registry, faults>>

Complete(w) ==
  /\ At(w, "complete")
  /\ IF Completable(saved)
       THEN Goto(w, "saveComplete", [saved EXCEPT !.complete = TRUE, !.blocked = TRUE])
       ELSE Return(w)
  /\ UNCHANGED <<saved, blocked, registry, faults>>

SaveComplete(w) ==
  /\ At(w, "saveComplete")
  /\ Persist(w, Rec(w), "unblock")
  /\ UNCHANGED <<blocked, registry>>

Unblock(w) ==
  /\ At(w, "unblock")
  /\ \/ /\ blocked' = FALSE
        /\ Goto(w, "saveUnblocked", [Rec(w) EXCEPT !.blocked = FALSE])
        /\ NoFault
     \/ Fault /\ blocked' \in {blocked, FALSE} /\ Return(w)
  /\ UNCHANGED <<saved, registry>>

SaveUnblocked(w) ==
  /\ At(w, "saveUnblocked")
  /\ \/ saved' = Rec(w) /\ NoFault
     \/ Fault /\ saved' \in {saved, Rec(w)}
  /\ Return(w)
  /\ UNCHANGED <<blocked, registry>>

-----------------------------------------------------------------------------

RegistryDecides ==
  /\ outcome = "queued"
  /\ \/ outcome' = "accepted" /\ NoFault
     \/ outcome' = "refused" /\ Fault
  /\ UNCHANGED <<saved, blocked, worker, bound>>

Crash(w) ==
  /\ ~At(w, "idle")
  /\ Fault
  /\ Return(w)
  /\ UNCHANGED <<saved, blocked, registry>>

Working(w) ==
  \/ Block(w) \/ Prepare(w) \/ SaveFailure(w) \/ SaveBytes(w) \/ Send(w) \/ Answer(w)
  \/ RecordAnswer(w) \/ Complete(w) \/ SaveComplete(w) \/ Unblock(w) \/ SaveUnblocked(w)

Next ==
  \/ \E w \in Workers : Begin(w) \/ Resume(w) \/ CallComplete(w) \/ Working(w)
                        \/ PrepareFails(w) \/ SendRefused(w) \/ AnswerLost(w) \/ Crash(w)
  \/ RegistryDecides

Spec == Init /\ [][Next]_vars

\* Calls return, the registry decides, and the application resumes and completes
\* again and again.
CompleteAccepted(w) == CallComplete(w) /\ saved.sub = "accepted"

Fairness ==
  /\ \A w \in Workers : /\ WF_vars(Working(w))
                        /\ SF_vars(Resume(w))
                        /\ SF_vars(CompleteAccepted(w))
  /\ WF_vars(RegistryDecides)

LiveSpec == Spec /\ Fairness

-----------------------------------------------------------------------------

\* Activation is never open while the outcome of a submitted ISSUANCE is unresolved
\* (ManagedIssuanceActivationController).
NoActivationWhileUnresolved == bound # NoBytes /\ ~blocked => outcome = "accepted"

\* The log accepted the issuance.
Accepted == outcome = "accepted"

\* It is recorded, complete and unblocked, or was recorded as rejected.
Completed == saved # None /\ ((~blocked /\ ~saved.blocked) \/ saved.sub = "rejected")
=============================================================================
