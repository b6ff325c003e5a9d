--------------------------- MODULE DomainAcquisition --------------------------
(***************************************************************************)
(* One acquisition of a domain's evidence (verifyReusableDomain): the DNS   *)
(* lookup, the entity key and the record signature in sequence, then three  *)
(* goroutines under one cancellable context.  "preload" loads the history,  *)
(* "identity" fetches the operational key, waits for the preload and checks *)
(* the log's policy, "status" fetches the agent's status; the main          *)
(* goroutine collects their results.  What is fetched is left out: a fetch  *)
(* succeeds, fails for a reason of its own, or ends with its context.       *)
(***************************************************************************)
EXTENDS Naturals, FiniteSets

CONSTANT DNSSECMode  \* VerificationConfig.DNSSECMode: "auto", "validated" or "required"

VARIABLES pc,           \* where each goroutine is
          err,          \* the error each one has met, or "none"
          ctxErr,       \* ctx.Err() of the caller's context
          workErr,      \* workCtx.Err()
          preloadDone,  \* the channel: "empty", "full", or "nil" once consumed
          got,          \* the results that the main goroutine has received
          invalidated,  \* invalidateNonActiveDomain has evicted the domain
          reader,       \* history: which reader the policy was checked with
          own           \* history: the error that each goroutine caused itself

vars == <<pc, err, ctxErr, workErr, preloadDone, got, invalidated, reader, own>>

Goroutines == {"main", "preload", "identity", "status"}
ContextErrors == {"canceled", "deadline"}

Init ==
    /\ pc = [g \in Goroutines |-> IF g = "main" THEN "dns" ELSE "none"]
    /\ err = [g \in Goroutines |-> "none"]
    /\ own = [g \in Goroutines |-> "none"]
    /\ ctxErr = "none" /\ workErr = "none"
    /\ preloadDone = "empty" /\ got = {} /\ invalidated = FALSE /\ reader = "none"

\* What a call under the context ce can return: success, an error of its own,
\* or the end of the context.
Outcomes(errors, ce) == {"none"} \cup errors \cup ({ce} \ {"none"})

Goto(g, l) == pc' = [pc EXCEPT ![g] = l]

\* Goroutine g ends a call with outcome e, and goes on to next or to failed.
EndCall(g, e, next, failed) ==
    /\ err' = [err EXCEPT ![g] = e]
    /\ own' = [own EXCEPT ![g] = IF e \in ContextErrors THEN @ ELSE e]
    /\ Goto(g, IF e = "none" THEN next ELSE failed)

\* cancel(): the first cause stays.
Cancelled == IF workErr = "none" THEN "canceled" ELSE workErr

(* Mutants. *)
KeepCanceled(e) == e
ReceiverWaits(g) == pc["main"] = "select"

-----------------------------------------------------------------------------
(* The sequential part *)

DNSSECAllowed(state) ==
    /\ state # "failed"
    /\ DNSSECMode = "validated" => state # "unknown"
    /\ DNSSECMode = "required" => state = "valid"

\* A known validation failure takes precedence over a failed lookup; "not
\* found" is an answer without records.
LookupOutcome(lookup, state, records) ==
    CASE lookup # "none" /\ state # "failed" -> lookup
      [] ~DNSSECAllowed(state) -> "dnssec"
      [] records = 0 -> "record not found"
      [] records # 1 -> "record invalid"
      [] OTHER -> "none"

LookupRecord ==
    /\ pc["main"] = "dns"
    /\ \E lookup \in Outcomes({"dns resolution"}, ctxErr), state \in {"valid", "unsigned", "unknown", "failed"},
          records \in 0 .. 2 : EndCall("main", LookupOutcome(lookup, state, records), "entity", "end")
    /\ UNCHANGED <<ctxErr, workErr, preloadDone, got, invalidated, reader>>

\* Parsing and validating the record, fetching the one entity key, verifying
\* the record's signature; then the goroutines start.
VerifyRecord ==
    /\ pc["main"] = "entity"
    /\ \E e \in Outcomes({"record invalid", "jwks unavailable"}, ctxErr) :
         /\ err' = [err EXCEPT !["main"] = e]
         /\ own' = [own EXCEPT !["main"] = IF e \in ContextErrors THEN @ ELSE e]
         /\ pc' = IF e # "none" THEN [pc EXCEPT !["main"] = "end"]
                  ELSE [g \in Goroutines |-> CASE g = "main" -> "select" [] g = "identity" -> "key" [] OTHER -> "fetch"]
    /\ workErr' = ctxErr
    /\ UNCHANGED <<ctxErr, preloadDone, got, invalidated, reader>>

-----------------------------------------------------------------------------
(* The goroutines *)

PreloadHistory ==
    /\ pc["preload"] = "fetch"
    /\ \E e \in Outcomes({"log error"}, workErr) :
         /\ EndCall("preload", e, "end", "end")
         /\ workErr' = IF e # "none" THEN Cancelled ELSE workErr
    /\ preloadDone' = "full"
    /\ UNCHANGED <<ctxErr, got, invalidated, reader>>

\* The operational key: fetched, a single usable one, and not the entity key.
FetchOperationalKey ==
    /\ pc["identity"] = "key"
    /\ \E e \in Outcomes({"record invalid", "jwks unavailable"}, workErr) : EndCall("identity", e, "await", "cancel")
    /\ UNCHANGED <<ctxErr, workErr, preloadDone, got, invalidated, reader>>

PreloadAwaited == preloadDone = "full"

AwaitPreload ==
    /\ pc["identity"] = "await" /\ PreloadAwaited
    /\ preloadDone' = "nil"
    /\ err' = [err EXCEPT !["identity"] = err["preload"]]
    /\ Goto("identity", IF err["preload"] = "none" THEN "policy" ELSE "cancel")
    /\ reader' = IF pc["preload"] = "end" THEN "preloaded" ELSE "original"
    /\ UNCHANGED <<ctxErr, workErr, got, invalidated, own>>

\* enforceRecordPolicy: the governance relationship, the key's age and the
\* binding of the keys, all read from the log.
EnforceRecordPolicy ==
    /\ pc["identity"] = "policy"
    /\ \E e \in Outcomes({"log error", "key age exceeded"}, workErr) : EndCall("identity", e, "send", "cancel")
    /\ UNCHANGED <<ctxErr, workErr, preloadDone, got, invalidated, reader>>

\* The deferred function of the identity goroutine.
CancelSiblings ==
    /\ pc["identity"] = "cancel"
    /\ workErr' = Cancelled
    /\ Goto("identity", IF preloadDone = "nil" THEN "send" ELSE "drain")
    /\ UNCHANGED <<err, ctxErr, preloadDone, got, invalidated, reader, own>>

\* A cancellation by the preload is reported as the preload's error.
CauseOf(e) == IF err["preload"] # "none" /\ e = "canceled" THEN err["preload"] ELSE e

DrainPreload ==
    /\ pc["identity"] = "drain" /\ preloadDone = "full"
    /\ err' = [err EXCEPT !["identity"] = CauseOf(@)]
    /\ preloadDone' = "nil"
    /\ Goto("identity", "send")
    /\ UNCHANGED <<ctxErr, workErr, got, invalidated, reader, own>>

FetchStatus ==
    /\ pc["status"] = "fetch"
    /\ \E e \in Outcomes({"status unavailable", "not active"}, workErr) : EndCall("status", e, "send", "send")
    /\ UNCHANGED <<ctxErr, workErr, preloadDone, got, invalidated, reader>>

\* The result channels have room for the one result.
CanSend(g) == TRUE

Send(g) ==
    /\ pc[g] = "send" /\ CanSend(g)
    /\ Goto(g, "end")
    /\ UNCHANGED <<err, ctxErr, workErr, preloadDone, got, invalidated, reader, own>>

-----------------------------------------------------------------------------
(* The main goroutine *)

Selecting == pc["main"] = "select" /\ got # {"identity", "status"}

\* Every return cancels workCtx.
Return(e) ==
    /\ err' = [err EXCEPT !["main"] = e]
    /\ workErr' = Cancelled
    /\ Goto("main", "end")

ContextDone ==
    /\ Selecting /\ ctxErr # "none"
    /\ Return(ctxErr)
    /\ UNCHANGED <<ctxErr, preloadDone, got, invalidated, reader, own>>

ReceiveIdentity ==
    /\ Selecting /\ pc["identity"] = "end" /\ "identity" \notin got
    /\ got' = got \cup {"identity"}
    /\ workErr' = IF err["identity"] # "none" THEN Cancelled ELSE workErr
    /\ UNCHANGED <<pc, err, ctxErr, preloadDone, invalidated, reader, own>>

\* invalidateNonActiveDomain does not look at the rest of the result.
Invalidates == TRUE

ReceiveStatus ==
    /\ Selecting /\ pc["status"] = "end" /\ "status" \notin got
    /\ got' = got \cup {"status"}
    /\ invalidated' = (invalidated \/ (err["status"] = "not active" /\ Invalidates))
    /\ workErr' = IF err["status"] # "none" THEN Cancelled ELSE workErr
    /\ UNCHANGED <<pc, err, ctxErr, preloadDone, reader, own>>

\* The identity's error first, unless it is only a sibling's cancellation.
FirstError ==
    IF err["identity"] \notin {"none", "canceled"} THEN err["identity"]
    ELSE IF err["status"] \notin {"none", "canceled"} THEN err["status"]
    ELSE IF err["identity"] # "none" THEN err["identity"] ELSE err["status"]

\* Assembling the evidence ends with one more look at the caller's context and
\* at the evidence's freshness.
Finish ==
    /\ pc["main"] = "select" /\ got = {"identity", "status"}
    /\ IF FirstError # "none" THEN Return(FirstError)
       ELSE \E e \in IF ctxErr # "none" THEN {ctxErr} ELSE {"none", "evidence expired"} : Return(e)
    /\ UNCHANGED <<ctxErr, preloadDone, got, invalidated, reader, own>>

-----------------------------------------------------------------------------
\* The last waiter leaves, or the verification's deadline passes.
ContextEnds ==
    /\ ctxErr = "none" /\ pc["main"] # "end"
    /\ \E e \in ContextErrors : ctxErr' = e /\ workErr' = IF workErr = "none" THEN e ELSE workErr
    /\ UNCHANGED <<pc, err, preloadDone, got, invalidated, reader, own>>

Ended == \A g \in Goroutines : pc[g] \in {"none", "end"}

Identity == FetchOperationalKey \/ AwaitPreload \/ EnforceRecordPolicy \/ CancelSiblings \/ DrainPreload \/ Send("identity")
Status == FetchStatus \/ Send("status")
Main == LookupRecord \/ VerifyRecord \/ ContextDone \/ ReceiveIdentity \/ ReceiveStatus \/ Finish

Next == Main \/ PreloadHistory \/ Identity \/ Status \/ ContextEnds

\* Every goroutine goes on: a fetch ends by itself, by its own timeout or with
\* the deadline of its context.
Fairness == WF_vars(Main) /\ WF_vars(PreloadHistory) /\ WF_vars(Identity) /\ WF_vars(Status)

Spec == Init /\ [][Next]_vars /\ Fairness

-----------------------------------------------------------------------------
(* Properties *)

Returned == pc["main"] = "end"

\* The error returned is a cancellation only if the caller's own context was
\* cancelled: the cancellation by a goroutine that failed never hides the
\* failure that caused it.
CauseNotMasked == Returned /\ err["main"] \in ContextErrors => ctxErr = err["main"]

\* A failure of the identity part wins over one of the status, in whichever
\* order the two arrived.
IdentityErrorFirst ==
    Returned /\ own["identity"] # "none" /\ ctxErr = "none" => err["main"] = own["identity"]

\* A status that is not ACTIVE evicts the domain even if the identity failed
\* too, unless the caller went away before it was read.
NotActiveInvalidates ==
    Returned /\ own["status"] = "not active" /\ ctxErr = "none" => invalidated

\* Evidence is returned only when the key, the history and the status were all
\* obtained by this acquisition, and the policy was checked on the history that
\* was preloaded.
VerifiedFromAllParts ==
    Returned /\ err["main"] = "none"
        => (\A g \in Goroutines : pc[g] = "end" /\ own[g] = "none" /\ err[g] = "none") /\ reader = "preloaded"

=============================================================================
