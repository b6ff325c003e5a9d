---------------------------- MODULE StreamBundles -----------------------------
(***************************************************************************)
(* The histories a client reads (log/c2sptlog/bundle.go, with PreloadHistory *)
(* and rebuildVerifiedHistory of client.go): signed stream bundles fetched  *)
(* from the log's endpoint, the complete scan that stands in when none can  *)
(* be fetched, and histories that are preloaded and used later.             *)
(*                                                                         *)
(* The log, its witnessed checkpoints and the producer of bundles are       *)
(* external: a bundle is complete up to its checkpoint, as the producer     *)
(* asserts, and may be of an old checkpoint, of another domain than its     *)
(* endpoint's, or of a signer that is not accepted.  Proofs and roots are   *)
(* TiledLog's subject, the lifecycle is LifecycleStream's and the store of  *)
(* checkpoints CheckpointStore's.                                           *)
(***************************************************************************)
EXTENDS Naturals, Sequences

CONSTANTS Domains, Signers, BundleVerifiers,
          Lifetimes,          \* of bundles, from their creation
          MaxBundleLifetime,  \* from their checkpoint
          MaxCheckpointAge,
          MaxTime, MaxEntries,
          None

VARIABLES now,
          requireBundle,  \* the source's configuration
          log,            \* the log's entries: domain and time
          checkpoint,     \* its current witnessed checkpoint
          served,         \* the bundle each domain's endpoint serves
          call,           \* the client's call
          preloaded,      \* a preloaded history whose context is live
          result          \* what the last call returned, until the next one

external == <<log, checkpoint, served>>
vars == <<now, requireBundle, external, call, preloaded, result>>

Idle == [pc |-> "idle"]
Goto(to) == call' = to

\* The domain's entries under a checkpoint.
EventsOf(domain, size) == {i \in 1 .. size : log[i].domain = domain}

(* Mutants. *)
AnyAge(witness) == TRUE

-----------------------------------------------------------------------------
(* The log and the producer of bundles: external *)

AppendEntry ==
    /\ Len(log) < MaxEntries
    /\ \E d \in Domains : log' = Append(log, [domain |-> d, at |-> now])
    /\ UNCHANGED <<now, requireBundle, checkpoint, served, call, preloaded, result>>

Witness ==
    /\ checkpoint' = [size |-> Len(log), witness |-> now] /\ checkpoint' # checkpoint
    /\ UNCHANGED <<now, requireBundle, log, served, call, preloaded, result>>

ServeBundle ==
    /\ \E d, of \in Domains, lifetime \in Lifetimes, signer \in Signers :
         /\ EventsOf(of, checkpoint.size) # {}
         /\ served' = [served EXCEPT ![d] = [fqdn |-> of, size |-> checkpoint.size, witness |-> checkpoint.witness,
                                             expires |-> now + lifetime, signer |-> signer]]
    /\ served' # served
    /\ UNCHANGED <<now, requireBundle, log, checkpoint, call, preloaded, result>>

Tick == now < MaxTime /\ now' = now + 1 /\ UNCHANGED <<requireBundle, external, call, preloaded, result>>

-----------------------------------------------------------------------------
(* fetchedStreamBundleSource.load and VerifyStreamBundle *)

\* streamBundleFallbackAllowed: no bundle there, or a transient failure.
FallbackAllowed(why) == why \in {"notfound", "transient"}

FetchFails ==
    /\ call.pc = "fetch"
    /\ \E why \in {"notfound", "transient", "refused"} :
         Goto(IF ~requireBundle /\ FallbackAllowed(why) THEN [call EXCEPT !.pc = "scan", !.why = why] ELSE Idle)
    /\ UNCHANGED <<now, requireBundle, external, preloaded, result>>

\* Policy.verifyCheckpoint, as far as it depends on the time.
RecentCheckpoint(witness) == now <= witness + MaxCheckpointAge

\* The lifetime is limited from the checkpoint on, not from now.
WithinLifetime(b) == b.expires <= b.witness + MaxBundleLifetime

\* The signature, the expiry, and the replay of the entries under the checkpoint.
FetchBundle ==
    /\ call.pc = "fetch" /\ served[call.domain] # None
    /\ LET b == served[call.domain] IN
         /\ b.signer \in BundleVerifiers
         /\ now < b.expires
         /\ RecentCheckpoint(b.witness) /\ WithinLifetime(b)
         /\ Goto([call EXCEPT !.pc = "accept", !.bundle = b])
    /\ UNCHANGED <<now, requireBundle, external, preloaded, result>>

NotExpired(expires) == expires # None => now < expires

\* It has not expired meanwhile and is of the domain that was asked for.
AcceptBundle ==
    /\ call.pc = "accept"
    /\ NotExpired(call.bundle.expires) /\ call.bundle.fqdn = call.domain
    /\ Goto([call EXCEPT !.pc = "entries", !.entries = EventsOf(call.domain, call.bundle.size),
                         !.witness = call.bundle.witness, !.expires = call.bundle.expires])
    /\ UNCHANGED <<now, requireBundle, external, preloaded, result>>

\* The complete scan of the fallback source: TiledLog.
Scan ==
    /\ call.pc = "scan" /\ RecentCheckpoint(checkpoint.witness)
    /\ Goto([call EXCEPT !.pc = "entries", !.entries = EventsOf(call.domain, checkpoint.size),
                         !.witness = checkpoint.witness])
    /\ UNCHANGED <<now, requireBundle, external, preloaded, result>>

-----------------------------------------------------------------------------
(* The client *)

NewCall(domain, mode) ==
    [pc |-> "fetch", mode |-> mode, domain |-> domain, why |-> None, bundle |-> None,
     entries |-> {}, witness |-> 0, expires |-> None, raw |-> None, index |-> 0, checked |-> 0]

\* A live preloaded history of the domain is used, unless its bundle expired.
BeginHistory ==
    /\ call.pc = "idle"
    /\ \E d \in Domains :
         IF preloaded # None /\ preloaded.domain = d
         THEN NotExpired(preloaded.expires) /\ Goto([preloaded EXCEPT !.mode = "preloaded"])
         ELSE Goto(NewCall(d, "history"))
    /\ result' = None /\ UNCHANGED <<now, requireBundle, external, preloaded>>

\* VerifyNonRevocation asks the source for a complete history and uses nothing
\* that was preloaded.
BeginComplete ==
    /\ call.pc = "idle"
    /\ \E d \in Domains : Goto(NewCall(d, "complete"))
    /\ result' = None /\ UNCHANGED <<now, requireBundle, external, preloaded>>

BeginPreload ==
    /\ call.pc = "idle" /\ preloaded = None
    /\ \E d \in Domains : Goto(NewCall(d, "preload"))
    /\ result' = None /\ UNCHANGED <<now, requireBundle, external, preloaded>>

Preload ==
    /\ call.pc = "entries" /\ call.mode = "preload" /\ NotExpired(call.expires)
    /\ preloaded' = call /\ Goto(Idle)
    /\ UNCHANGED <<now, requireBundle, external, result>>

\* verifyCompleteCheckpoint is VerifyNonRevocation's alone.
CompleteCheckpoint(c) == c.mode = "complete" => RecentCheckpoint(c.witness)

\* The proof of each entry is verified again, and so its checkpoint.
ProofsHold(c) == \A i \in c.entries : RecentCheckpoint(c.witness)

\* verifyHistoryEntries; a history without events has no proofs to look at, and is
\* refused when it is replayed.
VerifyHistoryEntries ==
    /\ call.pc = "entries" /\ call.mode \in {"history", "complete", "preloaded"}
    /\ CompleteCheckpoint(call) /\ ProofsHold(call)
    /\ call.entries # {}
    /\ Goto([call EXCEPT !.pc = "return", !.checked = now])
    /\ UNCHANGED <<now, requireBundle, external, preloaded, result>>

\* The expiry of what was preloaded is checked again after the verification.
StillUsable(expires) == NotExpired(expires)

ReturnHistory ==
    /\ call.pc = "return" /\ (call.mode = "preloaded" => StillUsable(call.expires))
    /\ result' = [call |-> call, at |-> now] /\ Goto(Idle)
    /\ UNCHANGED <<now, requireBundle, external, preloaded>>

\* ReadEvent: an entry that any replica of the log returns, possibly of
\* another branch, names the domain whose bundle proves the entry.
BeginRead ==
    /\ call.pc = "idle"
    /\ \E i \in 1 .. checkpoint.size, d \in Domains, on \in {"main", "other"} :
         /\ on = "main" => d = log[i].domain
         /\ Goto([NewCall(d, "read") EXCEPT !.raw = [domain |-> d, on |-> on], !.index = i])
    /\ result' = None /\ UNCHANGED <<now, requireBundle, external, preloaded>>

\* The entry that a verified bundle or a scan has at the index.
Proven(c) == [domain |-> log[c.index].domain, on |-> "main"]

\* The fallback reads the entry again, authenticated by a scan.
FallbackEntry(c) == Proven(c)

ReturnEntry ==
    /\ call.pc = "entries" /\ call.mode = "read"
    /\ call.why = None => call.index \in call.entries /\ Proven(call) = call.raw
    /\ result' = [call |-> [call EXCEPT !.raw = IF call.why = None THEN Proven(call) ELSE FallbackEntry(call)], at |-> now]
    /\ Goto(Idle)
    /\ UNCHANGED <<now, requireBundle, external, preloaded>>

\* A check fails, or the context ends.
Refuse == call.pc # "idle" /\ Goto(Idle) /\ UNCHANGED <<now, requireBundle, external, preloaded, result>>

\* The context of the preloaded history is cancelled.
CancelPreload ==
    /\ preloaded # None /\ preloaded' = None
    /\ UNCHANGED <<now, requireBundle, external, call, result>>

Init ==
    /\ now = 0 /\ requireBundle \in BOOLEAN
    /\ log = <<>> /\ checkpoint = [size |-> 0, witness |-> 0]
    /\ served = [d \in Domains |-> None]
    /\ call = Idle /\ preloaded = None /\ result = None

Next == \/ AppendEntry \/ Witness \/ ServeBundle \/ Tick
        \/ FetchFails \/ FetchBundle \/ AcceptBundle \/ Scan
        \/ BeginHistory \/ BeginComplete \/ BeginPreload \/ Preload \/ VerifyHistoryEntries \/ ReturnHistory
        \/ BeginRead \/ ReturnEntry \/ Refuse \/ CancelPreload

Spec == Init /\ [][Next]_vars

\* Histories alone, and single reads alone.
World == AppendEntry \/ Witness \/ ServeBundle \/ Tick
Load == FetchFails \/ FetchBundle \/ AcceptBundle \/ Scan \/ Refuse
HistoryNext == \/ World \/ Load \/ BeginHistory \/ BeginComplete \/ BeginPreload \/ Preload
               \/ VerifyHistoryEntries \/ ReturnHistory \/ CancelPreload
ReadNext == World \/ Load \/ BeginRead \/ ReturnEntry

-----------------------------------------------------------------------------
(* Properties *)

Returned == result # None
OfHistory == Returned /\ result.call.mode # "read"

\* A history holds every event of its domain that was logged more than the
\* maximum checkpoint age before its proofs were verified, whether it came from
\* a bundle, from a scan, or was preloaded before the event was logged.
EventsNotMissed ==
    OfHistory => \A i \in DOMAIN log :
        log[i].domain = result.call.domain /\ log[i].at + MaxCheckpointAge < result.call.checked
            => i \in result.call.entries

\* A preloaded history is not returned once its bundle has expired.
PreloadedBeforeExpiry ==
    OfHistory /\ result.call.mode = "preloaded" /\ result.call.bundle # None => result.at < result.call.expires

\* A preloaded bundle is used only for as long after its checkpoint as the
\* verifier allows, however late its producer signed it and however far off
\* its own expiry is.
UsedWithinLifetime ==
    OfHistory /\ result.call.mode = "preloaded" /\ result.call.bundle # None
        => result.at < result.call.witness + MaxBundleLifetime

\* The scan stands in for a bundle only when none could be had: neither when
\* bundles are required nor when the endpoint's answer was unacceptable.
ScanOnlyIfUnavailable ==
    Returned /\ result.call.bundle = None => ~requireBundle /\ result.call.why \in {"notfound", "transient"}

\* The entry ReadEvent returns is the log's, though the one that named the
\* domain was not authenticated.
EntryIsTheLogs ==
    Returned /\ result.call.mode = "read" => result.call.raw = [domain |-> log[result.call.index].domain, on |-> "main"]
=============================================================================
