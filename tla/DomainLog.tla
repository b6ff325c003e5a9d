----------------------------- MODULE DomainLog ------------------------------
(***************************************************************************)
(* DomainLog: any sequence of events that a reader hands to SnapshotAt,    *)
(* grown one event at a time and read at every time.                       *)
(***************************************************************************)
EXTENDS LifecycleRules

CONSTANTS
  Domains,      \* the domains of events
  Own,          \* the domain of the log
  Times,        \* timestamps and snapshot times
  Logs,         \* log references
  MaxEvents     \* bound: length of the history

VARIABLE events

\* Events as a reader may return them; SnapshotAt does not look at chain fields.
Candidate ==
  {[Issuance(d, t, e, k) EXCEPT !.ok = ok] : d \in Domains, t \in Times, e \in Keys, k \in Keys, ok \in BOOLEAN}
  \cup {[Rotation(d, t, GenesisChain, p, k) EXCEPT !.ok = ok] :
          d \in Domains, t \in Times, p \in Keys, k \in Keys, ok \in BOOLEAN}
  \cup {Event(y, d, t, GenesisChain) :
          y \in {"RETIREMENT", "DELEGATION"}, d \in Domains, t \in Times}
  \cup {[Event("REVOCATION", d, t, GenesisChain) EXCEPT !.ok = ok] :
          d \in Domains, t \in Times, ok \in BOOLEAN}
  \cup {[Migration(d, t, f, o, 0) EXCEPT !.ok = TRUE] : d \in Domains, t \in Times, f \in Logs, o \in Logs}

Init == events = <<>>

\* NewDomainLog over one more event.
Extend ==
  /\ Len(events) < MaxEvents
  /\ \E e \in Candidate : events' = Append(events, e)

Next == Extend

Spec == Init /\ [][Next]_events

-----------------------------------------------------------------------------
(* The reducer's contract, stated without a loop. *)

Known(at) == {i \in 1 .. Len(events) : events[i].ts <= at}
KeyEvents(at) == {i \in Known(at) : events[i].type \in {"ISSUANCE", "KEY_ROTATION"}}

\* A history is well formed up to a time: one valid ISSUANCE, first; rotations that
\* each continue from the key before; nothing after a terminal event.
WellFormed(at) ==
  /\ \A i \in 1 .. Len(events) : events[i].domain = Own
  /\ Known(at) # {} /\ Known(at) = 1 .. Max(Known(at))
  /\ \A i \in Known(at) :
       /\ (events[i].type = "ISSUANCE") <=> (i = 1)
       /\ events[i].type \in {"REVOCATION", "RETIREMENT"} => i = Max(Known(at))
       /\ events[i].type = "REVOCATION" => events[i].ok
       /\ events[i].type = "ISSUANCE" => events[i].ok /\ events[i].entity # events[i].key
       /\ events[i].type = "KEY_ROTATION" =>
            LET before == events[Max({j \in KeyEvents(at) : j < i})].key
            IN  events[i].ok /\ events[i].prevKey = before /\ events[i].key # before
       /\ events[i].type = "MIGRATION" => events[i].from # events[i].to

\* SnapshotAt accepts exactly the well-formed histories, and its state, active key
\* and binding time are those of the last terminal and the last key event known at
\* that time.
SnapshotExact ==
  \A at \in Times :
    LET s == SnapshotAt(Own, events, at)
        last == events[Max(Known(at))].type
    IN  /\ (s.err = "") <=> WellFormed(at)
        /\ s.err = "" =>
             /\ s.state = (CASE last = "REVOCATION" -> "REVOKED"
                             [] last = "RETIREMENT" -> "RETIRED"
                             [] OTHER -> "ACTIVE")
             /\ s.key = events[Max(KeyEvents(at))].key
             /\ s.boundAt = events[Max(KeyEvents(at))].ts
             /\ s.n = Cardinality(Known(at))
=============================================================================
