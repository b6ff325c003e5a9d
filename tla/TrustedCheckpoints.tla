------------------------- MODULE TrustedCheckpoints -------------------------
(***************************************************************************)
(* What trusting the checkpoints of one log origin promises, whatever      *)
(* store, retries and interleavings are underneath: one trusted checkpoint *)
(* that only grows along one history, and verification results that rest   *)
(* only on checkpoints of that history.  The single way out is a new       *)
(* baseline, which starts over.                                            *)
(***************************************************************************)
CONSTANTS
  Checkpoint,     \* (tree size, root hash) pairs of the origin
  Extends(_, _),  \* Extends(c, d): c's tree has d's tree as a prefix
  None            \* no checkpoint recorded

VARIABLES
  trusted,   \* the trusted checkpoint
  accepted   \* checkpoints verification has relied on since the baseline

vars == <<trusted, accepted>>

Init ==
  /\ trusted = None
  /\ accepted = {}

\* Trust on first use, then only extensions.  The writer may or may not learn
\* that its checkpoint was published, hence rely on it.
Advance(c) ==
  /\ trusted = None \/ Extends(c, trusted)
  /\ trusted' = c
  /\ accepted' \in {accepted, accepted \cup {c}}

\* A verification relies on the checkpoint that is trusted already.
Confirm ==
  /\ trusted # None
  /\ accepted' = accepted \cup {trusted}
  /\ UNCHANGED trusted

\* An administrator's replacement, or a new and empty store.
Baseline(c) ==
  /\ trusted' = c
  /\ accepted' = {}

Next ==
  \/ \E c \in Checkpoint : Advance(c)
  \/ Confirm
  \/ \E c \in Checkpoint \cup {None} : Baseline(c)

Spec == Init /\ [][Next]_vars
=============================================================================
