------------------------------ MODULE KeyStore ------------------------------
(***************************************************************************)
(* What a file-backed operational key store promises: the file always      *)
(* holds one whole store, moves from store to store only by generating,    *)
(* activating or purging a key, and a power loss falls back to a store     *)
(* published since the last completed directory sync.                      *)
(***************************************************************************)
EXTENDS Naturals

CONSTANTS Kids   \* key ids (RFC 7638 thumbprints)

\* localKeyState; "none" for a kid that the store does not hold.
KeyState == {"none", "pending", "active", "retained"}
Store == [Kids -> KeyState]

Holds(s, k) == s[k] # "none"
Active(s) == {k \in Kids : s[k] = "active"}

\* ListKeyIds, order left out: the active and the retained kids.
Listed(s) == {k \in Kids : s[k] \in {"active", "retained"}}

\* GenerateKey's change of the store.
WithGenerated(s, k) == [s EXCEPT ![k] = "pending"]

\* Activate's change of the store.
WithActive(s, k) ==
  [j \in Kids |-> IF j = k THEN "active"
                  ELSE IF s[j] = "active" THEN "retained" ELSE s[j]]

\* Purge's change of the store.
Without(s, k) == [s EXCEPT ![k] = "none"]

\* The initial store has one active key and nothing else.
FirstStore(k) == [j \in Kids |-> IF j = k THEN "active" ELSE "none"]

Legal(s, t) ==
  \E k \in Kids :
    \/ ~Holds(s, k) /\ t = WithGenerated(s, k)
    \/ Holds(s, k) /\ t = WithActive(s, k)
    \/ s[k] \in {"pending", "retained"} /\ t = Without(s, k)

VARIABLES
  file,   \* the store that a reader of the path finds
  disk    \* the stores that a power loss may leave at the path

Init ==
  /\ \E k \in Kids : file = FirstStore(k)
  /\ disk = {file}

Publish ==
  /\ Legal(file, file')
  /\ disk' = disk \cup {file'}

Settle ==
  /\ disk' = {file}
  /\ UNCHANGED file

PowerLoss ==
  /\ file' \in disk
  /\ disk' = {file'}

Next == Publish \/ Settle \/ PowerLoss

Spec == Init /\ [][Next]_<<file, disk>>
=============================================================================
