-------------------------- MODULE KeyFileCreation ---------------------------
(***************************************************************************)
(* LoadOrCreateLocalKeyProvider, called by several processes for one path: *)
(* load, else create exclusively, write, sync, close, sync the directory.  *)
(***************************************************************************)
EXTENDS Naturals

CONSTANTS Processes, Absent, Torn

\* A whole file is named by the process that generated its key; the file can also
\* be missing, or hold less than a whole store.
Whole == Processes
Content == Whole \cup {Absent, Torn}

VARIABLES
  file,     \* what a reader of the path finds
  disk,     \* what a power loss may leave at the path
  pc,       \* where each process is
  holds,    \* the key of the provider that the call returned
  broken    \* history: the failures so far

vars == <<file, disk, pc, holds, broken>>

Creating == {"write", "sync", "undo", "dirsync"}

TypeOK ==
  /\ file \in Content
  /\ disk \subseteq Content /\ file \in disk
  /\ pc \in [Processes -> {"load", "create", "reload", "done", "created", "down"} \cup Creating]
  /\ holds \in [Processes -> Whole \cup {Absent}]
  /\ broken \subseteq {"removed", "kept", "crash", "power"}
  /\ \A p, q \in Processes : pc[p] \in Creating /\ pc[q] \in Creating => p = q

Init ==
  /\ file = Absent
  /\ disk = {Absent}
  /\ pc = [p \in Processes |-> "load"]
  /\ holds = [p \in Processes |-> Absent]
  /\ broken = {}

Goto(p, l) == pc' = [pc EXCEPT ![p] = l]
Returns(p, c) == Goto(p, "done") /\ holds' = [holds EXCEPT ![p] = c]
Created(p) == Goto(p, "created") /\ holds' = [holds EXCEPT ![p] = p]

\* NewLocalKeyProvider; an unreadable file is an error (Absent), not a reason to
\* create another one.
Load(p) ==
  /\ pc[p] \in {"load", "reload"}
  /\ IF file = Absent /\ pc[p] = "load"
       THEN Goto(p, "create") /\ UNCHANGED holds
       ELSE Returns(p, IF file \in Whole THEN file ELSE Absent)
  /\ UNCHANGED <<file, disk, broken>>

\* Mutant: os.O_TRUNC in the place of os.O_EXCL.
CreateTruncating(p) ==
  /\ pc[p] = "create"
  /\ Goto(p, "write")
  /\ file' = Torn
  /\ disk' = disk \cup {Torn}
  /\ UNCHANGED <<holds, broken>>

\* os.OpenFile with O_EXCL: whoever comes second loads the file of the first.
Create(p) ==
  /\ pc[p] = "create"
  /\ IF file = Absent
       THEN Goto(p, "write") /\ file' = Torn /\ disk' = disk \cup {Torn}
       ELSE Goto(p, "reload") /\ UNCHANGED <<file, disk>>
  /\ UNCHANGED <<holds, broken>>

Write(p) ==
  /\ pc[p] = "write"
  /\ \/ file' = p /\ disk' = disk \cup {p} /\ Goto(p, "sync")
     \/ Goto(p, "undo") /\ UNCHANGED <<file, disk>>
  /\ UNCHANGED <<holds, broken>>

\* syncFile and Close: once it succeeds the file is whole wherever its name is.
SyncFile(p) ==
  /\ pc[p] = "sync"
  /\ \/ Goto(p, "dirsync") /\ disk' = disk \ {Torn}
     \/ Goto(p, "undo") /\ UNCHANGED disk
  /\ UNCHANGED <<file, holds, broken>>

\* os.Remove after a failed write, sync or close.  Its error is ignored, and the
\* file stays as it was left.
Remove(p) ==
  /\ pc[p] = "undo"
  /\ \/ /\ file' = Absent
        /\ disk' = disk \cup {Absent}
        /\ broken' = broken \cup {"removed"}
     \/ /\ broken' = broken \cup {"kept"}
        /\ UNCHANGED <<file, disk>>
  /\ Returns(p, Absent)

\* syncKeyDirectory; on failure the file stays and no provider is returned.
SyncDirectory(p) ==
  /\ pc[p] = "dirsync"
  /\ \/ disk' = disk \cap {file, Torn} /\ Created(p)
     \/ Returns(p, Absent) /\ UNCHANGED disk
  /\ UNCHANGED <<file, broken>>

Retry(p) ==
  /\ pc[p] \in {"down", "done"}
  /\ holds[p] = Absent
  /\ Goto(p, "load")
  /\ UNCHANGED <<file, disk, holds, broken>>

Crash(p) ==
  /\ Goto(p, "down")
  /\ holds' = [holds EXCEPT ![p] = Absent]
  /\ broken' = broken \cup {"crash"}
  /\ UNCHANGED <<file, disk>>

PowerLoss ==
  /\ file' \in disk
  /\ disk' = {file'}
  /\ pc' = [p \in Processes |-> "down"]
  /\ holds' = [p \in Processes |-> Absent]
  /\ broken' = broken \cup {"power"}

Next ==
  \/ \E p \in Processes :
       \/ Load(p) \/ Create(p) \/ Write(p) \/ SyncFile(p) \/ Remove(p)
       \/ SyncDirectory(p) \/ Retry(p) \/ Crash(p)
  \/ PowerLoss

Spec == Init /\ [][Next]_vars

-----------------------------------------------------------------------------

\* The provider of a process that created the file survives every power loss,
\* whatever the other callers and their failed attempts do to the path.
CreatedKeyIsDurable == \A p \in Processes : pc[p] = "created" => disk = {p}

\* Processes that race for the first key end up with the same one, unless a failed
\* creation was undone or power was lost between them.
ProvidersAgree ==
  broken \cap {"removed", "power"} = {} =>
    \A p, q \in Processes : Absent \in {holds[p], holds[q]} \/ holds[p] = holds[q]

\* No single failed call leaves the path unreadable, which no later call repairs:
\* a process or machine must stop inside the creation, or the file of a failed
\* creation cannot be removed either.
UnreadableOnlyAfterCrash ==
  file = Torn /\ (\A p \in Processes : pc[p] \notin Creating)
    => broken \cap {"crash", "power", "kept"} # {}
=============================================================================
