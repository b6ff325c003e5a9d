------------------------- MODULE MCCheckpointStore -------------------------
(* Model-checking instances of CheckpointStore. *)
EXTENDS CheckpointStore, TLC, SequencesExt

\* A checkpoint is the sequence of its leaves.  The log forks after no leaf and
\* after one leaf.
MCCheckpoint == {<<>>, <<1>>, <<2>>, <<1, 1>>, <<1, 2>>}

MCSize(c) == Len(c)
MCExtends(c, d) == IsPrefix(d, c)
=============================================================================
