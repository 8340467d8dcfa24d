---------------------------- MODULE MCTaskQueue ----------------------------
(* The task queue on small sets of tasks, workers and batches for TLC. *)
EXTENDS TaskQueue, TLC

CONSTANTS k1, k2, k3, w1, w2, b1, b2

MCKeys == {k1, k2, k3}
MCOffline == {k1, k2}
MCVip == {k2}

\* No constant or property tells two workers, or two batches, apart.
MCSymmetry == Permutations(Workers) \cup Permutations(Batches)

=============================================================================
