---------------------------- MODULE MCTaskSystem ----------------------------
(* The life of tasks on small sets of tasks and workers for TLC. *)
EXTENDS TaskSystem, TLC

CONSTANTS k1, k2, k3, w1, w2, c1, c2

\* k1 and k2 are OFFLINE tasks with the same audio, k3 is an SPK task.
MCContent == [k \in Keys |-> IF k = k3 THEN c2 ELSE c1]
MCSame == [k \in Keys |-> c1]

MCSymmetry == Permutations(Workers)

=============================================================================
