---------------------------- MODULE MCCheckpoint ----------------------------
(* Small instances of Checkpoint: the slots and contents as model values.  *)
EXTENDS Checkpoint, TLC

CONSTANTS A, B, g1, r1

\* The guard treats the two files alike.
Interchangeable == Permutations(Slots)
=============================================================================
