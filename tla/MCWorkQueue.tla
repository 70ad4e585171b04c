---------------------------- MODULE MCWorkQueue ----------------------------
(* Small instances of WorkQueue for TLC.                                   *)
EXTENDS WorkQueue, TLC

Symmetry == Permutations(Producers) \cup Permutations(Workers) \cup Permutations(Tasks)
=============================================================================
