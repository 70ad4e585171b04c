---------------------------- MODULE MCEventPath ----------------------------
(* Small instances of EventPath for TLC.                                   *)
EXTENDS EventPath

Symmetry == Permutations(Clients) \cup Permutations(Flags)
=============================================================================
