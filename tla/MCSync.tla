------------------------------- MODULE MCSync -------------------------------
(* One game with a battery save. *)
EXTENDS Sync, TLC
CONSTANTS p1, p2, battery
Symmetry == Permutations(Procs)
=============================================================================
