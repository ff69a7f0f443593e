------------------------------- MODULE MCPlayer -------------------------------
(* One or two jobs under way at once. *)
EXTENDS Player
CONSTANTS p1, p2
=============================================================================
