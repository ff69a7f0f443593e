------------------------------- MODULE MCSound -------------------------------
(* A ring of three slots and a queue of two chunks; sizes that wrap and overflow both. *)
EXTENDS Sound
=============================================================================
