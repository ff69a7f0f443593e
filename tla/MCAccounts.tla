------------------------------ MODULE MCAccounts ------------------------------
(* Two people. *)
EXTENDS Accounts
CONSTANTS ann, bob, h1, h2
=============================================================================
