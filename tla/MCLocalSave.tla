----------------------------- MODULE MCLocalSave -----------------------------
(* Small instances of LocalSave: the player, and the sync service beside it. *)
EXTENDS LocalSave

CONSTANTS player, sync
PlayerAndSync == [p \in Procs |-> IF p = player THEN Kinds ELSE {"update"}]
OnlyCommits == [p \in Procs |-> {"commit"}]
=============================================================================
