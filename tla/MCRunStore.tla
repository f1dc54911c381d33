----------------------------- MODULE MCRunStore -----------------------------
(* Two runs of a task that are given one directory, and a run with a       *)
(* directory and a task of its own.                                        *)
EXTENDS RunStore, TLC

CONSTANTS first, again, other, shared, own

MCdir_of == (first :> shared) @@ (again :> shared) @@ (other :> own)
MCtask_of == (first :> "edit") @@ (again :> "edit") @@ (other :> "read")
MCinitial_of == (first :> "seed") @@ (again :> "seed") @@ (other :> "seed")
=============================================================================
