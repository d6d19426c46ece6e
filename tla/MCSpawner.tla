----------------------------- MODULE MCSpawner -----------------------------
(* Small instances of Spawner. *)
EXTENDS Spawner, TLC

Symmetry == Permutations(Calls)
=============================================================================
