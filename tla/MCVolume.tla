------------------------------- MODULE MCVolume -------------------------------
(* Volume with two processes. *)
EXTENDS Volume, TLC

Symmetry == Permutations(Procs)

=============================================================================
