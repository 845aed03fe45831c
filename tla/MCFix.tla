--------------------------------- MODULE MCFix ---------------------------------
(* Fix on a small instance. The name fix gives a recovered file is its id, so
   that ids stay interchangeable.                                           *)
EXTENDS Fix

Symmetry == Permutations(Ids \ {Root}) \cup Permutations(UserNames)

=============================================================================
