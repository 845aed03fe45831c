------------------------------- MODULE MCFullFS -------------------------------
(* FullFS on a small instance: two names and three files below the root are
   enough for a directory in a directory, a second link and a replaced file,
   and one handle besides the guards for a file that is unlinked while open. *)
EXTENDS FullFS

Symmetry == Permutations(Ids \ {Root}) \cup Permutations(Names) \cup Permutations(Attrs)

=============================================================================
