----------------------------- MODULE MCFileTable -----------------------------
(* FileTable on a small instance: more files than the cache holds, so that
   evictions happen, and two attribute values, so that updates can be lost. *)
EXTENDS FileTable, TLC

Symmetry == Permutations(Ids) \cup Permutations(Ptrs)

=============================================================================
