---------------------------- MODULE MCLiteStream -----------------------------
(* LiteStream with blocks of three bytes, a limit of two blocks and one block
   beyond it.                                                                *)
EXTENDS LiteStream

Buffers == {<<1>>, <<1, 0>>, <<1, 1, 0, 1>>, <<>>}

(* No step depends on what the last call did. *)
FileView == <<data, opened, sparse>>

=============================================================================
