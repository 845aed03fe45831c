----------------------------- MODULE MCLiteFile ------------------------------
(* LiteFile with two threads and two Files: one shared by both threads, or one
   for each.                                                                 *)
EXTENDS LiteFile

=============================================================================
