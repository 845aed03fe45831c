---------------------------- MODULE MCCryptStream ----------------------------
(* CryptStream with blocks of two bytes, so that a write can begin and end
   inside a block, and a limit of three blocks with one block beyond it. A
   truncation that is killed after the first block leaves a MAC that growth
   puts over a hole.                                                         *)
EXTENDS CryptStream

Buffers == {<<1>>, <<1, 0>>, <<1, 1, 0, 1>>, <<>>}

(* No step depends on what the last call returned. *)
FilesView == <<data, meta, covered, dirty, opened, header, sparse, intact>>

=============================================================================
