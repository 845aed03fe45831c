------------------------------- MODULE MCLiteFS -------------------------------
(* LiteFS with names of one byte that differ in case, one with a leading dot
   that is as long as a name may be, one that is too long for a file and one
   that is too long for a link.                                              *)
EXTENDS LiteFS

Upper == <<65>>
Lower == <<97>>
Dotted == <<Dot, 5>>
Long == <<200, 7, 131>>
LongForLink == <<1, 2, 3, 4>>

NameSet == {Upper, Lower, Dotted, Long, LongForLink, <<Dot, Dot>>}

PathSet == {Slash, << <<>>, Upper >>, << <<>>, Lower >>, << <<>>, Dotted >>, << <<>>, Long >>,
            << <<>>, Lower, Dotted >>}

TargetSet == {<< <<>>, Upper, <<Dot, Dot>>, Long >>, << LongForLink >>, << <<>> >>}

(* Names that are hidden, that do not decode, that are too short, and that fail
   authentication.                                                           *)
ForeignSet == {Dotted, <<1>>, <<1, 2>>, <<1, 2, 3, 4>>}

(* No step depends on what the last call returned. *)
TreeView == <<tree, casefold>>

=============================================================================
