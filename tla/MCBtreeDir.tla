------------------------------ MODULE MCBtreeDir ------------------------------
(* BtreeDir on small instances: from an empty directory and one of nine names
   (one and two levels), and from directories large enough for a third level,
   where inner nodes split, merge and share out their children.              *)
EXTENDS BtreeDir

UpTo(n) == [i \in 1..n |-> i]

Sizes == {UpTo(0), UpTo(9), UpTo(20), UpTo(24)}

Small == {UpTo(0), UpTo(9)}

(* Ten is a name of the large directories, and is never removed. *)
AddableTo(names) == IF 10 \in names THEN {1, 25} ELSE {1, 5}

RemovableFrom(names) == IF 10 \in names THEN {1, 2, 4, 20} ELSE {1, 3, 4, 5, 6, 7, 9}

(* No step depends on what the last call returned. *)
DirView == dir
=============================================================================
