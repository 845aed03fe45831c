----------------------------- MODULE StreamBytes -----------------------------
(* The bytes of an underlying file, as the streams of both formats use them. *)
EXTENDS Integers, Sequences

Smaller(a, b) == IF a < b THEN a ELSE b
Larger(a, b) == IF a > b THEN a ELSE b

Zeros(n) == [i \in 1..n |-> 0]

(* pwrite and ftruncate of the underlying file. *)
PutAt(s, off, t, fill) ==
    [i \in 1..Larger(Len(s), off + Len(t)) |->
        IF i > off /\ i <= off + Len(t) THEN t[i - off]
        ELSE IF i <= Len(s) THEN s[i] ELSE fill]

CutTo(s, n, fill) == [i \in 1..n |-> IF i <= Len(s) THEN s[i] ELSE fill]

(* A call on the stream f that has thrown. *)
Failed(f) == [f EXCEPT !.failed = TRUE]

=============================================================================
