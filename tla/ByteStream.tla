------------------------------ MODULE ByteStream ------------------------------
(***************************************************************************)
(* What a stream promises (abstract specification of StreamBase in         *)
(* sources/streams.h): a sequence of bytes. Below limit every call         *)
(* succeeds; a call that goes beyond it may fail, and then may have done a *)
(* part of its work. last is the last call with its result. A kill in a    *)
(* truncation may leave the truncated bytes, and lower the limit to them.  *)
(***************************************************************************)
EXTENDS Naturals, Sequences

CONSTANTS
    Bytes,
    MaxSize,
    Inputs,
    LimitBeyondEnd  \* whether a read beyond the end of the stream can meet limit

VARIABLES content, limit, last

bvars == <<content, limit, last>>

AtMost(a, b) == IF a < b THEN a ELSE b

Success(bytes) == [ok |-> TRUE, bytes |-> bytes]
Error == [ok |-> FALSE, bytes |-> <<>>]

(* content after bytes are written at off; a gap before off reads as zeros. *)
Overwritten(off, bytes) ==
    [i \in 1..(IF off + Len(bytes) > Len(content) THEN off + Len(bytes) ELSE Len(content)) |->
        IF i > off /\ i <= off + Len(bytes) THEN bytes[i - off]
        ELSE IF i <= Len(content) THEN content[i] ELSE 0]

Resized(n) == [i \in 1..n |-> IF i <= Len(content) THEN content[i] ELSE 0]

BInit == content \in Seq(Bytes)

BRead(off, len) ==
    /\ last'.call = <<"read", off, len>>
    /\ UNCHANGED <<content, limit>>
    /\ \/ last'.result = Success(SubSeq(content, off + 1, AtMost(off + len, Len(content))))
       \/ /\ (IF LimitBeyondEnd THEN off + len ELSE AtMost(off + len, Len(content))) > limit
          /\ last'.result = Error

BWrite(off, bytes) ==
    /\ last'.call = <<"write", off, bytes>>
    /\ UNCHANGED limit
    /\ \/ content' = Overwritten(off, bytes) /\ last'.result = Success(<<>>)
       \/ /\ off + Len(bytes) > limit
          /\ last'.result = Error
          /\ Len(content') >= Len(content)
          /\ Len(content') <= Len(Overwritten(off, bytes))
          /\ \A i \in 1..Len(content') :
                content'[i] \in {Overwritten(off, bytes)[i], Resized(Len(content'))[i]}

BResize(n) ==
    /\ last'.call = <<"resize", n>>
    /\ UNCHANGED limit
    /\ \/ content' = Resized(n) /\ last'.result = Success(<<>>)
       \/ /\ n > limit
          /\ last'.result = Error
          /\ \E k \in Len(content)..(IF n > Len(content) THEN n ELSE Len(content)) :
                content' = Resized(k)

BFlush ==
    /\ last'.call = <<"flush">>
    /\ last'.result = Success(<<>>)
    /\ UNCHANGED <<content, limit>>

BKilledAt(n) ==
    /\ n < Len(content)
    /\ content' = Resized(n)
    /\ limit' = AtMost(limit, n)
    /\ UNCHANGED last

BNext ==
    \/ \E off \in 0..MaxSize, len \in 0..MaxSize : BRead(off, len)
    \/ \E off \in 0..MaxSize, bytes \in Inputs : BWrite(off, bytes)
    \/ \E n \in 0..MaxSize : BResize(n) \/ BKilledAt(n)
    \/ BFlush

BSpec == BInit /\ [][BNext]_bvars

=============================================================================
