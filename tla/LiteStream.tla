------------------------------ MODULE LiteStream ------------------------------
(***************************************************************************)
(* The encrypted contents of a file in the lite format                     *)
(* (sources/lite_stream.cpp): one underlying file with a header, from      *)
(* which the session key is derived, and blocks that each begin with their *)
(* IV and end with their MAC. A block of zeros is stored as zeros, so that *)
(* holes of the underlying file are zeros of the stream.                   *)
(*                                                                         *)
(* Encryption is perfect: the i-th byte of the encryption of a plaintext s *)
(* as block b is the cell <<b, s, i>>, and decryption succeeds exactly on  *)
(* all cells of one encryption. A call makes several writes to the         *)
(* underlying file; moments holds its contents after each of them.         *)
(***************************************************************************)
EXTENDS StreamBytes

CONSTANTS
    m_block_size,  \* bytes of plaintext in a block
    header_size,   \* get_header_size, 16 in the code
    overhead,      \* get_iv_size plus get_mac_size, 28 in the code
    MAX_BLOCKS,    \* the last block that can be encrypted, 2^31 - 1 in the code
    Bytes,         \* byte values, 0 among them
    Header,        \* a byte of the header
    Zero,          \* a zero byte of the underlying file
    Garbage,       \* a byte of an uninitialized buffer
    MaxSize,       \* bound: sizes and offsets callers use
    Inputs         \* bound: buffers callers write

ASSUME LiteStreamAssumption ==
    /\ {m_block_size, header_size, overhead} \subseteq Nat \ {0}
    /\ {MAX_BLOCKS, MaxSize} \subseteq Nat
    /\ 0 \in Bytes /\ Garbage \notin Bytes
    /\ Header # Zero
    /\ Zero \notin Nat \X Seq(Bytes) \X Nat  \* no byte of an encrypted block
    /\ Inputs \subseteq Seq(Bytes)

VARIABLES
    data,     \* the underlying file
    opened,   \* whether there is a stream on it
    sparse,   \* whether the platform's files are sparse
    last,     \* the last call and its result
    moments   \* what the underlying file held during the last call

vars == <<data, opened, sparse, last, moments>>

underlying_block_size == m_block_size + overhead

Stream == [data |-> data, moments |-> {}, sparse |-> sparse, failed |-> FALSE]

(* One write or resize of the underlying file. *)
Store(f, bytes) == [f EXCEPT !.data = bytes, !.moments = @ \cup {bytes}]

-----------------------------------------------------------------------------
Encrypted(b, s) == [i \in 1..(Len(s) + overhead) |-> <<b, s, i>>]

IsAllZeros(s, zero) == \A i \in DOMAIN s : s[i] = zero

Raw(bytes, b) ==
    LET start == header_size + underlying_block_size * b
    IN  SubSeq(bytes, start + 1, Smaller(start + underlying_block_size, Len(bytes)))

Verifies(raw, b) == raw[1] # Zero /\ raw = Encrypted(b, raw[1][2])

(* read_block: too few bytes are no block, and zeros are a hole. *)
BlockReadable(bytes, b) ==
    LET raw == Raw(bytes, b) IN
    Len(raw) <= overhead \/ IsAllZeros(raw, Zero) \/ Verifies(raw, b)

CanRead(f, b) == b <= MAX_BLOCKS /\ BlockReadable(f.data, b)

PlainBlock(bytes, b) ==
    LET raw == Raw(bytes, b) IN
    IF Len(raw) <= overhead THEN <<>>
    ELSE IF IsAllZeros(raw, Zero) THEN Zeros(Len(raw) - overhead)
    ELSE raw[1][2]

ReadBlock(f, b) == PlainBlock(f.data, b)

(* Mutant: the block is encrypted with the number of the block before it. *)
WriteBlockWrongNumber(f, b, input) ==
    Store(f, PutAt(f.data, header_size + b * underlying_block_size,
                   Encrypted(Larger(b, 1) - 1, input), Zero))

(* write_block *)
WriteBlock(f, b, input) ==
    IF b > MAX_BLOCKS THEN Failed(f)
    ELSE Store(f, PutAt(f.data, header_size + b * underlying_block_size,
                        IF IsAllZeros(input, 0)
                        THEN [i \in 1..(Len(input) + overhead) |-> Zero]
                        ELSE Encrypted(b, input), Zero))

(* calculate_real_size *)
calculate_real_size(underlying_size) ==
    LET n       == Larger(underlying_size - header_size, 0)
        residue == n % underlying_block_size
    IN  (n \div underlying_block_size) * m_block_size + Larger(residue - overhead, 0)

size(f) == calculate_real_size(Len(f.data))

(* Mutant: a last block that is not full is cut to its plaintext's size. *)
AdjustForgetsOverhead(f, n) ==
    IF f.failed THEN f
    ELSE Store(f, CutTo(f.data, header_size + (n \div m_block_size) * underlying_block_size
                                + (n % m_block_size), Zero))

(* adjust_logical_size *)
AdjustLogicalSize(f, n) ==
    LET residue == n % m_block_size IN
    IF f.failed THEN f
    ELSE Store(f, CutTo(f.data, header_size + (n \div m_block_size) * underlying_block_size
                                + (IF residue > 0 THEN residue + overhead ELSE 0), Zero))

BB == INSTANCE BlockBasedStream WITH SizeOf <- size

Content(bytes) ==
    [i \in 1..calculate_real_size(Len(bytes)) |->
        PlainBlock(bytes, (i - 1) \div m_block_size)[((i - 1) % m_block_size) + 1]]

(* BlockBasedStream::read: the first block in any case, and a next one as long
   as the block before it was full.                                          *)
BlocksRead(off, len) ==
    {b \in (off \div m_block_size)..((off + len) \div m_block_size) :
        /\ len > 0 /\ b * m_block_size < off + len
        /\ b = off \div m_block_size \/ b * m_block_size <= size(Stream)}

-----------------------------------------------------------------------------
Success(bytes) == [ok |-> TRUE, bytes |-> bytes]
Error == [ok |-> FALSE, bytes |-> <<>>]

(* A call, the stream it leaves, and what it returns when it does not throw. *)
Call(call, f, bytes) ==
    /\ data' = f.data
    /\ moments' = f.moments
    /\ last' = [call |-> call, result |-> IF f.failed THEN Error ELSE Success(bytes)]
    /\ UNCHANGED sparse

(* A crash can leave a part of the header. *)
Init ==
    /\ data \in {[i \in 1..n |-> Header] : n \in 0..(header_size - 1)}
    /\ opened = FALSE
    /\ sparse \in BOOLEAN
    /\ last = [call |-> <<"flush">>, result |-> Success(<<>>)]
    /\ moments = {}

(* The constructor: an empty file gets a header, a part of one is refused. It
   is no call of the stream.                                                 *)
open ==
    LET rc == Smaller(Len(data), header_size)
        f  == IF rc = 0 THEN Store(Stream, [i \in 1..header_size |-> Header])
              ELSE IF rc # header_size THEN Failed(Stream) ELSE Stream
    IN  /\ data' = f.data
        /\ moments' = f.moments
        /\ opened' = ~f.failed
        /\ UNCHANGED <<sparse, last>>

read(off, len) ==
    /\ opened
    /\ Call(<<"read", off, len>>,
            IF \A b \in BlocksRead(off, len) : CanRead(Stream, b) THEN Stream ELSE Failed(Stream),
            SubSeq(Content(data), off + 1, Smaller(off + len, Len(Content(data)))))
    /\ UNCHANGED opened

write(off, input) ==
    /\ opened
    /\ off + Len(input) <= MaxSize
    /\ Call(<<"write", off, input>>, BB!Write(Stream, off, input), <<>>)
    /\ UNCHANGED opened

resize(n) ==
    /\ opened
    /\ Call(<<"resize", n>>, BB!Resize(Stream, n), <<>>)
    /\ UNCHANGED opened

flush ==
    /\ opened
    /\ Call(<<"flush">>, Stream, <<>>)
    /\ UNCHANGED opened

Next ==
    \/ open
    \/ \E off, len \in 0..MaxSize : read(off, len)
    \/ \E off \in 0..MaxSize, input \in Inputs : write(off, input)
    \/ \E n \in 0..MaxSize : resize(n)
    \/ flush

Spec == Init /\ [][Next]_vars

-----------------------------------------------------------------------------
(* Every block decrypts, the ones of holes included, and the size computed
   from the underlying file is the number of bytes its blocks hold.          *)
LiteBlocksAuthentic ==
    \A b \in 0..(MaxSize \div m_block_size) :
        /\ BlockReadable(data, b)
        /\ Len(PlainBlock(data, b)) =
               Larger(0, Smaller(m_block_size, size(Stream) - b * m_block_size))

(* The block that a shrinking resize encrypts again at its new length, before
   the underlying file is cut.                                               *)
CutBlock(call) ==
    IF call[1] = "resize" /\ call[2] < size(Stream) THEN {call[2] \div m_block_size} ELSE {}

(* What the writes of a step put into a block decrypts to bytes from before or
   from after the step.                                                      *)
BlocksContained ==
    \A bytes \in moments' : \A b \in 0..(MaxSize \div m_block_size) :
        b \notin CutBlock(last'.call) =>
            /\ BlockReadable(bytes, b)
            /\ \A i \in DOMAIN PlainBlock(bytes, b) :
                  LET at == b * m_block_size + i
                      Holds(c, x) == IF at <= Len(c) THEN x = c[at] ELSE x = 0
                  IN  \/ Holds(Content(data), PlainBlock(bytes, b)[i])
                      \/ Holds(Content(data'), PlainBlock(bytes, b)[i])

(* Whenever a crash interrupts a call, every block of the underlying file
   decrypts, with bytes from before or from after the call, except the one
   block that a shrinking resize has written over with a shorter one.        *)
CrashContained == [][BlocksContained]_vars

(* The stream is a sequence of bytes, as StreamBase promises; a read that
   reaches beyond the last block may fail even where the file is shorter.    *)
Plain == INSTANCE ByteStream WITH
    content <- Content(data),
    limit   <- (MAX_BLOCKS + 1) * m_block_size,
    LimitBeyondEnd <- TRUE

ImplementsByteStream == Plain!BSpec

=============================================================================
