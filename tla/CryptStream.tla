----------------------------- MODULE CryptStream -----------------------------
(***************************************************************************)
(* The encrypted contents of a file in the full format                     *)
(* (sources/streams.{h,cpp}): BlockBasedStream cuts reads, writes and      *)
(* resizes into blocks, CryptStream encrypts each block as a whole, and    *)
(* AESGCMCryptStream keeps the file's header and one IV and MAC per block  *)
(* in the meta file, over which HMACStream computes a MAC when it is       *)
(* flushed. The process may be killed, also between the two files' resizes *)
(* in a truncation; then the file is opened again.                         *)
(*                                                                         *)
(* Encryption is perfect: an encrypted byte is its plaintext, the MAC of a *)
(* block is the plaintext it was computed over, and decryption succeeds    *)
(* exactly when the block is what the MAC covers, at its full length. A    *)
(* byte that resizing the underlying file made is a Hole, and an IV and    *)
(* MAC that were never written are NoMac; both read as zeros.              *)
(***************************************************************************)
EXTENDS StreamBytes

CONSTANTS
    m_block_size,      \* bytes in a block
    max_block_number,  \* the last block that can be encrypted, 2^30 in the code
    Bytes,             \* byte values, 0 among them
    Hole,              \* a byte of the underlying file that was never written
    Garbage,           \* a byte of an uninitialized buffer
    Headers,           \* headers FileBase writes
    NoHeader,          \* no header was written yet
    MaxSize,           \* bound: file size and offsets callers use
    Inputs             \* bound: buffers callers write

ASSUME StreamAssumption ==
    /\ m_block_size \in Nat \ {0}
    /\ max_block_number \in Nat
    /\ MaxSize \in Nat
    /\ 0 \in Bytes
    /\ Hole \notin Bytes /\ Garbage \notin Bytes /\ Hole # Garbage
    /\ Inputs \subseteq Seq(Bytes)
    /\ NoHeader \notin Headers

VARIABLES
    data,    \* the underlying data file
    meta,    \* the meta file: the header and the MAC of every block
    covered, \* HMACStream's constructor accepts the meta file
    dirty,   \* HMACStream::is_dirty
    opened,  \* whether there is a stream on the two files
    header,  \* the last header that was written
    sparse,  \* whether the platform's files are sparse
    intact,  \* history: blocks before any that a killed truncation cut off
    last     \* the last call and its result

vars == <<data, meta, covered, dirty, opened, header, sparse, intact, last>>

NoMac == <<>>

(* The two underlying files, and whether the call threw an exception. *)
Files == [data |-> data, meta |-> meta, covered |-> covered, dirty |-> dirty,
          sparse |-> sparse, intact |-> intact, failed |-> FALSE]

DataSize(f) == Len(f.data)

(* Mutant: the room for the header is forgotten. *)
MetaPositionWithoutHeader(b) == b

(* The header lies before the IVs and MACs. *)
meta_position_for_iv(b) == 1 + b

-----------------------------------------------------------------------------
StoredBlock(f, b) ==
    SubSeq(f.data, b * m_block_size + 1, Smaller((b + 1) * m_block_size, Len(f.data)))

(* CryptStream::read_block and AESGCMCryptStream::decrypt. *)
CanDecrypt(f, b) ==
    LET raw == StoredBlock(f, b) IN
    raw # <<>> =>
        /\ b <= max_block_number
        /\ meta_position_for_iv(b) < Len(f.meta)
        /\ LET mac == f.meta[meta_position_for_iv(b) + 1] IN
              \/ mac = raw
              \/ mac = NoMac /\ \A i \in DOMAIN raw : raw[i] = Hole

ReadBlock(f, b) == [i \in DOMAIN StoredBlock(f, b) |->
                       IF StoredBlock(f, b)[i] = Hole THEN 0 ELSE StoredBlock(f, b)[i]]

(* Mutant: HMACStream::write does not mark the stream dirty. *)
WriteBlockUnmarked(f, b, bytes) ==
    IF bytes = <<>> THEN f
    ELSE IF b > max_block_number THEN Failed(f)
    ELSE [f EXCEPT !.meta = PutAt(@, meta_position_for_iv(b), <<bytes>>, NoMac),
                   !.covered = FALSE,
                   !.data = PutAt(@, b * m_block_size, bytes, Hole)]

(* CryptStream::write_block and AESGCMCryptStream::encrypt: the MAC is written
   before the data. The IV is fresh, so the HMAC no longer fits.             *)
WriteBlock(f, b, bytes) ==
    IF bytes = <<>> THEN f
    ELSE IF b > max_block_number THEN Failed(f)
    ELSE [f EXCEPT !.meta = PutAt(@, meta_position_for_iv(b), <<bytes>>, NoMac),
                   !.covered = FALSE, !.dirty = TRUE,
                   !.data = PutAt(@, b * m_block_size, bytes, Hole)]

(* Mutant: the number of blocks is rounded down. *)
AdjustRoundsDown(f, n) ==
    LET cells == meta_position_for_iv(n \div m_block_size) IN
    IF f.failed THEN f
    ELSE [f EXCEPT !.data = CutTo(@, n, Hole),
                   !.meta = CutTo(@, cells, NoMac),
                   !.covered = @ /\ Len(f.meta) = cells, !.dirty = TRUE]

(* AESGCMCryptStream::adjust_logical_size *)
AdjustLogicalSize(f, n) ==
    LET cells == meta_position_for_iv((n + m_block_size - 1) \div m_block_size) IN
    IF f.failed THEN f
    ELSE [f EXCEPT !.data = CutTo(@, n, Hole),
                   !.meta = CutTo(@, cells, NoMac),
                   !.covered = @ /\ Len(f.meta) = cells, !.dirty = TRUE]

BB == INSTANCE BlockBasedStream WITH SizeOf <- DataSize, CanRead <- CanDecrypt

(* BlockBasedStream::read fails with the first block that does. *)
BlocksRead(off, len) ==
    {b \in 0..(Len(data) \div m_block_size) :
        len > 0 /\ b * m_block_size < off + len /\ (b + 1) * m_block_size > off}

BytesRead(off, len) ==
    [i \in 1..(Larger(off, Smaller(off + len, Len(data))) - off) |->
        IF data[off + i] = Hole THEN 0 ELSE data[off + i]]

-----------------------------------------------------------------------------
Returned(call, result) == last' = [call |-> call, result |-> result]

Success(bytes) == [ok |-> TRUE, bytes |-> bytes]
Error == [ok |-> FALSE, bytes |-> <<>>]

(* A call that changes the contents. *)
Changes(call, f) ==
    /\ opened
    /\ data' = f.data
    /\ meta' = f.meta
    /\ covered' = f.covered
    /\ dirty' = f.dirty
    /\ Returned(call, IF f.failed THEN Error ELSE Success(<<>>))
    /\ UNCHANGED <<opened, header, sparse, intact>>

Init ==
    /\ data = <<>> /\ meta = <<>>
    /\ covered = TRUE /\ dirty = FALSE
    /\ opened = TRUE
    /\ header = NoHeader
    /\ sparse \in BOOLEAN
    /\ intact = max_block_number + 1
    /\ last = [call |-> <<"flush">>, result |-> Success(<<>>)]

read(off, len) ==
    /\ opened
    /\ Returned(<<"read", off, len>>,
                IF \A b \in BlocksRead(off, len) : CanDecrypt(Files, b)
                THEN Success(BytesRead(off, len)) ELSE Error)
    /\ UNCHANGED <<data, meta, covered, dirty, opened, header, sparse, intact>>

write(off, input) ==
    /\ off + Len(input) <= MaxSize
    /\ Changes(<<"write", off, input>>, BB!Write(Files, off, input))

resize(n) == Changes(<<"resize", n>>, BB!Resize(Files, n))

(* HMACStream::flush, for the stream and for the header. *)
HMACFlush ==
    /\ covered' = (covered \/ dirty)
    /\ dirty' = FALSE

flush ==
    /\ opened
    /\ HMACFlush
    /\ Returned(<<"flush">>, Success(<<>>))
    /\ UNCHANGED <<data, meta, opened, header, sparse, intact>>

(* write_header, as FileBase::flush calls it; the IV is fresh. *)
write_header(h) ==
    /\ opened
    /\ meta' = PutAt(meta, 0, <<h>>, NoMac)
    /\ covered' = FALSE /\ dirty' = TRUE
    /\ header' = h
    /\ UNCHANGED <<data, opened, sparse, intact, last>>

(* What read_header returns: nothing from an empty meta file, and whatever
   zeros decrypt to where only MACs were written; it does not look whether
   the decryption succeeded.                                                 *)
read_header ==
    IF meta = <<>> THEN NoHeader
    ELSE IF meta[1] \in Headers THEN meta[1] ELSE Garbage

(* The stream is destroyed, which flushes the meta file. *)
close ==
    /\ opened
    /\ HMACFlush
    /\ opened' = FALSE
    /\ UNCHANGED <<data, meta, header, sparse, intact, last>>

(* The process is killed: what was written stays, the HMAC is not. In the middle
   of a call that has written a MAC or the header the HMAC no longer fits; such
   a file is never opened again, and what else the call wrote does not matter. *)
kill ==
    /\ opened
    /\ covered' \in {covered, FALSE}
    /\ dirty' = FALSE
    /\ opened' = FALSE
    /\ UNCHANGED <<data, meta, header, sparse, intact, last>>

(* A truncation to whole blocks writes no MAC. The kill comes after it cut the
   data file and before it cuts the meta file: the HMAC still fits, and the
   MACs of the blocks that are gone stay.                                     *)
killInTruncation(n) ==
    /\ opened
    /\ n < Len(data) /\ n % m_block_size = 0
    /\ data' = CutTo(data, n, Hole)
    /\ dirty' = FALSE
    /\ opened' = FALSE
    /\ intact' = Smaller(intact, n \div m_block_size)
    /\ UNCHANGED <<meta, covered, header, sparse, last>>

(* HMACStream's constructor throws unless the HMAC verifies. *)
reopen ==
    /\ ~opened
    /\ opened' = covered
    /\ UNCHANGED <<data, meta, covered, dirty, header, sparse, intact, last>>

Next ==
    \/ \E off, len \in 0..MaxSize : read(off, len)
    \/ \E off \in 0..MaxSize, input \in Inputs : write(off, input)
    \/ \E n \in 0..MaxSize : resize(n) \/ killInTruncation(n)
    \/ \E h \in Headers : write_header(h)
    \/ flush \/ close \/ kill \/ reopen

Spec == Init /\ [][Next]_vars

-----------------------------------------------------------------------------
(* Every block that can be encrypted at all can be decrypted: whatever writes,
   holes and truncations came before, its MAC covers exactly the bytes that
   are stored, and an uninitialized byte of a buffer is never encrypted. A kill
   in a truncation costs no more than the blocks from the cut on: there a MAC
   that was not cut off may come to lie over a hole.                         *)
BlocksAuthentic ==
    \A b \in 0..max_block_number :
        /\ b < intact => CanDecrypt(Files, b)
        /\ \A i \in DOMAIN StoredBlock(Files, b) : StoredBlock(Files, b)[i] # Garbage

(* The meta file has room for the header and exactly the blocks of the data
   file, or is empty like it; there may be room for more only behind blocks
   that a killed truncation left, or that the limit lets through.            *)
MetaFitsData ==
    LET cells == 1 + (Len(data) + m_block_size - 1) \div m_block_size IN
    \/ meta = <<>> /\ data = <<>>
    \/ Len(meta) = cells
    \/ Len(meta) > cells /\ Len(data) >= intact * m_block_size

(* A meta file that is not marked dirty is covered by its HMAC, so that the
   check in HMACStream's constructor passes when the file is opened again;
   only a kill leaves a file that it refuses.                                *)
CleanMetaIsCovered == opened /\ ~dirty => covered

(* The header reads back as it was written last, whatever writes and resizes
   do to the IVs and MACs behind it, and across kills the file survives.     *)
HeaderKept == header # NoHeader => read_header = header

(* The stream is a sequence of bytes, as StreamBase promises: calls succeed
   below the last block, or below where a killed truncation cut the file.    *)
Plain == INSTANCE ByteStream WITH
    content <- [i \in DOMAIN data |-> IF data[i] = Hole THEN 0 ELSE data[i]],
    limit   <- intact * m_block_size,
    LimitBeyondEnd <- FALSE

ImplementsByteStream == Plain!BSpec

=============================================================================
