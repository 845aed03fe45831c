--------------------------- MODULE BlockBasedStream ---------------------------
(***************************************************************************)
(* How BlockBasedStream (sources/streams.cpp) cuts writes and resizes into *)
(* blocks, for both formats. The virtual functions of the class are        *)
(* parameters, as they are in the code: reading and writing a whole block, *)
(* the size, and adjust_logical_size. A stream f is a record with a field  *)
(* failed, set when a call has thrown, and a field sparse.                 *)
(***************************************************************************)
EXTENDS StreamBytes

CONSTANTS
    m_block_size,            \* bytes in a block
    Garbage,                 \* a byte of an uninitialized buffer
    SizeOf(_),               \* size
    CanRead(_, _),           \* whether read_block succeeds
    ReadBlock(_, _),         \* what read_block returns
    WriteBlock(_, _, _),     \* write_block
    AdjustLogicalSize(_, _)  \* adjust_logical_size

(* read_then_write_block: what was not read of the buffer is uninitialized. *)
ReadThenWriteBlock(f, b, input, begin, end) ==
    IF begin = 0 /\ end = m_block_size THEN WriteBlock(f, b, input)
    ELSE IF begin >= end THEN f
    ELSE IF ~CanRead(f, b) THEN Failed(f)
    ELSE LET old    == ReadBlock(f, b)
             buffer == PutAt(CutTo(old, m_block_size, Garbage), begin, input, Garbage)
         IN  WriteBlock(f, b, SubSeq(buffer, 1, Larger(Len(old), end)))

(* The part of a write of input at off that falls into block b. *)
WriteInBlock(f, b, off, input) ==
    LET start == b * m_block_size
        begin == Larger(off, start) - start
        end   == Smaller(m_block_size, off + Len(input) - start)
    IN  ReadThenWriteBlock(f, b, SubSeq(input, start + begin - off + 1, start + end - off),
                           begin, end)

(* unchecked_write and zero_fill: block after block, until one throws. *)
WriteRange(f, off, input) ==
    LET After[k \in 0..(Len(input) + 1)] ==
            IF k = 0 THEN f
            ELSE LET g == After[k - 1]
                     b == off \div m_block_size + k - 1
                 IN  IF g.failed \/ b * m_block_size >= off + Len(input) THEN g
                     ELSE WriteInBlock(g, b, off, input)
    IN  IF input = <<>> THEN f ELSE After[Len(input) + 1]

ZeroFill(f, offset, finish) ==
    IF offset < finish THEN WriteRange(f, offset, Zeros(finish - offset)) ELSE f

(* Mutant: the last block is cut off without being encrypted again. *)
ShrinkInPlace(f, n) == AdjustLogicalSize(f, n)

(* Shrinking: the block that becomes shorter is encrypted again. *)
Shrink(f, n) ==
    LET residue == n % m_block_size
        b       == n \div m_block_size
        buffer  == CutTo(ReadBlock(f, b), m_block_size, 0)
    IN  AdjustLogicalSize(
            IF residue = 0 THEN f
            ELSE IF ~CanRead(f, b) THEN Failed(f)
            ELSE WriteBlock(f, b, SubSeq(buffer, 1, residue)), n)

(* Mutant: where files are sparse, the rest of the last block is not filled. *)
GrowLeavesTail(f, n) ==
    AdjustLogicalSize(IF ~f.sparse \/ SizeOf(f) \div m_block_size = n \div m_block_size
                      THEN ZeroFill(f, SizeOf(f), n) ELSE f, n)

(* Mutant: the new size is set before the last block is filled. *)
GrowAdjustsFirst(f, n) ==
    ZeroFill(AdjustLogicalSize(f, n), SizeOf(f),
             Smaller(n, (SizeOf(f) \div m_block_size + 1) * m_block_size))

(* Growing: zeros are written to the end, or, where files are sparse, to the
   end of the last block; the blocks after it stay holes.                    *)
Grow(f, n) ==
    LET size == SizeOf(f)
        b    == size \div m_block_size
    IN  AdjustLogicalSize(
            IF ~f.sparse \/ b = n \div m_block_size THEN ZeroFill(f, size, n)
            ELSE ZeroFill(f, size, (b + 1) * m_block_size), n)

(* unchecked_resize *)
Resize(f, n) ==
    IF n = SizeOf(f) THEN f
    ELSE IF n < SizeOf(f) THEN Shrink(f, n) ELSE Grow(f, n)

(* BlockBasedStream::write *)
Write(f, off, input) ==
    LET grown == IF off > SizeOf(f) THEN Resize(f, off) ELSE f
    IN  IF grown.failed THEN grown ELSE WriteRange(grown, off, input)

=============================================================================
