-------------------------- MODULE CryptStreamProofs --------------------------
(***************************************************************************)
(* That the encrypted stream of the full format is a sequence of bytes     *)
(* (CryptStream), for every block size, every number of blocks and all     *)
(* buffers. The argument follows the code: what writing one block does to  *)
(* the two files, then read_then_write_block, then the loop over blocks in *)
(* unchecked_write (by the least round after which it would go wrong),     *)
(* then unchecked_resize and write; each keeps a stream Sound and says     *)
(* which bytes it reads as afterwards.                                     *)
(***************************************************************************)
EXTENDS CryptStream, TLAPS, WellFoundedInduction, SequenceTheorems

(* A short name for the block size. *)
bs == m_block_size

(* Where block b begins. *)
At(b) == b * m_block_size

(* What a byte of the data file and a place of the meta file can hold: never Garbage. *)
Cell == Bytes \cup {Hole}
MetaCell == Headers \cup Seq(Bytes)

(* The streams the proofs are about. *)
Stream == [data : Seq(Cell), meta : Seq(MetaCell), covered : BOOLEAN, dirty : BOOLEAN,
           sparse : BOOLEAN, intact : 0..(max_block_number + 1), failed : BOOLEAN]

(* The number of blocks that n bytes take. *)
Blocks(n) == (n + m_block_size - 1) \div m_block_size

(* MetaFitsData of a stream f. *)
Fits(f) == \/ f.meta = <<>> /\ f.data = <<>>
           \/ Len(f.meta) = 1 + Blocks(Len(f.data))
           \/ Len(f.meta) > 1 + Blocks(Len(f.data)) /\ Len(f.data) >= At(f.intact)

(* Every block of f that no killed truncation cut off decrypts. *)
Authentic(f) == \A b \in 0..max_block_number : b < f.intact => CanDecrypt(f, b)

(* What every step of write and resize keeps of the two files. *)
Sound(f) == f \in Stream /\ Fits(f) /\ Authentic(f)

(* What a stored cell reads as. *)
Val(c) == IF c = Hole THEN 0 ELSE c

(* The header stays, and a stream that was written to is dirty. *)
Kept(f, g) ==
    /\ g.sparse = f.sparse /\ g.intact = f.intact
    /\ f.meta # <<>> => g.meta # <<>> /\ g.meta[1] = f.meta[1]
    /\ g.dirty \/ (~f.dirty /\ g.covered = f.covered)

(* The bytes that are stored of block b. *)
BlockLen(f, b) == IF At(b) < Len(f.data) THEN Smaller(bs, Len(f.data) - At(b)) ELSE 0

-----------------------------------------------------------------------------
(* Arithmetic of blocks. *)
LEMMA BlockSize == bs \in Nat /\ bs > 0
BY StreamAssumption DEF bs

(* A block begins at a byte. *)
LEMMA Start ==
    ASSUME NEW b \in Nat
    PROVE  At(b) \in Nat
BY BlockSize DEF At, bs

(* A block begins where the one before it ends. *)
LEMMA NextStart ==
    ASSUME NEW b \in Nat
    PROVE  At(b + 1) = At(b) + bs
BY BlockSize DEF At, bs

(* A later block begins after an earlier one ends. *)
LEMMA StartsApart ==
    ASSUME NEW b \in Nat, NEW c \in Nat, b < c
    PROVE  At(b) + bs <= At(c)
<1>1. PICK d \in Nat : c = b + 1 + d
  <2>1. c - b - 1 \in Nat /\ c = b + 1 + (c - b - 1)
    OBVIOUS
  <2>2. QED BY <2>1
<1>2. At(c) = At(b) + bs + d * bs
  BY <1>1, BlockSize DEF At, bs
<1>3. d * bs \in Nat
  BY <1>1, BlockSize
<1>4. QED BY <1>2, <1>3, Start, BlockSize

(* The block a byte is in. *)
LEMMA BlockOf ==
    ASSUME NEW n \in Nat
    PROVE  /\ n \div bs \in Nat
           /\ At(n \div bs) <= n
           /\ n < At(n \div bs) + bs
           /\ n % bs = n - At(n \div bs)
<1>1. bs \in Nat /\ bs > 0 /\ At(n \div bs) = (n \div bs) * bs
  BY BlockSize DEF At, bs
<1>2. QED BY <1>1

(* A byte is in one block only. *)
LEMMA BlockIsUnique ==
    ASSUME NEW n \in Nat, NEW b \in Nat, At(b) <= n, n < At(b) + bs
    PROVE  n \div bs = b
<1> DEFINE d == n \div bs
<1>1. d \in Nat /\ At(d) <= n /\ n < At(d) + bs
  BY BlockOf
<1> HIDE DEF d
<1>2. At(b) \in Nat /\ At(d) \in Nat
  BY <1>1, Start
<1>3. ~(d < b)
  BY <1>1, <1>2, StartsApart, BlockSize
<1>4. ~(b < d)
  BY <1>1, <1>2, StartsApart, BlockSize
<1>5. QED BY <1>1, <1>3, <1>4 DEF d

(* The number of blocks: how it is rounded, and which blocks it counts. *)
LEMMA BlocksOf ==
    /\ \A n \in Nat : Blocks(n) \in Nat
    /\ Blocks(0) = 0
    /\ \A n, b \in Nat : (At(b) < n /\ n <= At(b) + bs) => Blocks(n) = b + 1
    /\ \A n, b \in Nat : (b < Blocks(n)) <=> (At(b) < n)
    /\ \A b \in Nat : Blocks(At(b)) = b
    /\ \A m, n \in Nat : m <= n => Blocks(m) <= Blocks(n)
<1>0. \A n \in Nat : Blocks(n) = (n + bs - 1) \div bs /\ n + bs - 1 \in Nat
  BY BlockSize DEF Blocks, bs
<1>1. \A n \in Nat : Blocks(n) \in Nat
  BY <1>0, BlockOf
<1>2. ASSUME NEW n \in Nat, NEW b \in Nat, At(b) < n, n <= At(b) + bs
      PROVE  Blocks(n) = b + 1
  <2>1. At(b + 1) = At(b) + bs /\ b + 1 \in Nat /\ At(b) \in Nat
    BY NextStart, Start
  <2>2. At(b + 1) <= n + bs - 1 /\ n + bs - 1 < At(b + 1) + bs
    BY <1>2, <2>1, BlockSize
  <2>3. QED BY <1>0, <2>1, <2>2, BlockIsUnique
<1>3. Blocks(0) = 0
  <2>1. At(0) = 0 BY BlockSize DEF At, bs
  <2>2. At(0) <= bs - 1 /\ bs - 1 < At(0) + bs /\ bs - 1 \in Nat BY <2>1, BlockSize
  <2>3. (bs - 1) \div bs = 0 BY <2>2, BlockIsUnique
  <2>4. 0 + bs - 1 = bs - 1 BY BlockSize
  <2>5. QED BY <1>0, <2>3, <2>4
<1>4. ASSUME NEW n \in Nat, NEW b \in Nat
      PROVE  (b < Blocks(n)) <=> (At(b) < n)
  <2>1. CASE n = 0
    BY <1>3, <2>1, Start
  <2>2. CASE n > 0
    <3> DEFINE c == (n - 1) \div bs
    <3>1. c \in Nat /\ At(c) <= n - 1 /\ n - 1 < At(c) + bs
      BY <2>2, BlockOf
    <3> HIDE DEF c
    <3>2. At(c) \in Nat /\ At(b) \in Nat BY <3>1, Start
    <3>3. At(c) < n /\ n <= At(c) + bs BY <2>2, <3>1, <3>2, BlockSize
    <3>4. Blocks(n) = c + 1 BY <1>2, <3>1, <3>3
    <3>5. b <= c => At(b) <= At(c) BY <3>1, <3>2, StartsApart, BlockSize
    <3>6. b > c => At(c) + bs <= At(b) BY <3>1, StartsApart
    <3>7. QED BY <2>2, <3>1, <3>2, <3>3, <3>4, <3>5, <3>6, BlockSize
  <2>3. QED BY <2>1, <2>2
<1>5. ASSUME NEW b \in Nat PROVE Blocks(At(b)) = b
  <2>1. CASE b = 0
    <3>1. At(0) = 0 BY BlockSize DEF At, bs
    <3>2. QED BY <2>1, <3>1, <1>3
  <2>2. CASE b > 0
    <3>0. b - 1 \in Nat /\ b - 1 + 1 = b BY <2>2
    <3>1. At(b - 1) + bs = At(b) /\ At(b - 1) \in Nat BY <3>0, NextStart, Start
    <3>2. At(b - 1) < At(b) /\ At(b) \in Nat BY <3>0, <3>1, BlockSize
    <3>3. Blocks(At(b)) = b - 1 + 1 BY <1>2, <3>0, <3>1, <3>2, BlockSize
    <3>4. QED BY <3>0, <3>3
  <2>3. QED BY <2>1, <2>2
<1>6. ASSUME NEW m \in Nat, NEW n \in Nat, m <= n PROVE Blocks(m) <= Blocks(n)
  <2>1. SUFFICES ASSUME Blocks(n) < Blocks(m) PROVE FALSE
    BY <1>1
  <2>2. At(Blocks(n)) < m BY <1>1, <1>4, <2>1
  <2>3. At(Blocks(n)) \in Nat BY <1>1, Start
  <2>4. Blocks(n) < Blocks(n) BY <1>1, <1>4, <1>6, <2>2, <2>3
  <2>5. QED BY <1>1, <2>4
<1>7. QED BY <1>1, <1>2, <1>3, <1>4, <1>5, <1>6

(* More bytes take no fewer blocks. *)
LEMMA MoreBlocks ==
    ASSUME NEW m \in Nat, NEW n \in Nat, m <= n
    PROVE  Blocks(m) <= Blocks(n)
BY BlocksOf

-----------------------------------------------------------------------------
(* r is s with t written over it at off. *)
IsPut(r, s, off, t, fill) ==
    /\ Len(r) = Larger(Len(s), off + Len(t))
    /\ \A i \in 1..Larger(Len(s), off + Len(t)) :
          r[i] = IF i > off /\ i <= off + Len(t) THEN t[i - off]
                 ELSE IF i <= Len(s) THEN s[i] ELSE fill

(* r is s cut or extended to n. *)
IsCut(r, s, n, fill) ==
    /\ Len(r) = n
    /\ \A i \in 1..n : r[i] = IF i <= Len(s) THEN s[i] ELSE fill

(* pwrite of the underlying file. *)
LEMMA PutAtFacts ==
    ASSUME NEW S, NEW s \in Seq(S), NEW t \in Seq(S), NEW off \in Nat, NEW fill \in S
    PROVE  /\ PutAt(s, off, t, fill) \in Seq(S)
           /\ IsPut(PutAt(s, off, t, fill), s, off, t, fill)
BY DEF PutAt, Larger, IsPut

(* ftruncate of the underlying file. *)
LEMMA CutToFacts ==
    ASSUME NEW S, NEW s \in Seq(S), NEW n \in Nat, NEW fill \in S
    PROVE  /\ CutTo(s, n, fill) \in Seq(S)
           /\ IsCut(CutTo(s, n, fill), s, n, fill)
BY DEF CutTo, IsCut

(* A stored block is the cells of the data file from its beginning. *)
LEMMA StoredBlockFacts ==
    ASSUME NEW f, f.data \in Seq(Cell), NEW b \in Nat
    PROVE  /\ StoredBlock(f, b) \in Seq(Cell)
           /\ Len(StoredBlock(f, b)) = BlockLen(f, b)
           /\ BlockLen(f, b) \in 0..bs
           /\ \A i \in 1..BlockLen(f, b) : StoredBlock(f, b)[i] = f.data[At(b) + i]
<1> DEFINE m == At(b) + 1
           n == Smaller(At(b + 1), Len(f.data))
<1>1. At(b) \in Nat /\ At(b + 1) = At(b) + bs /\ bs \in Nat /\ bs > 0
  BY Start, NextStart, BlockSize
<1>2. m \in Int /\ n \in Int
  BY <1>1 DEF Smaller
<1>3. \A i \in m..n : f.data[i] \in Cell
  BY <1>1 DEF Smaller
<1>4. StoredBlock(f, b) = SubSeq(f.data, m, n)
  BY DEF StoredBlock, At, bs
<1>5. /\ BlockLen(f, b) = IF m <= n THEN n - m + 1 ELSE 0
      /\ BlockLen(f, b) \in 0..bs
  <2>1. PICK p \in Nat : p = At(b)
    BY <1>1
  <2>2. PICK l \in Nat : l = Len(f.data)
    OBVIOUS
  <2>3. m = p + 1 /\ n = Smaller(p + bs, l)
    BY <1>1, <2>1, <2>2
  <2>4. BlockLen(f, b) = IF p < l THEN Smaller(bs, l - p) ELSE 0
    BY <2>1, <2>2 DEF BlockLen
  <2> HIDE DEF m, n
  <2>5. bs \in Nat /\ bs > 0 BY <1>1
  <2>6. QED BY <2>3, <2>4, <2>5 DEF Smaller
<1> HIDE DEF m, n
<1>7. /\ SubSeq(f.data, m, n) \in Seq(Cell)
      /\ Len(SubSeq(f.data, m, n)) = IF m <= n THEN n - m + 1 ELSE 0
      /\ \A i \in 1..(n - m + 1) : SubSeq(f.data, m, n)[i] = f.data[m + i - 1]
  BY <1>2, <1>3, SubSeqProperties
<1>8. ASSUME NEW i \in 1..BlockLen(f, b) PROVE StoredBlock(f, b)[i] = f.data[At(b) + i]
  <2>1. i \in 1..(n - m + 1) /\ m + i - 1 = At(b) + i
    BY <1>1, <1>2, <1>5 DEF m
  <2>2. QED BY <1>4, <1>7, <2>1
<1>9. QED BY <1>4, <1>5, <1>7, <1>8

(* A block that does not change is the same sequence. *)
LEMMA SameBlock ==
    ASSUME NEW f, f.data \in Seq(Cell), NEW g, g.data \in Seq(Cell), NEW b \in Nat,
           BlockLen(g, b) = BlockLen(f, b),
           \A i \in 1..BlockLen(f, b) : g.data[At(b) + i] = f.data[At(b) + i]
    PROVE  StoredBlock(g, b) = StoredBlock(f, b)
<1> DEFINE s == StoredBlock(f, b)
           t == StoredBlock(g, b)
<1>1. s \in Seq(Cell) /\ Len(s) = BlockLen(f, b)
      /\ \A i \in 1..BlockLen(f, b) : s[i] = f.data[At(b) + i]
  BY StoredBlockFacts
<1>2. t \in Seq(Cell) /\ Len(t) = BlockLen(g, b)
      /\ \A i \in 1..BlockLen(g, b) : t[i] = g.data[At(b) + i]
  BY StoredBlockFacts
<1> HIDE DEF s, t
<1>3. Len(t) = Len(s) /\ \A i \in 1..Len(t) : t[i] = s[i]
  BY <1>1, <1>2
<1>4. t = s BY <1>1, <1>2, <1>3, SeqEqual
<1>5. QED BY <1>4 DEF s, t

(* What decryption asks for, byte by byte. *)
LEMMA Decrypts ==
    ASSUME NEW f \in Stream, NEW b \in Nat
    PROVE  CanDecrypt(f, b) <=>
               (BlockLen(f, b) > 0 =>
                   /\ b <= max_block_number
                   /\ b + 2 <= Len(f.meta)
                   /\ \/ f.meta[b + 2] = StoredBlock(f, b)
                      \/ /\ f.meta[b + 2] = NoMac
                         /\ \A i \in 1..BlockLen(f, b) : f.data[At(b) + i] = Hole)
<1>1. f.data \in Seq(Cell) /\ f.meta \in Seq(MetaCell)
  BY DEF Stream
<1> DEFINE raw == StoredBlock(f, b)
<1>2. /\ raw \in Seq(Cell) /\ Len(raw) = BlockLen(f, b)
      /\ BlockLen(f, b) \in 0..bs
      /\ \A i \in 1..BlockLen(f, b) : raw[i] = f.data[At(b) + i]
  BY <1>1, StoredBlockFacts
<1>3. CanDecrypt(f, b) <=>
         (raw # <<>> => /\ b <= max_block_number
                        /\ 1 + b < Len(f.meta)
                        /\ \/ f.meta[1 + b + 1] = raw
                           \/ f.meta[1 + b + 1] = NoMac /\ \A i \in DOMAIN raw : raw[i] = Hole)
  BY DEF CanDecrypt, meta_position_for_iv
<1> HIDE DEF raw
<1>4. DOMAIN raw = 1..BlockLen(f, b)
  BY <1>2
<1>5. raw # <<>> <=> BlockLen(f, b) > 0
  BY <1>2, <1>4
<1>6. 1 + b + 1 = b + 2 /\ (1 + b < Len(f.meta) <=> b + 2 <= Len(f.meta))
  BY <1>1
<1>7. (\A i \in DOMAIN raw : raw[i] = Hole) <=> (\A i \in 1..BlockLen(f, b) : f.data[At(b) + i] = Hole)
  BY <1>2, <1>4
<1>8. QED BY <1>3, <1>5, <1>6, <1>7 DEF raw

(* A block decrypts as before when neither it nor its MAC changed. *)
LEMMA StillDecrypts ==
    ASSUME NEW f \in Stream, NEW g \in Stream, NEW b \in Nat,
           CanDecrypt(f, b),
           BlockLen(g, b) = BlockLen(f, b),
           BlockLen(f, b) > 0 =>
               /\ \A i \in 1..BlockLen(f, b) : g.data[At(b) + i] = f.data[At(b) + i]
               /\ b + 2 <= Len(f.meta) => b + 2 <= Len(g.meta) /\ g.meta[b + 2] = f.meta[b + 2]
    PROVE  CanDecrypt(g, b)
<1>1. CASE BlockLen(f, b) > 0
  <2>1. StoredBlock(g, b) = StoredBlock(f, b)
    BY <1>1, SameBlock DEF Stream
  <2>2. QED BY <1>1, <2>1, Decrypts
<1>2. CASE ~(BlockLen(f, b) > 0)
  BY <1>2, Decrypts
<1>3. QED BY <1>1, <1>2

(* A block that is written: what it changes. *)
PutsBlock(f, g, b, bytes) ==
    /\ g \in Stream /\ Fits(g) /\ Kept(f, g) /\ g.failed = f.failed
    /\ Len(g.data) = Larger(Len(f.data), At(b) + Len(bytes))
    /\ \A i \in 1..Len(g.data) :
          g.data[i] = IF i > At(b) /\ i <= At(b) + Len(bytes) THEN bytes[i - At(b)] ELSE f.data[i]
    /\ Len(g.meta) = Larger(Len(f.meta), b + 2)
    /\ \A i \in 1..Len(g.meta) :
          g.meta[i] = IF i = b + 2 THEN bytes ELSE IF i <= Len(f.meta) THEN f.meta[i] ELSE NoMac

(* WriteBlock does that. *)
LEMMA BlockPut ==
    ASSUME NEW f \in Stream, Fits(f), NEW b \in 0..max_block_number,
           NEW bytes \in Seq(Bytes), Len(bytes) \in 1..bs, At(b) <= Len(f.data)
    PROVE  PutsBlock(f, WriteBlock(f, b, bytes), b, bytes)
<1>0. b \in Nat /\ ~(b > max_block_number) /\ max_block_number \in Nat
  BY StreamAssumption
<1>1. At(b) \in Nat /\ bs \in Nat /\ bs > 0
  BY <1>0, Start, BlockSize
<1>2. bytes # <<>> /\ Len(bytes) \in Nat /\ Len(bytes) > 0 /\ Len(bytes) <= bs
  BY <1>1
<1> DEFINE d == PutAt(f.data, At(b), bytes, Hole)
           m == PutAt(f.meta, 1 + b, <<bytes>>, NoMac)
           g == WriteBlock(f, b, bytes)
<1>3. f.data \in Seq(Cell) /\ f.meta \in Seq(MetaCell) /\ bytes \in Seq(Cell) /\ Hole \in Cell
  BY DEF Stream, Cell
<1>4. bytes \in MetaCell /\ <<bytes>> \in Seq(MetaCell) /\ NoMac \in MetaCell /\ Len(<<bytes>>) = 1
      /\ <<bytes>>[1] = bytes
  BY DEF MetaCell, NoMac
<1>5. g = [f EXCEPT !.meta = m, !.covered = FALSE, !.dirty = TRUE, !.data = d]
  BY <1>0, <1>2 DEF WriteBlock, meta_position_for_iv, At
<1>60. d \in Seq(Cell) /\ IsPut(d, f.data, At(b), bytes, Hole)
  BY <1>1, <1>3, PutAtFacts, Zenon
<1>70. m \in Seq(MetaCell) /\ IsPut(m, f.meta, 1 + b, <<bytes>>, NoMac)
  <2>1. 1 + b \in Nat BY <1>0
  <2>2. QED BY <1>3, <1>4, <2>1, PutAtFacts, Zenon
<1> HIDE DEF d, m
<1>6. /\ d \in Seq(Cell)
      /\ Len(d) = Larger(Len(f.data), At(b) + Len(bytes))
      /\ \A i \in 1..Larger(Len(f.data), At(b) + Len(bytes)) :
             d[i] = IF i > At(b) /\ i <= At(b) + Len(bytes) THEN bytes[i - At(b)]
                    ELSE IF i <= Len(f.data) THEN f.data[i] ELSE Hole
  BY <1>60 DEF IsPut
<1>7. /\ m \in Seq(MetaCell)
      /\ Len(m) = Larger(Len(f.meta), 1 + b + Len(<<bytes>>))
      /\ \A i \in 1..Larger(Len(f.meta), 1 + b + Len(<<bytes>>)) :
             m[i] = IF i > 1 + b /\ i <= 1 + b + Len(<<bytes>>) THEN <<bytes>>[i - (1 + b)]
                    ELSE IF i <= Len(f.meta) THEN f.meta[i] ELSE NoMac
  BY <1>70 DEF IsPut
<1>8. /\ g \in Stream /\ g.data = d /\ g.meta = m /\ g.failed = f.failed /\ g.sparse = f.sparse
      /\ g.dirty = TRUE /\ g.intact = f.intact
  BY <1>5, <1>6, <1>7 DEF Stream
<1> HIDE DEF g
<1>9. Len(f.data) \in Nat /\ Len(f.meta) \in Nat
  BY <1>3
<1>10. /\ Len(m) = Larger(Len(f.meta), b + 2)
       /\ \A i \in 1..Len(m) : m[i] = IF i = b + 2 THEN bytes ELSE IF i <= Len(f.meta) THEN f.meta[i] ELSE NoMac
  <2>1. 1 + b + Len(<<bytes>>) = b + 2 BY <1>0, <1>4
  <2>2. Len(m) = Larger(Len(f.meta), b + 2) BY <1>7, <2>1
  <2>3. ASSUME NEW i \in 1..Len(m)
        PROVE  m[i] = IF i = b + 2 THEN bytes ELSE IF i <= Len(f.meta) THEN f.meta[i] ELSE NoMac
    <3>1. i \in Nat /\ i \in 1..Larger(Len(f.meta), 1 + b + Len(<<bytes>>)) BY <1>7, <2>2, <1>9, <1>0 DEF Larger
    <3>2. (i > 1 + b /\ i <= 1 + b + Len(<<bytes>>)) <=> i = b + 2 BY <2>1, <3>1, <1>0
    <3>3. i = b + 2 => i - (1 + b) = 1 BY <3>1, <1>0
    <3>4. QED BY <1>4, <1>7, <3>1, <3>2, <3>3
  <2>4. QED BY <2>2, <2>3
<1>11. \A i \in 1..Len(d) : d[i] = IF i > At(b) /\ i <= At(b) + Len(bytes) THEN bytes[i - At(b)] ELSE f.data[i]
  <2> SUFFICES ASSUME NEW i \in 1..Len(d), ~(i > At(b) /\ i <= At(b) + Len(bytes))
               PROVE  d[i] = f.data[i]
    BY <1>6
  <2>1. i <= Len(f.data)
    BY <1>1, <1>2, <1>6, <1>9 DEF Larger
  <2>2. QED BY <1>6, <2>1
<1>12. Kept(f, g)
  <2>1. f.meta # <<>> => m # <<>> /\ m[1] = f.meta[1]
    <3> SUFFICES ASSUME f.meta # <<>> PROVE m # <<>> /\ m[1] = f.meta[1]
      OBVIOUS
    <3>1. Len(f.meta) > 0 BY <1>3
    <3>2. Len(m) > 0 /\ 1 \in 1..Len(m) BY <1>0, <1>9, <1>10, <3>1 DEF Larger
    <3>3. 1 # b + 2 BY <1>0
    <3>4. m # <<>> BY <3>2
    <3>5. QED BY <1>10, <3>1, <3>2, <3>3, <3>4
  <2>2. QED BY <1>8, <2>1 DEF Kept
<1>13. Fits(g)
  <2>0. PICK l \in Nat : l = At(b) + Len(bytes) /\ At(b) < l /\ l <= At(b) + bs
    BY <1>1, <1>2
  <2>1. Blocks(l) = b + 1
    BY <1>0, <2>0, BlocksOf
  <2>2. Blocks(Len(f.data)) \in Nat
    BY <1>9, BlocksOf
  <2>3. CASE f.meta = <<>> /\ f.data = <<>>
    <3>1. Len(f.meta) = 0 /\ Len(f.data) = 0 BY <2>3
    <3>2. Len(m) = b + 2 /\ Len(d) = At(b) + Len(bytes)
      BY <1>0, <1>1, <1>2, <1>6, <1>10, <3>1 DEF Larger
    <3>3. QED BY <1>0, <1>8, <2>0, <2>1, <3>2 DEF Fits
  <2>4. CASE Len(f.meta) = 1 + Blocks(Len(f.data))
    <3>1. CASE Len(f.data) >= At(b) + Len(bytes)
      <4>1. Len(d) = Len(f.data) BY <1>1, <1>2, <1>6, <1>9, <3>1 DEF Larger
      <4>2. b + 1 <= Blocks(Len(f.data)) BY <1>9, <2>0, <2>1, <3>1, MoreBlocks
      <4>3. Len(m) = Len(f.meta) BY <1>0, <1>9, <1>10, <2>2, <2>4, <4>2 DEF Larger
      <4>4. QED BY <1>8, <2>4, <4>1, <4>3 DEF Fits
    <3>2. CASE Len(f.data) < At(b) + Len(bytes)
      <4>1. Len(d) = At(b) + Len(bytes) BY <1>1, <1>2, <1>6, <1>9, <3>2 DEF Larger
      <4>2. Blocks(Len(f.data)) <= b + 1 BY <1>9, <2>0, <2>1, <3>2, MoreBlocks
      <4>3. Len(m) = b + 2 BY <1>0, <1>9, <1>10, <2>2, <2>4, <4>2 DEF Larger
      <4>4. QED BY <1>0, <1>8, <2>0, <2>1, <4>1, <4>3 DEF Fits
    <3>3. QED BY <1>1, <1>2, <1>9, <3>1, <3>2
  <2>5. CASE Len(f.meta) > 1 + Blocks(Len(f.data)) /\ Len(f.data) >= At(f.intact)
    <3>0. At(f.intact) \in Nat /\ Len(m) \in Nat
      <4>1. f.intact \in Nat BY StreamAssumption DEF Stream
      <4>2. Len(m) \in Nat BY <1>7
      <4>3. QED BY <4>1, <4>2, Start
    <3>1. Len(d) >= At(f.intact) /\ Len(d) \in Nat BY <1>1, <1>2, <1>6, <1>9, <2>5, <3>0 DEF Larger
    <3>2. Len(m) >= 1 + Blocks(Len(d))
      <4>1. CASE Len(f.data) >= At(b) + Len(bytes)
        <5>1. Len(d) = Len(f.data) BY <1>1, <1>2, <1>6, <1>9, <4>1 DEF Larger
        <5>2. QED BY <1>0, <1>9, <1>10, <2>2, <2>5, <5>1 DEF Larger
      <4>2. CASE Len(f.data) < At(b) + Len(bytes)
        <5>1. Len(d) = l BY <1>1, <1>2, <1>6, <1>9, <2>0, <4>2 DEF Larger
        <5>2. QED BY <1>0, <1>9, <1>10, <2>1, <5>1 DEF Larger
      <4>3. QED BY <1>1, <1>2, <1>9, <4>1, <4>2
    <3>3. Blocks(Len(d)) \in Nat BY <3>1, BlocksOf
    <3>4. QED BY <1>8, <3>0, <3>1, <3>2, <3>3 DEF Fits
  <2>6. QED BY <2>3, <2>4, <2>5 DEF Fits
<1>14. QED BY <1>6, <1>8, <1>10, <1>11, <1>12, <1>13 DEF PutsBlock, g

(* The other blocks decrypt as before. *)
LEMMA OthersDecrypt ==
    ASSUME NEW f \in Stream, NEW g, NEW b \in Nat, NEW bytes \in Seq(Bytes),
           Len(bytes) \in 1..bs, At(b) <= Len(f.data), PutsBlock(f, g, b, bytes),
           NEW c \in Nat, c # b, CanDecrypt(f, c)
    PROVE  CanDecrypt(g, c)
<1>1. /\ At(b) \in Nat /\ At(c) \in Nat /\ bs \in Nat /\ bs > 0
      /\ c < b => At(c) + bs <= At(b)
      /\ b < c => At(b) + bs <= At(c)
  BY Start, StartsApart, BlockSize
<1>2. Len(f.data) \in Nat /\ Len(f.meta) \in Nat /\ Len(bytes) \in Nat /\ Len(bytes) <= bs
  BY <1>1 DEF Stream
<1>3. g \in Stream /\ Len(g.data) = Larger(Len(f.data), At(b) + Len(bytes))
      /\ Len(g.meta) = Larger(Len(f.meta), b + 2)
  BY DEF PutsBlock
<1>4. BlockLen(g, c) = BlockLen(f, c)
  <2> DEFINE p == At(b)
             q == At(c)
             l == Len(f.data)
             k == Len(bytes)
             m == Len(g.data)
  <2>1. /\ p \in Nat /\ q \in Nat /\ l \in Nat /\ k \in Nat /\ k <= bs /\ bs \in Nat /\ bs > 0
        /\ p <= l /\ m = Larger(l, p + k)
        /\ q + bs <= p \/ p + bs <= q
    BY <1>1, <1>2, <1>3
  <2>2. /\ BlockLen(g, c) = IF q < m THEN Smaller(bs, m - q) ELSE 0
        /\ BlockLen(f, c) = IF q < l THEN Smaller(bs, l - q) ELSE 0
    BY DEF BlockLen
  <2> HIDE DEF p, q, l, k, m
  <2>3. QED BY <2>1, <2>2 DEF Smaller, Larger
<1>5. ASSUME NEW i \in 1..BlockLen(f, c) PROVE g.data[At(c) + i] = f.data[At(c) + i]
  <2>1. PICK p \in Nat, q \in Nat, l \in Nat, k \in Nat :
            p = At(b) /\ q = At(c) /\ l = Len(f.data) /\ k = Len(bytes)
    BY <1>1, <1>2
  <2>2. k <= bs /\ (q + bs <= p \/ p + bs <= q) /\ bs \in Nat
    BY <1>1, <1>2, <2>1
  <2>3. i \in 1..(IF q < l THEN Smaller(bs, l - q) ELSE 0)
    BY <2>1 DEF BlockLen
  <2>4. i \in Nat /\ i > 0 /\ i <= bs /\ q + i <= l
    BY <2>1, <2>2, <2>3 DEF Smaller
  <2>5. Len(g.data) = Larger(l, p + k)
    BY <1>3, <2>1
  <2>6. q + i \in 1..Len(g.data) /\ ~(q + i > p /\ q + i <= p + k)
    <3>1. p \in Nat /\ q \in Nat /\ l \in Nat /\ k \in Nat
      BY <2>1
    <3>2. q + i \in 1..Larger(l, p + k) /\ ~(q + i > p /\ q + i <= p + k)
      BY <2>2, <2>4, <3>1 DEF Larger
    <3>3. QED BY <2>5, <3>2
  <2>7. g.data[q + i] = f.data[q + i]
    BY <2>1, <2>6 DEF PutsBlock
  <2>8. QED BY <2>1, <2>7
<1>6. c + 2 <= Len(f.meta) => c + 2 <= Len(g.meta) /\ g.meta[c + 2] = f.meta[c + 2]
  <2> SUFFICES ASSUME c + 2 <= Len(f.meta)
               PROVE  c + 2 <= Len(g.meta) /\ g.meta[c + 2] = f.meta[c + 2]
    OBVIOUS
  <2>1. c + 2 \in 1..Len(g.meta) /\ c + 2 # b + 2 /\ c + 2 <= Len(g.meta)
    BY <1>2, <1>3 DEF Larger
  <2>2. QED BY <2>1 DEF PutsBlock
<1>7. QED BY <1>3, <1>4, <1>5, <1>6, StillDecrypts

(* A block that is written in its full length decrypts. *)
LEMMA ThisDecrypts ==
    ASSUME NEW f \in Stream, NEW g, NEW b \in 0..max_block_number, NEW bytes \in Seq(Bytes),
           Len(bytes) \in 1..bs, At(b) <= Len(f.data), PutsBlock(f, g, b, bytes),
           BlockLen(g, b) = Len(bytes)
    PROVE  CanDecrypt(g, b)
<1>1. b \in Nat /\ b <= max_block_number /\ At(b) \in Nat /\ bs \in Nat
  BY Start, BlockSize, StreamAssumption
<1>2. Len(f.data) \in Nat /\ Len(f.meta) \in Nat /\ Len(bytes) \in Nat
  BY DEF Stream
<1>3. g \in Stream /\ Len(g.data) = Larger(Len(f.data), At(b) + Len(bytes))
      /\ Len(g.meta) = Larger(Len(f.meta), b + 2)
  BY DEF PutsBlock
<1> DEFINE raw == StoredBlock(g, b)
<1>4. raw \in Seq(Cell) /\ Len(raw) = BlockLen(g, b)
      /\ \A i \in 1..BlockLen(g, b) : raw[i] = g.data[At(b) + i]
  BY <1>1, <1>3, StoredBlockFacts DEF Stream
<1> HIDE DEF raw
<1>5. ASSUME NEW i \in 1..Len(raw) PROVE raw[i] = bytes[i]
  <2>1. i \in Nat /\ i > 0 /\ i <= Len(bytes)
    BY <1>2, <1>4
  <2>2. PICK j \in Nat : j = At(b) + i
    BY <1>1, <2>1
  <2>3. j \in 1..Len(g.data) /\ j > At(b) /\ j <= At(b) + Len(bytes) /\ j - At(b) = i
    <3>1. PICK p \in Nat, l \in Nat, k \in Nat : p = At(b) /\ l = Len(f.data) /\ k = Len(bytes)
      BY <1>1, <1>2
    <3>2. j = p + i /\ i <= k /\ Len(g.data) = Larger(l, p + k)
      BY <1>3, <2>1, <2>2, <3>1
    <3>3. p \in Nat /\ l \in Nat /\ k \in Nat
      BY <3>1
    <3>4. j \in 1..Larger(l, p + k) /\ j > p /\ j <= p + k /\ j - p = i
      BY <2>1, <3>2, <3>3 DEF Larger
    <3>5. QED BY <3>1, <3>2, <3>4
  <2>4. g.data[j] = bytes[j - At(b)]
    BY <2>3 DEF PutsBlock
  <2>5. raw[i] = g.data[j]
    BY <1>4, <2>2
  <2>6. QED BY <2>3, <2>4, <2>5
<1>6. bytes \in Seq(Cell)
  BY DEF Cell
<1>7. raw = bytes
  BY <1>4, <1>5, <1>6, SeqEqual
<1>8. b + 2 \in 1..Len(g.meta) /\ b + 2 <= Len(g.meta)
  BY <1>1, <1>2, <1>3 DEF Larger
<1>9. g.meta[b + 2] = bytes
  BY <1>8 DEF PutsBlock
<1>10. QED BY <1>1, <1>3, <1>7, <1>8, <1>9, Decrypts DEF raw

(* Writing a block at least as long as it was keeps every block decryptable. *)
LEMMA BlockWritten ==
    ASSUME NEW f, Sound(f), NEW b \in 0..max_block_number,
           NEW bytes \in Seq(Bytes), Len(bytes) \in 1..bs, At(b) <= Len(f.data),
           BlockLen(f, b) <= Len(bytes)
    PROVE  /\ PutsBlock(f, WriteBlock(f, b, bytes), b, bytes)
           /\ Sound(WriteBlock(f, b, bytes))
<1> DEFINE g == WriteBlock(f, b, bytes)
<1>1. f \in Stream /\ Fits(f) /\ Authentic(f) /\ b \in Nat
  BY StreamAssumption DEF Sound
<1>2. PutsBlock(f, g, b, bytes)
  BY <1>1, BlockPut
<1> HIDE DEF g
<1>3. BlockLen(g, b) = Len(bytes)
  <2>1. At(b) \in Nat /\ bs \in Nat /\ bs > 0
    BY <1>1, Start, BlockSize
  <2>2. Len(f.data) \in Nat /\ Len(bytes) \in Nat /\ Len(bytes) > 0 /\ Len(bytes) <= bs
    BY <1>1, <2>1 DEF Stream
  <2>3. PICK p \in Nat, l \in Nat, k \in Nat : p = At(b) /\ l = Len(f.data) /\ k = Len(bytes)
    BY <2>1, <2>2
  <2>4. Len(g.data) = Larger(l, p + k)
    BY <1>2, <2>3 DEF PutsBlock
  <2>5. (IF p < l THEN Smaller(bs, l - p) ELSE 0) <= k
    BY <2>3 DEF BlockLen
  <2>6. BlockLen(g, b) = IF p < Larger(l, p + k) THEN Smaller(bs, Larger(l, p + k) - p) ELSE 0
    BY <2>3, <2>4 DEF BlockLen
  <2>7. p <= l /\ k > 0 /\ k <= bs
    BY <2>2, <2>3
  <2>8. p \in Nat /\ l \in Nat /\ k \in Nat
    BY <2>3
  <2>9. (IF p < Larger(l, p + k) THEN Smaller(bs, Larger(l, p + k) - p) ELSE 0) = k
    BY <2>1, <2>5, <2>7, <2>8 DEF Smaller, Larger
  <2>10. QED BY <2>3, <2>6, <2>9
<1>4. CanDecrypt(g, b)
  BY <1>1, <1>2, <1>3, ThisDecrypts
<1>5. ASSUME NEW c \in 0..max_block_number, c < f.intact PROVE CanDecrypt(g, c)
  <2>1. c \in Nat /\ CanDecrypt(f, c)
    BY <1>1, <1>5, StreamAssumption DEF Authentic
  <2>2. QED BY <1>1, <1>2, <1>4, <2>1, OthersDecrypt
<1>6. g.intact = f.intact BY <1>2 DEF PutsBlock, Kept
<1>7. QED BY <1>2, <1>5, <1>6 DEF Sound, Authentic, PutsBlock, g

-----------------------------------------------------------------------------
(* Values of cells, and calls that throw. *)
LEMMA ValIsByte ==
    ASSUME NEW c \in Cell
    PROVE  Val(c) \in Bytes
BY StreamAssumption DEF Cell, Val

(* A byte reads as itself. *)
LEMMA ByteIsVal ==
    ASSUME NEW c \in Bytes
    PROVE  Val(c) = c
BY StreamAssumption DEF Val

(* What CanDecrypt looks at. *)
LEMMA SameDecrypts ==
    ASSUME NEW f, NEW g, g.data = f.data, g.meta = f.meta, NEW b
    PROVE  CanDecrypt(g, b) <=> CanDecrypt(f, b)
BY DEF CanDecrypt, StoredBlock

(* A call that throws leaves the files as they are. *)
LEMMA FailedFacts ==
    ASSUME NEW f, Sound(f)
    PROVE  /\ Sound(Failed(f)) /\ Kept(f, Failed(f))
           /\ Failed(f).failed /\ Failed(f).data = f.data
<1> DEFINE g == Failed(f)
<1>1. f \in Stream
  BY DEF Sound
<1>2. /\ g \in Stream /\ g.data = f.data /\ g.meta = f.meta /\ g.failed = TRUE
      /\ g.sparse = f.sparse /\ g.covered = f.covered /\ g.dirty = f.dirty /\ g.dirty \in BOOLEAN
      /\ g.intact = f.intact
  BY <1>1 DEF Failed, Stream
<1> HIDE DEF g
<1>3. Fits(g)
  BY <1>2 DEF Sound, Fits
<1>4. Authentic(g)
  BY <1>2, SameDecrypts DEF Sound, Authentic
<1>5. Kept(f, g)
  BY <1>2 DEF Kept
<1>6. QED BY <1>2, <1>3, <1>4, <1>5 DEF Sound, g

(* Which blocks can be lost, and where the first of them begins. *)
LEMMA IntactFacts ==
    ASSUME NEW f \in Stream
    PROVE  /\ f.intact \in Nat /\ f.intact <= max_block_number + 1 /\ At(f.intact) \in Nat
           /\ \A b \in Nat : f.intact <= b => At(f.intact) <= At(b)
<1>1. f.intact \in Nat /\ f.intact <= max_block_number + 1 BY StreamAssumption DEF Stream
<1>2. At(f.intact) \in Nat BY <1>1, Start
<1>3. ASSUME NEW b \in Nat, f.intact <= b PROVE At(f.intact) <= At(b)
  <2>1. CASE f.intact = b BY <1>2, <2>1
  <2>2. CASE f.intact < b
    <3>1. At(f.intact) + bs <= At(b) /\ At(b) \in Nat BY <1>1, <2>2, StartsApart, Start
    <3>2. QED BY <1>2, <3>1, BlockSize
  <2>3. QED BY <1>1, <1>3, <2>1, <2>2
<1>4. QED BY <1>1, <1>2, <1>3

(* Kept holds of nothing done, *)
LEMMA KeptSelf ==
    ASSUME NEW f \in Stream
    PROVE  Kept(f, f)
<1>1. f.dirty \in BOOLEAN BY DEF Stream
<1>2. QED BY <1>1 DEF Kept

(* and of one thing done after another. *)
LEMMA KeptOn ==
    ASSUME NEW f \in Stream, NEW g \in Stream, NEW h \in Stream, Kept(f, g), Kept(g, h)
    PROVE  Kept(f, h)
<1>1. f.dirty \in BOOLEAN /\ g.dirty \in BOOLEAN /\ h.dirty \in BOOLEAN BY DEF Stream
<1>2. h.sparse = f.sparse /\ h.intact = f.intact BY DEF Kept
<1>3. f.meta # <<>> => h.meta # <<>> /\ h.meta[1] = f.meta[1] BY DEF Kept
<1>4. h.dirty \/ (~f.dirty /\ h.covered = f.covered) BY <1>1 DEF Kept
<1>5. QED BY <1>2, <1>3, <1>4 DEF Kept

-----------------------------------------------------------------------------
(* g is f with the bytes lo + 1 to hi of a write of input at off. *)
Wrote(f, g, off, input, lo, hi) ==
    /\ Len(g.data) = Larger(Len(f.data), hi)
    /\ \A i \in 1..Len(g.data) :
          Val(g.data[i]) = IF i > lo /\ i <= hi THEN input[i - off] ELSE Val(f.data[i])

(* Nothing was written yet, *)
LEMMA WroteNothing ==
    ASSUME NEW f \in Stream, NEW off \in Nat, off <= Len(f.data), NEW input
    PROVE  Wrote(f, f, off, input, off, off)
<1>1. Len(f.data) \in Nat BY DEF Stream
<1>2. Larger(Len(f.data), off) = Len(f.data) BY <1>1 DEF Larger
<1>3. \A i \in 1..Len(f.data) : ~(i > off /\ i <= off) BY <1>1
<1>4. QED BY <1>2, <1>3 DEF Wrote

(* and two parts, one after the other, make a longer one. *)
LEMMA WroteOn ==
    ASSUME NEW f \in Stream, NEW g \in Stream, NEW h \in Stream, NEW off \in Nat, NEW input,
           NEW lo \in Nat, NEW mid \in Nat, NEW hi \in Nat,
           lo <= mid, mid <= hi, lo <= Len(f.data),
           Wrote(f, g, off, input, lo, mid), Wrote(g, h, off, input, mid, hi)
    PROVE  Wrote(f, h, off, input, lo, hi)
<1>1. Len(f.data) \in Nat /\ Len(g.data) \in Nat /\ Len(h.data) \in Nat
  BY DEF Stream
<1>2. PICK l \in Nat, m \in Nat, n \in Nat : l = Len(f.data) /\ m = Len(g.data) /\ n = Len(h.data)
  BY <1>1
<1>3. m = Larger(l, mid) /\ n = Larger(m, hi)
  BY <1>2 DEF Wrote
<1>4. l \in Nat /\ m \in Nat /\ n \in Nat
  BY <1>2
<1>5. n = Larger(l, hi)
  BY <1>3, <1>4 DEF Larger
<1>6. ASSUME NEW i \in 1..n
      PROVE  Val(h.data[i]) = IF i > lo /\ i <= hi THEN input[i - off] ELSE Val(f.data[i])
  <2>0. i \in Nat BY <1>4
  <2>1. Val(h.data[i]) = IF i > mid /\ i <= hi THEN input[i - off] ELSE Val(g.data[i])
    BY <1>2, <1>6 DEF Wrote
  <2>2. CASE i > mid /\ i <= hi
    <3>1. i > lo BY <2>0, <2>2
    <3>2. QED BY <2>1, <2>2, <3>1
  <2>3. CASE ~(i > mid /\ i <= hi)
    <3>1. i \in 1..m /\ ((i > lo /\ i <= mid) <=> (i > lo /\ i <= hi))
      BY <1>3, <1>4, <1>6, <2>0, <2>3 DEF Larger
    <3>2. Val(g.data[i]) = IF i > lo /\ i <= mid THEN input[i - off] ELSE Val(f.data[i])
      BY <1>2, <3>1 DEF Wrote
    <3>3. QED BY <2>1, <2>3, <3>1, <3>2
  <2>4. QED BY <2>2, <2>3
<1>7. QED BY <1>2, <1>5, <1>6 DEF Wrote

-----------------------------------------------------------------------------
(* read_block: the block as it was written, holes as zeros. *)
LEMMA ReadBlockFacts ==
    ASSUME NEW f \in Stream, NEW b \in Nat
    PROVE  /\ ReadBlock(f, b) \in Seq(Bytes)
           /\ Len(ReadBlock(f, b)) = BlockLen(f, b)
           /\ BlockLen(f, b) \in 0..bs
           /\ \A i \in 1..BlockLen(f, b) : ReadBlock(f, b)[i] = Val(f.data[At(b) + i])
<1> DEFINE s == StoredBlock(f, b)
<1>1. s \in Seq(Cell) /\ Len(s) = BlockLen(f, b) /\ BlockLen(f, b) \in 0..bs
      /\ \A i \in 1..BlockLen(f, b) : s[i] = f.data[At(b) + i]
  BY StoredBlockFacts DEF Stream
<1>2. ReadBlock(f, b) = [i \in DOMAIN s |-> Val(s[i])]
  BY DEF ReadBlock, Val
<1> HIDE DEF s
<1>3. BlockLen(f, b) \in Nat BY <1>1, BlockSize
<1>4. DOMAIN s = 1..BlockLen(f, b) BY <1>1
<1>5. \A i \in 1..BlockLen(f, b) : s[i] \in Cell BY <1>1, <1>4
<1>6. \A i \in 1..BlockLen(f, b) : Val(s[i]) \in Bytes BY <1>5, ValIsByte
<1>7. ReadBlock(f, b) \in [1..BlockLen(f, b) -> Bytes] BY <1>2, <1>4, <1>6
<1>8. ReadBlock(f, b) \in Seq(Bytes) /\ Len(ReadBlock(f, b)) = BlockLen(f, b) BY <1>3, <1>7
<1>9. QED BY <1>1, <1>2, <1>4, <1>8

(* The block that read_then_write_block puts together. *)
Merged(f, b, input, begin, end) ==
    SubSeq(PutAt(CutTo(ReadBlock(f, b), m_block_size, Garbage), begin, input, Garbage),
           1, Larger(Len(ReadBlock(f, b)), end))

(* It is the old block with input over it, as long as the longer of the two. *)
IsMerged(bytes, f, b, input, begin, end) ==
    /\ bytes \in Seq(Bytes)
    /\ Len(bytes) = Larger(BlockLen(f, b), end)
    /\ Len(bytes) \in 1..bs
    /\ \A i \in 1..Len(bytes) :
          bytes[i] = IF i > begin /\ i <= end THEN input[i - begin] ELSE Val(f.data[At(b) + i])

(* No byte of the uninitialized buffer is in it. *)
LEMMA MergedFacts ==
    ASSUME NEW f \in Stream, NEW b \in Nat, NEW begin \in Nat, NEW end \in Nat,
           begin < end, end <= bs, begin <= BlockLen(f, b),
           NEW input \in Seq(Bytes), Len(input) = end - begin
    PROVE  IsMerged(Merged(f, b, input, begin, end), f, b, input, begin, end)
<1> DEFINE old == ReadBlock(f, b)
           B   == Bytes \cup {Garbage}
           c   == CutTo(old, m_block_size, Garbage)
           p   == PutAt(c, begin, input, Garbage)
<1>1. old \in Seq(Bytes) /\ Len(old) = BlockLen(f, b) /\ BlockLen(f, b) \in 0..bs
      /\ \A i \in 1..BlockLen(f, b) : old[i] = Val(f.data[At(b) + i])
  BY ReadBlockFacts
<1>2. Merged(f, b, input, begin, end) = SubSeq(p, 1, Larger(Len(old), end))
  BY DEF Merged
<1> HIDE DEF old
<1>3. old \in Seq(B) /\ input \in Seq(B) /\ Garbage \in B /\ m_block_size \in Nat /\ m_block_size = bs
      /\ bs \in Nat
  BY <1>1, BlockSize DEF bs
<1> HIDE DEF B
<1>4. c \in Seq(B) /\ IsCut(c, old, m_block_size, Garbage)
  BY <1>3, CutToFacts, Zenon
<1> HIDE DEF c
<1>5. p \in Seq(B) /\ IsPut(p, c, begin, input, Garbage)
  BY <1>3, <1>4, PutAtFacts, Zenon
<1> HIDE DEF p
<1>6. PICK k \in Nat, e \in Nat, z \in Nat, s \in Nat :
         k = BlockLen(f, b) /\ e = end /\ z = begin /\ s = bs
  <2>1. BlockLen(f, b) \in Nat BY <1>1, <1>3
  <2>2. QED BY <1>3, <2>1
<1>7. k \in Nat /\ e \in Nat /\ z \in Nat /\ s \in Nat /\ z < e /\ e <= s /\ z <= k /\ k <= s
  BY <1>1, <1>3, <1>6
<1>8. Len(c) = s /\ \A i \in 1..s : c[i] = IF i <= k THEN old[i] ELSE Garbage
  BY <1>1, <1>3, <1>4, <1>6 DEF IsCut
<1>9. z + Len(input) = e /\ Larger(s, e) = s
  <2>1. Len(input) = e - z BY <1>6
  <2>2. QED BY <2>1, <1>7 DEF Larger
<1>10. Len(p) = s /\ \A i \in 1..s : p[i] = IF i > z /\ i <= e THEN input[i - z]
                                           ELSE IF i <= s THEN c[i] ELSE Garbage
  BY <1>5, <1>6, <1>8, <1>9 DEF IsPut
<1> DEFINE n == Larger(k, e)
<1>11. n \in Nat /\ n \in 1..s /\ n <= s /\ n >= e /\ n >= k
  BY <1>7 DEF Larger
<1>12. ASSUME NEW i \in 1..n
       PROVE  /\ p[i] = IF i > z /\ i <= e THEN input[i - z] ELSE Val(f.data[At(b) + i])
              /\ p[i] \in Bytes
  <2>1. i \in Nat /\ i \in 1..s /\ i >= 1 BY <1>7, <1>11
  <2>2. CASE i > z /\ i <= e
    <3>1. i - z \in 1..Len(input)
      <4>1. Len(input) = e - z BY <1>6
      <4>2. QED BY <1>7, <2>1, <2>2, <4>1
    <3>2. QED BY <1>10, <2>1, <2>2, <3>1
  <2>3. CASE ~(i > z /\ i <= e)
    <3>1. i <= k /\ i \in 1..k
      BY <1>7, <1>12, <2>1, <2>3 DEF Larger
    <3>2. p[i] = old[i]
      BY <1>8, <1>10, <2>1, <2>3, <3>1
    <3>3. old[i] = Val(f.data[At(b) + i]) /\ old[i] \in Bytes
      BY <1>1, <1>6, <3>1
    <3>4. QED BY <2>3, <3>2, <3>3
  <2>4. QED BY <2>2, <2>3
<1> HIDE DEF n
<1> DEFINE t == SubSeq(p, 1, n)
<1>13. /\ t \in Seq(Bytes)
       /\ Len(t) = IF 1 <= n THEN n - 1 + 1 ELSE 0
       /\ \A i \in 1..(n - 1 + 1) : t[i] = p[1 + i - 1]
  <2>1. 1 \in Int /\ n \in Int /\ \A i \in 1..n : p[i] \in Bytes
    BY <1>11, <1>12
  <2>2. QED BY <2>1, SubSeqProperties
<1> HIDE DEF t
<1>14. Len(t) = n /\ \A i \in 1..n : t[i] = p[i]
  <2>1. n - 1 + 1 = n /\ 1 <= n BY <1>11
  <2>2. \A i \in 1..n : 1 + i - 1 = i BY <1>11
  <2>3. QED BY <1>13, <2>1, <2>2
<1>15. Merged(f, b, input, begin, end) = t
  BY <1>1, <1>2, <1>6 DEF n, t
<1>16. Len(t) \in 1..bs /\ Len(t) = Larger(BlockLen(f, b), end)
  BY <1>6, <1>11, <1>14 DEF n
<1>17. \A i \in 1..Len(t) : t[i] = IF i > begin /\ i <= end THEN input[i - begin] ELSE Val(f.data[At(b) + i])
  BY <1>6, <1>12, <1>14
<1>18. QED BY <1>13, <1>15, <1>16, <1>17 DEF IsMerged

-----------------------------------------------------------------------------
(* The part lo + 1 to hi of a write was done. *)
InBlock(f, g, off, input, lo, hi) ==
    /\ Sound(g) /\ Kept(f, g) /\ ~g.failed
    /\ Wrote(f, g, off, input, lo, hi)

(* bytes is block b of f with the part lo + 1 to hi of a write over it. *)
BlockOver(f, b, bytes, off, input, lo, hi) ==
    /\ bytes \in Seq(Bytes)
    /\ Len(bytes) = Larger(BlockLen(f, b), hi - At(b))
    /\ Len(bytes) \in 1..bs
    /\ \A i \in 1..Len(bytes) :
          bytes[i] = IF i > lo - At(b) /\ i <= hi - At(b) THEN input[At(b) + i - off]
                     ELSE Val(f.data[At(b) + i])

(* Writing such a block does that part of the write. *)
LEMMA BlockOverWrote ==
    ASSUME NEW f, Sound(f), ~f.failed, NEW b \in 0..max_block_number, NEW bytes,
           NEW off \in Nat, NEW input, NEW lo \in Nat, NEW hi \in Nat,
           At(b) <= lo, lo < hi, hi <= At(b) + bs, lo <= Len(f.data),
           BlockOver(f, b, bytes, off, input, lo, hi)
    PROVE  InBlock(f, WriteBlock(f, b, bytes), off, input, lo, hi)
<1> DEFINE g == WriteBlock(f, b, bytes)
<1>1. f \in Stream /\ b \in Nat /\ At(b) \in Nat /\ bs \in Nat /\ bs > 0
  BY Start, BlockSize, StreamAssumption DEF Sound
<1>2. Len(f.data) \in Nat /\ bytes \in Seq(Bytes) /\ Len(bytes) \in 1..bs /\ Len(bytes) \in Nat
  BY <1>1 DEF Stream, BlockOver
<1>3. PICK p \in Nat, l \in Nat, k \in Nat, s \in Nat :
          p = At(b) /\ l = Len(f.data) /\ k = Len(bytes) /\ s = bs
  BY <1>1, <1>2
<1>4. /\ p \in Nat /\ l \in Nat /\ k \in Nat /\ s \in Nat /\ s > 0 /\ k > 0 /\ k <= s
      /\ p <= lo /\ lo < hi /\ hi <= p + s /\ lo <= l
  BY <1>1, <1>2, <1>3
<1>5. BlockLen(f, b) = IF p < l THEN Smaller(s, l - p) ELSE 0
  BY <1>3 DEF BlockLen
<1>6. k = Larger(BlockLen(f, b), hi - p)
  BY <1>3 DEF BlockOver
<1> DEFINE x == BlockLen(f, b)
<1>7. x \in Nat /\ x <= k /\ p + x <= l /\ hi <= p + k /\ (k = x \/ k = hi - p)
  <2> HIDE DEF x
  <2>1. x = IF p < l THEN Smaller(s, l - p) ELSE 0 BY <1>5 DEF x
  <2>2. k = Larger(x, hi - p) BY <1>6 DEF x
  <2>3. x \in Nat /\ p + x <= l BY <2>1, <1>4 DEF Smaller
  <2>4. QED BY <2>2, <2>3, <1>4 DEF Larger
<1>8. At(b) <= Len(f.data) /\ BlockLen(f, b) <= Len(bytes)
  <2>1. p <= l BY <1>4
  <2>2. At(b) <= Len(f.data) BY <1>3, <2>1
  <2>3. BlockLen(f, b) <= Len(bytes) BY <1>3, <1>7 DEF x
  <2>4. QED BY <2>2, <2>3
<1>9. PutsBlock(f, g, b, bytes) /\ Sound(g)
  BY <1>2, <1>8, BlockWritten
<1> HIDE DEF g, x
<1>10. Kept(f, g) /\ ~g.failed /\ Len(g.data) = Larger(l, p + k)
  BY <1>3, <1>9 DEF PutsBlock
<1>11. Len(g.data) = Larger(l, hi)
  <2>1. Larger(l, p + k) = Larger(l, hi) BY <1>4, <1>7 DEF Larger
  <2>2. QED BY <1>10, <2>1
<1>12. ASSUME NEW i \in 1..Len(g.data)
       PROVE  Val(g.data[i]) = IF i > lo /\ i <= hi THEN input[i - off] ELSE Val(f.data[i])
  <2>1. i \in Nat BY <1>4, <1>10 DEF Larger
  <2>2. g.data[i] = IF i > p /\ i <= p + k THEN bytes[i - p] ELSE f.data[i]
    BY <1>3, <1>9 DEF PutsBlock
  <2>3. CASE i > p /\ i <= p + k
    <3>1. PICK j \in 1..k : j = i - p
      BY <1>4, <2>1, <2>3
    <3>2. j \in Nat /\ p + j = i /\ ((j > lo - p /\ j <= hi - p) <=> (i > lo /\ i <= hi))
      BY <1>4, <2>1, <3>1
    <3>3. bytes[j] = IF j > lo - p /\ j <= hi - p THEN input[p + j - off] ELSE Val(f.data[p + j])
      BY <1>3, <3>1 DEF BlockOver
    <3>4. bytes[j] \in Bytes
      BY <1>2, <1>3, <3>1
    <3>5. Val(bytes[j]) = bytes[j]
      BY <3>4, ByteIsVal
    <3>6. g.data[i] = bytes[j]
      BY <2>2, <2>3, <3>1
    <3>7. CASE i > lo /\ i <= hi
      BY <3>2, <3>3, <3>5, <3>6, <3>7
    <3>8. CASE ~(i > lo /\ i <= hi)
      BY <3>2, <3>3, <3>5, <3>6, <3>8
    <3>9. QED BY <3>7, <3>8
  <2>4. CASE ~(i > p /\ i <= p + k)
    <3>1. ~(i > lo /\ i <= hi) BY <1>4, <1>7, <2>1, <2>4
    <3>2. QED BY <2>2, <2>4, <3>1
  <2>5. QED BY <2>3, <2>4
<1>13. Wrote(f, g, off, input, lo, hi)
  BY <1>3, <1>11, <1>12 DEF Wrote
<1>14. QED BY <1>9, <1>10, <1>13 DEF InBlock, g

(* The part of the input that falls into a block. *)
LEMMA PartOf ==
    ASSUME NEW input \in Seq(Bytes), NEW u \in Nat, NEW v \in Nat, u < v, v <= Len(input)
    PROVE  /\ SubSeq(input, u + 1, v) \in Seq(Bytes)
           /\ Len(SubSeq(input, u + 1, v)) = v - u
           /\ \A i \in 1..(v - u) : SubSeq(input, u + 1, v)[i] = input[u + i]
<1> DEFINE t == SubSeq(input, u + 1, v)
<1>1. u + 1 \in Int /\ v \in Int /\ \A i \in (u + 1)..v : input[i] \in Bytes
  OBVIOUS
<1>2. /\ t \in Seq(Bytes)
      /\ Len(t) = IF u + 1 <= v THEN v - (u + 1) + 1 ELSE 0
      /\ \A i \in 1..(v - (u + 1) + 1) : t[i] = input[u + 1 + i - 1]
  BY <1>1, SubSeqProperties
<1> HIDE DEF t
<1>3. u + 1 <= v /\ v - (u + 1) + 1 = v - u
  OBVIOUS
<1>4. \A i \in 1..(v - u) : u + 1 + i - 1 = u + i
  OBVIOUS
<1>5. QED BY <1>2, <1>3, <1>4 DEF t

(* A block beyond the last one is refused. *)
LEMMA WriteFails ==
    ASSUME NEW f, NEW b \in Nat, b > max_block_number, NEW bytes, Len(bytes) > 0
    PROVE  WriteBlock(f, b, bytes) = Failed(f)
<1>1. bytes # <<>> OBVIOUS
<1>2. QED BY <1>1 DEF WriteBlock

(* The operators of StreamBytes are the same under BB. *)
LEMMA SameOperators ==
    /\ \A x, y : BB!Larger(x, y) = Larger(x, y) /\ BB!Smaller(x, y) = Smaller(x, y)
    /\ \A n : BB!Zeros(n) = Zeros(n)
    /\ \A f : BB!Failed(f) = Failed(f)
    /\ \A s, n, fill : BB!CutTo(s, n, fill) = CutTo(s, n, fill)
    /\ \A s, off, t, fill : BB!PutAt(s, off, t, fill) = PutAt(s, off, t, fill)
<1>1. \A x, y : BB!Larger(x, y) = Larger(x, y) /\ BB!Smaller(x, y) = Smaller(x, y)
  BY DEF BB!Larger, Larger, BB!Smaller, Smaller
<1>2. \A n : BB!Zeros(n) = Zeros(n)
  BY DEF BB!Zeros, Zeros
<1>3. \A f : BB!Failed(f) = Failed(f)
  BY DEF BB!Failed, Failed
<1>4. \A s, n, fill : BB!CutTo(s, n, fill) = CutTo(s, n, fill)
  BY DEF BB!CutTo, CutTo
<1>5. \A s, off, t, fill : BB!PutAt(s, off, t, fill) = PutAt(s, off, t, fill)
  BY <1>1 DEF BB!PutAt, PutAt
<1>6. QED BY <1>1, <1>2, <1>3, <1>4, <1>5

(* read_then_write_block, with a part that is not empty. *)
RewrittenBlock(g, f, b, input, z, e) ==
    g = IF z = 0 /\ e = bs THEN WriteBlock(f, b, input)
        ELSE IF ~CanDecrypt(f, b) THEN Failed(f)
        ELSE WriteBlock(f, b, Merged(f, b, input, z, e))

(* Which of its three ways read_then_write_block takes. *)
LEMMA ReadThenWrite ==
    ASSUME NEW f, NEW b, NEW input, NEW z \in Nat, NEW e \in Nat, z < e
    PROVE  RewrittenBlock(BB!ReadThenWriteBlock(f, b, input, z, e), f, b, input, z, e)
<1>1. ~(z >= e) OBVIOUS
<1>2. QED BY <1>1, SameOperators DEF RewrittenBlock, BB!ReadThenWriteBlock, Merged, bs

(* What a part of a write, in bytes z + 1 to e of block b, leaves. *)
PartDone(f, g, b, off, input, z, e) ==
    \/ b >= f.intact /\ g = Failed(f)
    \/ InBlock(f, g, off, input, At(b) + z, At(b) + e)

(* A part of a write, in one block: it is done, or refused beyond the last
   block that can be encrypted or after a truncation that was killed.        *)
LEMMA PartWritten ==
    ASSUME NEW f, Sound(f), ~f.failed, NEW b \in Nat, NEW off \in Nat, NEW input \in Seq(Bytes),
           NEW z \in Nat, NEW e \in Nat, NEW u \in Nat, NEW v \in Nat,
           z < e, e <= bs, u < v, v <= Len(input), v - u = e - z,
           At(b) + z = off + u, At(b) + z <= Len(f.data)
    PROVE  PartDone(f, BB!ReadThenWriteBlock(f, b, SubSeq(input, u + 1, v), z, e), b, off, input, z, e)
<1>1. f \in Stream /\ At(b) \in Nat /\ bs \in Nat /\ bs > 0 /\ Len(input) \in Nat /\ Len(f.data) \in Nat
  <2>1. f \in Stream BY DEF Sound
  <2>2. Len(f.data) \in Nat BY <2>1 DEF Stream
  <2>3. QED BY <2>1, <2>2, Start, BlockSize
<1>2. PICK p \in Nat, l \in Nat, s \in Nat :
          p = At(b) /\ l = Len(f.data) /\ s = bs
  BY <1>1
<1>3. p \in Nat /\ l \in Nat /\ s \in Nat /\ s > 0 /\ e <= s /\ p + z = off + u /\ p + z <= l
  BY <1>1, <1>2
<1> DEFINE sub == SubSeq(input, u + 1, v)
           g   == BB!ReadThenWriteBlock(f, b, sub, z, e)
           lo  == At(b) + z
           hi  == At(b) + e
<1> SUFFICES PartDone(f, g, b, off, input, z, e)
  OBVIOUS
<1>4. lo \in Nat /\ hi \in Nat /\ lo < hi /\ lo - At(b) = z /\ hi - At(b) = e
      /\ At(b) <= lo /\ hi <= At(b) + bs /\ lo <= Len(f.data)
  BY <1>1
<1> HIDE DEF lo, hi
<1>6. sub \in Seq(Bytes) /\ Len(sub) = e - z /\ \A i \in 1..(e - z) : sub[i] = input[u + i]
  BY PartOf
<1> HIDE DEF sub
<1>7. z <= BlockLen(f, b)
  <2>1. BlockLen(f, b) = IF p < l THEN Smaller(s, l - p) ELSE 0
    BY <1>2 DEF BlockLen
  <2>2. QED BY <1>3, <2>1 DEF Smaller
<1> DEFINE t == Merged(f, b, sub, z, e)
<1>8. IsMerged(t, f, b, sub, z, e)
  BY <1>1, <1>6, <1>7, MergedFacts
<1>9. g =
               IF z = 0 /\ e = bs THEN WriteBlock(f, b, sub)
               ELSE IF ~CanDecrypt(f, b) THEN Failed(f)
               ELSE WriteBlock(f, b, t)
  <2>1. RewrittenBlock(g, f, b, sub, z, e)
    BY ReadThenWrite, Zenon
  <2> HIDE DEF g
  <2>2. QED BY <2>1 DEF RewrittenBlock
<1> HIDE DEF t, g
<1>10. Len(sub) > 0 /\ Len(t) > 0
  <2>1. e - z > 0 OBVIOUS
  <2>2. Len(t) \in 1..bs BY <1>8 DEF IsMerged
  <2>3. QED BY <1>1, <1>6, <2>1, <2>2
<1>11. CASE b > max_block_number
  <2>1. WriteBlock(f, b, sub) = Failed(f) /\ WriteBlock(f, b, t) = Failed(f)
    BY <1>10, <1>11, WriteFails
  <2>2. b >= f.intact BY <1>1, <1>11, IntactFacts, StreamAssumption
  <2>3. QED BY <1>9, <2>1, <2>2 DEF PartDone
<1>12. CASE ~(b > max_block_number)
  <2>1. b \in 0..max_block_number
    BY <1>12, StreamAssumption
  <2>2. ~CanDecrypt(f, b) => b >= f.intact
    <3>1. b < f.intact => CanDecrypt(f, b) BY <2>1 DEF Sound, Authentic
    <3>2. f.intact \in Nat BY <1>1, IntactFacts
    <3>3. QED BY <3>1, <3>2
  <2>4. CASE z = 0 /\ e = bs
    <3>1. e = s /\ z = 0 BY <1>2, <2>4
    <3>2. Len(sub) = s
      BY <1>3, <1>6, <3>1
    <3>3. BlockLen(f, b) \in Nat /\ BlockLen(f, b) <= s
      BY <1>1, <1>2, ReadBlockFacts
    <3>4. Len(sub) = Larger(BlockLen(f, b), hi - At(b)) /\ Len(sub) \in 1..bs
      <4>1. hi - At(b) = s BY <1>4, <3>1
      <4>2. QED BY <1>2, <1>3, <3>2, <3>3, <4>1 DEF Larger
    <3>5. ASSUME NEW i \in 1..Len(sub)
          PROVE  sub[i] = IF i > lo - At(b) /\ i <= hi - At(b) THEN input[At(b) + i - off]
                          ELSE Val(f.data[At(b) + i])
      <4>1. i \in 1..s /\ i \in Nat BY <1>3, <3>2
      <4>2. lo - At(b) = 0 /\ hi - At(b) = s BY <1>4, <3>1
      <4>3. At(b) + i - off = u + i BY <1>2, <1>3, <3>1, <4>1
      <4>4. i \in 1..(e - z) BY <1>3, <3>1, <4>1
      <4>5. sub[i] = input[u + i] BY <1>6, <4>4
      <4>6. i > 0 /\ i <= s BY <1>3, <4>1
      <4>7. QED BY <4>2, <4>3, <4>5, <4>6
    <3>6. BlockOver(f, b, sub, off, input, lo, hi)
      BY <1>6, <3>4, <3>5 DEF BlockOver
    <3>7. InBlock(f, WriteBlock(f, b, sub), off, input, lo, hi)
      BY <2>1, <1>4, <3>6, BlockOverWrote
    <3>8. QED BY <1>9, <2>4, <3>7 DEF PartDone, lo, hi
  <2>5. CASE ~(z = 0 /\ e = bs)
    <3>1. ASSUME NEW i \in 1..Len(t)
          PROVE  t[i] = IF i > lo - At(b) /\ i <= hi - At(b) THEN input[At(b) + i - off]
                          ELSE Val(f.data[At(b) + i])
      <4>0. i \in Nat BY <1>1, <1>8 DEF IsMerged
      <4>1. t[i] = IF i > z /\ i <= e THEN sub[i - z] ELSE Val(f.data[At(b) + i])
        BY <1>8 DEF IsMerged
      <4>2. lo - At(b) = z /\ hi - At(b) = e BY <1>4
      <4>3. CASE i > z /\ i <= e
        <5>1. i - z \in 1..(e - z) /\ u + (i - z) = At(b) + i - off
          <6>1. i - z \in 1..(e - z) /\ u + (i - z) = p + i - off BY <1>3, <4>0, <4>3
          <6>2. QED BY <1>2, <6>1
        <5>2. sub[i - z] = input[u + (i - z)] BY <1>6, <5>1
        <5>3. QED BY <4>1, <4>2, <4>3, <5>1, <5>2
      <4>4. CASE ~(i > z /\ i <= e)
        BY <4>1, <4>2, <4>4
      <4>5. QED BY <4>3, <4>4
    <3>2. BlockOver(f, b, t, off, input, lo, hi)
      <4>1. hi - At(b) = e BY <1>4
      <4>2. QED BY <1>8, <3>1, <4>1 DEF BlockOver, IsMerged
    <3>3. InBlock(f, WriteBlock(f, b, t), off, input, lo, hi)
      BY <2>1, <1>4, <3>2, BlockOverWrote
    <3>4. QED BY <1>9, <2>2, <2>5, <3>3 DEF PartDone, lo, hi
  <2>6. QED BY <2>4, <2>5
<1>13. QED BY <1>11, <1>12

(* Where the part of a write that falls into block b begins and ends. *)
PartAt(b, off, input, lo, hi) ==
    lo = Larger(off, At(b)) /\ hi = Smaller(At(b) + bs, off + Len(input))

(* A write, in one block. *)
LEMMA InBlockFacts ==
    ASSUME NEW f, Sound(f), ~f.failed, NEW b \in Nat, NEW off \in Nat, NEW input \in Seq(Bytes),
           NEW lo \in Nat, NEW hi \in Nat, lo < hi, lo <= Len(f.data), PartAt(b, off, input, lo, hi)
    PROVE  \/ b >= f.intact /\ BB!WriteInBlock(f, b, off, input) = Failed(f)
           \/ InBlock(f, BB!WriteInBlock(f, b, off, input), off, input, lo, hi)
<1>1. At(b) \in Nat /\ bs \in Nat /\ Len(input) \in Nat
  BY Start, BlockSize
<1>2. PICK p \in Nat, s \in Nat, n \in Nat : p = At(b) /\ s = bs /\ n = Len(input)
  BY <1>1
<1>3. p \in Nat /\ s \in Nat /\ n \in Nat
  BY <1>2
<1>3a. lo = Larger(off, p) /\ hi = Smaller(p + s, off + n)
  BY <1>2 DEF PartAt
<1>4. /\ p <= lo /\ off <= lo /\ hi <= p + s /\ hi <= off + n
      /\ hi - p = Smaller(s, off + n - p) /\ hi - p <= s
  BY <1>3, <1>3a DEF Larger, Smaller
<1>5. PICK z \in Nat, e \in Nat, u \in Nat, v \in Nat :
               z = lo - p /\ e = hi - p /\ u = lo - off /\ v = hi - off
  <2>1. lo - p \in Nat /\ hi - p \in Nat /\ lo - off \in Nat /\ hi - off \in Nat
    BY <1>3, <1>4
  <2>2. QED BY <2>1
<1>6. /\ z < e /\ u < v /\ v <= n /\ v - u = e - z
      /\ p + z - off + 1 = u + 1 /\ p + e - off = v
      /\ lo = p + z /\ hi = p + e /\ p + z = off + u /\ e <= s
  BY <1>3, <1>4, <1>5
<1>7. BB!WriteInBlock(f, b, off, input) = BB!ReadThenWriteBlock(f, b, SubSeq(input, u + 1, v), z, e)
  <2>1. b * m_block_size = p /\ m_block_size = s BY <1>2 DEF At, bs
  <2>2. z = Larger(off, p) - p /\ e = Smaller(s, off + n - p) BY <1>3a, <1>4, <1>5
  <2>3. QED BY <1>2, <1>6, <2>1, <2>2, SameOperators DEF BB!WriteInBlock
<1>8. e <= bs /\ At(b) + z = off + u /\ At(b) + z <= Len(f.data) /\ v <= Len(input)
      /\ z < e /\ u < v /\ v - u = e - z /\ lo = At(b) + z /\ hi = At(b) + e
  BY <1>2, <1>6
<1>9. PartDone(f, BB!WriteInBlock(f, b, off, input), b, off, input, z, e)
  <2>1. z \in Nat /\ e \in Nat /\ u \in Nat /\ v \in Nat BY <1>5
  <2>2. PartDone(f, BB!ReadThenWriteBlock(f, b, SubSeq(input, u + 1, v), z, e), b, off, input, z, e)
    BY <1>8, <2>1, PartWritten, Zenon
  <2>3. QED BY <1>7, <2>2, Zenon
<1>10. QED BY <1>8, <1>9, Zenon DEF PartDone

-----------------------------------------------------------------------------
(* The loop of unchecked_write. A set of numbers has a least one: what is so
   after no round, and after one round more, is so after every round.        *)
LEMMA Least ==
    ASSUME NEW T \in SUBSET Nat, T # {}
    PROVE  \E x \in T : \A y \in T : ~(y < x)
<1> DEFINE R == OpToRel(<, Nat)
<1>1. IsWellFoundedOn(R, Nat)
  BY NatLessThanWellFounded
<1>2. \A x, y \in Nat : <<y, x>> \in R <=> y < x
  BY DEF OpToRel
<1> HIDE DEF R
<1>3. PICK x \in T : \A y \in T : ~(<<y, x>> \in R)
  BY <1>1, WFMin
<1>4. QED BY <1>2, <1>3

(* One round of it. *)
Round(g, k, off, input) ==
    LET b == off \div m_block_size + k - 1
    IN  IF g.failed \/ b * m_block_size >= off + Len(input) THEN g
        ELSE BB!WriteInBlock(g, b, off, input)

(* a is the stream after each of n rounds. *)
IsLoop(a, f, n, off, input) ==
    a = [k \in 0..n |-> IF k = 0 THEN f ELSE Round(a[k - 1], k, off, input)]

(* The recursive definition of the loop defines a function. *)
LEMMA LoopRuns ==
    ASSUME NEW f, NEW off, NEW input, NEW n \in Nat
    PROVE  \E a : IsLoop(a, f, n, off, input)
<1> DEFINE Runs(m) == \E a : IsLoop(a, f, m, off, input)
           Bad == {m \in Nat : ~Runs(m)}
<1>1. SUFFICES ASSUME Bad # {} PROVE FALSE
  OBVIOUS
<1>2. PICK m \in Bad : \A y \in Bad : ~(y < m)
  <2> HIDE DEF Runs
  <2>1. Bad \in SUBSET Nat OBVIOUS
  <2> HIDE DEF Bad
  <2>2. QED BY <1>1, <2>1, Least
<1>3. m \in Nat /\ ~Runs(m)
  <2> HIDE DEF Runs
  <2>1. QED BY <1>2
<1>4. CASE m = 0
  <2> DEFINE a == [k \in 0..0 |-> f]
  <2>1. \A k \in 0..0 : k = 0 /\ a[k] = f OBVIOUS
  <2>2. a = [k \in 0..0 |-> IF k = 0 THEN f ELSE Round(a[k - 1], k, off, input)]
    BY <2>1
  <2>3. QED BY <1>3, <1>4, <2>2 DEF IsLoop
<1>5. CASE m # 0
  <2>1. m - 1 \in Nat /\ m - 1 < m BY <1>3, <1>5
  <2>2. Runs(m - 1)
    <3> HIDE DEF Runs
    <3>1. QED BY <1>2, <2>1
  <2>3. PICK a : IsLoop(a, f, m - 1, off, input)
    BY <2>2
  <2>4. \A k \in 0..(m - 1) : a[k] = IF k = 0 THEN f ELSE Round(a[k - 1], k, off, input)
    BY <2>3 DEF IsLoop
  <2> DEFINE c == [k \in 0..m |-> IF k < m THEN a[k] ELSE Round(a[m - 1], m, off, input)]
  <2>5. ASSUME NEW k \in 0..m
        PROVE  c[k] = IF k = 0 THEN f ELSE Round(c[k - 1], k, off, input)
    <3>1. CASE k = 0
      <4>1. 0 < m /\ 0 \in 0..(m - 1) BY <1>3, <1>5
      <4>2. QED BY <2>4, <3>1, <4>1
    <3>2. CASE k # 0
      <4>1. k - 1 \in 0..m /\ k - 1 < m BY <1>3, <3>2
      <4>2. c[k - 1] = a[k - 1] BY <4>1
      <4>3. CASE k < m
        <5>1. k \in 0..(m - 1) BY <1>3, <4>3
        <5>2. QED BY <2>4, <3>2, <4>2, <4>3, <5>1
      <4>4. CASE ~(k < m)
        <5>1. k = m BY <1>3, <4>4
        <5>2. QED BY <3>2, <4>2, <4>4, <5>1
      <4>5. QED BY <4>3, <4>4
    <3>3. QED BY <3>1, <3>2
  <2>6. c = [k \in 0..m |-> c[k]] OBVIOUS
  <2> HIDE DEF c
  <2>7. c = [k \in 0..m |-> IF k = 0 THEN f ELSE Round(c[k - 1], k, off, input)]
    BY <2>5, <2>6
  <2>8. QED BY <1>3, <2>7 DEF IsLoop
<1>6. QED BY <1>4, <1>5

(* unchecked_write is that loop. *)
LEMMA RangeIsLoop ==
    ASSUME NEW f, NEW off, NEW input, input # <<>>, Len(input) \in Nat
    PROVE  \E a : /\ IsLoop(a, f, Len(input) + 1, off, input)
                  /\ BB!WriteRange(f, off, input) = a[Len(input) + 1]
<1>1. PICK h : IsLoop(h, f, Len(input) + 1, off, input)
  <2>1. Len(input) + 1 \in Nat OBVIOUS
  <2>2. QED BY <2>1, LoopRuns
<1>2. QED BY <1>1 DEF BB!WriteRange, IsLoop, Round

-----------------------------------------------------------------------------
(* After k blocks. *)
Reached(off, input, k) == Smaller(off + Len(input), Larger(off, At(off \div bs + k)))

(* What k rounds leave: bytes off + 1 to r were written, and r is where
   block off \div bs + k begins unless a round threw. *)
Progressed(f, g, off, input, k) ==
    /\ Sound(g) /\ Kept(f, g)
    /\ \E r \in off..(off + Len(input)) :
          /\ Wrote(f, g, off, input, off, r)
          /\ ~g.failed => r = Reached(off, input, k)
    /\ g.failed => off + Len(input) > At(f.intact)

(* One round more. *)
LEMMA RoundKeeps ==
    ASSUME NEW f, Sound(f), NEW off \in Nat, off <= Len(f.data),
           NEW input \in Seq(Bytes), input # <<>>, NEW k \in Nat,
           NEW g, Progressed(f, g, off, input, k)
    PROVE  Progressed(f, Round(g, k + 1, off, input), off, input, k + 1)
<1> DEFINE b == off \div bs + k
           h == Round(g, k + 1, off, input)
<1>1. f \in Stream /\ g \in Stream /\ Sound(g) /\ Kept(f, g)
  BY DEF Sound, Progressed
<1>2. off \div bs \in Nat /\ b \in Nat /\ bs \in Nat /\ bs > 0
  BY BlockOf, BlockSize
<1>3. h = IF g.failed \/ At(b) >= off + Len(input) THEN g ELSE BB!WriteInBlock(g, b, off, input)
  <2>1. off \div m_block_size + (k + 1) - 1 = b
    BY <1>2 DEF bs
  <2>2. QED BY <2>1 DEF Round, At
<1>4. At(off \div bs + (k + 1)) = At(b) + bs /\ At(b) \in Nat
  <2>1. off \div bs + (k + 1) = b + 1 BY <1>2
  <2> HIDE DEF b
  <2>2. QED BY <1>2, <2>1, NextStart, Start
<1>4a. off < At(b) + bs
  <2>1. PICK d \in Nat : d = off \div bs /\ off < At(d) + bs
    BY <1>2, BlockOf
  <2>2. At(d) \in Nat BY <2>1, Start
  <2>3. b = d + k BY <2>1
  <2> HIDE DEF b
  <2>4. At(d) <= At(b)
    <3>1. CASE k = 0 BY <1>4, <2>1, <2>3, <3>1
    <3>2. CASE k > 0
      <4>1. d < b BY <1>2, <2>1, <2>3, <3>2
      <4>2. At(d) + bs <= At(b) BY <1>2, <2>1, <4>1, StartsApart
      <4>3. QED BY <1>2, <1>4, <2>2, <4>2
    <3>3. QED BY <3>1, <3>2
  <2>5. QED BY <1>2, <1>4, <2>1, <2>2, <2>4
<1> HIDE DEF h
<1> SUFFICES Progressed(f, h, off, input, k + 1)
  BY DEF h
<1>5. PICK r \in off..(off + Len(input)) :
          Wrote(f, g, off, input, off, r) /\ (~g.failed => r = Reached(off, input, k))
  BY DEF Progressed
<1>6. PICK p \in Nat, n \in Nat, s \in Nat, l \in Nat :
          p = At(b) /\ n = off + Len(input) /\ s = bs /\ l = Len(f.data)
  <2>1. Len(f.data) \in Nat /\ off + Len(input) \in Nat BY <1>1 DEF Stream
  <2>2. QED BY <1>2, <1>4, <2>1
<1>7. p \in Nat /\ n \in Nat /\ s \in Nat /\ s > 0 /\ r \in Nat /\ off <= r /\ r <= n /\ off < n /\ off < p + s
  BY <1>2, <1>4a, <1>5, <1>6
<1>8. /\ Reached(off, input, k) = Smaller(n, Larger(off, p))
      /\ Reached(off, input, k + 1) = Smaller(n, Larger(off, p + s))
  BY <1>4, <1>6 DEF Reached
<1>9. CASE g.failed
  <2>1. h = g BY <1>3, <1>9
  <2>2. QED BY <1>1, <1>5, <1>9, <2>1 DEF Progressed
<1>10. CASE ~g.failed /\ p >= n
  <2>1. h = g BY <1>3, <1>6, <1>10
  <2>0. r = Smaller(n, Larger(off, p)) BY <1>5, <1>8, <1>10
  <2>2. r = n
    BY <1>7, <1>10, <2>0 DEF Smaller, Larger
  <2>2a. Reached(off, input, k + 1) = n
    BY <1>7, <1>8, <1>10 DEF Smaller, Larger
  <2>3. QED BY <1>1, <1>5, <1>10, <2>1, <2>2, <2>2a DEF Progressed
<1>11. CASE ~g.failed /\ ~(p >= n)
  <2>1. h = BB!WriteInBlock(g, b, off, input)
    BY <1>3, <1>6, <1>11
  <2> DEFINE hi == Smaller(p + s, n)
  <2>0. r = Smaller(n, Larger(off, p)) BY <1>5, <1>8, <1>11
  <2>2. hi \in Nat /\ r < hi /\ hi <= n
    BY <1>7, <1>11, <2>0 DEF Smaller, Larger
  <2>2a. r = Larger(off, p)
    BY <1>7, <1>11, <2>0 DEF Smaller, Larger
  <2>2b. Reached(off, input, k + 1) = hi
    BY <1>7, <1>8, <1>11 DEF Smaller, Larger
  <2> HIDE DEF hi
  <2>3. r <= Len(g.data)
    <3>1. Len(g.data) = Larger(l, r) BY <1>5, <1>6 DEF Wrote
    <3>2. l \in Nat BY <1>6
    <3>3. QED BY <1>7, <3>1, <3>2 DEF Larger
  <2>4. PartAt(b, off, input, r, hi)
    BY <1>6, <2>2a DEF hi, PartAt
  <2>5. (b >= g.intact /\ h = Failed(g)) \/ InBlock(g, h, off, input, r, hi)
    <3> HIDE DEF b
    <3>1. r \in Nat /\ hi \in Nat /\ r < hi BY <1>7, <2>2
    <3>2. QED BY <1>1, <1>2, <1>11, <2>1, <2>3, <2>4, <3>1, InBlockFacts
  <2>6. CASE b >= g.intact /\ h = Failed(g)
    <3>1. h = Failed(g) BY <2>6
    <3>2. Sound(h) /\ Kept(g, h) /\ h.failed /\ h.data = g.data
      BY <1>1, <3>1, FailedFacts
    <3>3. h \in Stream BY <3>2 DEF Sound
    <3>4. Kept(f, h) BY <1>1, <3>2, <3>3, KeptOn
    <3>5. Wrote(f, h, off, input, off, r) BY <1>5, <3>2 DEF Wrote
    <3>6. off + Len(input) > At(f.intact)
      <4>1. PICK c \in Nat, d \in Nat : c = f.intact /\ d = b BY <1>1, <1>2, IntactFacts
      <4>2. g.intact = f.intact BY <1>1 DEF Kept
      <4>3. f.intact <= d BY <2>6, <4>1, <4>2
      <4>4. At(f.intact) \in Nat /\ At(f.intact) <= At(d) BY <1>1, <4>1, <4>3, IntactFacts
      <4>5. At(d) = p BY <1>6, <4>1
      <4>6. QED BY <1>6, <1>7, <1>11, <4>4, <4>5
    <3>7. QED BY <1>5, <3>2, <3>4, <3>5, <3>6 DEF Progressed
  <2>7. CASE InBlock(g, h, off, input, r, hi)
    <3>1. Sound(h) /\ Kept(g, h) /\ ~h.failed /\ Wrote(g, h, off, input, r, hi)
      BY <2>7 DEF InBlock
    <3>2. h \in Stream BY <3>1 DEF Sound
    <3>3. Kept(f, h) BY <1>1, <3>1, <3>2, KeptOn
    <3>4. Wrote(f, h, off, input, off, hi)
      <4>1. r \in Nat /\ hi \in Nat /\ off <= r /\ r <= hi BY <1>7, <2>2
      <4>2. QED BY <1>1, <1>5, <3>1, <3>2, <4>1, WroteOn
    <3>5. hi \in off..(off + Len(input)) BY <1>6, <1>7, <2>2
    <3>6. QED BY <2>2b, <3>1, <3>3, <3>4, <3>5 DEF Progressed
  <2>8. QED BY <2>5, <2>6, <2>7
<1>12. QED BY <1>9, <1>10, <1>11

(* n blocks hold at least n bytes. *)
LEMMA FarEnough ==
    ASSUME NEW off \in Nat, NEW n \in Nat
    PROVE  At(off \div bs + (n + 1)) >= off + n
<1> DEFINE d == off \div bs
<1>1. d \in Nat /\ off < At(d) + bs
  BY BlockOf
<1> HIDE DEF d
<1>2. At(d + 1) = At(d) + bs /\ At(d) \in Nat /\ d + 1 \in Nat
  BY <1>1, NextStart, Start
<1>3. At(d + (n + 1)) = At(d + 1) + n * bs
  BY <1>1, BlockSize DEF At, bs
<1>4. PICK c \in Nat : bs = 1 + c
  <2>1. bs - 1 \in Nat /\ bs = 1 + (bs - 1) BY BlockSize
  <2>2. QED BY <2>1
<1>5. n * bs = n + n * c BY <1>4
<1>6. n * c \in Nat BY <1>4
<1>7. PICK x \in Nat, y \in Nat : x = n * c /\ y = At(d) BY <1>2, <1>6
<1>8. At(d + (n + 1)) = y + bs + n + x BY <1>2, <1>3, <1>5, <1>7, BlockSize
<1>9. QED BY <1>1, <1>7, <1>8, BlockSize DEF d

(* A write within the stream: all of it is done, or a part of it when it
   goes beyond the last block that can be encrypted, or beyond where a killed
   truncation cut the file.                                                  *)
RangeWritten(f, g, off, input) ==
    /\ Sound(g) /\ Kept(f, g)
    /\ \E r \in off..(off + Len(input)) :
          /\ Wrote(f, g, off, input, off, r)
          /\ ~g.failed => r = off + Len(input)
    /\ g.failed => off + Len(input) > At(f.intact)

(* The loop does that: the first round after which it would not be so has a
   round before it, after which it is so. *)
LEMMA WriteRangeFacts ==
    ASSUME NEW f, Sound(f), ~f.failed, NEW off \in Nat, off <= Len(f.data),
           NEW input \in Seq(Bytes)
    PROVE  RangeWritten(f, BB!WriteRange(f, off, input), off, input)
<1>0. f \in Stream /\ Len(input) \in Nat
  BY DEF Sound
<1>1. CASE input = <<>>
  <2>1. BB!WriteRange(f, off, input) = f BY <1>1 DEF BB!WriteRange
  <2>2. Wrote(f, f, off, input, off, off) BY <1>0, WroteNothing
  <2>3. Len(input) = 0 BY <1>1
  <2>4. off \in off..(off + Len(input)) /\ off = off + Len(input) BY <2>3
  <2>5. QED BY <1>0, <2>1, <2>2, <2>4, KeptSelf DEF RangeWritten
<1>2. CASE input # <<>>
  <2> DEFINE n == Len(input)
  <2>1. PICK a : IsLoop(a, f, n + 1, off, input) /\ BB!WriteRange(f, off, input) = a[n + 1]
    BY <1>0, <1>2, RangeIsLoop
  <2>2. \A k \in 0..(n + 1) : a[k] = IF k = 0 THEN f ELSE Round(a[k - 1], k, off, input)
    BY <2>1 DEF IsLoop
  <2> DEFINE Bad == {k \in 0..(n + 1) : ~Progressed(f, a[k], off, input, k)}
  <2>3. Bad = {}
    <3> SUFFICES ASSUME Bad # {} PROVE FALSE
      OBVIOUS
    <3>1. PICK k \in Bad : \A y \in Bad : ~(y < k)
      <4>1. Bad \in SUBSET Nat OBVIOUS
      <4> HIDE DEF Bad
      <4>2. QED BY <4>1, Least
    <3>2. k \in 0..(n + 1) /\ ~Progressed(f, a[k], off, input, k) BY <3>1
    <3>3. CASE k = 0
      <4>1. a[0] = f BY <2>2, <3>2, <3>3
      <4>2. off \div bs \in Nat /\ At(off \div bs) <= off /\ At(off \div bs) \in Nat
        BY BlockOf, Start
      <4>3. Reached(off, input, 0) = off
        <5>1. off \div bs + 0 = off \div bs BY <4>2
        <5>2. PICK p \in Nat : p = At(off \div bs) BY <4>2
        <5>3. Reached(off, input, 0) = Smaller(off + n, Larger(off, p)) BY <5>1, <5>2 DEF Reached
        <5>4. p \in Nat /\ p <= off /\ n \in Nat BY <1>0, <4>2, <5>2
        <5>5. QED BY <5>3, <5>4 DEF Smaller, Larger
      <4>4. Wrote(f, f, off, input, off, off) BY <1>0, WroteNothing
      <4>5. off \in off..(off + Len(input)) BY <1>0
      <4>6. Progressed(f, f, off, input, 0)
        BY <1>0, <4>3, <4>4, <4>5, KeptSelf DEF Progressed
      <4>7. QED BY <3>2, <3>3, <4>1, <4>6
    <3>4. CASE k # 0
      <4>1. k - 1 \in 0..(n + 1) /\ k - 1 < k /\ k - 1 \in Nat /\ k - 1 + 1 = k
        BY <1>0, <3>2, <3>4
      <4>2. k - 1 \notin Bad
        <5> HIDE DEF Bad
        <5>1. QED BY <3>1, <4>1
      <4>3. Progressed(f, a[k - 1], off, input, k - 1) BY <4>1, <4>2
      <4>4. a[k] = Round(a[k - 1], k - 1 + 1, off, input) BY <2>2, <3>2, <3>4, <4>1
      <4>5. Progressed(f, a[k], off, input, k - 1 + 1)
        BY <1>2, <4>1, <4>3, <4>4, RoundKeeps
      <4>6. QED BY <3>2, <4>1, <4>5
    <3>5. QED BY <3>3, <3>4
  <2>4. Progressed(f, a[n + 1], off, input, n + 1)
    <3>1. n + 1 \in 0..(n + 1) BY <1>0
    <3>2. QED BY <2>3, <3>1
  <2>5. Reached(off, input, n + 1) = off + n
    <3>1. At(off \div bs + (n + 1)) >= off + n BY <1>0, FarEnough
    <3>2. At(off \div bs + (n + 1)) \in Nat
      <4>1. off \div bs \in Nat BY BlockOf
      <4>2. off \div bs + (n + 1) \in Nat BY <1>0, <4>1
      <4>3. QED BY <4>2, Start
    <3>3. PICK p \in Nat : p = At(off \div bs + (n + 1)) BY <3>2
    <3>4. Reached(off, input, n + 1) = Smaller(off + n, Larger(off, p)) BY <3>3 DEF Reached
    <3>5. p \in Nat /\ p >= off + n /\ n \in Nat BY <1>0, <3>1, <3>3
    <3>6. QED BY <3>4, <3>5 DEF Smaller, Larger
  <2>6. QED BY <2>1, <2>4, <2>5 DEF Progressed, RangeWritten
<1>3. QED BY <1>1, <1>2

-----------------------------------------------------------------------------
(* How long a block is. *)
LEMMA BlockLenFacts ==
    ASSUME NEW f, Len(f.data) \in Nat, NEW b \in Nat
    PROVE  /\ BlockLen(f, b) \in Nat /\ BlockLen(f, b) <= bs
           /\ BlockLen(f, b) > 0 <=> At(b) < Len(f.data)
           /\ At(b) + bs <= Len(f.data) => BlockLen(f, b) = bs
           /\ (At(b) <= Len(f.data) /\ Len(f.data) <= At(b) + bs) => BlockLen(f, b) = Len(f.data) - At(b)
           /\ \A i \in 1..BlockLen(f, b) : At(b) + i \in 1..Len(f.data) /\ At(b) + i <= Len(f.data)
<1>1. At(b) \in Nat /\ bs \in Nat /\ bs > 0
  BY Start, BlockSize
<1>0. PICK x : x = BlockLen(f, b) OBVIOUS
<1>2. PICK p \in Nat, l \in Nat, s \in Nat : p = At(b) /\ l = Len(f.data) /\ s = bs
  BY <1>1
<1>3. p \in Nat /\ l \in Nat /\ s \in Nat /\ s > 0 /\ x = IF p < l THEN Smaller(s, l - p) ELSE 0
  BY <1>0, <1>1, <1>2 DEF BlockLen
<1>4. /\ x \in Nat /\ x <= s
      /\ x > 0 <=> p < l
      /\ p + s <= l => x = s
      /\ (p <= l /\ l <= p + s) => x = l - p
      /\ \A i \in 1..x : p + i \in 1..l /\ p + i <= l
  BY <1>3 DEF Smaller
<1>5. QED BY <1>0, <1>2, <1>4

(* A block whose MAC is its contents decrypts. *)
LEMMA MacFits ==
    ASSUME NEW g \in Stream, NEW b \in 0..max_block_number, NEW bytes \in Seq(Bytes),
           BlockLen(g, b) = Len(bytes),
           \A i \in 1..Len(bytes) : g.data[At(b) + i] = bytes[i],
           b + 2 <= Len(g.meta), g.meta[b + 2] = bytes
    PROVE  CanDecrypt(g, b)
<1>1. b \in Nat /\ b <= max_block_number
  BY StreamAssumption
<1> DEFINE raw == StoredBlock(g, b)
<1>2. raw \in Seq(Cell) /\ Len(raw) = BlockLen(g, b)
      /\ \A i \in 1..BlockLen(g, b) : raw[i] = g.data[At(b) + i]
  BY <1>1, StoredBlockFacts DEF Stream
<1> HIDE DEF raw
<1>3. bytes \in Seq(Cell) BY DEF Cell
<1>4. Len(raw) = Len(bytes) /\ \A i \in 1..Len(raw) : raw[i] = bytes[i] BY <1>2
<1>5. raw = bytes BY <1>2, <1>3, <1>4, SeqEqual
<1>6. QED BY <1>1, <1>5, Decrypts DEF raw

(* adjust_logical_size *)
Adjusted(f, g, n) ==
    /\ g \in Stream /\ Fits(g) /\ Kept(f, g) /\ ~g.failed
    /\ IsCut(g.data, f.data, n, Hole)
    /\ IsCut(g.meta, f.meta, 1 + Blocks(n), NoMac)

(* AdjustLogicalSize does that. *)
LEMMA AdjustFacts ==
    ASSUME NEW f \in Stream, ~f.failed, NEW n \in Nat
    PROVE  Adjusted(f, AdjustLogicalSize(f, n), n)
<1> DEFINE d == CutTo(f.data, n, Hole)
           m == CutTo(f.meta, 1 + Blocks(n), NoMac)
           g == AdjustLogicalSize(f, n)
<1>1. f.data \in Seq(Cell) /\ f.meta \in Seq(MetaCell) /\ Hole \in Cell /\ NoMac \in MetaCell
  BY DEF Stream, Cell, MetaCell, NoMac
<1>2. Blocks(n) \in Nat /\ 1 + Blocks(n) \in Nat
  BY BlocksOf
<1>3. d \in Seq(Cell) /\ IsCut(d, f.data, n, Hole)
  BY <1>1, CutToFacts, Zenon
<1>4. m \in Seq(MetaCell) /\ IsCut(m, f.meta, 1 + Blocks(n), NoMac)
  BY <1>1, <1>2, CutToFacts, Zenon
<1>5. g = [f EXCEPT !.data = d, !.meta = m, !.covered = @ /\ Len(f.meta) = 1 + Blocks(n), !.dirty = TRUE]
  BY DEF AdjustLogicalSize, meta_position_for_iv, Blocks
<1> HIDE DEF d, m
<1>6. /\ g \in Stream /\ g.data = d /\ g.meta = m /\ g.sparse = f.sparse /\ g.dirty = TRUE /\ g.failed = FALSE
      /\ g.intact = f.intact
  BY <1>3, <1>4, <1>5 DEF Stream
<1> HIDE DEF g
<1>7. Fits(g)
  BY <1>3, <1>4, <1>6 DEF Fits, IsCut
<1>8. Kept(f, g)
  <2>1. ASSUME f.meta # <<>> PROVE m # <<>> /\ m[1] = f.meta[1]
    <3>1. Len(f.meta) \in Nat /\ Len(f.meta) > 0 BY <1>1, <2>1
    <3>2. Len(m) > 0 /\ 1 \in 1..(1 + Blocks(n)) BY <1>2, <1>4 DEF IsCut
    <3>3. m # <<>> BY <3>2
    <3>4. QED BY <1>4, <3>1, <3>2, <3>3 DEF IsCut
  <2>2. QED BY <1>6, <2>1 DEF Kept
<1>9. QED BY <1>3, <1>4, <1>6, <1>7, <1>8 DEF Adjusted, g

(* A block that adjust_logical_size leaves at its length still decrypts. *)
LEMMA AdjustKeeps ==
    ASSUME NEW f \in Stream, NEW g, NEW n \in Nat, Adjusted(f, g, n), NEW b \in Nat,
           CanDecrypt(f, b), BlockLen(g, b) = BlockLen(f, b)
    PROVE  CanDecrypt(g, b)
<1>1. g \in Stream /\ Len(g.data) = n /\ Len(g.meta) = 1 + Blocks(n)
  BY DEF Adjusted, IsCut
<1>2. Len(f.data) \in Nat /\ Len(f.meta) \in Nat /\ Blocks(n) \in Nat
  <2>1. Len(f.data) \in Nat /\ Len(f.meta) \in Nat BY DEF Stream
  <2>2. QED BY <2>1, BlocksOf
<1>3. ASSUME NEW i \in 1..BlockLen(f, b) PROVE g.data[At(b) + i] = f.data[At(b) + i]
  <2>1. At(b) + i \in 1..n /\ At(b) + i <= Len(f.data)
    BY <1>1, <1>2, BlockLenFacts
  <2>2. QED BY <2>1 DEF Adjusted, IsCut
<1>4. ASSUME BlockLen(f, b) > 0, b + 2 <= Len(f.meta)
      PROVE  b + 2 <= Len(g.meta) /\ g.meta[b + 2] = f.meta[b + 2]
  <2>1. At(b) < n BY <1>1, <1>2, <1>4, BlockLenFacts
  <2>2. b < Blocks(n) BY <2>1, BlocksOf
  <2>3. b + 2 \in 1..(1 + Blocks(n)) /\ b + 2 <= 1 + Blocks(n) BY <1>2, <2>2
  <2>4. QED BY <1>1, <1>4, <2>3 DEF Adjusted, IsCut
<1>5. QED BY <1>1, <1>3, <1>4, StillDecrypts

(* A block that is empty decrypts. *)
LEMMA EmptyDecrypts ==
    ASSUME NEW g \in Stream, NEW b \in Nat, Len(g.data) <= At(b)
    PROVE  CanDecrypt(g, b)
<1>1. Len(g.data) \in Nat /\ At(b) \in Nat BY Start DEF Stream
<1>2. ~(BlockLen(g, b) > 0) BY <1>1, BlockLenFacts
<1>3. QED BY <1>2, Decrypts

-----------------------------------------------------------------------------
(* g is f with k bytes; bytes that were not there are zero. *)
Resizes(f, g, k) ==
    /\ Len(g.data) = k
    /\ \A i \in 1..k : Val(g.data[i]) = IF i <= Len(f.data) THEN Val(f.data[i]) ELSE 0

(* What a call of resize leaves. *)
ResizeDone(f, g, n) ==
    /\ Sound(g) /\ Kept(f, g)
    /\ \E k \in Nat :
          /\ Resizes(f, g, k)
          /\ ~g.failed => k = n
          /\ g.failed => Len(f.data) <= k /\ k <= Larger(n, Len(f.data))
    /\ g.failed => n > At(f.intact)

(* A stream has its own size. *)
LEMMA ResizesSelf ==
    ASSUME NEW f \in Stream
    PROVE  Resizes(f, f, Len(f.data))
<1>1. Len(f.data) \in Nat BY DEF Stream
<1>2. QED BY <1>1 DEF Resizes

(* The blocks before the end of a stream that is cut in block b. *)
LEMMA EarlierBlocks ==
    ASSUME NEW f \in Stream, NEW g, NEW n \in Nat, Adjusted(f, g, n), n <= Len(f.data),
           NEW b \in Nat, At(b) <= n, NEW c \in Nat, c < b, CanDecrypt(f, c)
    PROVE  CanDecrypt(g, c)
<1>1. g \in Stream /\ Len(g.data) = n /\ Len(f.data) \in Nat
  BY DEF Adjusted, IsCut, Stream
<1>2. At(c) + bs <= At(b) /\ At(c) \in Nat /\ At(b) \in Nat /\ bs \in Nat
  BY Start, StartsApart, BlockSize
<1>3. At(c) + bs <= Len(g.data) /\ At(c) + bs <= Len(f.data)
  BY <1>1, <1>2
<1>4. BlockLen(g, c) = bs /\ BlockLen(f, c) = bs
  BY <1>1, <1>3, BlockLenFacts
<1>5. QED BY <1>4, AdjustKeeps

(* Shrinking to the end of a block only cuts. *)
LEMMA ShrinkToBlock ==
    ASSUME NEW f, Sound(f), ~f.failed, NEW b \in Nat, At(b) <= Len(f.data)
    PROVE  ResizeDone(f, AdjustLogicalSize(f, At(b)), At(b))
<1> DEFINE n == At(b)
           g == AdjustLogicalSize(f, n)
<1>1. f \in Stream /\ n \in Nat /\ Len(f.data) \in Nat
  BY Start DEF Sound, Stream
<1>2. Adjusted(f, g, n)
  BY <1>1, AdjustFacts
<1> HIDE DEF g
<1>3. g \in Stream /\ Fits(g) /\ Kept(f, g) /\ ~g.failed /\ IsCut(g.data, f.data, n, Hole) /\ Len(g.data) = n
  BY <1>2 DEF Adjusted, IsCut
<1>4. ASSUME NEW c \in 0..max_block_number, c < f.intact PROVE CanDecrypt(g, c)
  <2>1. c \in Nat /\ CanDecrypt(f, c) BY <1>4, StreamAssumption DEF Sound, Authentic
  <2>2. CASE c < b
    BY <1>1, <1>2, <2>1, <2>2, EarlierBlocks
  <2>3. CASE ~(c < b)
    <3>1. At(b) <= At(c)
      <4>1. CASE c = b BY <1>1, <4>1
      <4>2. CASE b < c
        <5>1. At(b) + bs <= At(c) /\ At(c) \in Nat /\ bs \in Nat BY <2>1, <4>2, StartsApart, Start, BlockSize
        <5>2. QED BY <1>1, <5>1
      <4>3. QED BY <2>1, <2>3, <4>1, <4>2
    <3>2. QED BY <1>3, <2>1, <3>1, EmptyDecrypts
  <2>4. QED BY <2>2, <2>3
<1>5. Resizes(f, g, n)
  <2>1. \A i \in 1..n : i <= Len(f.data) /\ g.data[i] = f.data[i]
    BY <1>1, <1>3 DEF IsCut
  <2>2. QED BY <1>3, <2>1 DEF Resizes
<1>6. g.intact = f.intact BY <1>3 DEF Kept
<1>7. QED BY <1>1, <1>3, <1>4, <1>5, <1>6 DEF ResizeDone, Sound, Authentic, g

(* The block that becomes shorter is encrypted again before it is cut. *)
LEMMA ShrinkInBlock ==
    ASSUME NEW f, Sound(f), ~f.failed, NEW b \in 0..max_block_number, NEW n \in Nat,
           At(b) < n, n < At(b) + bs, n < Len(f.data),
           NEW bytes \in Seq(Bytes), Len(bytes) = n - At(b),
           \A i \in 1..(n - At(b)) : bytes[i] = Val(f.data[At(b) + i])
    PROVE  ResizeDone(f, AdjustLogicalSize(WriteBlock(f, b, bytes), n), n)
<1> DEFINE w == WriteBlock(f, b, bytes)
           g == AdjustLogicalSize(w, n)
<1>1. /\ f \in Stream /\ Fits(f) /\ b \in Nat /\ Len(f.data) \in Nat
      /\ At(b) \in Nat /\ bs \in Nat /\ bs > 0
  BY Start, BlockSize, StreamAssumption DEF Sound, Stream
<1>2. PICK p \in Nat, l \in Nat, s \in Nat, k \in Nat :
          p = At(b) /\ l = Len(f.data) /\ s = bs /\ k = Len(bytes)
  <2>1. Len(bytes) \in Nat OBVIOUS
  <2>2. QED BY <1>1, <2>1
<1>3. p \in Nat /\ l \in Nat /\ s \in Nat /\ k \in Nat /\ p < n /\ n < p + s /\ n < l /\ k = n - p
  BY <1>2
<1>4. Len(bytes) \in 1..bs /\ At(b) <= Len(f.data)
  BY <1>2, <1>3
<1>5. PutsBlock(f, w, b, bytes)
  BY <1>1, <1>4, BlockPut
<1> HIDE DEF w
<1>6. w \in Stream /\ Kept(f, w) /\ ~w.failed /\ Len(w.data) = Larger(l, p + k)
  BY <1>2, <1>5 DEF PutsBlock
<1>7. Len(w.data) = l
  BY <1>3, <1>6 DEF Larger
<1>8. Adjusted(w, g, n)
  BY <1>6, AdjustFacts
<1> HIDE DEF g
<1>9. /\ g \in Stream /\ Fits(g) /\ Kept(w, g) /\ ~g.failed /\ Len(g.data) = n
      /\ Len(g.meta) = 1 + Blocks(n)
  BY <1>8 DEF Adjusted, IsCut
<1>10. Kept(f, g)
  BY <1>1, <1>6, <1>9, KeptOn
<1>11. ASSUME NEW i \in 1..n PROVE g.data[i] = IF i > p THEN bytes[i - p] ELSE f.data[i]
  <2>1. i \in 1..l /\ i \in Nat /\ i <= p + k BY <1>3
  <2>2. g.data[i] = w.data[i] BY <1>7, <1>8, <2>1 DEF Adjusted, IsCut
  <2>3. w.data[i] = IF i > p /\ i <= p + k THEN bytes[i - p] ELSE f.data[i]
    BY <1>2, <1>5, <1>7, <2>1 DEF PutsBlock
  <2>4. QED BY <2>1, <2>2, <2>3
<1>12. CanDecrypt(g, b)
  <2>1. BlockLen(g, b) = Len(bytes)
    <3>0. At(b) <= Len(g.data) /\ Len(g.data) <= At(b) + bs /\ Len(g.data) \in Nat
      <4>1. p <= n /\ n <= p + s BY <1>3
      <4>2. QED BY <1>2, <1>9, <4>1
    <3>1. BlockLen(g, b) = Len(g.data) - At(b)
      BY <1>1, <3>0, BlockLenFacts
    <3>2. QED BY <1>2, <1>3, <1>9, <3>1
  <2>2. ASSUME NEW i \in 1..Len(bytes) PROVE g.data[At(b) + i] = bytes[i]
    <3>1. p + i \in 1..n /\ p + i > p /\ p + i - p = i
      <4>1. i \in 1..k BY <1>2
      <4>2. QED BY <1>3, <4>1
    <3>2. QED BY <1>2, <1>11, <3>1
  <2>3. Len(f.meta) \in Nat /\ Blocks(n) \in Nat BY <1>1, BlocksOf DEF Stream
  <2>4. b < Blocks(n)
    <3>1. At(b) < n BY <1>2, <1>3
    <3>2. QED BY <1>1, <3>1, BlocksOf
  <2>5. b + 2 <= 1 + Blocks(n) /\ b + 2 \in 1..(1 + Blocks(n))
    BY <1>1, <2>3, <2>4
  <2>6. Len(w.meta) = Larger(Len(f.meta), b + 2) /\ b + 2 \in 1..Len(w.meta) /\ b + 2 <= Len(w.meta)
    <3>1. Len(w.meta) = Larger(Len(f.meta), b + 2) BY <1>5 DEF PutsBlock
    <3>2. QED BY <1>1, <2>3, <3>1 DEF Larger
  <2>7. w.meta[b + 2] = bytes BY <1>5, <2>6 DEF PutsBlock
  <2>8. g.meta[b + 2] = bytes BY <1>8, <2>5, <2>6, <2>7 DEF Adjusted, IsCut
  <2>9. QED BY <1>9, <2>1, <2>2, <2>5, <2>8, MacFits
<1>13. ASSUME NEW c \in 0..max_block_number, c < f.intact PROVE CanDecrypt(g, c)
  <2>1. c \in Nat /\ CanDecrypt(f, c) BY <1>13, StreamAssumption DEF Sound, Authentic
  <2>2. CASE c = b
    BY <1>12, <2>2
  <2>3. CASE c < b
    <3>1. c # b BY <1>1, <2>1, <2>3
    <3>2. CanDecrypt(w, c) BY <1>1, <1>4, <1>5, <2>1, <3>1, OthersDecrypt
    <3>3. n <= Len(w.data) /\ At(b) <= n BY <1>2, <1>3, <1>7
    <3>4. QED BY <1>1, <1>6, <1>8, <2>1, <2>3, <3>2, <3>3, EarlierBlocks
  <2>4. CASE b < c
    <3>1. At(b) + bs <= At(c) /\ At(c) \in Nat BY <1>1, <2>1, <2>4, StartsApart, Start
    <3>2. Len(g.data) <= At(c) BY <1>2, <1>3, <1>9, <3>1
    <3>3. QED BY <1>9, <2>1, <3>2, EmptyDecrypts
  <2>5. QED BY <1>1, <2>1, <2>2, <2>3, <2>4
<1>14. ASSUME NEW i \in 1..n PROVE Val(g.data[i]) = Val(f.data[i]) /\ i <= Len(f.data)
  <2>1. i \in Nat /\ i <= l BY <1>3
  <2>2. CASE i > p
    <3>1. PICK j \in 1..(n - p) : j = i - p BY <1>3, <2>1, <2>2
    <3>2. p + j = i /\ j \in 1..Len(bytes) BY <1>2, <1>3, <2>1, <3>1
    <3>3. bytes[j] = Val(f.data[i]) BY <1>2, <3>1, <3>2
    <3>4. bytes[j] \in Bytes BY <3>2
    <3>5. g.data[i] = bytes[j] BY <1>11, <2>2, <3>1
    <3>6. Val(bytes[j]) = bytes[j] BY <3>4, ByteIsVal
    <3>7. QED BY <1>2, <2>1, <3>3, <3>5, <3>6
  <2>3. CASE ~(i > p)
    BY <1>2, <1>11, <2>1, <2>3
  <2>4. QED BY <2>2, <2>3
<1>15. Resizes(f, g, n)
  BY <1>9, <1>14 DEF Resizes
<1>16. g.intact = f.intact BY <1>10 DEF Kept
<1>17. QED BY <1>9, <1>10, <1>13, <1>15, <1>16 DEF ResizeDone, Sound, Authentic, g, w

(* Both ways of shrinking. *)
LEMMA ShrinkFacts ==
    ASSUME NEW f, Sound(f), ~f.failed, NEW n \in Nat, n < Len(f.data)
    PROVE  ResizeDone(f, BB!Shrink(f, n), n)
<1> DEFINE b == n \div bs
           r == n % bs
           old == ReadBlock(f, b)
           bytes == SubSeq(CutTo(old, m_block_size, 0), 1, r)
<1>1. f \in Stream /\ bs \in Nat /\ bs > 0 /\ Len(f.data) \in Nat
  BY BlockSize DEF Sound, Stream
<1>2. b \in Nat /\ At(b) <= n /\ n < At(b) + bs /\ r = n - At(b)
  BY BlockOf
<1>3. BB!Shrink(f, n) = AdjustLogicalSize(IF r = 0 THEN f ELSE IF ~CanDecrypt(f, b) THEN Failed(f)
                                          ELSE WriteBlock(f, b, bytes), n)
  BY SameOperators DEF BB!Shrink, bs
<1> HIDE DEF b, r
<1>4. At(b) \in Nat BY <1>2, Start
<1>5. r \in Nat /\ (r = 0 <=> n = At(b)) /\ r < bs
  BY <1>1, <1>2, <1>4
<1>6. CASE r = 0
  <2>1. BB!Shrink(f, n) = AdjustLogicalSize(f, At(b)) /\ n = At(b) BY <1>3, <1>5, <1>6
  <2>2. At(b) <= Len(f.data) BY <1>1, <1>4, <2>1
  <2>3. QED BY <1>2, <2>1, <2>2, ShrinkToBlock
<1>7. CASE r # 0 /\ ~CanDecrypt(f, b)
  <2>1. At(b) < n BY <1>1, <1>2, <1>4, <1>5, <1>7
  <2>4. BB!Shrink(f, n) = AdjustLogicalSize(Failed(f), n) BY <1>3, <1>7
  <2>5. Sound(Failed(f)) /\ Kept(f, Failed(f)) /\ Failed(f).failed /\ Failed(f).data = f.data
    BY FailedFacts
  <2>6. BB!Shrink(f, n) = Failed(f) BY <2>4, <2>5 DEF AdjustLogicalSize
  <2>7. Resizes(f, Failed(f), Len(f.data)) BY <1>1, <2>5, ResizesSelf DEF Resizes
  <2>8. n > At(f.intact)
    <3>1. PICK c \in Nat : c = f.intact /\ c <= max_block_number + 1 BY <1>1, IntactFacts
    <3>2. f.intact <= b
      <4>1. b \in 0..max_block_number => ~(b < c) BY <1>7, <3>1 DEF Sound, Authentic
      <4>2. QED BY <1>2, <3>1, <4>1, StreamAssumption
    <3>3. At(f.intact) \in Nat /\ At(f.intact) <= At(b) BY <1>1, <1>2, <3>2, IntactFacts
    <3>4. QED BY <1>4, <2>1, <3>3
  <2>9. Len(f.data) <= Len(f.data) /\ Len(f.data) <= Larger(n, Len(f.data)) BY <1>1 DEF Larger
  <2>10. QED BY <1>1, <2>5, <2>6, <2>7, <2>8, <2>9 DEF ResizeDone
<1>8. CASE r # 0 /\ CanDecrypt(f, b)
  <2>0. BlockLen(f, b) > 0
    <3>1. At(b) < n /\ At(b) < Len(f.data) BY <1>1, <1>2, <1>4, <1>5, <1>8
    <3>2. QED BY <1>1, <1>2, <3>1, BlockLenFacts
  <2>1. b \in 0..max_block_number
    <3>1. b <= max_block_number BY <1>1, <1>2, <1>8, <2>0, Decrypts
    <3>2. QED BY <1>2, <3>1, StreamAssumption
  <2>2. CanDecrypt(f, b) BY <1>8
  <2>3. BB!Shrink(f, n) = AdjustLogicalSize(WriteBlock(f, b, bytes), n) BY <1>3, <1>8, <2>2
  <2>4. old \in Seq(Bytes) /\ Len(old) = BlockLen(f, b) /\ BlockLen(f, b) \in Nat
        /\ \A i \in 1..BlockLen(f, b) : old[i] = Val(f.data[At(b) + i])
    <3> HIDE DEF old
    <3>1. BlockLen(f, b) \in Nat BY <1>1, <1>2, BlockLenFacts
    <3>2. QED BY <1>1, <1>2, <3>1, ReadBlockFacts DEF old
  <2>5. At(b) < n BY <1>1, <1>2, <1>4, <1>5, <1>8
  <2>6. r <= BlockLen(f, b)
    <3>1. PICK p \in Nat, l \in Nat, s \in Nat : p = At(b) /\ l = Len(f.data) /\ s = bs BY <1>1, <1>4
    <3>2. p \in Nat /\ l \in Nat /\ s \in Nat /\ r = n - p /\ n < l /\ p < n /\ r < s
      BY <1>2, <1>5, <2>5, <3>1
    <3>3. BlockLen(f, b) = IF p < l THEN Smaller(s, l - p) ELSE 0 BY <3>1 DEF BlockLen
    <3>4. QED BY <3>2, <3>3 DEF Smaller
  <2> HIDE DEF old
  <2> DEFINE c == CutTo(old, m_block_size, 0)
  <2>7. c \in Seq(Bytes) /\ IsCut(c, old, m_block_size, 0)
    <3>1. 0 \in Bytes /\ m_block_size \in Nat BY StreamAssumption
    <3>2. QED BY <2>4, <3>1, CutToFacts, Zenon
  <2>8. bytes = SubSeq(c, 1, r) OBVIOUS
  <2> HIDE DEF c, bytes
  <2>9. \A i \in 1..r : c[i] = Val(f.data[At(b) + i]) /\ c[i] \in Bytes
    <3> SUFFICES ASSUME NEW i \in 1..r PROVE c[i] = Val(f.data[At(b) + i]) /\ c[i] \in Bytes
      OBVIOUS
    <3>1. i \in 1..bs /\ i \in 1..BlockLen(f, b) /\ i <= Len(old)
      BY <1>1, <1>5, <2>4, <2>6
    <3>2. c[i] = old[i] BY <2>7, <3>1 DEF IsCut, bs
    <3>3. QED BY <2>4, <3>1, <3>2
  <2>10. bytes \in Seq(Bytes) /\ Len(bytes) = r /\ \A i \in 1..r : bytes[i] = c[i]
    <3>1. 1 \in Int /\ r \in Int /\ \A i \in 1..r : c[i] \in Bytes BY <1>5, <2>9
    <3>2. /\ bytes \in Seq(Bytes)
          /\ Len(bytes) = IF 1 <= r THEN r - 1 + 1 ELSE 0
          /\ \A i \in 1..(r - 1 + 1) : bytes[i] = c[1 + i - 1]
      BY <2>8, <3>1, SubSeqProperties
    <3>3. 1 <= r /\ r - 1 + 1 = r /\ \A i \in 1..r : 1 + i - 1 = i BY <1>5, <1>8
    <3>4. QED BY <3>2, <3>3
  <2>11. Len(bytes) = n - At(b) /\ \A i \in 1..(n - At(b)) : bytes[i] = Val(f.data[At(b) + i])
    BY <1>2, <2>9, <2>10
  <2>12. QED BY <1>2, <2>1, <2>3, <2>5, <2>10, <2>11, ShrinkInBlock
<1>9. QED BY <1>6, <1>7, <1>8

(* Filling with zeros makes the stream longer. *)
LEMMA FillResizes ==
    ASSUME NEW f \in Stream, NEW w \in Stream, NEW e \in Nat, NEW r \in Nat,
           Len(f.data) <= r, r <= e,
           Wrote(f, w, Len(f.data), Zeros(e - Len(f.data)), Len(f.data), r)
    PROVE  Resizes(f, w, r)
<1>1. Len(f.data) \in Nat BY DEF Stream
<1>2. PICK l \in Nat : l = Len(f.data) BY <1>1
<1>3. l \in Nat /\ l <= r BY <1>2
<1>4. Len(w.data) = Larger(l, r) BY <1>2 DEF Wrote
<1>5. Len(w.data) = r BY <1>3, <1>4 DEF Larger
<1>6. ASSUME NEW i \in 1..r PROVE Val(w.data[i]) = IF i <= l THEN Val(f.data[i]) ELSE 0
  <2>1. Val(w.data[i]) = IF i > l /\ i <= r THEN Zeros(e - l)[i - l] ELSE Val(f.data[i])
    BY <1>2, <1>5 DEF Wrote
  <2>2. CASE i <= l
    <3>1. ~(i > l) BY <1>3, <2>2
    <3>2. QED BY <2>1, <2>2, <3>1
  <2>3. CASE ~(i <= l)
    <3>1. i > l /\ i <= r /\ i - l \in 1..(e - l) BY <1>3, <2>3
    <3>2. Zeros(e - l)[i - l] = 0 BY <3>1 DEF Zeros
    <3>3. QED BY <2>1, <2>3, <3>1, <3>2
  <2>4. QED BY <2>2, <2>3
<1>7. QED BY <1>2, <1>5, <1>6 DEF Resizes

(* A stream that ends with a block, or stays as long as it is, is made longer
   by adjust_logical_size: the new blocks are holes.                         *)
LEMMA AdjustGrows ==
    ASSUME NEW w, Sound(w), ~w.failed, NEW n \in Nat, Len(w.data) <= n, Len(w.data) > 0,
           NEW b \in Nat, n = Len(w.data) \/ Len(w.data) = At(b)
    PROVE  /\ Adjusted(w, AdjustLogicalSize(w, n), n)
           /\ Sound(AdjustLogicalSize(w, n))
<1> DEFINE g == AdjustLogicalSize(w, n)
<1>1. w \in Stream /\ Fits(w) /\ Len(w.data) \in Nat /\ Len(w.meta) \in Nat BY DEF Sound, Stream
<1>2. Adjusted(w, g, n) BY <1>1, AdjustFacts
<1> HIDE DEF g
<1>3. g \in Stream /\ Fits(g) /\ Len(g.data) = n /\ Len(g.meta) = 1 + Blocks(n)
  BY <1>2 DEF Adjusted, IsCut
<1>4. ASSUME NEW c \in 0..max_block_number, c < w.intact PROVE CanDecrypt(g, c)
  <2>1. c \in Nat /\ c <= max_block_number /\ CanDecrypt(w, c) BY <1>4, StreamAssumption DEF Sound, Authentic
  <2>2. At(c) \in Nat /\ At(b) \in Nat /\ bs \in Nat /\ bs > 0 BY <2>1, Start, BlockSize
  <2>3. CASE n = Len(w.data)
    <3>1. BlockLen(g, c) = BlockLen(w, c) BY <1>3, <2>3 DEF BlockLen
    <3>2. QED BY <1>1, <1>2, <2>1, <3>1, AdjustKeeps
  <2>4. CASE Len(w.data) = At(b) /\ c < b
    <3>1. At(c) + bs <= At(b) BY <2>1, <2>4, StartsApart
    <3>2. At(c) + bs <= Len(w.data) /\ At(c) + bs <= Len(g.data) BY <1>1, <1>3, <2>2, <2>4, <3>1
    <3>3. BlockLen(g, c) = bs /\ BlockLen(w, c) = bs BY <1>1, <1>3, <2>1, <3>2, BlockLenFacts
    <3>4. QED BY <1>1, <1>2, <2>1, <3>3, AdjustKeeps
  <2>5. CASE Len(w.data) = At(b) /\ b <= c
    <3>1. At(b) <= At(c)
      <4>1. CASE c = b BY <2>2, <4>1
      <4>2. CASE b < c
        <5>1. At(b) + bs <= At(c) BY <2>1, <4>2, StartsApart
        <5>2. QED BY <2>2, <5>1
      <4>3. QED BY <2>1, <2>5, <4>1, <4>2
    <3>2. CASE n <= At(c)
      BY <1>3, <2>1, <3>2, EmptyDecrypts
    <3>3. CASE At(c) < n
      <4>1. Len(w.meta) = 1 + b
        <5>1. w.data # <<>> BY <1>1
        <5>0. ~(Len(w.data) >= At(w.intact))
          <6>1. w.intact \in Nat BY <1>1, IntactFacts
          <6>2. b < w.intact BY <1>4, <2>1, <2>5, <6>1
          <6>3. At(b) + bs <= At(w.intact) /\ At(w.intact) \in Nat BY <6>1, <6>2, StartsApart, Start
          <6>4. QED BY <2>2, <2>5, <6>3
        <5>2. Len(w.meta) = 1 + Blocks(Len(w.data)) BY <1>1, <5>0, <5>1 DEF Fits
        <5>3. Blocks(At(b)) = b BY BlocksOf
        <5>4. QED BY <2>5, <5>2, <5>3
      <4>2. Blocks(n) \in Nat /\ c < Blocks(n) BY <2>1, <3>3, BlocksOf
      <4>3. c + 2 \in 1..(1 + Blocks(n)) /\ c + 2 <= Len(g.meta) /\ ~(c + 2 <= Len(w.meta))
        BY <1>3, <2>1, <2>5, <4>1, <4>2
      <4>4. g.meta[c + 2] = NoMac BY <1>2, <4>3 DEF Adjusted, IsCut
      <4>5. ASSUME NEW i \in 1..BlockLen(g, c) PROVE g.data[At(c) + i] = Hole
        <5>0. BlockLen(g, c) \in Nat BY <1>3, <2>1, BlockLenFacts
        <5>1. At(c) + i \in 1..n BY <1>3, <2>1, BlockLenFacts
        <5>2. ~(At(c) + i <= Len(w.data))
          <6>1. i \in Nat /\ i >= 1 BY <5>0
          <6>2. PICK p \in Nat, q \in Nat : p = At(b) /\ q = At(c) BY <2>2
          <6>3. QED BY <2>5, <3>1, <6>1, <6>2
        <5>3. QED BY <1>2, <5>1, <5>2 DEF Adjusted, IsCut
      <4>6. QED BY <1>3, <2>1, <4>3, <4>4, <4>5, Decrypts
    <3>4. QED BY <2>2, <3>2, <3>3
  <2>6. QED BY <2>1, <2>3, <2>4, <2>5
<1>5. g.intact = w.intact BY <1>2 DEF Adjusted, Kept
<1>6. QED BY <1>2, <1>3, <1>4, <1>5 DEF Sound, Authentic, g

(* Growing, with and without sparse files. *)
LEMMA GrowFacts ==
    ASSUME NEW f, Sound(f), ~f.failed, NEW n \in Nat, Len(f.data) < n
    PROVE  ResizeDone(f, BB!Grow(f, n), n)
<1> DEFINE l == Len(f.data)
           b == l \div bs
           d == n \div bs
           e == IF ~f.sparse \/ b = d THEN n ELSE At(b + 1)
           z == Zeros(e - l)
           w == BB!WriteRange(f, l, z)
<1>1. f \in Stream /\ l \in Nat /\ bs \in Nat /\ bs > 0 BY BlockSize DEF Sound, Stream
<1> HIDE DEF l
<1>1a. l = Len(f.data) /\ l < n BY DEF l
<1>2. /\ b \in Nat /\ At(b) <= l /\ l < At(b) + bs /\ d \in Nat /\ At(d) <= n /\ n < At(d) + bs
  BY <1>1, BlockOf
<1>3. BB!Grow(f, n) = AdjustLogicalSize(BB!ZeroFill(f, l, e), n)
  <2>1. (b + 1) * m_block_size = At(b + 1) BY DEF At
  <2>2. QED BY <2>1 DEF BB!Grow, DataSize, bs, l
<1> HIDE DEF b, d
<1>4. At(b) \in Nat /\ At(d) \in Nat /\ At(b + 1) = At(b) + bs /\ b + 1 \in Nat
  BY <1>2, NextStart, Start
<1>5. e \in Nat /\ l < e /\ e <= n
  <2>1. CASE e = n BY <1>1a, <2>1
  <2>2. CASE e # n
    <3>1. e = At(b + 1) /\ b # d BY <2>2
    <3>2. ~(d < b)
      <4>1. d < b => At(d) + bs <= At(b) BY <1>2, StartsApart
      <4>2. QED BY <1>1, <1>1a, <1>2, <1>4, <4>1
    <3>3. b < d BY <1>2, <3>1, <3>2
    <3>4. At(b) + bs <= At(d) BY <1>2, <3>3, StartsApart
    <3>5. QED BY <1>1, <1>2, <1>4, <3>1, <3>4
  <2>3. QED BY <2>1, <2>2
<1>5a. e = n \/ e = At(b + 1) OBVIOUS
<1> HIDE DEF e
<1>6. z \in Seq(Bytes) /\ Len(z) = e - l
  <2>1. e - l \in Nat BY <1>1, <1>5
  <2>2. 0 \in Bytes BY StreamAssumption
  <2>3. z \in [1..(e - l) -> Bytes] BY <2>2 DEF Zeros
  <2>4. QED BY <2>1, <2>3
<1>7. BB!ZeroFill(f, l, e) = w BY <1>5, SameOperators DEF BB!ZeroFill
<1>8. l + Len(z) = e BY <1>1, <1>5, <1>6
<1>9. RangeWritten(f, w, l, z)
  <2>1. l <= Len(f.data) BY <1>1, <1>1a
  <2> HIDE DEF z
  <2>2. QED BY <1>1, <1>6, <2>1, WriteRangeFacts
<1> HIDE DEF w
<1>10. Sound(w) /\ Kept(f, w) /\ w \in Stream BY <1>9 DEF RangeWritten, Sound
<1>11. PICK r \in l..e : Wrote(f, w, l, z, l, r) /\ (~w.failed => r = e)
  BY <1>8, <1>9 DEF RangeWritten
<1>12. r \in Nat /\ l <= r /\ r <= e BY <1>1, <1>5, <1>11
<1>13. Resizes(f, w, r)
  <2>1. Wrote(f, w, Len(f.data), Zeros(e - Len(f.data)), Len(f.data), r) BY <1>1a, <1>11
  <2>2. Len(f.data) <= r BY <1>1a, <1>12
  <2>3. QED BY <1>1, <1>5, <1>10, <1>12, <2>1, <2>2, FillResizes
<1>14. w.failed => e > At(f.intact)
  BY <1>8, <1>9 DEF RangeWritten
<1>15. CASE w.failed
  <2>1. BB!Grow(f, n) = w BY <1>3, <1>7, <1>15 DEF AdjustLogicalSize
  <2>2. At(f.intact) \in Nat BY <1>1, IntactFacts
  <2>3. n > At(f.intact) BY <1>5, <1>14, <1>15, <2>2
  <2>4. Len(f.data) <= r /\ r <= Larger(n, Len(f.data)) BY <1>1, <1>1a, <1>5, <1>12 DEF Larger
  <2>5. QED BY <1>10, <1>12, <1>13, <1>15, <2>1, <2>3, <2>4 DEF ResizeDone
<1>16. CASE ~w.failed
  <2> DEFINE g == AdjustLogicalSize(w, n)
  <2>1. BB!Grow(f, n) = g BY <1>3, <1>7
  <2>2. Len(w.data) = e BY <1>11, <1>13, <1>16 DEF Resizes
  <2>3. Len(w.data) <= n /\ Len(w.data) > 0 BY <1>1, <1>5, <2>2
  <2>4. n = Len(w.data) \/ Len(w.data) = At(b + 1) BY <1>5a, <2>2
  <2>5. Adjusted(w, g, n) /\ Sound(g) BY <1>4, <1>10, <1>16, <2>3, <2>4, AdjustGrows
  <2> HIDE DEF g
  <2>6. Kept(w, g) /\ ~g.failed /\ g \in Stream BY <2>5 DEF Adjusted
  <2>7. Kept(f, g) BY <1>1, <1>10, <2>6, KeptOn
  <2>8. ASSUME NEW i \in 1..n
        PROVE  Val(g.data[i]) = IF i <= Len(f.data) THEN Val(f.data[i]) ELSE 0
    <3>1. g.data[i] = IF i <= e THEN w.data[i] ELSE Hole
      BY <2>2, <2>5 DEF Adjusted, IsCut
    <3>2. CASE i <= e
      <4>1. i \in 1..r BY <1>5, <1>11, <1>16, <3>2
      <4>2. QED BY <1>13, <3>1, <3>2, <4>1 DEF Resizes
    <3>3. CASE ~(i <= e)
      <4>1. ~(i <= Len(f.data)) BY <1>1, <1>1a, <1>5, <3>3
      <4>2. Val(Hole) = 0 BY DEF Val
      <4>3. QED BY <3>1, <3>3, <4>1, <4>2
    <3>4. QED BY <3>2, <3>3
  <2>9. Resizes(f, g, n)
    <3>1. Len(g.data) = n BY <2>5 DEF Adjusted, IsCut
    <3>2. QED BY <2>8, <3>1 DEF Resizes
  <2>10. QED BY <2>1, <2>5, <2>6, <2>7, <2>9 DEF ResizeDone
<1>17. QED BY <1>15, <1>16

(* unchecked_resize, whichever way it goes. *)
LEMMA ResizeFacts ==
    ASSUME NEW f, Sound(f), ~f.failed, NEW n \in Nat
    PROVE  ResizeDone(f, BB!Resize(f, n), n)
<1>1. f \in Stream /\ Len(f.data) \in Nat BY DEF Sound, Stream
<1>2. BB!Resize(f, n) = IF n = Len(f.data) THEN f ELSE IF n < Len(f.data) THEN BB!Shrink(f, n) ELSE BB!Grow(f, n)
  BY DEF BB!Resize, DataSize
<1>3. CASE n = Len(f.data)
  <2>1. BB!Resize(f, n) = f BY <1>2, <1>3
  <2>2. Resizes(f, f, n) /\ Kept(f, f) BY <1>1, <1>3, ResizesSelf, KeptSelf
  <2>3. QED BY <2>1, <2>2 DEF ResizeDone
<1>4. CASE n < Len(f.data)
  <2>1. n # Len(f.data) BY <1>1, <1>4
  <2>2. BB!Resize(f, n) = BB!Shrink(f, n) BY <1>2, <1>4, <2>1
  <2>3. QED BY <1>4, <2>2, ShrinkFacts
<1>5. CASE Len(f.data) < n
  <2>1. n # Len(f.data) /\ ~(n < Len(f.data)) BY <1>1, <1>5
  <2>2. BB!Resize(f, n) = BB!Grow(f, n) BY <1>2, <2>1
  <2>3. QED BY <1>5, <2>2, GrowFacts
<1>6. QED BY <1>1, <1>3, <1>4, <1>5

-----------------------------------------------------------------------------
(* Byte i of f, and byte i after input was written at off. *)
Old(f, i) == IF i <= Len(f.data) THEN Val(f.data[i]) ELSE 0
Over(f, off, input, i) == IF i > off /\ i <= off + Len(input) THEN input[i - off] ELSE Old(f, i)

(* What a call of write leaves. *)
WriteDone(f, g, off, input) ==
    /\ Sound(g) /\ Kept(f, g)
    /\ Len(f.data) <= Len(g.data)
    /\ Len(g.data) <= Larger(Len(f.data), off + Len(input))
    /\ ~g.failed => Len(g.data) = Larger(Len(f.data), off + Len(input))
    /\ \A i \in 1..Len(g.data) : \/ Val(g.data[i]) = Over(f, off, input, i)
                                 \/ g.failed /\ Val(g.data[i]) = Old(f, i)
    /\ g.failed => off + Len(input) > At(f.intact)

(* BlockBasedStream::write does that: it resizes first where it must. *)
LEMMA WriteFacts ==
    ASSUME NEW f, Sound(f), ~f.failed, NEW off \in Nat, NEW input \in Seq(Bytes)
    PROVE  WriteDone(f, BB!Write(f, off, input), off, input)
<1> DEFINE h == IF off > Len(f.data) THEN BB!Resize(f, off) ELSE f
           g == BB!Write(f, off, input)
<1>1. f \in Stream /\ Len(f.data) \in Nat /\ Len(input) \in Nat BY DEF Sound, Stream
<1>2. g = IF h.failed THEN h ELSE BB!WriteRange(h, off, input)
  BY DEF BB!Write, DataSize
<1>3. PICK l \in Nat, fin \in Nat, m \in Nat :
         l = Len(f.data) /\ fin = off + Len(input) /\ m = At(f.intact)
  <2>1. At(f.intact) \in Nat BY <1>1, IntactFacts
  <2>2. QED BY <1>1, <2>1
<1>4. l \in Nat /\ fin \in Nat /\ off <= fin /\ m \in Nat BY <1>1, <1>3
<1>5. /\ Sound(h) /\ Kept(f, h)
      /\ \E k \in Nat : /\ Resizes(f, h, k)
                        /\ ~h.failed => k = Larger(off, l)
                        /\ h.failed => l <= k /\ k <= off /\ off > m
  <2>1. CASE off > Len(f.data)
    <3>1. h = BB!Resize(f, off) BY <2>1
    <3>2. ResizeDone(f, h, off) BY <3>1, ResizeFacts
    <3> HIDE DEF h
    <3>3. PICK k \in Nat : /\ Resizes(f, h, k)
                           /\ ~h.failed => k = off
                           /\ h.failed => Len(f.data) <= k /\ k <= Larger(off, Len(f.data))
      BY <3>2 DEF ResizeDone
    <3>4. Larger(off, l) = off BY <1>3, <1>4, <2>1 DEF Larger
    <3>5. h.failed => off > m BY <1>3, <3>2 DEF ResizeDone
    <3>6. QED BY <1>3, <3>2, <3>3, <3>4, <3>5 DEF ResizeDone
  <2>2. CASE ~(off > Len(f.data))
    <3>1. h = f BY <2>2
    <3>2. Larger(off, l) = l BY <1>3, <1>4, <2>2 DEF Larger
    <3>3. Resizes(f, f, l) /\ Kept(f, f) BY <1>1, <1>3, ResizesSelf, KeptSelf
    <3>4. QED BY <1>3, <3>1, <3>2, <3>3
  <2>3. QED BY <2>1, <2>2
<1> HIDE DEF g, h
<1>6. PICK k \in Nat : /\ Resizes(f, h, k)
                       /\ ~h.failed => k = Larger(off, l)
                       /\ h.failed => l <= k /\ k <= off /\ off > m
  BY <1>5
<1>7. Len(h.data) = k /\ h \in Stream /\ \A i \in 1..k : Val(h.data[i]) = Old(f, i)
  BY <1>5, <1>6 DEF Resizes, Old, Sound
<1>8. CASE h.failed
  <2>1. g = h BY <1>2, <1>8
  <2>2. l <= k /\ k <= Larger(l, fin) /\ fin > m BY <1>4, <1>6, <1>8 DEF Larger
  <2>3. QED BY <1>3, <1>5, <1>7, <1>8, <2>1, <2>2 DEF WriteDone, g
<1>9. CASE ~h.failed
  <2>1. g = BB!WriteRange(h, off, input) BY <1>2, <1>9
  <2>2. k = Larger(off, l) /\ off <= k /\ l <= k BY <1>4, <1>6, <1>9 DEF Larger
  <2>3. off <= Len(h.data) BY <1>7, <2>2
  <2>4. RangeWritten(h, g, off, input) BY <1>5, <1>9, <2>1, <2>3, WriteRangeFacts
  <2>5. Sound(g) /\ Kept(h, g) /\ g \in Stream BY <2>4 DEF RangeWritten, Sound
  <2>6. Kept(f, g) BY <1>1, <1>5, <1>7, <2>5, KeptOn
  <2>7. g.failed => fin > m BY <1>3, <1>5, <2>4 DEF RangeWritten, Kept
  <2>8. PICK r \in off..fin : Wrote(h, g, off, input, off, r) /\ (~g.failed => r = fin)
    BY <1>3, <2>4 DEF RangeWritten
  <2>9. r \in Nat /\ off <= r /\ r <= fin BY <1>4, <2>8
  <2>10. Len(g.data) = Larger(k, r) BY <1>7, <2>8 DEF Wrote
  <2>11. /\ l <= Larger(k, r) /\ Larger(k, r) <= Larger(l, fin)
         /\ r = fin => Larger(k, r) = Larger(l, fin)
    BY <1>4, <2>2, <2>9 DEF Larger
  <2>12. ASSUME NEW i \in 1..Len(g.data)
         PROVE  \/ Val(g.data[i]) = Over(f, off, input, i)
                \/ g.failed /\ Val(g.data[i]) = Old(f, i)
    <3>0. i \in Nat /\ i >= 1 /\ (i <= k \/ i <= r) BY <1>6, <2>9, <2>10 DEF Larger
    <3>1. Val(g.data[i]) = IF i > off /\ i <= r THEN input[i - off] ELSE Val(h.data[i])
      BY <2>8 DEF Wrote
    <3>2. Over(f, off, input, i) = IF i > off /\ i <= fin THEN input[i - off] ELSE Old(f, i)
      BY <1>3 DEF Over
    <3>3. CASE i > off /\ i <= r
      <4>1. i <= fin BY <1>4, <2>9, <3>0, <3>3
      <4>2. QED BY <3>1, <3>2, <3>3, <4>1
    <3>4. CASE ~(i > off /\ i <= r)
      <4>1. i \in 1..k BY <1>6, <2>2, <2>9, <3>0, <3>4
      <4>2. Val(g.data[i]) = Old(f, i) BY <1>7, <3>1, <3>4, <4>1
      <4>3. CASE g.failed BY <4>2, <4>3
      <4>4. CASE ~g.failed
        <5>1. ~(i > off /\ i <= fin) BY <2>8, <3>4, <4>4
        <5>2. QED BY <3>2, <4>2, <5>1
      <4>5. QED BY <4>3, <4>4
    <3>5. QED BY <3>3, <3>4
  <2>13. QED BY <1>3, <2>5, <2>6, <2>7, <2>8, <2>10, <2>11, <2>12 DEF WriteDone, g
<1>10. QED BY <1>8, <1>9

-----------------------------------------------------------------------------
(* The inductive invariant. *)
IInv ==
    /\ Sound(Files)
    /\ opened \in BOOLEAN
    /\ CleanMetaIsCovered
    /\ header \in Headers \cup {NoHeader}
    /\ header # NoHeader => meta # <<>> /\ meta[1] = header

(* Soundness is of the two files only. *)
LEMMA SameSound ==
    ASSUME NEW f, Sound(f), NEW g \in Stream, g.data = f.data, g.meta = f.meta, g.intact = f.intact
    PROVE  Sound(g)
<1>1. Fits(g) BY DEF Sound, Fits
<1>2. Authentic(g) BY SameDecrypts DEF Sound, Authentic
<1>3. QED BY <1>1, <1>2 DEF Sound

(* The fields of the two files, *)
LEMMA FilesFacts ==
    /\ Files.data = data /\ Files.meta = meta /\ Files.covered = covered
    /\ Files.dirty = dirty /\ Files.sparse = sparse /\ Files.intact = intact /\ Files.failed = FALSE
    /\ Files \in Stream <=> /\ data \in Seq(Cell) /\ meta \in Seq(MetaCell)
                            /\ covered \in BOOLEAN /\ dirty \in BOOLEAN /\ sparse \in BOOLEAN
                            /\ intact \in 0..(max_block_number + 1)
BY DEF Files, Stream

(* and after a step. *)
LEMMA FilesFactsNext ==
    /\ Files'.data = data' /\ Files'.meta = meta' /\ Files'.covered = covered'
    /\ Files'.dirty = dirty' /\ Files'.sparse = sparse' /\ Files'.intact = intact' /\ Files'.failed = FALSE
    /\ Files' \in Stream <=> /\ data' \in Seq(Cell) /\ meta' \in Seq(MetaCell)
                             /\ covered' \in BOOLEAN /\ dirty' \in BOOLEAN /\ sparse' \in BOOLEAN
                             /\ intact' \in 0..(max_block_number + 1)
BY DEF Files, Stream

(* An empty stream satisfies it. *)
LEMMA InitIInv ==
    Init => IInv
<1> SUFFICES ASSUME Init PROVE IInv
  OBVIOUS
<1>1. data = <<>> /\ meta = <<>> /\ covered = TRUE /\ dirty = FALSE /\ sparse \in BOOLEAN
  BY DEF Init
<1>1a. data \in Seq(Cell) /\ meta \in Seq(MetaCell) BY <1>1
<1>1b. covered \in BOOLEAN /\ dirty \in BOOLEAN BY <1>1
<1>1c. intact \in 0..(max_block_number + 1) BY StreamAssumption DEF Init
<1>2. Files \in Stream BY <1>1, <1>1a, <1>1b, <1>1c, FilesFacts, Zenon
<1>3. Fits(Files) BY <1>1, FilesFacts DEF Fits
<1>4. ASSUME NEW b \in 0..max_block_number PROVE CanDecrypt(Files, b)
  <2>1. b \in Nat BY StreamAssumption
  <2>2. Len(Files.data) = 0 BY <1>1, FilesFacts
  <2>3. At(b) \in Nat BY <2>1, Start
  <2>4. Len(Files.data) <= At(b) BY <2>2, <2>3
  <2>5. QED BY <1>2, <2>1, <2>4, EmptyDecrypts
<1>5. Sound(Files) BY <1>2, <1>3, <1>4 DEF Sound, Authentic
<1>6. opened \in BOOLEAN /\ CleanMetaIsCovered /\ header = NoHeader
  BY <1>1 DEF Init, CleanMetaIsCovered
<1>7. QED BY <1>5, <1>6 DEF IInv

(* A call that changes the contents. *)
LEMMA ChangesIInv ==
    ASSUME IInv, NEW call, NEW g, Sound(g), Kept(Files, g), Changes(call, g)
    PROVE  IInv'
<1>1. /\ opened /\ data' = g.data /\ meta' = g.meta /\ covered' = g.covered /\ dirty' = g.dirty
      /\ opened' = opened /\ header' = header /\ sparse' = sparse /\ intact' = intact
  BY DEF Changes
<1>2. g \in Stream /\ Files \in Stream BY DEF Sound, IInv
<1>3. g.data \in Seq(Cell) /\ g.meta \in Seq(MetaCell) /\ g.covered \in BOOLEAN /\ g.dirty \in BOOLEAN
  BY <1>2 DEF Stream
<1>4. /\ sparse \in BOOLEAN /\ dirty \in BOOLEAN /\ covered \in BOOLEAN
      /\ intact \in 0..(max_block_number + 1)
  BY <1>2, FilesFacts
<1>5. Files' \in Stream BY <1>1, <1>3, <1>4, FilesFactsNext
<1>6. Files'.data = g.data /\ Files'.meta = g.meta /\ Files'.intact = g.intact
  BY <1>1, FilesFacts, FilesFactsNext DEF Kept
<1> DEFINE h == Files'
<1>7. Sound(h)
  <2>1. h \in Stream /\ h.data = g.data /\ h.meta = g.meta /\ h.intact = g.intact BY <1>5, <1>6
  <2> HIDE DEF h
  <2>2. QED BY <2>1, SameSound
<1>8. Sound(Files)' BY <1>7 DEF Sound, Authentic, Fits, CanDecrypt, StoredBlock
<1>9. CleanMetaIsCovered'
  <2>1. g.dirty \/ (~dirty /\ g.covered = covered) BY FilesFacts DEF Kept
  <2>2. QED BY <1>1, <1>3, <1>4, <2>1 DEF IInv, CleanMetaIsCovered
<1>10. header # NoHeader => g.meta # <<>> /\ g.meta[1] = header
  BY FilesFacts DEF Kept, IInv
<1>11. QED BY <1>1, <1>8, <1>9, <1>10 DEF IInv

(* write_header puts the header before the IVs and MACs. *)
LEMMA HeaderIInv ==
    ASSUME IInv, NEW h \in Headers, write_header(h)
    PROVE  IInv'
<1>1. /\ opened /\ meta' = PutAt(meta, 0, <<h>>, NoMac) /\ covered' = FALSE /\ dirty' = TRUE
      /\ header' = h /\ data' = data /\ opened' = opened /\ sparse' = sparse /\ intact' = intact
  BY DEF write_header
<1>2. Sound(Files) /\ Files \in Stream BY DEF IInv, Sound
<1>3. /\ data \in Seq(Cell) /\ meta \in Seq(MetaCell) /\ sparse \in BOOLEAN
      /\ intact \in 0..(max_block_number + 1)
  BY <1>2, FilesFacts
<1>4. <<h>> \in Seq(MetaCell) /\ NoMac \in MetaCell /\ Len(<<h>>) = 1 /\ <<h>>[1] = h
  BY DEF MetaCell, NoMac
<1>5. meta' \in Seq(MetaCell) /\ IsPut(meta', meta, 0, <<h>>, NoMac)
  <2>1. 0 \in Nat OBVIOUS
  <2>2. QED BY <1>1, <1>3, <1>4, <2>1, PutAtFacts, Zenon
<1>6. Len(meta) \in Nat BY <1>3
<1>7. Len(meta') = Larger(Len(meta), 1)
      /\ \A i \in 1..Larger(Len(meta), 1) : meta'[i] = IF i = 1 THEN h ELSE meta[i]
  <2>1. 0 + Len(<<h>>) = 1 BY <1>4
  <2>2. Len(meta') = Larger(Len(meta), 1) BY <1>5, <2>1 DEF IsPut
  <2>3. ASSUME NEW i \in 1..Larger(Len(meta), 1)
        PROVE  meta'[i] = IF i = 1 THEN h ELSE meta[i]
    <3>1. meta'[i] = IF i > 0 /\ i <= 0 + Len(<<h>>) THEN <<h>>[i - 0]
                     ELSE IF i <= Len(meta) THEN meta[i] ELSE NoMac
      BY <1>5, <2>1 DEF IsPut
    <3>2. i \in Nat /\ i >= 1 /\ (i # 1 => i <= Len(meta)) BY <1>6 DEF Larger
    <3>3. CASE i = 1 BY <1>4, <2>1, <3>1, <3>3
    <3>4. CASE i # 1
      <4>1. ~(i <= 0 + Len(<<h>>)) BY <2>1, <3>2, <3>4
      <4>2. QED BY <3>1, <3>2, <3>4, <4>1
    <3>5. QED BY <3>3, <3>4
  <2>4. QED BY <2>2, <2>3
<1>8. Files' \in Stream BY <1>1, <1>3, <1>5, FilesFactsNext
<1> DEFINE g == Files'
           f == Files
<1>9. /\ g \in Stream /\ g.data = f.data /\ g.meta = meta' /\ f.meta = meta /\ f.data = data /\ f \in Stream /\ Sound(f)
      /\ g.intact = f.intact
  BY <1>1, <1>2, <1>8, FilesFacts, FilesFactsNext
<1> HIDE DEF f, g
<1>10. Fits(g)
  <2>1. CASE f.meta = <<>> /\ f.data = <<>>
    <3>1. Len(meta) = 0 /\ Len(g.data) = 0 BY <1>9, <2>1
    <3>2. Len(meta') = 1 BY <1>7, <3>1 DEF Larger
    <3>3. Blocks(0) = 0 BY BlocksOf
    <3>4. QED BY <1>9, <3>1, <3>2, <3>3 DEF Fits
  <2>2. CASE Len(f.meta) = 1 + Blocks(Len(f.data))
    <3>1. Blocks(Len(f.data)) \in Nat
      <4>1. Len(f.data) \in Nat BY <1>3, <1>9
      <4>2. QED BY <4>1, BlocksOf
    <3>2. Len(meta) >= 1 BY <1>9, <2>2, <3>1
    <3>3. Len(meta') = Len(meta) BY <1>6, <1>7, <3>2 DEF Larger
    <3>4. QED BY <1>9, <2>2, <3>3 DEF Fits
  <2>3. CASE Len(f.meta) > 1 + Blocks(Len(f.data)) /\ Len(f.data) >= At(f.intact)
    <3>1. Blocks(Len(f.data)) \in Nat
      <4>1. Len(f.data) \in Nat BY <1>3, <1>9
      <4>2. QED BY <4>1, BlocksOf
    <3>2. Len(meta) >= 1 BY <1>6, <1>9, <2>3, <3>1
    <3>3. Len(meta') = Len(meta) BY <1>6, <1>7, <3>2 DEF Larger
    <3>4. QED BY <1>9, <2>3, <3>3 DEF Fits
  <2>4. QED BY <1>9, <2>1, <2>2, <2>3 DEF Sound, Fits
<1>11. ASSUME NEW b \in 0..max_block_number, b < g.intact PROVE CanDecrypt(g, b)
  <2>1. b \in Nat /\ CanDecrypt(f, b) BY <1>9, <1>11, StreamAssumption DEF Sound, Authentic
  <2>2. BlockLen(g, b) = BlockLen(f, b) BY <1>9 DEF BlockLen
  <2>3. ASSUME b + 2 <= Len(f.meta) PROVE b + 2 <= Len(g.meta) /\ g.meta[b + 2] = f.meta[b + 2]
    <3>1. b + 2 <= Len(meta) BY <1>9, <2>3
    <3>2. b + 2 \in 1..Larger(Len(meta), 1) /\ b + 2 # 1 /\ b + 2 <= Larger(Len(meta), 1)
      BY <1>6, <2>1, <3>1 DEF Larger
    <3>3. QED BY <1>7, <1>9, <3>2
  <2>4. QED BY <1>9, <2>1, <2>2, <2>3, StillDecrypts
<1>12. Sound(g) BY <1>9, <1>10, <1>11 DEF Sound, Authentic
<1>13. Sound(Files)' BY <1>12 DEF g, Sound, Authentic, Fits, CanDecrypt, StoredBlock
<1>14. meta' # <<>> /\ meta'[1] = h
  <2>1. 1 \in 1..Larger(Len(meta), 1) /\ Larger(Len(meta), 1) > 0 BY <1>6 DEF Larger
  <2>2. Len(meta') > 0 BY <1>7, <2>1
  <2>3. meta' # <<>> BY <2>2
  <2>4. QED BY <1>7, <2>1, <2>3
<1>15. QED BY <1>1, <1>13, <1>14 DEF IInv, CleanMetaIsCovered

(* A step that leaves the two files alone. *)
LEMMA QuietIInv ==
    ASSUME IInv, UNCHANGED <<data, meta, header, sparse, intact>>,
           covered' \in BOOLEAN, dirty' \in BOOLEAN, opened' \in BOOLEAN, CleanMetaIsCovered'
    PROVE  IInv'
<1>1. Sound(Files) /\ Files \in Stream BY DEF IInv, Sound
<1>2. /\ data \in Seq(Cell) /\ meta \in Seq(MetaCell) /\ sparse \in BOOLEAN
      /\ intact \in 0..(max_block_number + 1)
  BY <1>1, FilesFacts
<1>3. Files' \in Stream BY <1>2, FilesFactsNext
<1> DEFINE g == Files'
           f == Files
<1>4. g \in Stream /\ g.data = f.data /\ g.meta = f.meta /\ g.intact = f.intact /\ Sound(f)
  BY <1>1, <1>3, FilesFacts, FilesFactsNext
<1> HIDE DEF f, g
<1>5. Sound(g) BY <1>4, SameSound
<1>6. Sound(Files)' BY <1>5 DEF g, Sound, Authentic, Fits, CanDecrypt, StoredBlock
<1>7. QED BY <1>6 DEF IInv

(* What cutting the data file alone to b blocks leaves of a sound stream. *)
LEMMA CutSound ==
    ASSUME NEW f, Sound(f), NEW b \in Nat, At(b) < Len(f.data), NEW g \in Stream,
           g.data = CutTo(f.data, At(b), Hole), g.meta = f.meta, g.intact = Smaller(f.intact, b)
    PROVE  Sound(g)
<1>1. /\ f \in Stream /\ Fits(f) /\ f.data \in Seq(Cell) /\ Len(f.data) \in Nat /\ Len(f.meta) \in Nat
      /\ Hole \in Cell /\ At(b) \in Nat
  <2>1. f \in Stream /\ Fits(f) BY DEF Sound
  <2>2. f.data \in Seq(Cell) /\ Len(f.data) \in Nat /\ Len(f.meta) \in Nat BY <2>1 DEF Stream
  <2>3. Hole \in Cell BY DEF Cell
  <2>4. QED BY <2>1, <2>2, <2>3, Start
<1>2. Len(g.data) = At(b) /\ \A i \in 1..At(b) : g.data[i] = IF i <= Len(f.data) THEN f.data[i] ELSE Hole
  <2>1. IsCut(g.data, f.data, At(b), Hole) BY <1>1, CutToFacts, Zenon
  <2>2. QED BY <2>1 DEF IsCut
<1>3. f.intact \in Nat /\ g.intact \in Nat /\ g.intact <= f.intact /\ g.intact <= b
  <2>1. f.intact \in Nat BY <1>1, IntactFacts
  <2>2. QED BY <2>1 DEF Smaller
<1>4. Fits(g)
  <2>1. f.data # <<>> BY <1>1
  <2>2. Blocks(Len(f.data)) \in Nat /\ b < Blocks(Len(f.data)) /\ Blocks(At(b)) = b
    BY <1>1, BlocksOf
  <2>3. Len(f.meta) >= 1 + Blocks(Len(f.data)) BY <1>1, <2>1, <2>2 DEF Fits
  <2>4. Len(g.meta) > 1 + Blocks(Len(g.data)) BY <1>1, <1>2, <2>2, <2>3
  <2>5. Len(g.data) >= At(g.intact) BY <1>2, <1>3, IntactFacts
  <2>6. QED BY <2>4, <2>5 DEF Fits
<1>5. ASSUME NEW c \in 0..max_block_number, c < g.intact PROVE CanDecrypt(g, c)
  <2>1. c \in Nat /\ c < b /\ c < f.intact BY <1>3, <1>5, StreamAssumption
  <2>2. CanDecrypt(f, c) BY <2>1 DEF Sound, Authentic
  <2>3. At(c) + bs <= At(b) /\ At(c) \in Nat /\ bs \in Nat BY <2>1, StartsApart, Start, BlockSize
  <2>4. At(c) + bs <= Len(g.data) /\ At(c) + bs <= Len(f.data) BY <1>1, <1>2, <2>3
  <2>5. BlockLen(g, c) = bs /\ BlockLen(f, c) = bs BY <1>1, <1>2, <2>1, <2>4, BlockLenFacts
  <2>6. ASSUME NEW i \in 1..BlockLen(f, c) PROVE g.data[At(c) + i] = f.data[At(c) + i]
    <3>1. At(c) + i \in 1..At(b) /\ At(c) + i <= Len(f.data) BY <1>1, <1>2, <2>3, <2>4, <2>5
    <3>2. QED BY <1>2, <3>1
  <2>7. QED BY <1>1, <2>1, <2>2, <2>5, <2>6, StillDecrypts
<1>6. QED BY <1>4, <1>5 DEF Sound, Authentic

(* A truncation that is killed before it cuts the meta file. *)
LEMMA KilledIInv ==
    ASSUME IInv, NEW n \in Nat, killInTruncation(n)
    PROVE  IInv'
<1> DEFINE b == n \div bs
<1>1. /\ n < Len(data) /\ data' = CutTo(data, n, Hole) /\ dirty' = FALSE /\ opened' = FALSE
      /\ intact' = Smaller(intact, b) /\ meta' = meta /\ covered' = covered /\ header' = header
      /\ sparse' = sparse /\ n % bs = 0
  BY DEF killInTruncation, bs
<1>2. b \in Nat /\ n = At(b)
  <2>1. b \in Nat /\ At(b) <= n /\ n % bs = n - At(b) BY BlockOf
  <2>2. At(b) \in Nat BY <2>1, Start
  <2> HIDE DEF b
  <2>3. QED BY <1>1, <2>1, <2>2
<1> HIDE DEF b
<1>3. Sound(Files) /\ Files \in Stream BY DEF IInv, Sound
<1>4. /\ data \in Seq(Cell) /\ meta \in Seq(MetaCell) /\ sparse \in BOOLEAN /\ covered \in BOOLEAN
      /\ intact \in 0..(max_block_number + 1)
  BY <1>3, FilesFacts
<1>5. data' \in Seq(Cell)
  <2>1. Hole \in Cell BY DEF Cell
  <2>2. QED BY <1>1, <1>4, <2>1, CutToFacts, Zenon
<1>6. intact' \in 0..(max_block_number + 1) BY <1>1, <1>2, <1>4, StreamAssumption DEF Smaller
<1>7. Files' \in Stream BY <1>1, <1>4, <1>5, <1>6, FilesFactsNext
<1> DEFINE g == Files'
           f == Files
<1>8. /\ g \in Stream /\ g.data = CutTo(f.data, At(b), Hole) /\ g.meta = f.meta
      /\ g.intact = Smaller(f.intact, b) /\ Sound(f) /\ At(b) < Len(f.data)
  BY <1>1, <1>2, <1>3, <1>7, FilesFacts, FilesFactsNext
<1> HIDE DEF f, g
<1>9. Sound(g) BY <1>2, <1>8, CutSound
<1>10. Sound(Files)' BY <1>9 DEF g, Sound, Authentic, Fits, CanDecrypt, StoredBlock
<1>11. QED BY <1>1, <1>10 DEF IInv, CleanMetaIsCovered

(* Every step keeps the invariant. *)
LEMMA NextIInv ==
    IInv /\ [Next]_vars => IInv'
<1> SUFFICES ASSUME IInv, [Next]_vars PROVE IInv'
  OBVIOUS
<1>1. Sound(Files) /\ ~Files.failed BY FilesFacts DEF IInv
<1>2. covered \in BOOLEAN /\ dirty \in BOOLEAN /\ opened \in BOOLEAN /\ (opened /\ ~dirty => covered)
  BY FilesFacts DEF IInv, Sound, CleanMetaIsCovered
<1>3. ASSUME NEW off \in 0..MaxSize, NEW len \in 0..MaxSize, read(off, len) PROVE IInv'
  BY <1>2, <1>3, QuietIInv DEF read, CleanMetaIsCovered
<1>4. ASSUME NEW off \in 0..MaxSize, NEW input \in Inputs, write(off, input) PROVE IInv'
  <2> DEFINE g == BB!Write(Files, off, input)
  <2>1. off \in Nat /\ input \in Seq(Bytes) BY StreamAssumption
  <2>2. WriteDone(Files, g, off, input) BY <1>1, <2>1, WriteFacts
  <2>3. Changes(<<"write", off, input>>, g) BY <1>4 DEF write
  <2> HIDE DEF g
  <2>4. Sound(g) /\ Kept(Files, g) BY <2>2 DEF WriteDone
  <2>5. QED BY <2>3, <2>4, ChangesIInv
<1>5. ASSUME NEW n \in 0..MaxSize, resize(n) PROVE IInv'
  <2> DEFINE g == BB!Resize(Files, n)
  <2>1. n \in Nat BY StreamAssumption
  <2>2. ResizeDone(Files, g, n) BY <1>1, <2>1, ResizeFacts
  <2>3. Changes(<<"resize", n>>, g) BY <1>5 DEF resize
  <2> HIDE DEF g
  <2>4. Sound(g) /\ Kept(Files, g) BY <2>2 DEF ResizeDone
  <2>5. QED BY <2>3, <2>4, ChangesIInv
<1>5a. ASSUME NEW n \in 0..MaxSize, killInTruncation(n) PROVE IInv'
  <2>1. n \in Nat BY StreamAssumption
  <2>2. QED BY <1>5a, <2>1, KilledIInv
<1>6. ASSUME NEW h \in Headers, write_header(h) PROVE IInv'
  BY <1>6, HeaderIInv
<1>7. CASE flush
  BY <1>2, <1>7, QuietIInv DEF flush, HMACFlush, CleanMetaIsCovered
<1>8. CASE close
  BY <1>2, <1>8, QuietIInv DEF close, HMACFlush, CleanMetaIsCovered
<1>9. CASE kill
  BY <1>2, <1>9, QuietIInv DEF kill, CleanMetaIsCovered
<1>10. CASE reopen
  BY <1>2, <1>10, QuietIInv DEF reopen, CleanMetaIsCovered
<1>11. CASE UNCHANGED vars
  BY <1>2, <1>11, QuietIInv DEF vars, CleanMetaIsCovered
<1>12. QED BY <1>3, <1>4, <1>5, <1>5a, <1>6, <1>7, <1>8, <1>9, <1>10, <1>11 DEF Next

(* The inductive invariant holds in every reachable state. *)
THEOREM StreamInvariant ==
    Spec => []IInv
BY InitIInv, NextIInv, PTL DEF Spec

(* BlocksAuthentic: every block of the stream can be decrypted, and no byte of
   an uninitialized buffer was ever encrypted, whatever calls of write and
   resize came before, whichever of them threw, and across kills; a kill
   inside a truncation costs no more than the blocks it cut off.             *)
THEOREM StreamAuthentic ==
    Spec => []BlocksAuthentic
<1>1. IInv => BlocksAuthentic
  <2> SUFFICES ASSUME IInv, NEW b \in 0..max_block_number
               PROVE  /\ b < intact => CanDecrypt(Files, b)
                      /\ \A i \in DOMAIN StoredBlock(Files, b) : StoredBlock(Files, b)[i] # Garbage
    BY DEF BlocksAuthentic
  <2>1. b < intact => CanDecrypt(Files, b) BY FilesFacts DEF IInv, Sound, Authentic
  <2>2. StoredBlock(Files, b) \in Seq(Cell)
    <3>1. Files.data \in Seq(Cell) BY FilesFacts DEF IInv, Sound
    <3>2. b \in Nat BY StreamAssumption
    <3>3. QED BY <3>1, <3>2, StoredBlockFacts
  <2>3. Garbage \notin Cell BY StreamAssumption DEF Cell
  <2>4. \A i \in DOMAIN StoredBlock(Files, b) : StoredBlock(Files, b)[i] \in Cell BY <2>2
  <2>5. QED BY <2>1, <2>3, <2>4
<1>2. QED BY <1>1, StreamInvariant, PTL

(* MetaFitsData: adjust_logical_size and the writes of blocks keep the meta
   file at one header and one IV and MAC for each block of the data file; only
   a kill between the two resizes of a truncation leaves more, and then only
   while the data file reaches what was cut off.                             *)
THEOREM MetaFits ==
    Spec => []MetaFitsData
<1>1. IInv => MetaFitsData
  BY FilesFacts DEF IInv, Sound, Fits, MetaFitsData, Blocks, At
<1>2. QED BY <1>1, StreamInvariant, PTL

(* CleanMetaIsCovered: what HMACStream does not mark dirty is covered by the
   HMAC in the file.                                                         *)
THEOREM CleanMetaCovered ==
    Spec => []CleanMetaIsCovered
<1>1. IInv => CleanMetaIsCovered
  BY DEF IInv
<1>2. QED BY <1>1, StreamInvariant, PTL

(* HeaderKept: read_header returns what write_header wrote last. *)
THEOREM HeaderReadsBack ==
    Spec => []HeaderKept
<1>1. IInv => HeaderKept
  BY DEF IInv, HeaderKept, read_header
<1>2. QED BY <1>1, StreamInvariant, PTL

-----------------------------------------------------------------------------
(* The stream implements a sequence of bytes: the bytes the cells of the data
   file read as.                                                             *)
Shown(s) == [i \in DOMAIN s |-> Val(s[i])]

(* Overwritten and Resized of ByteStream, with the contents as a parameter. *)
Overwrites(c, off, bytes) ==
    [i \in 1..(IF off + Len(bytes) > Len(c) THEN off + Len(bytes) ELSE Len(c)) |->
        IF i > off /\ i <= off + Len(bytes) THEN bytes[i - off]
        ELSE IF i <= Len(c) THEN c[i] ELSE 0]

Resizing(c, n) == [i \in 1..n |-> IF i <= Len(c) THEN c[i] ELSE 0]

(* The bytes shown are bytes, one for each cell. *)
LEMMA ShownFacts ==
    ASSUME NEW s \in Seq(Cell)
    PROVE  /\ Shown(s) \in Seq(Bytes)
           /\ Len(Shown(s)) = Len(s)
           /\ \A i \in 1..Len(s) : Shown(s)[i] = Val(s[i])
<1>1. Len(s) \in Nat /\ DOMAIN s = 1..Len(s) OBVIOUS
<1>2. \A i \in 1..Len(s) : s[i] \in Cell OBVIOUS
<1>3. \A i \in 1..Len(s) : Val(s[i]) \in Bytes
  BY <1>2, StreamAssumption DEF Val, Cell
<1>4. Shown(s) = [i \in 1..Len(s) |-> Val(s[i])] BY <1>1 DEF Shown
<1>5. Shown(s) \in [1..Len(s) -> Bytes] BY <1>3, <1>4
<1>6. QED BY <1>1, <1>4, <1>5

(* Two contents are the same when they have the same bytes. *)
LEMMA SameShown ==
    ASSUME NEW s \in Seq(Cell), NEW n \in Nat, NEW c, c = [i \in 1..n |-> c[i]],
           Len(s) = n, \A i \in 1..n : Val(s[i]) = c[i]
    PROVE  Shown(s) = c
<1>1. DOMAIN s = 1..n OBVIOUS
<1>2. Shown(s) = [i \in 1..n |-> Val(s[i])] BY <1>1 DEF Shown
<1>3. [i \in 1..n |-> Val(s[i])] = [i \in 1..n |-> c[i]] OBVIOUS
<1>4. QED BY <1>2, <1>3

(* The operators of ByteStream, over the bytes shown. *)
LEMMA PlainOperators ==
    /\ \A off, bytes : Plain!Overwritten(off, bytes) = Overwrites(Shown(data), off, bytes)
    /\ \A n : Plain!Resized(n) = Resizing(Shown(data), n)
    /\ \A bytes : Plain!Success(bytes) = Success(bytes)
    /\ Plain!Error = Error
    /\ \A a, b : Plain!AtMost(a, b) = Smaller(a, b)
<1>1. \A off, bytes : Plain!Overwritten(off, bytes) = Overwrites(Shown(data), off, bytes)
  BY Zenon DEF Plain!Overwritten, Overwrites, Shown, Val
<1>2. \A n : Plain!Resized(n) = Resizing(Shown(data), n)
  BY Zenon DEF Plain!Resized, Resizing, Shown, Val
<1>3. \A bytes : Plain!Success(bytes) = Success(bytes)
  BY DEF Plain!Success, Success
<1>4. Plain!Error = Error
  BY DEF Plain!Error, Error
<1>5. \A a, b : Plain!AtMost(a, b) = Smaller(a, b)
  BY DEF Plain!AtMost, Smaller
<1>6. QED BY <1>1, <1>2, <1>3, <1>4, <1>5

(* BRead, over the bytes shown. *)
LEMMA PlainRead ==
    ASSUME NEW off, NEW len,
           last'.call = <<"read", off, len>>, data' = data, intact' = intact,
           \/ last'.result = Success(SubSeq(Shown(data), off + 1, Smaller(off + len, Len(Shown(data)))))
           \/ /\ Smaller(off + len, Len(Shown(data))) > At(intact)
              /\ last'.result = Error
    PROVE  Plain!BRead(off, len)
BY PlainOperators, Zenon DEF Plain!BRead, Shown, Val, At

(* BWrite, over the bytes shown. *)
LEMMA PlainWrite ==
    ASSUME NEW off, NEW bytes,
           last'.call = <<"write", off, bytes>>, intact' = intact,
           \/ Shown(data') = Overwrites(Shown(data), off, bytes) /\ last'.result = Success(<<>>)
           \/ /\ off + Len(bytes) > At(intact)
              /\ last'.result = Error
              /\ Len(Shown(data')) >= Len(Shown(data))
              /\ Len(Shown(data')) <= Len(Overwrites(Shown(data), off, bytes))
              /\ \A i \in 1..Len(Shown(data')) :
                    Shown(data')[i] \in {Overwrites(Shown(data), off, bytes)[i],
                                         Resizing(Shown(data), Len(Shown(data')))[i]}
    PROVE  Plain!BWrite(off, bytes)
<1>1. CASE Shown(data') = Overwrites(Shown(data), off, bytes) /\ last'.result = Success(<<>>)
  BY <1>1, PlainOperators, Zenon DEF Plain!BWrite, Shown, Val, At
<1>2. CASE /\ off + Len(bytes) > At(intact)
           /\ last'.result = Error
           /\ Len(Shown(data')) >= Len(Shown(data))
           /\ Len(Shown(data')) <= Len(Overwrites(Shown(data), off, bytes))
           /\ \A i \in 1..Len(Shown(data')) :
                 Shown(data')[i] \in {Overwrites(Shown(data), off, bytes)[i],
                                      Resizing(Shown(data), Len(Shown(data')))[i]}
  BY <1>2, PlainOperators, Zenon DEF Plain!BWrite, Shown, Val, At
<1>3. QED BY <1>1, <1>2

(* BResize, over the bytes shown. *)
LEMMA PlainResize ==
    ASSUME NEW n, last'.call = <<"resize", n>>, intact' = intact,
           \/ Shown(data') = Resizing(Shown(data), n) /\ last'.result = Success(<<>>)
           \/ /\ n > At(intact)
              /\ last'.result = Error
              /\ \E k \in Len(Shown(data))..(IF n > Len(Shown(data)) THEN n ELSE Len(Shown(data))) :
                    Shown(data') = Resizing(Shown(data), k)
    PROVE  Plain!BResize(n)
BY PlainOperators, Zenon DEF Plain!BResize, Shown, Val, At

(* BKilledAt, over the bytes shown. *)
LEMMA PlainKilled ==
    ASSUME NEW n, n < Len(Shown(data)), Shown(data') = Resizing(Shown(data), n),
           At(intact') = Smaller(At(intact), n), last' = last
    PROVE  Plain!BKilledAt(n)
BY PlainOperators, Zenon DEF Plain!BKilledAt, Shown, Val, At

(* What resize leaves is what BResize allows. *)
LEMMA ResizeShown ==
    ASSUME NEW f, Sound(f), NEW g, NEW n \in Nat, ResizeDone(f, g, n)
    PROVE  \/ ~g.failed /\ Shown(g.data) = Resizing(Shown(f.data), n)
           \/ /\ g.failed /\ n > At(f.intact)
              /\ \E k \in Len(Shown(f.data))..(IF n > Len(Shown(f.data)) THEN n ELSE Len(Shown(f.data))) :
                    Shown(g.data) = Resizing(Shown(f.data), k)
<1>1. f.data \in Seq(Cell) /\ g.data \in Seq(Cell) /\ Len(f.data) \in Nat
  BY DEF ResizeDone, Sound, Stream
<1>2. PICK k \in Nat : /\ Resizes(f, g, k)
                       /\ ~g.failed => k = n
                       /\ g.failed => Len(f.data) <= k /\ k <= Larger(n, Len(f.data))
  BY DEF ResizeDone
<1>3. Len(Shown(f.data)) = Len(f.data) BY <1>1, ShownFacts
<1>4. Shown(g.data) = Resizing(Shown(f.data), k)
  <2> DEFINE c == Resizing(Shown(f.data), k)
  <2>1. c = [i \in 1..k |-> c[i]] BY DEF Resizing
  <2>2. ASSUME NEW i \in 1..k PROVE Val(g.data[i]) = c[i]
    <3>1. c[i] = IF i <= Len(f.data) THEN Shown(f.data)[i] ELSE 0 BY <1>3 DEF Resizing
    <3>2. i <= Len(f.data) => Shown(f.data)[i] = Val(f.data[i]) BY <1>1, ShownFacts
    <3>3. QED BY <1>2, <3>1, <3>2 DEF Resizes
  <2>3. Len(g.data) = k BY <1>2 DEF Resizes
  <2> HIDE DEF c
  <2>4. Shown(g.data) = c BY <1>1, <2>1, <2>2, <2>3, SameShown
  <2>5. QED BY <2>4 DEF c
<1>5. CASE ~g.failed BY <1>2, <1>4, <1>5
<1>6. CASE g.failed
  <2>1. k \in Len(Shown(f.data))..(IF n > Len(Shown(f.data)) THEN n ELSE Len(Shown(f.data)))
    BY <1>1, <1>2, <1>3, <1>6 DEF Larger
  <2>2. n > At(f.intact) BY <1>6 DEF ResizeDone
  <2>3. QED BY <1>4, <1>6, <2>1, <2>2
<1>7. QED BY <1>5, <1>6

(* What write leaves is what BWrite allows. *)
LEMMA WriteShown ==
    ASSUME NEW f, Sound(f), NEW g, NEW off \in Nat, NEW input \in Seq(Bytes),
           WriteDone(f, g, off, input)
    PROVE  \/ ~g.failed /\ Shown(g.data) = Overwrites(Shown(f.data), off, input)
           \/ /\ g.failed /\ off + Len(input) > At(f.intact)
              /\ Len(Shown(g.data)) >= Len(Shown(f.data))
              /\ Len(Shown(g.data)) <= Len(Overwrites(Shown(f.data), off, input))
              /\ \A i \in 1..Len(Shown(g.data)) :
                    Shown(g.data)[i] \in {Overwrites(Shown(f.data), off, input)[i],
                                          Resizing(Shown(f.data), Len(Shown(g.data)))[i]}
<1> DEFINE c == Overwrites(Shown(f.data), off, input)
           l == Len(f.data)
           k == Len(g.data)
           n == Larger(l, off + Len(input))
<1>1. f.data \in Seq(Cell) /\ g.data \in Seq(Cell) /\ l \in Nat /\ k \in Nat /\ Len(input) \in Nat
  BY DEF WriteDone, Sound, Stream
<1>2. n \in Nat /\ l <= n BY <1>1 DEF Larger
<1>3. Len(Shown(f.data)) = l /\ Len(Shown(g.data)) = k BY <1>1, ShownFacts
<1>4. n = IF off + Len(input) > l THEN off + Len(input) ELSE l BY <1>1 DEF Larger
<1>5. c = [i \in 1..n |-> IF i > off /\ i <= off + Len(input) THEN input[i - off]
                          ELSE IF i <= l THEN Shown(f.data)[i] ELSE 0]
  BY <1>3, <1>4 DEF Overwrites
<1>6. ASSUME NEW i \in 1..n PROVE c[i] = Over(f, off, input, i)
  <2>1. i <= l => Shown(f.data)[i] = Val(f.data[i]) BY <1>1, <1>2, ShownFacts
  <2>2. QED BY <1>5, <2>1 DEF Over, Old
<1>7. k <= n /\ l <= k BY DEF WriteDone
<1>8. \A i \in 1..k : Val(g.data[i]) = Over(f, off, input, i) \/ (g.failed /\ Val(g.data[i]) = Old(f, i))
  BY DEF WriteDone
<1>9. (~g.failed => k = n) /\ (g.failed => off + Len(input) > At(f.intact))
  BY DEF WriteDone
<1>10. c = [i \in 1..n |-> c[i]] /\ Len(c) = n BY <1>2, <1>5
<1> HIDE DEF c, l, k, n
<1>11. CASE ~g.failed
  <2>1. Len(g.data) = n BY <1>9, <1>11 DEF k
  <2>2. \A i \in 1..n : Val(g.data[i]) = c[i] BY <1>6, <1>8, <1>9, <1>11
  <2>3. Shown(g.data) = c BY <1>1, <1>2, <1>10, <2>1, <2>2, SameShown
  <2>4. QED BY <1>11, <2>3 DEF c
<1>12. CASE g.failed
  <2> DEFINE d == Resizing(Shown(f.data), k)
  <2>1. ASSUME NEW i \in 1..k PROVE Shown(g.data)[i] \in {c[i], d[i]}
    <3>1. Shown(g.data)[i] = Val(g.data[i]) BY <1>1, ShownFacts DEF k
    <3>2. i \in 1..n BY <1>1, <1>2, <1>7
    <3>3. d[i] = IF i <= l THEN Shown(f.data)[i] ELSE 0 BY <1>3 DEF Resizing
    <3>4. i <= l => Shown(f.data)[i] = Val(f.data[i]) BY <1>1, ShownFacts DEF l
    <3>5. d[i] = Old(f, i) BY <3>3, <3>4 DEF Old, l
    <3> HIDE DEF d
    <3>6. QED BY <1>6, <1>8, <3>1, <3>2, <3>5
  <2>2. Len(Shown(g.data)) >= Len(Shown(f.data)) /\ Len(Shown(g.data)) <= Len(c)
    BY <1>1, <1>2, <1>3, <1>7, <1>10
  <2>3. QED BY <1>3, <1>9, <1>12, <2>1, <2>2 DEF c
<1>13. QED BY <1>11, <1>12

(* What read returns is the part of the contents that was asked for. *)
LEMMA BytesReadShown ==
    ASSUME data \in Seq(Cell), NEW off \in Nat, NEW len \in Nat
    PROVE  BytesRead(off, len) = SubSeq(Shown(data), off + 1, Smaller(off + len, Len(Shown(data))))
<1> DEFINE c == Shown(data)
           m == off + 1
           n == Smaller(off + len, Len(data))
           r == BytesRead(off, len)
           k == Larger(off, n) - off
<1>1. Len(data) \in Nat /\ c \in Seq(Bytes) /\ Len(c) = Len(data)
      /\ \A i \in 1..Len(data) : c[i] = Val(data[i])
  BY ShownFacts
<1>2. n \in Nat /\ n <= Len(data) /\ k \in Nat /\ k = (IF m <= n THEN n - m + 1 ELSE 0)
  BY <1>1 DEF Smaller, Larger
<1>3. r = [i \in 1..k |-> Val(data[off + i])] BY DEF BytesRead, Val
<1> HIDE DEF c, n, r, k
<1>4. \A i \in m..n : c[i] \in Bytes BY <1>1, <1>2
<1>5. /\ SubSeq(c, m, n) \in Seq(Bytes)
      /\ Len(SubSeq(c, m, n)) = IF m <= n THEN n - m + 1 ELSE 0
      /\ \A i \in 1..(n - m + 1) : SubSeq(c, m, n)[i] = c[m + i - 1]
  BY <1>1, <1>2, <1>4, SubSeqProperties
<1>6. ASSUME NEW i \in 1..k PROVE r[i] = SubSeq(c, m, n)[i] /\ r[i] \in Bytes
  <2>1. m <= n /\ k = n - m + 1 BY <1>2
  <2>2. i \in 1..(n - m + 1) /\ m + i - 1 = off + i /\ off + i \in 1..Len(data)
    BY <1>1, <1>2, <2>1
  <2>3. r[i] = Val(data[off + i]) BY <1>3
  <2>4. c[off + i] = Val(data[off + i]) /\ c[off + i] \in Bytes BY <1>1, <2>2
  <2>5. QED BY <1>5, <2>2, <2>3, <2>4
<1>7. r \in Seq(Bytes) /\ Len(r) = k
  <2>1. r \in [1..k -> Bytes] BY <1>3, <1>6
  <2>2. QED BY <1>2, <2>1
<1>8. Len(SubSeq(c, m, n)) = k BY <1>2, <1>5
<1>9. r = SubSeq(c, m, n) BY <1>5, <1>6, <1>7, <1>8, SeqEqual
<1>10. QED BY <1>1, <1>9 DEF c, n, r

(* A read fails only when it reaches a block beyond the last one, or one that
   a killed truncation cut off.                                             *)
LEMMA ReadFails ==
    ASSUME IInv, NEW off \in Nat, NEW len \in Nat, NEW b \in BlocksRead(off, len),
           ~CanDecrypt(Files, b)
    PROVE  Smaller(off + len, Len(data)) > At(intact)
<1>1. Sound(Files) /\ Files \in Stream /\ Files.data = data /\ Files.intact = intact
  BY FilesFacts DEF IInv, Sound
<1>2. Len(data) \in Nat BY <1>1, FilesFacts
<1>3. b \in 0..(Len(data) \div bs) /\ At(b) < off + len BY DEF BlocksRead, At, bs
<1>4. b \in Nat
  <2>1. Len(data) \div bs \in Nat BY <1>2, BlockOf
  <2>2. QED BY <1>3, <2>1
<1>5. At(b) < Len(data)
  <2>1. ~(Len(Files.data) <= At(b)) BY <1>1, <1>4, EmptyDecrypts
  <2>2. At(b) \in Nat BY <1>4, Start
  <2>3. QED BY <1>1, <1>2, <2>1, <2>2
<1>6. PICK c \in Nat : c = intact /\ c <= max_block_number + 1 BY <1>1, IntactFacts
<1>7. intact <= b
  <2>1. b \in 0..max_block_number => ~(b < intact) BY <1>1 DEF Sound, Authentic
  <2>2. QED BY <1>4, <1>6, <2>1, StreamAssumption
<1>8. At(intact) \in Nat /\ At(b) \in Nat BY <1>4, <1>6, Start
<1>9. At(intact) <= At(b)
  <2>1. Files.intact <= b BY <1>1, <1>7
  <2>2. At(Files.intact) <= At(b) BY <1>1, <1>4, <2>1, IntactFacts
  <2>3. QED BY <1>1, <2>2
<1>10. PICK p \in Nat, q \in Nat : p = At(intact) /\ q = At(b) BY <1>8
<1>11. QED BY <1>2, <1>3, <1>5, <1>9, <1>10 DEF Smaller

(* A step of the stream is a step of ByteStream, or leaves the contents alone. *)
LEMMA NextPlain ==
    IInv /\ [Next]_vars => [Plain!BNext]_(Plain!bvars)
<1> SUFFICES ASSUME IInv, [Next]_vars PROVE [Plain!BNext]_(Plain!bvars)
  OBVIOUS
<1>1. Sound(Files) /\ ~Files.failed /\ Files.data = data /\ data \in Seq(Cell) /\ Files.intact = intact
  BY FilesFacts DEF IInv, Sound
<1>2. Len(Shown(data)) = Len(data) BY <1>1, ShownFacts
<1>3. ASSUME NEW off \in 0..MaxSize, NEW len \in 0..MaxSize, read(off, len) PROVE Plain!BNext
  <2>1. off \in Nat /\ len \in Nat BY StreamAssumption
  <2>2. last'.call = <<"read", off, len>> /\ data' = data /\ intact' = intact BY <1>3 DEF read, Returned
  <2>3. last'.result = IF \A b \in BlocksRead(off, len) : CanDecrypt(Files, b)
                       THEN Success(BytesRead(off, len)) ELSE Error
    BY <1>3 DEF read, Returned
  <2>4. \/ last'.result = Success(SubSeq(Shown(data), off + 1, Smaller(off + len, Len(Shown(data)))))
        \/ /\ Smaller(off + len, Len(Shown(data))) > At(intact)
           /\ last'.result = Error
    <3>1. CASE \A b \in BlocksRead(off, len) : CanDecrypt(Files, b)
      BY <1>1, <2>1, <2>3, <3>1, BytesReadShown
    <3>2. CASE ~(\A b \in BlocksRead(off, len) : CanDecrypt(Files, b))
      <4>1. PICK b \in BlocksRead(off, len) : ~CanDecrypt(Files, b) BY <3>2
      <4>2. Smaller(off + len, Len(data)) > At(intact) BY <2>1, <4>1, ReadFails
      <4>3. QED BY <1>2, <2>3, <3>2, <4>2
    <3>3. QED BY <3>1, <3>2
  <2>5. Plain!BRead(off, len) BY <2>2, <2>4, PlainRead
  <2>6. QED BY <2>5 DEF Plain!BNext
<1>4. ASSUME NEW off \in 0..MaxSize, NEW input \in Inputs, write(off, input) PROVE Plain!BNext
  <2> DEFINE g == BB!Write(Files, off, input)
  <2>1. off \in Nat /\ input \in Seq(Bytes) BY StreamAssumption
  <2>2. WriteDone(Files, g, off, input) BY <1>1, <2>1, WriteFacts
  <2>3. Changes(<<"write", off, input>>, g) BY <1>4 DEF write
  <2> HIDE DEF g
  <2>4. /\ data' = g.data /\ last'.call = <<"write", off, input>>
        /\ intact' = intact
        /\ last'.result = IF g.failed THEN Error ELSE Success(<<>>)
    BY <2>3 DEF Changes, Returned
  <2>5. Plain!BWrite(off, input) BY <1>1, <2>1, <2>2, <2>4, WriteShown, PlainWrite
  <2>6. QED BY <2>5 DEF Plain!BNext
<1>5. ASSUME NEW n \in 0..MaxSize, resize(n) PROVE Plain!BNext
  <2> DEFINE g == BB!Resize(Files, n)
  <2>1. n \in Nat BY StreamAssumption
  <2>2. ResizeDone(Files, g, n) BY <1>1, <2>1, ResizeFacts
  <2>3. Changes(<<"resize", n>>, g) BY <1>5 DEF resize
  <2> HIDE DEF g
  <2>4. /\ data' = g.data /\ last'.call = <<"resize", n>>
        /\ intact' = intact
        /\ last'.result = IF g.failed THEN Error ELSE Success(<<>>)
    BY <2>3 DEF Changes, Returned
  <2>5. Plain!BResize(n) BY <1>1, <2>1, <2>2, <2>4, ResizeShown, PlainResize
  <2>6. QED BY <2>5 DEF Plain!BNext
<1>5a. ASSUME NEW n \in 0..MaxSize, killInTruncation(n) PROVE Plain!BNext
  <2>1. n \in Nat BY StreamAssumption
  <2> DEFINE b == n \div bs
  <2>2. /\ n < Len(data) /\ data' = CutTo(data, n, Hole) /\ intact' = Smaller(intact, b)
        /\ last' = last /\ n % bs = 0
    BY <1>5a DEF killInTruncation, bs
  <2>3. b \in Nat /\ n = At(b)
    <3>1. b \in Nat /\ At(b) <= n /\ n % bs = n - At(b) BY <2>1, BlockOf
    <3>2. At(b) \in Nat BY <3>1, Start
    <3> HIDE DEF b
    <3>3. QED BY <2>1, <2>2, <3>1, <3>2
  <2> HIDE DEF b
  <2>4. At(intact') = Smaller(At(intact), n)
    <3>1. intact \in Nat BY <1>1, IntactFacts DEF Sound
    <3>2. At(intact) \in Nat /\ At(b) \in Nat /\ bs \in Nat /\ bs > 0 BY <2>3, <3>1, Start, BlockSize
    <3>3. CASE intact < b
      <4>1. At(intact) + bs <= At(b) BY <2>3, <3>1, <3>3, StartsApart
      <4>2. QED BY <2>2, <2>3, <3>2, <3>3, <4>1 DEF Smaller
    <3>4. CASE b < intact
      <4>1. At(b) + bs <= At(intact) BY <2>3, <3>1, <3>4, StartsApart
      <4>2. QED BY <2>2, <2>3, <3>1, <3>2, <3>4, <4>1 DEF Smaller
    <3>5. CASE b = intact
      BY <2>2, <2>3, <3>1, <3>2, <3>5 DEF Smaller
    <3>6. QED BY <2>3, <3>1, <3>3, <3>4, <3>5
  <2>5. data' \in Seq(Cell) /\ IsCut(data', data, n, Hole)
    <3>1. Hole \in Cell BY DEF Cell
    <3>2. QED BY <1>1, <2>1, <2>2, <3>1, CutToFacts, Zenon
  <2>6. Shown(data') = Resizing(Shown(data), n)
    <3> DEFINE c == Resizing(Shown(data), n)
    <3>1. c = [i \in 1..n |-> c[i]] BY DEF Resizing
    <3>2. ASSUME NEW i \in 1..n PROVE Val(data'[i]) = c[i]
      <4>1. i \in 1..Len(data) /\ i <= Len(data) BY <1>1, <2>1, <2>2
      <4>2. c[i] = Shown(data)[i] BY <1>2, <4>1 DEF Resizing
      <4>3. Shown(data)[i] = Val(data[i]) BY <1>1, <4>1, ShownFacts
      <4>4. data'[i] = data[i] BY <2>5, <4>1 DEF IsCut
      <4>5. QED BY <4>2, <4>3, <4>4
    <3>3. Len(data') = n BY <2>5 DEF IsCut
    <3> HIDE DEF c
    <3>4. Shown(data') = c BY <2>1, <2>5, <3>1, <3>2, <3>3, SameShown
    <3>5. QED BY <3>4 DEF c
  <2>7. n < Len(Shown(data)) BY <1>2, <2>2
  <2>8. Plain!BKilledAt(n) BY <2>2, <2>4, <2>6, <2>7, PlainKilled
  <2>9. QED BY <2>8 DEF Plain!BNext
<1>6. CASE flush
  <2>1. last'.call = <<"flush">> /\ last'.result = Success(<<>>) /\ data' = data /\ intact' = intact
    BY <1>6 DEF flush, Returned
  <2>2. Plain!BFlush BY <2>1, PlainOperators, Zenon DEF Plain!BFlush
  <2>3. QED BY <2>2 DEF Plain!BNext
<1>7. ASSUME data' = data, intact' = intact, last' = last PROVE UNCHANGED Plain!bvars
  BY <1>7, Zenon DEF Plain!bvars
<1>8. ASSUME NEW h \in Headers, write_header(h) PROVE UNCHANGED Plain!bvars
  BY <1>7, <1>8 DEF write_header
<1>9. CASE close BY <1>7, <1>9 DEF close
<1>10. CASE kill BY <1>7, <1>10 DEF kill
<1>11. CASE reopen BY <1>7, <1>11 DEF reopen
<1>12. CASE UNCHANGED vars BY <1>7, <1>12 DEF vars
<1>13. QED BY <1>3, <1>4, <1>5, <1>5a, <1>6, <1>8, <1>9, <1>10, <1>11, <1>12 DEF Next

(* The stream is a sequence of bytes, as StreamBase promises: whatever the
   sizes of blocks, reads, writes and truncations, a read returns the bytes
   that were written last, holes read as zeros, and a call fails only beyond
   the last block, or beyond where a killed truncation cut the file, having
   done a part of its work.                                                  *)
THEOREM StreamImplementsByteStream ==
    Spec => ImplementsByteStream
<1>1. Init => Plain!BInit
  <2> SUFFICES ASSUME Init PROVE Plain!BInit
    OBVIOUS
  <2>1. data = <<>> BY DEF Init
  <2>2. data \in Seq(Cell) BY <2>1
  <2>3. Shown(data) \in Seq(Bytes) BY <2>2, ShownFacts
  <2>4. QED BY <2>3, Zenon DEF Plain!BInit, Shown, Val
<1>2. QED BY <1>1, NextPlain, StreamInvariant, PTL DEF Spec, ImplementsByteStream, Plain!BSpec

=============================================================================
