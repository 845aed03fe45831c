-------------------------- MODULE LiteStreamProofs --------------------------
(***************************************************************************)
(* That the stream of the lite format is a sequence of bytes (LiteStream), *)
(* for every block size, overhead, number of blocks and all buffers, that  *)
(* all its blocks decrypt, and that a crash between the writes of a call   *)
(* leaves bytes from before or after the call. The proofs rest on one      *)
(* relation, Stores: how the cells of the underlying file encode the bytes *)
(* of the stream. Writing a block and setting the size are shown to keep   *)
(* it; the rest of the argument is about the bytes alone.                  *)
(***************************************************************************)
EXTENDS LiteStream, TLAPS, WellFoundedInduction, SequenceTheorems

(* Short names for the size of a block, and of a block with its IV and MAC. *)
bs == m_block_size
us == underlying_block_size

(* Where block b begins in the stream, and in the underlying file. *)
At(b) == b * m_block_size
Under(b) == header_size + b * underlying_block_size

(* The length of the underlying file of a stream of n bytes. *)
U(n) == header_size + (n \div m_block_size) * underlying_block_size
        + (IF n % m_block_size > 0 THEN (n % m_block_size) + overhead ELSE 0)

(* What a byte of the underlying file can be. *)
Coded == Nat \X Seq(Bytes) \X Nat
Cell == {Header, Zero} \cup Coded

(* How many of the k elements after the first p there are in a sequence of
   length l, and these elements.                                             *)
Span(l, p, k) == IF p < l THEN Smaller(k, l - p) ELSE 0
Window(s, p, k) == SubSeq(s, p + 1, Smaller(p + k, Len(s)))

(* Block b of the bytes c. *)
BlockAt(c, b) == Window(c, At(b), bs)

-----------------------------------------------------------------------------
(* The sizes are positive. *)
LEMMA Sizes ==
    /\ bs \in Nat /\ bs > 0
    /\ overhead \in Nat /\ overhead > 0
    /\ header_size \in Nat /\ header_size > 0
    /\ us \in Nat /\ us > 0 /\ us = bs + overhead
BY LiteStreamAssumption DEF bs, us, underlying_block_size

(* A block begins at a byte. *)
LEMMA Start ==
    ASSUME NEW b \in Nat
    PROVE  At(b) \in Nat
BY Sizes DEF At, bs

(* A block begins where the one before it ends. *)
LEMMA NextStart ==
    ASSUME NEW b \in Nat
    PROVE  At(b + 1) = At(b) + bs
BY Sizes DEF At, bs

(* Multiples of a number are at least that number apart. *)
LEMMA MultiplesApart ==
    ASSUME NEW b \in Nat, NEW c \in Nat, b < c, NEW s \in Nat
    PROVE  b * s + s <= c * s /\ b * s \in Nat /\ c * s \in Nat
<1>1. PICK d \in Nat : c = b + 1 + d
  <2>1. c - b - 1 \in Nat /\ c = b + 1 + (c - b - 1)
    OBVIOUS
  <2>2. QED BY <2>1
<1>2. c * s = b * s + s + d * s
  BY <1>1
<1>3. d * s \in Nat /\ b * s \in Nat
  BY <1>1
<1>4. QED BY <1>2, <1>3

(* A later block begins after an earlier one ends. *)
LEMMA StartsApart ==
    ASSUME NEW b \in Nat, NEW c \in Nat, b < c
    PROVE  At(b) + bs <= At(c)
BY MultiplesApart, Sizes DEF At, bs

(* The same of the underlying file. *)
LEMMA UnderFacts ==
    ASSUME NEW b \in Nat
    PROVE  /\ Under(b) \in Nat /\ Under(b) >= header_size
           /\ Under(b + 1) = Under(b) + us
           /\ Under(0) = header_size
           /\ header_size + us * b = Under(b)
           /\ \A c \in Nat : b < c => Under(b) + us <= Under(c)
<1>1. us \in Nat /\ header_size \in Nat /\ us = underlying_block_size
  BY Sizes DEF us
<1>2. b * us \in Nat /\ (b + 1) * us = b * us + us /\ 0 * us = 0 /\ us * b = b * us
  BY <1>1
<1>3. ASSUME NEW c \in Nat, b < c PROVE Under(b) + us <= Under(c)
  <2>1. b * us + us <= c * us /\ c * us \in Nat BY <1>1, <1>3, MultiplesApart
  <2>2. PICK x \in Nat, y \in Nat : x = b * us /\ y = c * us BY <1>2, <2>1
  <2>3. Under(b) = header_size + x /\ Under(c) = header_size + y BY <1>1, <2>2 DEF Under
  <2>4. QED BY <1>1, <2>1, <2>2, <2>3
<1>4. /\ Under(b) = header_size + b * us /\ Under(b + 1) = header_size + (b + 1) * us
      /\ Under(0) = header_size + 0 * us
  BY <1>1 DEF Under
<1>5. QED BY <1>1, <1>2, <1>3, <1>4

(* Division by the size of something. *)
LEMMA Division ==
    ASSUME NEW n \in Nat, NEW s \in Nat, s > 0
    PROVE  /\ n \div s \in Nat
           /\ (n \div s) * s <= n
           /\ n < (n \div s) * s + s
           /\ n % s = n - (n \div s) * s
OBVIOUS

(* A quotient is the only number that lies so. *)
LEMMA Quotient ==
    ASSUME NEW s \in Nat, s > 0, NEW b \in Nat, NEW k \in Nat, k < s
    PROVE  (b * s + k) \div s = b /\ (b * s + k) % s = k
<1> DEFINE n == b * s + k
           d == n \div s
<1>1. n \in Nat /\ b * s \in Nat
  OBVIOUS
<1>2. d \in Nat /\ d * s <= n /\ n < d * s + s /\ n % s = n - d * s
  BY <1>1, Division
<1>3. n = b * s + k
  OBVIOUS
<1> HIDE DEF n, d
<1>4. d * s \in Nat
  BY <1>2
<1>5. ~(d < b)
  <2>1. d < b => d * s + s <= b * s BY <1>2, MultiplesApart
  <2>2. QED BY <1>1, <1>2, <1>3, <1>4, <2>1
<1>6. ~(b < d)
  <2>1. b < d => b * s + s <= d * s BY <1>2, MultiplesApart
  <2>2. QED BY <1>1, <1>2, <1>3, <1>4, <2>1
<1>7. d = b
  BY <1>2, <1>5, <1>6
<1>8. QED BY <1>1, <1>2, <1>3, <1>7 DEF n, d

(* The block a byte is in. *)
LEMMA BlockOf ==
    ASSUME NEW n \in Nat
    PROVE  /\ n \div bs \in Nat
           /\ At(n \div bs) <= n
           /\ n < At(n \div bs) + bs
           /\ n % bs = n - At(n \div bs)
<1>1. bs \in Nat /\ bs > 0 /\ At(n \div bs) = (n \div bs) * bs
  BY Sizes DEF At, bs
<1>2. QED BY <1>1, Division

(* A byte is in one block only. *)
LEMMA BlockIsUnique ==
    ASSUME NEW n \in Nat, NEW b \in Nat, At(b) <= n, n < At(b) + bs
    PROVE  n \div bs = b /\ n % bs = n - At(b)
<1>1. At(b) \in Nat /\ bs \in Nat /\ bs > 0 /\ At(b) = b * bs
  BY Start, Sizes DEF At, bs
<1>2. PICK k \in Nat : k = n - At(b) /\ k < bs
  BY <1>1
<1>3. n = b * bs + k
  BY <1>1, <1>2
<1>4. QED BY <1>1, <1>2, <1>3, Quotient

-----------------------------------------------------------------------------
(* The underlying file of a stream that ends in block b. *)
LEMMA UInBlock ==
    ASSUME NEW b \in Nat, NEW k \in Nat, k <= bs
    PROVE  /\ At(b) + k \in Nat
           /\ U(At(b) + k) = IF k = 0 THEN Under(b) ELSE Under(b) + k + overhead
<1>1. At(b) \in Nat /\ bs \in Nat /\ bs > 0 /\ overhead \in Nat /\ us = bs + overhead
  BY Start, Sizes
<1>2. Under(b) \in Nat /\ Under(b + 1) = Under(b) + us
  BY UnderFacts
<1>3. CASE k < bs
  <2>1. At(b) + k \in Nat /\ At(b) <= At(b) + k /\ At(b) + k < At(b) + bs
    BY <1>1, <1>3
  <2>2. (At(b) + k) \div bs = b /\ (At(b) + k) % bs = k
    <3>1. (At(b) + k) - At(b) = k BY <1>1
    <3>2. QED BY <2>1, <3>1, BlockIsUnique
  <2>3. U(At(b) + k) = Under(b) + (IF k > 0 THEN k + overhead ELSE 0)
    BY <2>2 DEF U, Under, bs
  <2>4. QED BY <1>1, <1>2, <2>1, <2>3
<1>4. CASE k = bs
  <2>1. b + 1 \in Nat /\ At(b + 1) = At(b) + k /\ At(b + 1) \in Nat
    <3>1. b + 1 \in Nat OBVIOUS
    <3>2. QED BY <1>4, <3>1, NextStart, Start
  <2>2. At(b + 1) <= At(b + 1) /\ At(b + 1) < At(b + 1) + bs
    BY <1>1, <2>1
  <2>3. At(b + 1) \div bs = b + 1 /\ At(b + 1) % bs = At(b + 1) - At(b + 1)
    BY <2>1, <2>2, BlockIsUnique
  <2>4. At(b + 1) - At(b + 1) = 0 BY <2>1
  <2>5. U(At(b + 1)) = Under(b + 1) + 0
    BY <2>3, <2>4 DEF U, Under, bs
  <2>6. QED BY <1>1, <1>2, <1>4, <2>1, <2>5
<1>5. QED BY <1>1, <1>3, <1>4

(* A longer stream has an underlying file that is no shorter. *)
LEMMA UGrows ==
    ASSUME NEW m \in Nat, NEW n \in Nat, m <= n
    PROVE  /\ U(m) \in Nat /\ U(n) \in Nat
           /\ U(m) <= U(n)
           /\ U(m) >= header_size
<1>1. PICK b \in Nat, j \in Nat : m = At(b) + j /\ j < bs
  <2>1. m \div bs \in Nat /\ At(m \div bs) <= m /\ m < At(m \div bs) + bs BY BlockOf
  <2>2. PICK b \in Nat : b = m \div bs BY <2>1
  <2>3. At(b) \in Nat /\ At(b) <= m /\ m < At(b) + bs BY <2>1, <2>2, Start
  <2>4. m - At(b) \in Nat /\ m = At(b) + (m - At(b)) /\ m - At(b) < bs BY <2>3, Sizes
  <2>5. QED BY <2>4
<1>2. PICK d \in Nat, k \in Nat : n = At(d) + k /\ k < bs
  <2>1. n \div bs \in Nat /\ At(n \div bs) <= n /\ n < At(n \div bs) + bs BY BlockOf
  <2>2. PICK b2 \in Nat : b2 = n \div bs BY <2>1
  <2>3. At(b2) \in Nat /\ At(b2) <= n /\ n < At(b2) + bs BY <2>1, <2>2, Start
  <2>4. n - At(b2) \in Nat /\ n = At(b2) + (n - At(b2)) /\ n - At(b2) < bs BY <2>3, Sizes
  <2>5. QED BY <2>4
<1>3. bs \in Nat /\ overhead \in Nat /\ us = bs + overhead /\ At(b) \in Nat /\ At(d) \in Nat
      /\ header_size \in Nat
  BY <1>1, <1>2, Start, Sizes
<1>4. U(m) = (IF j = 0 THEN Under(b) ELSE Under(b) + j + overhead)
      /\ U(n) = (IF k = 0 THEN Under(d) ELSE Under(d) + k + overhead)
  <2>1. j <= bs /\ k <= bs BY <1>1, <1>2, <1>3
  <2>2. QED BY <1>1, <1>2, <2>1, UInBlock
<1>5. PICK x \in Nat, y \in Nat : x = Under(b) /\ y = Under(d) /\ x >= header_size /\ y >= header_size
  BY <1>1, <1>2, UnderFacts
<1>6. ~(d < b)
  <2>1. d < b => At(d) + bs <= At(b) BY <1>1, <1>2, StartsApart
  <2>2. QED BY <1>1, <1>2, <1>3, <2>1
<1>7. CASE b = d
  <2>1. j <= k BY <1>1, <1>2, <1>3, <1>7
  <2>2. x = y BY <1>5, <1>7
  <2>3. QED BY <1>1, <1>2, <1>3, <1>4, <1>5, <2>1, <2>2
<1>8. CASE b < d
  <2>1. x + us <= y BY <1>1, <1>2, <1>5, <1>8, UnderFacts
  <2>2. QED BY <1>1, <1>2, <1>3, <1>4, <1>5, <2>1
<1>9. QED BY <1>1, <1>2, <1>6, <1>7, <1>8

(* Where the underlying file of a stream of n bytes ends, seen from block b. *)
LEMMA UFromBlock ==
    ASSUME NEW n \in Nat, NEW b \in Nat
    PROVE  /\ n <= At(b) => U(n) <= Under(b)
           /\ At(b) < n => U(n) > Under(b)
           /\ At(b) < n /\ n <= At(b) + bs => U(n) = Under(b) + (n - At(b)) + overhead
           /\ At(b) + bs <= n => U(n) >= Under(b) + us
<1>1. At(b) \in Nat /\ bs \in Nat /\ bs > 0 /\ overhead \in Nat /\ us = bs + overhead /\ us \in Nat
      /\ Under(b) \in Nat /\ U(n) \in Nat
  <2>1. n <= n OBVIOUS
  <2>2. U(n) \in Nat BY <2>1, UGrows
  <2>3. QED BY <2>2, Start, Sizes, UnderFacts
<1>2. U(At(b)) = Under(b) /\ U(At(b) + bs) = Under(b) + us /\ At(b) + bs \in Nat
  <2>1. At(b) + 0 = At(b) /\ 0 <= bs /\ bs <= bs /\ bs # 0 BY <1>1
  <2>2. U(At(b) + 0) = Under(b) BY <2>1, UInBlock
  <2>3. U(At(b) + bs) = Under(b) + bs + overhead BY <1>1, <2>1, UInBlock
  <2>4. QED BY <1>1, <2>1, <2>2, <2>3
<1>3. n <= At(b) => U(n) <= Under(b)
  <2>1. n <= At(b) => U(n) <= U(At(b)) BY <1>1, UGrows
  <2>2. QED BY <1>2, <2>1
<1>4. At(b) + bs <= n => U(n) >= Under(b) + us
  <2>1. At(b) + bs <= n => U(At(b) + bs) <= U(n) BY <1>2, UGrows
  <2>2. QED BY <1>1, <1>2, <2>1
<1>5. ASSUME At(b) < n, n <= At(b) + bs PROVE U(n) = Under(b) + (n - At(b)) + overhead
  <2>1. PICK k \in Nat : k = n - At(b) /\ k <= bs /\ k # 0 BY <1>1, <1>5
  <2>2. n = At(b) + k BY <1>1, <2>1
  <2>3. QED BY <2>1, <2>2, UInBlock
<1>6. ASSUME At(b) < n PROVE U(n) > Under(b)
  <2>1. CASE n <= At(b) + bs
    <3>1. U(n) = Under(b) + (n - At(b)) + overhead BY <1>5, <1>6, <2>1
    <3>2. QED BY <1>1, <1>6, <3>1
  <2>2. CASE ~(n <= At(b) + bs)
    <3>1. U(n) >= Under(b) + us BY <1>1, <1>4, <2>2
    <3>2. QED BY <1>1, <3>1
  <2>3. QED BY <2>1, <2>2
<1>7. QED BY <1>3, <1>4, <1>5, <1>6

(* calculate_real_size finds the number of bytes again. *)
LEMMA RealSize ==
    ASSUME NEW n \in Nat
    PROVE  calculate_real_size(U(n)) = n
<1>1. PICK b \in Nat, k \in Nat : n = At(b) + k /\ k < bs
  <2>1. n \div bs \in Nat /\ At(n \div bs) <= n /\ n < At(n \div bs) + bs BY BlockOf
  <2>2. PICK b \in Nat : b = n \div bs BY <2>1
  <2>3. At(b) \in Nat /\ At(b) <= n /\ n < At(b) + bs BY <2>1, <2>2, Start
  <2>4. n - At(b) \in Nat /\ n = At(b) + (n - At(b)) /\ n - At(b) < bs BY <2>3, Sizes
  <2>5. QED BY <2>4
<1>2. /\ bs \in Nat /\ overhead \in Nat /\ us = bs + overhead /\ us \in Nat /\ us > 0
      /\ overhead > 0 /\ header_size \in Nat /\ us = underlying_block_size /\ bs = m_block_size
  BY Sizes DEF us, bs
<1>3. b * us \in Nat /\ At(b) = b * bs /\ At(b) \in Nat
  BY <1>1, <1>2, Start DEF At
<1> DEFINE r == IF k = 0 THEN 0 ELSE k + overhead
<1>4. r \in Nat /\ r < us /\ Larger(r - overhead, 0) = k
  BY <1>1, <1>2 DEF Larger
<1>5. U(n) = header_size + b * us + r
  <2>1. k <= bs BY <1>1, <1>2
  <2>2. U(n) = IF k = 0 THEN Under(b) ELSE Under(b) + k + overhead BY <1>1, <2>1, UInBlock
  <2>3. Under(b) = header_size + b * us BY <1>2 DEF Under
  <2>4. QED BY <1>1, <1>2, <1>3, <2>2, <2>3
<1> HIDE DEF r
<1>6. (b * us + r) \div us = b /\ (b * us + r) % us = r
  BY <1>1, <1>2, <1>4, Quotient
<1>7. PICK x \in Nat : x = b * us BY <1>3
<1>8. Larger(U(n) - header_size, 0) = b * us + r
  <2>1. U(n) - header_size = x + r BY <1>2, <1>4, <1>5, <1>7
  <2>2. Larger(x + r, 0) = x + r BY <1>4, <1>7 DEF Larger
  <2>3. QED BY <1>7, <2>1, <2>2
<1>9. calculate_real_size(U(n)) = b * bs + k
  BY <1>2, <1>4, <1>6, <1>8 DEF calculate_real_size
<1>10. QED BY <1>1, <1>3, <1>9

(* A header, or a part of one, is a stream of no bytes. *)
LEMMA HeaderSize ==
    ASSUME NEW n \in Nat, n <= header_size
    PROVE  calculate_real_size(n) = 0
<1>1. us \in Nat /\ us > 0 /\ us = underlying_block_size /\ overhead \in Nat /\ overhead > 0
      /\ header_size \in Nat /\ m_block_size \in Nat
  BY Sizes DEF us, bs
<1>2. Larger(n - header_size, 0) = 0 BY <1>1 DEF Larger
<1>3. 0 \div us = 0 /\ 0 % us = 0 BY <1>1
<1>4. Larger(0 - overhead, 0) = 0 BY <1>1 DEF Larger
<1>5. calculate_real_size(n) = 0 * m_block_size + 0 BY <1>1, <1>2, <1>3, <1>4 DEF calculate_real_size
<1>6. QED BY <1>1, <1>5

-----------------------------------------------------------------------------
(* r is s with t written over it at off. *)
IsPut(r, s, off, t, fill) ==
    /\ Len(r) = Larger(Len(s), off + Len(t))
    /\ \A i \in 1..Larger(Len(s), off + Len(t)) :
          r[i] = IF i > off /\ i <= off + Len(t) THEN t[i - off]
                 ELSE IF i <= Len(s) THEN s[i] ELSE fill

(* r is s cut or extended to n. *)
IsCut(r, s, n, fill) ==
    /\ Len(r) = n
    /\ \A i \in 1..n : r[i] = IF i <= Len(s) THEN s[i] ELSE fill

(* pwrite of the underlying file. *)
LEMMA PutAtFacts ==
    ASSUME NEW S, NEW s \in Seq(S), NEW t \in Seq(S), NEW off \in Nat, NEW fill \in S
    PROVE  /\ PutAt(s, off, t, fill) \in Seq(S)
           /\ IsPut(PutAt(s, off, t, fill), s, off, t, fill)
BY DEF PutAt, Larger, IsPut

(* ftruncate of the underlying file. *)
LEMMA CutToFacts ==
    ASSUME NEW S, NEW s \in Seq(S), NEW n \in Nat, NEW fill \in S
    PROVE  /\ CutTo(s, n, fill) \in Seq(S)
           /\ IsCut(CutTo(s, n, fill), s, n, fill)
BY DEF CutTo, IsCut

(* How many elements a window has. *)
LEMMA SpanFacts ==
    ASSUME NEW l \in Nat, NEW p \in Nat, NEW k \in Nat
    PROVE  /\ Span(l, p, k) \in Nat /\ Span(l, p, k) <= k
           /\ l <= p => Span(l, p, k) = 0
           /\ p + k <= l => Span(l, p, k) = k
           /\ p <= l /\ l <= p + k => Span(l, p, k) = l - p
           /\ Span(l, p, k) > 0 => p < l
           /\ p <= l => p + Span(l, p, k) <= l
           /\ \A i \in 1..Span(l, p, k) : p + i \in 1..l /\ i <= k
BY DEF Span, Smaller

(* A window is the elements from its beginning. *)
LEMMA WindowFacts ==
    ASSUME NEW S, NEW s \in Seq(S), NEW p \in Nat, NEW k \in Nat
    PROVE  /\ Window(s, p, k) \in Seq(S)
           /\ Len(Window(s, p, k)) = Span(Len(s), p, k)
           /\ \A i \in 1..Span(Len(s), p, k) : Window(s, p, k)[i] = s[p + i]
<1> DEFINE m == p + 1
           n == Smaller(p + k, Len(s))
<1>1. Len(s) \in Nat OBVIOUS
<1>2. m \in Int /\ n \in Int BY <1>1 DEF Smaller
<1>3. \A i \in m..n : s[i] \in S BY <1>1 DEF Smaller
<1>4. PICK l \in Nat : l = Len(s) BY <1>1
<1>5. Span(Len(s), p, k) = IF m <= n THEN n - m + 1 ELSE 0
  <2>1. n = Smaller(p + k, l) /\ Span(Len(s), p, k) = Span(l, p, k) BY <1>4
  <2>2. l \in Nat BY <1>4
  <2>3. Span(l, p, k) = IF m <= Smaller(p + k, l) THEN Smaller(p + k, l) - m + 1 ELSE 0
    BY <2>2 DEF Span, Smaller
  <2>4. QED BY <2>1, <2>3
<1>6. Window(s, p, k) = SubSeq(s, m, n) BY DEF Window
<1> HIDE DEF m, n
<1>7. /\ SubSeq(s, m, n) \in Seq(S)
      /\ Len(SubSeq(s, m, n)) = IF m <= n THEN n - m + 1 ELSE 0
      /\ \A i \in 1..(n - m + 1) : SubSeq(s, m, n)[i] = s[m + i - 1]
  BY <1>2, <1>3, SubSeqProperties
<1>8. ASSUME NEW i \in 1..Span(Len(s), p, k) PROVE Window(s, p, k)[i] = s[p + i]
  <2>1. i \in 1..(n - m + 1) /\ m + i - 1 = p + i
    BY <1>2, <1>5 DEF m
  <2>2. QED BY <1>6, <1>7, <2>1
<1>9. QED BY <1>5, <1>6, <1>7, <1>8

(* Windows with the same elements are the same. *)
LEMMA SameWindow ==
    ASSUME NEW S, NEW s \in Seq(S), NEW t \in Seq(S), NEW p \in Nat, NEW k \in Nat,
           Span(Len(t), p, k) = Span(Len(s), p, k),
           \A i \in 1..Span(Len(s), p, k) : t[p + i] = s[p + i]
    PROVE  Window(t, p, k) = Window(s, p, k)
<1> DEFINE x == Window(s, p, k)
           y == Window(t, p, k)
<1>1. x \in Seq(S) /\ Len(x) = Span(Len(s), p, k) /\ \A i \in 1..Span(Len(s), p, k) : x[i] = s[p + i]
  BY WindowFacts
<1>2. y \in Seq(S) /\ Len(y) = Span(Len(t), p, k) /\ \A i \in 1..Span(Len(t), p, k) : y[i] = t[p + i]
  BY WindowFacts
<1> HIDE DEF x, y
<1>3. Len(y) = Len(x) /\ \A i \in 1..Len(y) : y[i] = x[i] BY <1>1, <1>2
<1>4. y = x BY <1>1, <1>2, <1>3, SeqEqual
<1>5. QED BY <1>4 DEF x, y

(* A write beside a window leaves it, unless it changes how much of it there is. *)
LEMMA PutBeside ==
    ASSUME NEW S, NEW s \in Seq(S), NEW t \in Seq(S), NEW r \in Seq(S), NEW q \in Nat, NEW fill,
           IsPut(t, s, q, r, fill), NEW p \in Nat, NEW k \in Nat,
           p + k <= q \/ q + Len(r) <= p,
           Span(Len(t), p, k) = Span(Len(s), p, k)
    PROVE  Window(t, p, k) = Window(s, p, k)
<1>1. PICK l \in Nat, m \in Nat : l = Len(s) /\ m = Len(r)
  <2>1. Len(s) \in Nat /\ Len(r) \in Nat OBVIOUS
  <2>2. QED BY <2>1
<1>2. ASSUME NEW i \in 1..Span(Len(s), p, k) PROVE t[p + i] = s[p + i]
  <2>1. p + i \in 1..l /\ i <= k /\ i \in Nat /\ i >= 1
    <3>1. l \in Nat BY <1>1
    <3>2. Span(l, p, k) \in Nat /\ i \in 1..Span(l, p, k) BY <1>1, <1>2, <3>1, SpanFacts
    <3>3. QED BY <3>1, <3>2, SpanFacts
  <2>2. p + k <= q \/ q + m <= p BY <1>1
  <2>3. l \in Nat /\ m \in Nat BY <1>1
  <2>4. p + i \in 1..Larger(l, q + m) /\ ~(p + i > q /\ p + i <= q + m) /\ p + i <= l
    BY <2>1, <2>2, <2>3 DEF Larger
  <2>5. QED BY <1>1, <2>4 DEF IsPut
<1>3. QED BY <1>2, SameWindow

(* What was written is the beginning of the window it was written into. *)
LEMMA PutInWindow ==
    ASSUME NEW S, NEW s \in Seq(S), NEW t \in Seq(S), NEW r \in Seq(S), NEW q \in Nat, NEW fill,
           IsPut(t, s, q, r, fill), NEW k \in Nat, Span(Len(t), q, k) = Len(r)
    PROVE  Window(t, q, k) = r
<1> DEFINE y == Window(t, q, k)
<1>1. y \in Seq(S) /\ Len(y) = Span(Len(t), q, k) /\ \A i \in 1..Span(Len(t), q, k) : y[i] = t[q + i]
  BY WindowFacts
<1> HIDE DEF y
<1>2. PICK l \in Nat, m \in Nat : l = Len(s) /\ m = Len(r)
  <2>1. Len(s) \in Nat /\ Len(r) \in Nat OBVIOUS
  <2>2. QED BY <2>1
<1>3. ASSUME NEW i \in 1..Len(y) PROVE y[i] = r[i]
  <2>1. i \in 1..m BY <1>1, <1>2
  <2>2. l \in Nat /\ m \in Nat BY <1>2
  <2>3. q + i \in 1..Larger(l, q + m) /\ q + i > q /\ q + i <= q + m /\ q + i - q = i
    BY <2>1, <2>2 DEF Larger
  <2>4. t[q + i] = r[q + i - q] BY <1>2, <2>3 DEF IsPut
  <2>5. QED BY <1>1, <2>3, <2>4
<1>4. y = r BY <1>1, <1>3, SeqEqual
<1>5. QED BY <1>4 DEF y

(* A window that a cut leaves at its length stays. *)
LEMMA CutKeeps ==
    ASSUME NEW S, NEW s \in Seq(S), NEW t \in Seq(S), NEW n \in Nat, NEW fill,
           IsCut(t, s, n, fill), NEW p \in Nat, NEW k \in Nat,
           Span(Len(t), p, k) = Span(Len(s), p, k)
    PROVE  Window(t, p, k) = Window(s, p, k)
<1>1. PICK l \in Nat : l = Len(s) OBVIOUS
<1>2. l \in Nat /\ Len(t) = n BY <1>1 DEF IsCut
<1>3. ASSUME NEW i \in 1..Span(Len(s), p, k) PROVE t[p + i] = s[p + i]
  <2>1. i \in 1..Span(l, p, k) /\ i \in 1..Span(n, p, k) BY <1>1, <1>2
  <2>2. p + i \in 1..l /\ p + i \in 1..n BY <1>2, <2>1, SpanFacts
  <2>3. p + i <= l BY <2>2
  <2>4. QED BY <1>1, <2>2, <2>3 DEF IsCut
<1>4. QED BY <1>3, SameWindow

-----------------------------------------------------------------------------
(* The cells r are the stored form of s as block b. *)
Encodes(r, b, s) ==
    \/ r = Encrypted(b, s)
    \/ IsAllZeros(s, 0) /\ r = [i \in 1..(Len(s) + overhead) |-> Zero]

(* The cells d are the underlying file of the bytes c. *)
Stores(d, c) ==
    /\ d \in Seq(Cell) /\ c \in Seq(Bytes)
    /\ Len(d) = U(Len(c))
    /\ \A b \in Nat : At(b) < Len(c) => Encodes(Raw(d, b), b, BlockAt(c, b))

(* The stored form of a block, cell by cell. *)
LEMMA EncodesFacts ==
    ASSUME NEW b \in Nat, NEW s \in Seq(Bytes), NEW r, Encodes(r, b, s)
    PROVE  /\ r \in Seq(Cell) /\ Len(r) = Len(s) + overhead
           /\ \/ /\ \A i \in 1..(Len(s) + overhead) : r[i] = <<b, s, i>> /\ r[i] # Zero
              \/ /\ \A i \in 1..(Len(s) + overhead) : r[i] = Zero
                 /\ \A i \in 1..Len(s) : s[i] = 0
<1>1. PICK n \in Nat : n = Len(s) + overhead BY Sizes
<1>2. CASE r = Encrypted(b, s)
  <2>1. r = [i \in 1..n |-> <<b, s, i>>] BY <1>1, <1>2 DEF Encrypted
  <2>2. \A i \in 1..n : <<b, s, i>> \in Coded BY DEF Coded
  <2>3. \A i \in 1..n : <<b, s, i>> # Zero BY <2>2, LiteStreamAssumption DEF Coded
  <2>4. r \in [1..n -> Cell] BY <2>1, <2>2 DEF Cell
  <2>5. r \in Seq(Cell) /\ Len(r) = n BY <1>1, <2>4
  <2>6. QED BY <1>1, <2>1, <2>3, <2>5
<1>3. CASE IsAllZeros(s, 0) /\ r = [i \in 1..(Len(s) + overhead) |-> Zero]
  <2>1. r = [i \in 1..n |-> Zero] BY <1>1, <1>3
  <2>2. r \in [1..n -> Cell] BY <2>1 DEF Cell
  <2>3. r \in Seq(Cell) /\ Len(r) = n BY <1>1, <2>2
  <2>4. \A i \in 1..Len(s) : s[i] = 0
    <3>1. DOMAIN s = 1..Len(s) OBVIOUS
    <3>2. QED BY <1>3, <3>1 DEF IsAllZeros
  <2>5. QED BY <1>1, <2>1, <2>3, <2>4
<1>4. QED BY <1>2, <1>3 DEF Encodes

(* Raw is a window. *)
LEMMA RawWindow ==
    ASSUME NEW d, NEW b \in Nat
    PROVE  Raw(d, b) = Window(d, Under(b), us)
<1>1. header_size + us * b = Under(b) BY UnderFacts
<1>2. QED BY <1>1 DEF Raw, Window, us

(* The cells that are read as one block. *)
LEMMA RawFacts ==
    ASSUME NEW d \in Seq(Cell), NEW b \in Nat
    PROVE  /\ Raw(d, b) \in Seq(Cell)
           /\ Len(Raw(d, b)) = Span(Len(d), Under(b), us)
           /\ \A i \in 1..Span(Len(d), Under(b), us) : Raw(d, b)[i] = d[Under(b) + i]
<1>1. Under(b) \in Nat /\ us \in Nat BY UnderFacts, Sizes
<1>2. Raw(d, b) = Window(d, Under(b), us) BY RawWindow
<1>3. /\ Window(d, Under(b), us) \in Seq(Cell)
      /\ Len(Window(d, Under(b), us)) = Span(Len(d), Under(b), us)
      /\ \A i \in 1..Span(Len(d), Under(b), us) : Window(d, Under(b), us)[i] = d[Under(b) + i]
  BY <1>1, WindowFacts, Zenon
<1>4. QED BY <1>2, <1>3

(* The bytes of one block. *)
LEMMA BlockFacts ==
    ASSUME NEW c \in Seq(Bytes), NEW b \in Nat
    PROVE  /\ BlockAt(c, b) \in Seq(Bytes)
           /\ Len(BlockAt(c, b)) = Span(Len(c), At(b), bs)
           /\ \A i \in 1..Span(Len(c), At(b), bs) : BlockAt(c, b)[i] = c[At(b) + i]
<1>1. At(b) \in Nat /\ bs \in Nat BY Start, Sizes
<1>2. /\ Window(c, At(b), bs) \in Seq(Bytes)
      /\ Len(Window(c, At(b), bs)) = Span(Len(c), At(b), bs)
      /\ \A i \in 1..Span(Len(c), At(b), bs) : Window(c, At(b), bs)[i] = c[At(b) + i]
  BY <1>1, WindowFacts, Zenon
<1>3. QED BY <1>2 DEF BlockAt

(* How many bytes of a block there are, and how many cells. *)
LEMMA SpansAgree ==
    ASSUME NEW n \in Nat, NEW b \in Nat
    PROVE  Span(U(n), Under(b), us) = IF At(b) < n THEN Span(n, At(b), bs) + overhead ELSE 0
<1>1. PICK p \in Nat, q \in Nat, s \in Nat, o \in Nat, u \in Nat :
          p = At(b) /\ q = Under(b) /\ s = bs /\ o = overhead /\ u = U(n)
  <2>1. n <= n OBVIOUS
  <2>2. U(n) \in Nat BY <2>1, UGrows
  <2>3. QED BY <2>2, Start, UnderFacts, Sizes
<1>2. us = s + o /\ s > 0 /\ o > 0 BY <1>1, Sizes
<1>3. /\ n <= p => u <= q
      /\ p < n /\ n <= p + s => u = q + (n - p) + o
      /\ p + s <= n => u >= q + us
  BY <1>1, UFromBlock
<1>4. p \in Nat /\ q \in Nat /\ s \in Nat /\ o \in Nat /\ u \in Nat BY <1>1
<1>5. Span(u, q, s + o) = IF p < n THEN Span(n, p, s) + o ELSE 0
  BY <1>2, <1>3, <1>4 DEF Span, Smaller
<1>6. QED BY <1>1, <1>2, <1>5

(* A block of a file that stores bytes. *)
LEMMA StoredBlock ==
    ASSUME NEW d, NEW c, Stores(d, c), NEW b \in Nat
    PROVE  /\ BlockReadable(d, b)
           /\ PlainBlock(d, b) = BlockAt(c, b)
<1>1. d \in Seq(Cell) /\ c \in Seq(Bytes) /\ Len(d) = U(Len(c)) BY DEF Stores
<1> DEFINE r == Raw(d, b)
           s == BlockAt(c, b)
           n == Span(Len(c), At(b), bs)
<1>2. r \in Seq(Cell) /\ Len(r) = Span(Len(d), Under(b), us) BY <1>1, RawFacts
<1>3. s \in Seq(Bytes) /\ Len(s) = n BY <1>1, BlockFacts
<1>3a. n \in Nat
  <2>1. Len(c) \in Nat BY <1>1
  <2>2. QED BY <2>1, Start, Sizes, SpanFacts
<1>4. Len(r) = IF At(b) < Len(c) THEN n + overhead ELSE 0
  <2>1. Len(c) \in Nat BY <1>1
  <2>2. QED BY <1>1, <1>2, <2>1, SpansAgree
<1>5. overhead \in Nat /\ overhead > 0 BY Sizes
<1>6. BlockReadable(d, b) <=> Len(r) <= overhead \/ IsAllZeros(r, Zero) \/ Verifies(r, b)
  BY DEF BlockReadable
<1>7. PlainBlock(d, b) = IF Len(r) <= overhead THEN <<>>
                         ELSE IF IsAllZeros(r, Zero) THEN Zeros(Len(r) - overhead) ELSE r[1][2]
  BY DEF PlainBlock
<1>8. At(b) < Len(c) => Encodes(r, b, s) BY DEF Stores
<1>8a. At(b) \in Nat /\ bs \in Nat /\ bs > 0 /\ Len(c) \in Nat
  <2>1. Len(c) \in Nat BY <1>1
  <2>2. QED BY <2>1, Start, Sizes
<1>8b. (At(b) < Len(c) => n > 0) /\ (~(At(b) < Len(c)) => n = 0)
  BY <1>8a DEF Span, Smaller
<1> HIDE DEF r, s, n
<1>9. CASE ~(At(b) < Len(c))
  <2>1. Len(r) <= overhead BY <1>4, <1>5, <1>9
  <2>2. Len(s) = 0 BY <1>3, <1>8b, <1>9
  <2>3. s = <<>> BY <1>3, <2>2
  <2>4. QED BY <1>6, <1>7, <2>1, <2>3 DEF s
<1>10. CASE At(b) < Len(c)
  <2>0. n > 0 BY <1>8b, <1>10
  <2>1. ~(Len(r) <= overhead) /\ Len(r) = n + overhead /\ Len(r) - overhead = n /\ 1 \in 1..(n + overhead)
    BY <1>3a, <1>4, <1>5, <1>10, <2>0
  <2>2. \/ /\ \A i \in 1..(Len(s) + overhead) : r[i] = <<b, s, i>> /\ r[i] # Zero
        \/ /\ \A i \in 1..(Len(s) + overhead) : r[i] = Zero
           /\ \A i \in 1..Len(s) : s[i] = 0
    BY <1>3, <1>8, <1>10, EncodesFacts
  <2>3. DOMAIN r = 1..(n + overhead) BY <1>2, <2>1
  <2>4. CASE \A i \in 1..(n + overhead) : r[i] = <<b, s, i>> /\ r[i] # Zero
    <3>1. r[1] = <<b, s, 1>> /\ r[1] # Zero /\ r[1][2] = s BY <2>1, <2>4
    <3>2. ~IsAllZeros(r, Zero) BY <2>1, <2>3, <3>1 DEF IsAllZeros
    <3>3. r = [i \in 1..(n + overhead) |-> r[i]]
      <4>1. r = [i \in DOMAIN r |-> r[i]] BY <1>2
      <4>2. QED BY <2>3, <4>1
    <3>4. r = [i \in 1..(n + overhead) |-> <<b, s, i>>] BY <2>4, <3>3
    <3>5. r = Encrypted(b, s) BY <1>3, <3>4 DEF Encrypted
    <3>6. Verifies(r, b) BY <3>1, <3>5 DEF Verifies
    <3>7. QED BY <1>6, <1>7, <2>1, <3>1, <3>2, <3>6 DEF s
  <2>5. CASE /\ \A i \in 1..(n + overhead) : r[i] = Zero
             /\ \A i \in 1..n : s[i] = 0
    <3>1. IsAllZeros(r, Zero) BY <2>3, <2>5 DEF IsAllZeros
    <3>2. s = [i \in 1..n |-> s[i]] BY <1>3
    <3>3. s = Zeros(n) BY <2>5, <3>2 DEF Zeros
    <3>4. QED BY <1>6, <1>7, <2>1, <3>1, <3>3 DEF s
  <2>6. QED BY <1>3, <2>2, <2>4, <2>5
<1>11. QED BY <1>9, <1>10

(* What the stream reads as. *)
LEMMA StoredContent ==
    ASSUME NEW d, NEW c, Stores(d, c)
    PROVE  /\ Content(d) = c
           /\ calculate_real_size(Len(d)) = Len(c)
<1>1. d \in Seq(Cell) /\ c \in Seq(Bytes) /\ Len(d) = U(Len(c)) /\ Len(c) \in Nat BY DEF Stores
<1>2. calculate_real_size(Len(d)) = Len(c) BY <1>1, RealSize
<1>3. ASSUME NEW i \in 1..Len(c)
      PROVE  PlainBlock(d, (i - 1) \div m_block_size)[((i - 1) % m_block_size) + 1] = c[i]
  <2>1. i \in Nat /\ i - 1 \in Nat /\ i <= Len(c) BY <1>1
  <2>2. PICK b \in Nat : b = (i - 1) \div bs BY <2>1, BlockOf
  <2>3. At(b) <= i - 1 /\ i - 1 < At(b) + bs /\ (i - 1) % bs = i - 1 - At(b) BY <2>1, <2>2, BlockOf
  <2>4. At(b) \in Nat /\ bs \in Nat BY <2>2, Start, Sizes
  <2>5. PICK j \in Nat : j = i - At(b) /\ j >= 1 /\ j <= bs BY <2>1, <2>3, <2>4
  <2>6. At(b) + j = i /\ ((i - 1) % bs) + 1 = j BY <2>1, <2>3, <2>4, <2>5
  <2>7. j \in 1..Span(Len(c), At(b), bs)
    <3>1. PICK p \in Nat, l \in Nat, s \in Nat : p = At(b) /\ l = Len(c) /\ s = bs BY <1>1, <2>4
    <3>2. p \in Nat /\ l \in Nat /\ s \in Nat /\ p + j <= l /\ j <= s /\ j >= 1 BY <2>1, <2>5, <2>6, <3>1
    <3>3. j \in 1..Span(l, p, s) BY <2>5, <3>2 DEF Span, Smaller
    <3>4. QED BY <3>1, <3>3
  <2>8. BlockAt(c, b)[j] = c[At(b) + j] BY <1>1, <2>7, BlockFacts
  <2>9. PlainBlock(d, b) = BlockAt(c, b) BY StoredBlock
  <2>10. QED BY <2>2, <2>6, <2>8, <2>9 DEF bs
<1>4. Content(d) = [i \in 1..Len(c) |-> c[i]] BY <1>2, <1>3 DEF Content
<1>5. QED BY <1>1, <1>2, <1>4

-----------------------------------------------------------------------------
(* How two blocks lie. *)
LEMMA Ordered ==
    ASSUME NEW b \in Nat, NEW y \in Nat
    PROVE  /\ y < b => At(y) + bs <= At(b) /\ Under(y) + us <= Under(b)
           /\ b <= y => At(b) <= At(y) /\ Under(b) <= Under(y)
<1>1. At(b) \in Nat /\ At(y) \in Nat /\ Under(b) \in Nat /\ Under(y) \in Nat /\ bs \in Nat /\ us \in Nat
  BY Start, UnderFacts, Sizes
<1>2. y < b => At(y) + bs <= At(b) /\ Under(y) + us <= Under(b)
  BY StartsApart, UnderFacts
<1>3. b < y => At(b) + bs <= At(y) /\ Under(b) + us <= Under(y)
  BY StartsApart, UnderFacts
<1>4. CASE b = y BY <1>1, <1>2, <1>4
<1>5. CASE b # y BY <1>1, <1>2, <1>3, <1>5
<1>6. QED BY <1>4, <1>5

(* A write of the underlying file that is within one block, and does not
   change its length, leaves the other blocks.                               *)
LEMMA OtherRaw ==
    ASSUME NEW d \in Seq(Cell), NEW e \in Seq(Cell), NEW r \in Seq(Cell), NEW b \in Nat,
           IsPut(e, d, Under(b), r, Zero), Len(r) <= us, NEW y \in Nat, y # b,
           Span(Len(e), Under(y), us) = Span(Len(d), Under(y), us)
    PROVE  Raw(e, y) = Raw(d, y)
<1>1. PICK p \in Nat, q \in Nat, k \in Nat, u \in Nat : p = Under(y) /\ q = Under(b) /\ k = Len(r) /\ u = us
  <2>1. Len(r) \in Nat OBVIOUS
  <2>2. QED BY <2>1, UnderFacts, Sizes
<1>2. p + u <= q \/ q + u <= p
  <2>1. y < b \/ b < y OBVIOUS
  <2>2. QED BY <1>1, <2>1, UnderFacts
<1>3. k <= u /\ k \in Nat /\ u \in Nat /\ p \in Nat /\ q \in Nat BY <1>1
<1>4. p + u <= q \/ q + k <= p BY <1>2, <1>3
<1>5. Under(y) + us <= Under(b) \/ Under(b) + Len(r) <= Under(y) BY <1>1, <1>4
<1>6. Under(y) \in Nat /\ Under(b) \in Nat /\ us \in Nat BY UnderFacts, Sizes
<1>7. Window(e, Under(y), us) = Window(d, Under(y), us) BY <1>5, <1>6, PutBeside
<1>8. QED BY <1>7, RawWindow

(* Writing a block that is at least as long as it was. *)
LEMMA PutStores ==
    ASSUME NEW d, NEW c, Stores(d, c), NEW b \in Nat, NEW bytes \in Seq(Bytes), Len(bytes) \in 1..bs,
           At(b) <= Len(c), Span(Len(c), At(b), bs) <= Len(bytes), NEW r, Encodes(r, b, bytes)
    PROVE  Stores(PutAt(d, Under(b), r, Zero), PutAt(c, At(b), bytes, 0))
<1> DEFINE e == PutAt(d, Under(b), r, Zero)
           x == PutAt(c, At(b), bytes, 0)
<1>1. d \in Seq(Cell) /\ c \in Seq(Bytes) /\ Len(d) = U(Len(c)) /\ Len(c) \in Nat BY DEF Stores
<1>2. r \in Seq(Cell) /\ Len(r) = Len(bytes) + overhead BY EncodesFacts
<1>3. At(b) \in Nat /\ Under(b) \in Nat /\ Zero \in Cell /\ 0 \in Bytes
  BY Start, UnderFacts, LiteStreamAssumption DEF Cell
<1>4. e \in Seq(Cell) /\ IsPut(e, d, Under(b), r, Zero) BY <1>1, <1>2, <1>3, PutAtFacts, Zenon
<1>5. x \in Seq(Bytes) /\ IsPut(x, c, At(b), bytes, 0) BY <1>1, <1>3, PutAtFacts, Zenon
<1> HIDE DEF e, x
<1>6. PICK p \in Nat, l \in Nat, k \in Nat, s \in Nat, o \in Nat, q \in Nat :
         p = At(b) /\ l = Len(c) /\ k = Len(bytes) /\ s = bs /\ o = overhead /\ q = Under(b)
  <2>1. Len(bytes) \in Nat OBVIOUS
  <2>2. QED BY <1>1, <1>3, <2>1, Sizes
<1>7. /\ p \in Nat /\ l \in Nat /\ k \in Nat /\ s \in Nat /\ o \in Nat /\ q \in Nat
      /\ k >= 1 /\ k <= s /\ p <= l /\ us = s + o /\ Span(l, p, s) <= k
  BY <1>6, Sizes
<1> DEFINE m == Larger(l, p + k)
<1>8. m \in Nat /\ Len(x) = m /\ m >= l /\ m >= p + k /\ (m = l \/ m = p + k)
  BY <1>5, <1>6, <1>7 DEF IsPut, Larger
<1> HIDE DEF m
<1>9. U(p + k) = q + k + o
  <2>1. k <= bs /\ k # 0 BY <1>6, <1>7
  <2>2. QED BY <1>6, <2>1, UInBlock
<1>10. Len(e) = U(m)
  <2>1. Len(e) = Larger(U(l), q + (k + o)) BY <1>1, <1>2, <1>4, <1>6 DEF IsPut
  <2>2. l <= m /\ p + k <= m /\ p + k \in Nat BY <1>7, <1>8
  <2>3. U(l) \in Nat /\ U(m) \in Nat /\ U(l) <= U(m) BY <1>7, <1>8, <2>2, UGrows
  <2>4. U(p + k) \in Nat /\ U(p + k) <= U(m) BY <1>8, <2>2, UGrows
  <2>5. U(m) = U(l) \/ U(m) = U(p + k) BY <1>8
  <2>6. q + (k + o) = U(p + k) BY <1>7, <1>9
  <2>7. Larger(U(l), U(p + k)) = U(m) BY <2>3, <2>4, <2>5 DEF Larger
  <2>8. QED BY <2>1, <2>6, <2>7
<1>11. Span(m, p, s) = k
  BY <1>7, <1>8 DEF Span, Smaller
<1>12. ASSUME NEW y \in Nat, At(y) < m PROVE Encodes(Raw(e, y), y, BlockAt(x, y))
  <2>1. CASE y = b
    <3>1. BlockAt(x, b) = bytes
      <4>1. Span(Len(x), At(b), bs) = Len(bytes) BY <1>6, <1>8, <1>11
      <4>2. At(b) \in Nat /\ bs \in Nat BY <1>3, Sizes
      <4>3. Window(x, At(b), bs) = bytes BY <1>1, <1>5, <4>1, <4>2, PutInWindow
      <4>4. QED BY <4>3 DEF BlockAt
    <3>2. Raw(e, b) = r
      <4>1. Span(U(m), Under(b), us) = IF At(b) < m THEN Span(m, At(b), bs) + overhead ELSE 0
        BY <1>8, SpansAgree
      <4>2. Span(Len(e), Under(b), us) = Len(r) BY <1>2, <1>6, <1>10, <1>11, <1>12, <2>1, <4>1
      <4>3. us \in Nat BY Sizes
      <4>4. Window(e, Under(b), us) = r BY <1>1, <1>2, <1>3, <1>4, <4>2, <4>3, PutInWindow
      <4>5. QED BY <4>4, RawWindow
    <3>3. QED BY <2>1, <3>1, <3>2
  <2>2. CASE y # b
    <3>1. PICK z \in Nat : z = At(y) BY Start
    <3>2. (z + s <= p \/ p + s <= z) /\ z < m
      <4>1. y < b \/ b < y BY <2>2
      <4>2. QED BY <1>6, <1>12, <3>1, <4>1, StartsApart
    <3>3. Span(m, z, s) = Span(l, z, s) /\ z < l
      <4>1. CASE z + s <= p
        <5>1. z \in Nat /\ s \in Nat /\ z + s <= l /\ z + s <= m /\ z < l BY <1>7, <1>8, <3>1, <4>1
        <5>2. QED BY <1>7, <1>8, <5>1, SpanFacts
      <4>2. CASE p + s <= z
        <5>1. m = l BY <1>7, <1>8, <3>1, <3>2, <4>2
        <5>2. QED BY <3>2, <5>1
      <4>3. QED BY <3>2, <4>1, <4>2
    <3>4. BlockAt(x, y) = BlockAt(c, y)
      <4>1. At(y) + bs <= At(b) \/ At(b) + Len(bytes) <= At(y)
        <5>1. z + s <= p \/ p + k <= z BY <1>7, <3>1, <3>2
        <5>2. QED BY <1>6, <3>1, <5>1
      <4>2. Span(Len(x), At(y), bs) = Span(Len(c), At(y), bs) BY <1>6, <1>8, <3>1, <3>3
      <4>3. At(y) \in Nat /\ bs \in Nat BY Start, Sizes
      <4>4. Window(x, At(y), bs) = Window(c, At(y), bs)
        BY <1>1, <1>3, <1>5, <4>1, <4>2, <4>3, PutBeside
      <4>5. QED BY <4>4 DEF BlockAt
    <3>5. Raw(e, y) = Raw(d, y)
      <4>1. /\ Span(U(m), Under(y), us) = IF At(y) < m THEN Span(m, At(y), bs) + overhead ELSE 0
            /\ Span(U(l), Under(y), us) = IF At(y) < l THEN Span(l, At(y), bs) + overhead ELSE 0
        BY <1>7, <1>8, SpansAgree
      <4>2. Span(Len(e), Under(y), us) = Span(Len(d), Under(y), us)
        BY <1>1, <1>6, <1>10, <3>1, <3>2, <3>3, <4>1
      <4>3. Len(r) <= us BY <1>2, <1>6, <1>7
      <4>4. QED BY <1>1, <1>2, <1>4, <2>2, <4>2, <4>3, OtherRaw
    <3>6. Encodes(Raw(d, y), y, BlockAt(c, y)) BY <1>6, <3>1, <3>3 DEF Stores
    <3>7. QED BY <3>4, <3>5, <3>6
  <2>3. QED BY <2>1, <2>2
<1>13. Stores(e, x) BY <1>4, <1>5, <1>8, <1>10, <1>12 DEF Stores
<1>14. QED BY <1>13 DEF e, x

(* A block that a change of the size leaves at its length is stored as before. *)
LEMMA CutBlockKept ==
    ASSUME NEW d \in Seq(Cell), NEW c \in Seq(Bytes), NEW n \in Nat,
           NEW e \in Seq(Cell), IsCut(e, d, U(n), Zero), NEW x \in Seq(Bytes), IsCut(x, c, n, 0),
           NEW y \in Nat, At(y) < n, At(y) < Len(c), Len(d) = U(Len(c)),
           Span(n, At(y), bs) = Span(Len(c), At(y), bs)
    PROVE  Raw(e, y) = Raw(d, y) /\ BlockAt(x, y) = BlockAt(c, y)
<1>1. Len(c) \in Nat /\ At(y) \in Nat /\ bs \in Nat /\ us \in Nat /\ Under(y) \in Nat
  BY Start, Sizes, UnderFacts
<1>2. Len(e) = U(n) /\ Len(x) = n BY DEF IsCut
<1>2a. U(n) \in Nat
  <2>1. n <= n OBVIOUS
  <2>2. QED BY <2>1, UGrows
<1>3. Window(x, At(y), bs) = Window(c, At(y), bs)
  <2>1. Span(Len(x), At(y), bs) = Span(Len(c), At(y), bs) BY <1>2
  <2>2. QED BY <1>1, <2>1, CutKeeps
<1>4. Span(Len(e), Under(y), us) = Span(Len(d), Under(y), us) BY <1>1, <1>2, SpansAgree
<1>5. Window(e, Under(y), us) = Window(d, Under(y), us) BY <1>1, <1>2a, <1>4, CutKeeps
<1>6. QED BY <1>3, <1>5, RawWindow DEF BlockAt

(* Cutting at the beginning of a block, leaving the size, or growing from the
   beginning of a block.                                                     *)
LEMMA CutStores ==
    ASSUME NEW d, NEW c, Stores(d, c), NEW n \in Nat, NEW b \in Nat,
           \/ n = At(b) /\ n <= Len(c)
           \/ n = Len(c)
           \/ Len(c) = At(b) /\ Len(c) <= n
    PROVE  Stores(CutTo(d, U(n), Zero), CutTo(c, n, 0))
<1> DEFINE e == CutTo(d, U(n), Zero)
           x == CutTo(c, n, 0)
<1>1. d \in Seq(Cell) /\ c \in Seq(Bytes) /\ Len(d) = U(Len(c)) /\ Len(c) \in Nat BY DEF Stores
<1>2. U(n) \in Nat /\ Zero \in Cell /\ 0 \in Bytes
  <2>1. n <= n OBVIOUS
  <2>2. QED BY <2>1, UGrows, LiteStreamAssumption DEF Cell
<1>3. e \in Seq(Cell) /\ IsCut(e, d, U(n), Zero) BY <1>1, <1>2, CutToFacts, Zenon
<1>4. x \in Seq(Bytes) /\ IsCut(x, c, n, 0) BY <1>1, <1>2, CutToFacts, Zenon
<1> HIDE DEF e, x
<1>5. Len(e) = U(n) /\ Len(x) = n BY <1>3, <1>4 DEF IsCut
<1>6. ASSUME NEW y \in Nat, At(y) < n PROVE Encodes(Raw(e, y), y, BlockAt(x, y))
  <2>1. PICK z \in Nat, p \in Nat, s \in Nat, l \in Nat : z = At(y) /\ p = At(b) /\ s = bs /\ l = Len(c)
    BY <1>1, Start, Sizes
  <2>2. z \in Nat /\ p \in Nat /\ s \in Nat /\ l \in Nat /\ s > 0 BY <2>1, Sizes
  <2>3. z + s <= p \/ p <= z
    <3>1. y < b \/ b <= y OBVIOUS
    <3>2. QED BY <2>1, <3>1, Ordered
  <2>4. (n = p /\ n <= l) \/ n = l \/ (l = p /\ l <= n) BY <2>1
  <2>5. z < n BY <1>6, <2>1
  <2>6. CASE z < l
    <3>1. Span(n, z, s) = Span(l, z, s) BY <2>2, <2>3, <2>4, <2>5, <2>6 DEF Span, Smaller
    <3>2. Raw(e, y) = Raw(d, y) /\ BlockAt(x, y) = BlockAt(c, y)
      BY <1>1, <1>3, <1>4, <1>6, <2>1, <2>6, <3>1, CutBlockKept
    <3>3. Encodes(Raw(d, y), y, BlockAt(c, y)) BY <2>1, <2>6 DEF Stores
    <3>4. QED BY <3>2, <3>3
  <2>7. CASE ~(z < l)
    <3>1. l <= z BY <2>2, <2>7
    <3>2. U(l) <= Under(y) BY <2>1, <2>2, <3>1, UFromBlock
    <3>3. PICK k \in Nat : k = Span(n, z, s) BY <2>2, SpanFacts
    <3>4. Span(U(n), Under(y), us) = k + overhead BY <1>6, <2>1, <3>3, SpansAgree
    <3>5. /\ Raw(e, y) \in Seq(Cell)
          /\ Len(Raw(e, y)) = k + overhead
          /\ \A i \in 1..(k + overhead) : Raw(e, y)[i] = e[Under(y) + i]
      <4>1. Span(Len(e), Under(y), us) = k + overhead BY <1>5, <3>4
      <4>2. /\ Raw(e, y) \in Seq(Cell) /\ Len(Raw(e, y)) = Span(Len(e), Under(y), us)
            /\ \A i \in 1..Span(Len(e), Under(y), us) : Raw(e, y)[i] = e[Under(y) + i]
        BY <1>3, RawFacts
      <4>3. QED BY <4>1, <4>2, Zenon
    <3>6. /\ BlockAt(x, y) \in Seq(Bytes)
          /\ Len(BlockAt(x, y)) = k
          /\ \A i \in 1..k : BlockAt(x, y)[i] = x[At(y) + i]
      BY <1>4, <1>5, <2>1, <3>3, BlockFacts
    <3> DEFINE r == Raw(e, y)
               t == BlockAt(x, y)
    <3> HIDE DEF r, t
    <3>7. ASSUME NEW i \in 1..(k + overhead) PROVE r[i] = Zero
      <4>1. Under(y) \in Nat /\ us \in Nat /\ overhead \in Nat BY UnderFacts, Sizes
      <4>2. Under(y) + i \in 1..U(n)
        <5>1. \A j \in 1..Span(U(n), Under(y), us) : Under(y) + j \in 1..U(n)
          BY <1>2, <4>1, SpanFacts
        <5>2. QED BY <3>4, <5>1
      <4>3. ~(Under(y) + i <= Len(d))
        <5>1. U(l) \in Nat /\ i \in Nat /\ i >= 1
          <6>1. l <= l BY <2>2
          <6>2. U(l) \in Nat BY <2>2, <6>1, UGrows
          <6>3. QED BY <3>3, <4>1, <6>2
        <5>2. QED BY <1>1, <2>1, <3>2, <4>1, <5>1
      <4>4. e[Under(y) + i] = Zero BY <1>3, <4>2, <4>3 DEF IsCut
      <4>5. QED BY <3>5, <4>4 DEF r
    <3>8. ASSUME NEW i \in 1..k PROVE t[i] = 0
      <4>1. z + i \in 1..n BY <2>2, <3>3, SpanFacts
      <4>2. ~(z + i <= l) BY <2>2, <3>1, <3>3
      <4>3. x[z + i] = 0 BY <1>4, <2>1, <4>1, <4>2 DEF IsCut
      <4>4. QED BY <2>1, <3>6, <4>3 DEF t
    <3>9. r = [i \in 1..(k + overhead) |-> Zero]
      <4>1. r \in Seq(Cell) /\ Len(r) = k + overhead BY <3>5 DEF r
      <4>2. DOMAIN r = 1..(k + overhead) /\ r = [i \in DOMAIN r |-> r[i]] BY <4>1
      <4>3. r = [i \in 1..(k + overhead) |-> r[i]] BY <4>2
      <4>4. QED BY <3>7, <4>3
    <3>10. IsAllZeros(t, 0)
      <4>1. t \in Seq(Bytes) /\ Len(t) = k BY <3>6 DEF t
      <4>2. DOMAIN t = 1..k BY <4>1
      <4>3. QED BY <3>8, <4>2 DEF IsAllZeros
    <3>11. Len(t) = k BY <3>6 DEF t
    <3>12. Encodes(r, y, t) BY <3>9, <3>10, <3>11 DEF Encodes
    <3>13. QED BY <3>12 DEF r, t
  <2>8. QED BY <2>6, <2>7
<1>7. Stores(e, x) BY <1>3, <1>4, <1>5, <1>6 DEF Stores
<1>8. QED BY <1>7 DEF e, x

(* Shrinking within a block: the block is written at its new length, and then
   the file is cut. The file that is written first has the other blocks.     *)
LEMMA ShrinkStores ==
    ASSUME NEW d, NEW c, Stores(d, c), NEW b \in Nat, NEW bytes \in Seq(Bytes), Len(bytes) \in 1..bs,
           NEW n \in Nat, n = At(b) + Len(bytes), n <= Len(c),
           \A i \in 1..Len(bytes) : bytes[i] = c[At(b) + i], NEW r, Encodes(r, b, bytes)
    PROVE  /\ PutAt(d, Under(b), r, Zero) \in Seq(Cell)
           /\ \A y \in Nat : y # b => Raw(PutAt(d, Under(b), r, Zero), y) = Raw(d, y)
           /\ Stores(CutTo(PutAt(d, Under(b), r, Zero), U(n), Zero), CutTo(c, n, 0))
<1> DEFINE w == PutAt(d, Under(b), r, Zero)
           e == CutTo(w, U(n), Zero)
           x == CutTo(c, n, 0)
<1>1. d \in Seq(Cell) /\ c \in Seq(Bytes) /\ Len(d) = U(Len(c)) /\ Len(c) \in Nat BY DEF Stores
<1>2. r \in Seq(Cell) /\ Len(r) = Len(bytes) + overhead BY EncodesFacts
<1>3. At(b) \in Nat /\ Under(b) \in Nat /\ Zero \in Cell /\ 0 \in Bytes /\ us \in Nat /\ bs \in Nat
  BY Start, UnderFacts, Sizes, LiteStreamAssumption DEF Cell
<1>3a. U(n) \in Nat /\ U(Len(c)) \in Nat /\ U(n) <= U(Len(c)) BY <1>1, UGrows
<1>4. w \in Seq(Cell) /\ IsPut(w, d, Under(b), r, Zero) BY <1>1, <1>2, <1>3, PutAtFacts, Zenon
<1> HIDE DEF w
<1>5. e \in Seq(Cell) /\ IsCut(e, w, U(n), Zero) BY <1>3, <1>3a, <1>4, CutToFacts, Zenon
<1>6. x \in Seq(Bytes) /\ IsCut(x, c, n, 0) BY <1>1, <1>3, CutToFacts, Zenon
<1> HIDE DEF e, x
<1>7. PICK p \in Nat, l \in Nat, k \in Nat, s \in Nat, o \in Nat, q \in Nat :
         p = At(b) /\ l = Len(c) /\ k = Len(bytes) /\ s = bs /\ o = overhead /\ q = Under(b)
  <2>1. Len(bytes) \in Nat OBVIOUS
  <2>2. QED BY <1>1, <1>3, <2>1, Sizes
<1>8. /\ p \in Nat /\ l \in Nat /\ k \in Nat /\ s \in Nat /\ o \in Nat /\ q \in Nat
      /\ k >= 1 /\ k <= s /\ n = p + k /\ n <= l /\ us = s + o
  BY <1>7, Sizes
<1>9. U(n) = q + k + o
  <2>1. k <= bs /\ k # 0 BY <1>7, <1>8
  <2>2. QED BY <1>7, <1>8, <2>1, UInBlock
<1>10. Len(w) = Len(d)
  <2>1. Len(w) = Larger(U(l), q + (k + o)) BY <1>1, <1>2, <1>4, <1>7 DEF IsPut
  <2>2. q + (k + o) = U(n) BY <1>8, <1>9
  <2>3. U(n) <= U(l) /\ U(n) \in Nat /\ U(l) \in Nat BY <1>3a, <1>7
  <2>4. Larger(U(l), U(n)) = U(l) BY <2>3 DEF Larger
  <2>5. QED BY <1>1, <1>7, <2>1, <2>2, <2>4
<1>11. ASSUME NEW y \in Nat, y # b PROVE Raw(w, y) = Raw(d, y)
  <2>1. Len(r) <= us BY <1>2, <1>7, <1>8
  <2>2. QED BY <1>1, <1>2, <1>4, <1>10, <1>11, <2>1, OtherRaw
<1>12. Len(e) = U(n) /\ Len(x) = n BY <1>5, <1>6 DEF IsCut
<1>13. ASSUME NEW y \in Nat, At(y) < n PROVE Encodes(Raw(e, y), y, BlockAt(x, y))
  <2>1. PICK z \in Nat : z = At(y) BY Start
  <2>2. z < n BY <1>13, <2>1
  <2>3. ~(b < y)
    <3>1. b < y => p + s <= z BY <1>7, <2>1, StartsApart
    <3>2. QED BY <1>8, <2>1, <2>2, <3>1
  <2>4. CASE y < b
    <3>1. z + s <= p BY <1>7, <2>1, <2>4, StartsApart
    <3>2. Span(n, z, s) = Span(l, z, s) /\ z < l BY <1>8, <2>1, <3>1 DEF Span, Smaller
    <3>3. Raw(e, y) = Raw(w, y) /\ BlockAt(x, y) = BlockAt(c, y)
      <4>1. Span(n, At(y), bs) = Span(Len(c), At(y), bs) /\ At(y) < Len(c) BY <1>7, <2>1, <3>2
      <4>2. Len(w) = U(Len(c)) /\ At(y) < n BY <1>1, <1>10, <1>13
      <4>3. QED BY <1>1, <1>4, <1>5, <1>6, <4>1, <4>2, CutBlockKept
    <3>4. Encodes(Raw(d, y), y, BlockAt(c, y)) BY <1>7, <2>1, <3>2 DEF Stores
    <3>5. y # b BY <2>4
    <3>6. QED BY <1>11, <3>3, <3>4, <3>5
  <2>5. CASE y = b
    <3>1. Span(n, p, s) = k BY <1>8 DEF Span, Smaller
    <3>2. Span(U(n), Under(b), us) = k + o BY <1>7, <1>8, <2>2, <2>1, <2>5, <3>1, SpansAgree
    <3>3. /\ Raw(e, b) \in Seq(Cell) /\ Len(Raw(e, b)) = k + o
          /\ \A i \in 1..(k + o) : Raw(e, b)[i] = e[q + i]
      <4>1. Span(Len(e), Under(b), us) = k + o BY <1>12, <3>2
      <4>2. /\ Raw(e, b) \in Seq(Cell) /\ Len(Raw(e, b)) = Span(Len(e), Under(b), us)
            /\ \A i \in 1..Span(Len(e), Under(b), us) : Raw(e, b)[i] = e[Under(b) + i]
        BY <1>5, RawFacts
      <4>3. q = Under(b) BY <1>7
      <4>4. QED BY <4>1, <4>2, <4>3, Zenon
    <3>4. /\ BlockAt(x, b) \in Seq(Bytes) /\ Len(BlockAt(x, b)) = k
          /\ \A i \in 1..k : BlockAt(x, b)[i] = x[p + i]
      <4>1. Span(Len(x), At(b), bs) = k BY <1>7, <1>12, <3>1
      <4>2. /\ BlockAt(x, b) \in Seq(Bytes) /\ Len(BlockAt(x, b)) = Span(Len(x), At(b), bs)
            /\ \A i \in 1..Span(Len(x), At(b), bs) : BlockAt(x, b)[i] = x[At(b) + i]
        BY <1>6, BlockFacts
      <4>3. p = At(b) BY <1>7
      <4>4. QED BY <4>1, <4>2, <4>3, Zenon
    <3>5. ASSUME NEW i \in 1..(k + o) PROVE e[q + i] = r[i]
      <4>1. i \in Nat /\ q + i \in 1..U(n) /\ q + i > q /\ q + i <= q + (k + o) /\ q + i - q = i
        BY <1>8, <1>9
      <4>2. q + i \in 1..Len(w) /\ q + i <= Len(w) BY <1>1, <1>3a, <1>10, <4>1
      <4>3. e[q + i] = w[q + i] BY <1>5, <4>1, <4>2 DEF IsCut
      <4>4. w[q + i] = r[q + i - q]
        <5>1. /\ Len(w) = Larger(Len(d), q + Len(r))
              /\ \A j \in 1..Larger(Len(d), q + Len(r)) :
                    w[j] = IF j > q /\ j <= q + Len(r) THEN r[j - q]
                           ELSE IF j <= Len(d) THEN d[j] ELSE Zero
          BY <1>4, <1>7 DEF IsPut
        <5>2. Len(r) = k + o BY <1>2, <1>7
        <5>3. q + i \in 1..Larger(Len(d), q + Len(r)) BY <4>2, <5>1
        <5>4. q + i > q /\ q + i <= q + Len(r) BY <4>1, <5>2
        <5>5. w[q + i] = IF q + i > q /\ q + i <= q + Len(r) THEN r[q + i - q]
                         ELSE IF q + i <= Len(d) THEN d[q + i] ELSE Zero
          BY <5>1, <5>3
        <5>6. QED BY <5>4, <5>5
      <4>5. QED BY <4>1, <4>3, <4>4
    <3>6. ASSUME NEW i \in 1..k PROVE x[p + i] = bytes[i]
      <4>1. p + i \in 1..n /\ p + i <= l BY <1>8
      <4>2. x[p + i] = c[p + i] BY <1>6, <1>7, <4>1 DEF IsCut
      <4>3. QED BY <1>7, <4>2
    <3> DEFINE t == Raw(e, b)
               v == BlockAt(x, b)
    <3>7. t \in Seq(Cell) /\ Len(t) = Len(r) /\ \A i \in 1..Len(t) : t[i] = r[i]
      BY <1>2, <1>7, <3>3, <3>5
    <3>8. v \in Seq(Bytes) /\ Len(v) = Len(bytes) /\ \A i \in 1..Len(v) : v[i] = bytes[i]
      BY <1>7, <3>4, <3>6
    <3> HIDE DEF t, v
    <3>9. t = r BY <1>2, <3>7, SeqEqual
    <3>10. v = bytes BY <3>8, SeqEqual
    <3>11. QED BY <2>5, <3>9, <3>10 DEF t, v
  <2>6. QED BY <2>3, <2>4, <2>5
<1>14. Stores(e, x) BY <1>5, <1>6, <1>12, <1>13 DEF Stores
<1>15. QED BY <1>4, <1>11, <1>14 DEF e, x, w

-----------------------------------------------------------------------------
(* The streams the proofs are about, and the bytes of a stream. *)
Streams == [data : Seq(Cell), moments : SUBSET Seq(Cell), sparse : BOOLEAN, failed : BOOLEAN]
C(f) == Content(f.data)

(* What every call of write and resize keeps: the underlying file stores the
   bytes of the stream.                                                      *)
Sound(f) == f \in Streams /\ Stores(f.data, C(f))

(* The bytes that are stored of block b. *)
BlockLen(f, b) == Span(Len(C(f)), At(b), bs)

(* Byte i of c, where bytes beyond the end are zeros. *)
Old(c, i) == IF i <= Len(c) THEN c[i] ELSE 0

(* m stores bytes that are the ones of c or the ones of d. *)
Between(m, c, d) ==
    /\ Stores(m, Content(m))
    /\ \A i \in 1..Len(Content(m)) : Content(m)[i] = Old(c, i) \/ Content(m)[i] = Old(d, i)

(* What was in the underlying file on the way from f to g. *)
Kept(f, g) ==
    /\ g.sparse = f.sparse
    /\ \A m \in g.moments : m \in f.moments \/ Between(m, C(f), C(g))

(* Each byte of d is the one of c or the one of e. *)
Via(c, d, e) == \A i \in Nat \ {0} : Old(d, i) = Old(c, i) \/ Old(d, i) = Old(e, i)

(* What a sound stream reads as. *)
LEMMA SoundFacts ==
    ASSUME NEW f, Sound(f)
    PROVE  /\ f.data \in Seq(Cell) /\ C(f) \in Seq(Bytes) /\ Len(C(f)) \in Nat
           /\ size(f) = Len(C(f))
           /\ \A b \in Nat : BlockReadable(f.data, b) /\ ReadBlock(f, b) = BlockAt(C(f), b)
<1>1. Stores(f.data, C(f)) BY DEF Sound
<1>2. f.data \in Seq(Cell) /\ C(f) \in Seq(Bytes) /\ Len(C(f)) \in Nat BY <1>1 DEF Stores
<1>3. size(f) = Len(C(f)) BY <1>1, StoredContent DEF size
<1>4. ASSUME NEW b \in Nat PROVE BlockReadable(f.data, b) /\ ReadBlock(f, b) = BlockAt(C(f), b)
  BY <1>1, StoredBlock DEF ReadBlock
<1>5. QED BY <1>2, <1>3, <1>4

(* How long a block is. *)
LEMMA BlockLenFacts ==
    ASSUME NEW f, Len(C(f)) \in Nat, NEW b \in Nat
    PROVE  /\ BlockLen(f, b) \in Nat /\ BlockLen(f, b) <= bs
           /\ BlockLen(f, b) = IF At(b) < Len(C(f)) THEN Smaller(bs, Len(C(f)) - At(b)) ELSE 0
<1>1. At(b) \in Nat /\ bs \in Nat BY Start, Sizes
<1>2. BlockLen(f, b) \in Nat /\ BlockLen(f, b) <= bs BY <1>1, SpanFacts DEF BlockLen
<1>3. QED BY <1>2 DEF BlockLen, Span

(* A write of the underlying file that leaves it sound. *)
LEMMA StoreFacts ==
    ASSUME NEW f, Sound(f), NEW e, NEW x, Stores(e, x)
    PROVE  /\ Sound(Store(f, e)) /\ Kept(f, Store(f, e))
           /\ Store(f, e).failed = f.failed /\ C(Store(f, e)) = x
<1> DEFINE g == Store(f, e)
<1>1. f \in Streams BY DEF Sound
<1>2. e \in Seq(Cell) /\ Content(e) = x /\ x \in Seq(Bytes) BY StoredContent DEF Stores
<1>3. /\ g \in Streams /\ g.data = e /\ g.failed = f.failed /\ g.sparse = f.sparse
      /\ g.moments = f.moments \cup {e}
  BY <1>1, <1>2 DEF Store, Streams
<1> HIDE DEF g
<1>4. C(g) = x BY <1>2, <1>3 DEF C
<1>5. Sound(g) BY <1>3, <1>4 DEF Sound
<1>6. Between(e, C(f), C(g))
  <2>1. \A i \in 1..Len(x) : x[i] = Old(x, i)
    <3>1. Len(x) \in Nat BY <1>2
    <3>2. QED BY <3>1 DEF Old
  <2>2. QED BY <1>2, <1>4, <2>1 DEF Between
<1>7. Kept(f, g) BY <1>3, <1>6 DEF Kept
<1>8. QED BY <1>3, <1>4, <1>5, <1>7 DEF g

(* What write_block makes of the bytes of a block. *)
StoredForm(b, bytes) ==
    IF IsAllZeros(bytes, 0) THEN [i \in 1..(Len(bytes) + overhead) |-> Zero] ELSE Encrypted(b, bytes)

(* It encodes them. *)
LEMMA StoredFormFacts ==
    ASSUME NEW f, NEW b \in 0..MAX_BLOCKS, NEW bytes
    PROVE  /\ WriteBlock(f, b, bytes) = Store(f, PutAt(f.data, Under(b), StoredForm(b, bytes), Zero))
           /\ Encodes(StoredForm(b, bytes), b, bytes)
<1>1. ~(b > MAX_BLOCKS) BY LiteStreamAssumption
<1>2. WriteBlock(f, b, bytes) = Store(f, PutAt(f.data, Under(b), StoredForm(b, bytes), Zero))
  BY <1>1 DEF WriteBlock, StoredForm, Under
<1>3. Encodes(StoredForm(b, bytes), b, bytes) BY DEF Encodes, StoredForm
<1>4. QED BY <1>2, <1>3

(* Writing a block that is at least as long as it was. *)
LEMMA BlockWritten ==
    ASSUME NEW f, Sound(f), NEW b \in 0..MAX_BLOCKS,
           NEW bytes \in Seq(Bytes), Len(bytes) \in 1..bs, At(b) <= Len(C(f)),
           BlockLen(f, b) <= Len(bytes)
    PROVE  /\ Sound(WriteBlock(f, b, bytes)) /\ Kept(f, WriteBlock(f, b, bytes))
           /\ WriteBlock(f, b, bytes).failed = f.failed
           /\ IsPut(C(WriteBlock(f, b, bytes)), C(f), At(b), bytes, 0)
<1> DEFINE r == StoredForm(b, bytes)
           e == PutAt(f.data, Under(b), r, Zero)
           x == PutAt(C(f), At(b), bytes, 0)
<1>1. b \in Nat /\ Stores(f.data, C(f)) BY LiteStreamAssumption DEF Sound
<1>2. WriteBlock(f, b, bytes) = Store(f, e) /\ Encodes(r, b, bytes) BY StoredFormFacts
<1> HIDE DEF r
<1>3. Stores(e, x)
  <2>1. Span(Len(C(f)), At(b), bs) <= Len(bytes) BY DEF BlockLen
  <2>2. QED BY <1>1, <1>2, <2>1, PutStores
<1>4. IsPut(x, C(f), At(b), bytes, 0)
  <2>1. C(f) \in Seq(Bytes) /\ At(b) \in Nat /\ 0 \in Bytes
    BY <1>1, Start, LiteStreamAssumption DEF Stores
  <2>2. QED BY <2>1, PutAtFacts, Zenon
<1> HIDE DEF e, x
<1>5. QED BY <1>2, <1>3, <1>4, StoreFacts

(* What adjust_logical_size does to the underlying file. *)
LEMMA AdjustIs ==
    ASSUME NEW f, ~f.failed, NEW n
    PROVE  AdjustLogicalSize(f, n) = Store(f, CutTo(f.data, U(n), Zero))
BY DEF AdjustLogicalSize, U

(* Setting the size where no block becomes shorter or longer. *)
LEMMA Adjusted ==
    ASSUME NEW f, Sound(f), ~f.failed, NEW n \in Nat, NEW b \in Nat,
           \/ n = At(b) /\ n <= Len(C(f))
           \/ n = Len(C(f))
           \/ Len(C(f)) = At(b) /\ Len(C(f)) <= n
    PROVE  /\ Sound(AdjustLogicalSize(f, n)) /\ Kept(f, AdjustLogicalSize(f, n))
           /\ ~AdjustLogicalSize(f, n).failed
           /\ IsCut(C(AdjustLogicalSize(f, n)), C(f), n, 0)
<1> DEFINE e == CutTo(f.data, U(n), Zero)
           x == CutTo(C(f), n, 0)
<1>1. Stores(f.data, C(f)) BY DEF Sound
<1>2. AdjustLogicalSize(f, n) = Store(f, e) BY AdjustIs
<1>3. Stores(e, x) BY <1>1, CutStores
<1>4. IsCut(x, C(f), n, 0)
  <2>1. C(f) \in Seq(Bytes) /\ 0 \in Bytes BY <1>1, LiteStreamAssumption DEF Stores
  <2>2. QED BY <2>1, CutToFacts, Zenon
<1> HIDE DEF e, x
<1>5. QED BY <1>2, <1>3, <1>4, StoreFacts

(* A call that throws leaves the file as it is. *)
LEMMA FailedFacts ==
    ASSUME NEW f, Sound(f)
    PROVE  /\ Sound(Failed(f)) /\ Kept(f, Failed(f))
           /\ Failed(f).failed /\ C(Failed(f)) = C(f)
           /\ Failed(f).data = f.data /\ Failed(f).moments = f.moments
<1> DEFINE g == Failed(f)
<1>1. f \in Streams BY DEF Sound
<1>2. /\ g \in Streams /\ g.data = f.data /\ g.failed = TRUE
      /\ g.sparse = f.sparse /\ g.moments = f.moments
  BY <1>1 DEF Failed, Streams
<1> HIDE DEF g
<1>3. C(g) = C(f) BY <1>2 DEF C
<1>4. Sound(g) BY <1>2, <1>3 DEF Sound
<1>5. Kept(f, g) BY <1>2 DEF Kept
<1>6. QED BY <1>2, <1>3, <1>4, <1>5 DEF g

(* Kept holds of nothing done, *)
LEMMA KeptSelf ==
    ASSUME NEW f
    PROVE  Kept(f, f)
BY DEF Kept

(* and of one thing done after another, when the second leaves each byte that
   the first changed, or changes one that the first left.                    *)
LEMMA KeptOn ==
    ASSUME NEW f, NEW g, NEW h, Kept(f, g), Kept(g, h), Via(C(f), C(g), C(h))
    PROVE  Kept(f, h)
<1>1. h.sparse = f.sparse BY DEF Kept
<1>2. ASSUME NEW m \in h.moments, m \notin f.moments PROVE Between(m, C(f), C(h))
  <2>1. Between(m, C(f), C(g)) \/ Between(m, C(g), C(h)) BY <1>2 DEF Kept
  <2>2. Stores(m, Content(m)) BY <2>1 DEF Between
  <2>3. ASSUME NEW i \in 1..Len(Content(m))
        PROVE  Content(m)[i] = Old(C(f), i) \/ Content(m)[i] = Old(C(h), i)
    <3>1. Len(Content(m)) \in Nat BY <2>2 DEF Stores
    <3>2. i \in Nat \ {0} BY <3>1
    <3>3. Old(C(g), i) = Old(C(f), i) \/ Old(C(g), i) = Old(C(h), i) BY <3>2 DEF Via
    <3>4. QED BY <2>1, <3>3 DEF Between
  <2>4. QED BY <2>2, <2>3 DEF Between
<1>3. QED BY <1>1, <1>2 DEF Kept

-----------------------------------------------------------------------------
(* g is f with the bytes lo + 1 to hi of a write of input at off. *)
Wrote(f, g, off, input, lo, hi) ==
    /\ Len(C(g)) = Larger(Len(C(f)), hi)
    /\ \A i \in 1..Len(C(g)) :
          C(g)[i] = IF i > lo /\ i <= hi THEN input[i - off] ELSE C(f)[i]

(* Nothing was written yet, *)
LEMMA WroteNothing ==
    ASSUME NEW f, Sound(f), NEW off \in Nat, off <= Len(C(f)), NEW input
    PROVE  Wrote(f, f, off, input, off, off)
<1>1. Len(C(f)) \in Nat BY SoundFacts
<1>2. Larger(Len(C(f)), off) = Len(C(f)) BY <1>1 DEF Larger
<1>3. \A i \in 1..Len(C(f)) : ~(i > off /\ i <= off) BY <1>1
<1>4. QED BY <1>2, <1>3 DEF Wrote

(* and two parts, one after the other, make a longer one. *)
LEMMA WroteOn ==
    ASSUME NEW f, Sound(f), NEW g, Sound(g), NEW h, Sound(h), NEW off \in Nat, NEW input,
           NEW lo \in Nat, NEW mid \in Nat, NEW hi \in Nat,
           lo <= mid, mid <= hi, lo <= Len(C(f)),
           Wrote(f, g, off, input, lo, mid), Wrote(g, h, off, input, mid, hi)
    PROVE  Wrote(f, h, off, input, lo, hi) /\ Via(C(f), C(g), C(h))
<1>1. Len(C(f)) \in Nat /\ Len(C(g)) \in Nat /\ Len(C(h)) \in Nat
  BY SoundFacts
<1>2. PICK l \in Nat, m \in Nat, n \in Nat : l = Len(C(f)) /\ m = Len(C(g)) /\ n = Len(C(h))
  BY <1>1
<1>3. m = Larger(l, mid) /\ n = Larger(m, hi)
  BY <1>2 DEF Wrote
<1>4. l \in Nat /\ m \in Nat /\ n \in Nat /\ lo <= l
  BY <1>2
<1>5. n = Larger(l, hi)
  BY <1>3, <1>4 DEF Larger
<1>6. ASSUME NEW i \in 1..n
      PROVE  C(h)[i] = IF i > lo /\ i <= hi THEN input[i - off] ELSE C(f)[i]
  <2>0. i \in Nat BY <1>4
  <2>1. C(h)[i] = IF i > mid /\ i <= hi THEN input[i - off] ELSE C(g)[i]
    BY <1>2, <1>6 DEF Wrote
  <2>2. CASE i > mid /\ i <= hi
    <3>1. i > lo BY <2>0, <2>2
    <3>2. QED BY <2>1, <2>2, <3>1
  <2>3. CASE ~(i > mid /\ i <= hi)
    <3>1. i \in 1..m /\ ((i > lo /\ i <= mid) <=> (i > lo /\ i <= hi))
      BY <1>3, <1>4, <1>6, <2>0, <2>3 DEF Larger
    <3>2. C(g)[i] = IF i > lo /\ i <= mid THEN input[i - off] ELSE C(f)[i]
      BY <1>2, <3>1 DEF Wrote
    <3>3. QED BY <2>1, <2>3, <3>1, <3>2
  <2>4. QED BY <2>2, <2>3
<1>7. ASSUME NEW i \in Nat \ {0}
      PROVE  Old(C(g), i) = Old(C(f), i) \/ Old(C(g), i) = Old(C(h), i)
  <2>1. CASE i > m
    <3>1. i > l BY <1>3, <1>4, <2>1 DEF Larger
    <3>2. QED BY <1>2, <2>1, <3>1 DEF Old
  <2>2. CASE ~(i > m) /\ i > lo /\ i <= mid
    <3>1. i \in 1..n /\ i <= m /\ i <= n /\ ~(i > mid) BY <1>3, <1>4, <2>2 DEF Larger
    <3>2. C(h)[i] = C(g)[i] BY <1>2, <3>1 DEF Wrote
    <3>3. QED BY <1>2, <3>1, <3>2 DEF Old
  <2>3. CASE ~(i > m) /\ ~(i > lo /\ i <= mid)
    <3>1. i \in 1..m /\ i <= m /\ i <= l BY <1>3, <1>4, <2>3 DEF Larger
    <3>2. C(g)[i] = C(f)[i] BY <1>2, <2>3, <3>1 DEF Wrote
    <3>3. QED BY <1>2, <3>1, <3>2 DEF Old
  <2>4. QED BY <2>1, <2>2, <2>3
<1>8. QED BY <1>2, <1>5, <1>6, <1>7 DEF Wrote, Via

-----------------------------------------------------------------------------
(* read_block: the block as it was written, holes as zeros. *)
LEMMA ReadBlockFacts ==
    ASSUME NEW f, Sound(f), NEW b \in Nat
    PROVE  /\ ReadBlock(f, b) \in Seq(Bytes)
           /\ Len(ReadBlock(f, b)) = BlockLen(f, b)
           /\ BlockLen(f, b) \in 0..bs
           /\ \A i \in 1..BlockLen(f, b) : ReadBlock(f, b)[i] = C(f)[At(b) + i]
<1>1. C(f) \in Seq(Bytes) /\ ReadBlock(f, b) = BlockAt(C(f), b) BY SoundFacts
<1>2. /\ BlockAt(C(f), b) \in Seq(Bytes)
      /\ Len(BlockAt(C(f), b)) = Span(Len(C(f)), At(b), bs)
      /\ \A i \in 1..Span(Len(C(f)), At(b), bs) : BlockAt(C(f), b)[i] = C(f)[At(b) + i]
  <2> DEFINE c == C(f)
  <2>1. c \in Seq(Bytes) BY <1>1
  <2> HIDE DEF c
  <2>2. /\ BlockAt(c, b) \in Seq(Bytes)
        /\ Len(BlockAt(c, b)) = Span(Len(c), At(b), bs)
        /\ \A i \in 1..Span(Len(c), At(b), bs) : BlockAt(c, b)[i] = c[At(b) + i]
    BY <2>1, BlockFacts
  <2>3. QED BY <2>2 DEF c
<1>3. Len(C(f)) \in Nat BY SoundFacts
<1>4. BlockLen(f, b) \in 0..bs BY <1>3, BlockLenFacts, Sizes
<1>5. QED BY <1>1, <1>2, <1>4 DEF BlockLen

(* The block that read_then_write_block puts together. *)
Merged(f, b, input, begin, end) ==
    SubSeq(PutAt(CutTo(ReadBlock(f, b), m_block_size, Garbage), begin, input, Garbage),
           1, Larger(Len(ReadBlock(f, b)), end))

(* It is the old block with input over it, as long as the longer of the two. *)
IsMerged(bytes, f, b, input, begin, end) ==
    /\ bytes \in Seq(Bytes)
    /\ Len(bytes) = Larger(BlockLen(f, b), end)
    /\ Len(bytes) \in 1..bs
    /\ \A i \in 1..Len(bytes) :
          bytes[i] = IF i > begin /\ i <= end THEN input[i - begin] ELSE C(f)[At(b) + i]

(* No byte of the uninitialized buffer is in it. *)
LEMMA MergedFacts ==
    ASSUME NEW f, Sound(f), NEW b \in Nat, NEW begin \in Nat, NEW end \in Nat,
           begin < end, end <= bs, begin <= BlockLen(f, b),
           NEW input \in Seq(Bytes), Len(input) = end - begin
    PROVE  IsMerged(Merged(f, b, input, begin, end), f, b, input, begin, end)
<1> DEFINE old == ReadBlock(f, b)
           B   == Bytes \cup {Garbage}
           c   == CutTo(old, m_block_size, Garbage)
           p   == PutAt(c, begin, input, Garbage)
<1>1. old \in Seq(Bytes) /\ Len(old) = BlockLen(f, b) /\ BlockLen(f, b) \in 0..bs
      /\ \A i \in 1..BlockLen(f, b) : old[i] = C(f)[At(b) + i]
  BY ReadBlockFacts
<1>2. Merged(f, b, input, begin, end) = SubSeq(p, 1, Larger(Len(old), end))
  BY DEF Merged
<1> HIDE DEF old
<1>3. old \in Seq(B) /\ input \in Seq(B) /\ Garbage \in B /\ m_block_size \in Nat /\ m_block_size = bs
      /\ bs \in Nat
  BY <1>1, Sizes DEF bs
<1> HIDE DEF B
<1>4. c \in Seq(B) /\ IsCut(c, old, m_block_size, Garbage)
  BY <1>3, CutToFacts, Zenon
<1> HIDE DEF c
<1>5. p \in Seq(B) /\ IsPut(p, c, begin, input, Garbage)
  BY <1>3, <1>4, PutAtFacts, Zenon
<1> HIDE DEF p
<1>6. PICK k \in Nat, e \in Nat, z \in Nat, s \in Nat :
         k = BlockLen(f, b) /\ e = end /\ z = begin /\ s = bs
  <2>1. BlockLen(f, b) \in Nat BY <1>1, <1>3
  <2>2. QED BY <1>3, <2>1
<1>7. k \in Nat /\ e \in Nat /\ z \in Nat /\ s \in Nat /\ z < e /\ e <= s /\ z <= k /\ k <= s
  BY <1>1, <1>3, <1>6
<1>8. Len(c) = s /\ \A i \in 1..s : c[i] = IF i <= k THEN old[i] ELSE Garbage
  BY <1>1, <1>3, <1>4, <1>6 DEF IsCut
<1>9. z + Len(input) = e /\ Larger(s, e) = s
  <2>1. Len(input) = e - z BY <1>6
  <2>2. QED BY <2>1, <1>7 DEF Larger
<1>10. Len(p) = s /\ \A i \in 1..s : p[i] = IF i > z /\ i <= e THEN input[i - z]
                                           ELSE IF i <= s THEN c[i] ELSE Garbage
  BY <1>5, <1>6, <1>8, <1>9 DEF IsPut
<1> DEFINE n == Larger(k, e)
<1>11. n \in Nat /\ n \in 1..s /\ n <= s /\ n >= e /\ n >= k
  BY <1>7 DEF Larger
<1>12. ASSUME NEW i \in 1..n
       PROVE  /\ p[i] = IF i > z /\ i <= e THEN input[i - z] ELSE C(f)[At(b) + i]
              /\ p[i] \in Bytes
  <2>1. i \in Nat /\ i \in 1..s /\ i >= 1 BY <1>7, <1>11
  <2>2. CASE i > z /\ i <= e
    <3>1. i - z \in 1..Len(input)
      <4>1. Len(input) = e - z BY <1>6
      <4>2. QED BY <1>7, <2>1, <2>2, <4>1
    <3>2. QED BY <1>10, <2>1, <2>2, <3>1
  <2>3. CASE ~(i > z /\ i <= e)
    <3>1. i <= k /\ i \in 1..k
      BY <1>7, <1>12, <2>1, <2>3 DEF Larger
    <3>2. p[i] = old[i]
      BY <1>8, <1>10, <2>1, <2>3, <3>1
    <3>3. old[i] = C(f)[At(b) + i] /\ old[i] \in Bytes
      BY <1>1, <1>6, <3>1
    <3>4. QED BY <2>3, <3>2, <3>3
  <2>4. QED BY <2>2, <2>3
<1> HIDE DEF n
<1> DEFINE t == SubSeq(p, 1, n)
<1>13. /\ t \in Seq(Bytes)
       /\ Len(t) = IF 1 <= n THEN n - 1 + 1 ELSE 0
       /\ \A i \in 1..(n - 1 + 1) : t[i] = p[1 + i - 1]
  <2>1. 1 \in Int /\ n \in Int /\ \A i \in 1..n : p[i] \in Bytes
    BY <1>11, <1>12
  <2>2. QED BY <2>1, SubSeqProperties
<1> HIDE DEF t
<1>14. Len(t) = n /\ \A i \in 1..n : t[i] = p[i]
  <2>1. n - 1 + 1 = n /\ 1 <= n BY <1>11
  <2>2. \A i \in 1..n : 1 + i - 1 = i BY <1>11
  <2>3. QED BY <1>13, <2>1, <2>2
<1>15. Merged(f, b, input, begin, end) = t
  BY <1>1, <1>2, <1>6 DEF n, t
<1>16. Len(t) \in 1..bs /\ Len(t) = Larger(BlockLen(f, b), end)
  BY <1>6, <1>11, <1>14 DEF n
<1>17. \A i \in 1..Len(t) : t[i] = IF i > begin /\ i <= end THEN input[i - begin] ELSE C(f)[At(b) + i]
  BY <1>6, <1>12, <1>14
<1>18. QED BY <1>13, <1>15, <1>16, <1>17 DEF IsMerged

-----------------------------------------------------------------------------
(* The part lo + 1 to hi of a write was done. *)
InBlock(f, g, off, input, lo, hi) ==
    /\ Sound(g) /\ Kept(f, g) /\ ~g.failed
    /\ Wrote(f, g, off, input, lo, hi)

(* bytes is block b of f with the part lo + 1 to hi of a write over it. *)
BlockOver(f, b, bytes, off, input, lo, hi) ==
    /\ bytes \in Seq(Bytes)
    /\ Len(bytes) = Larger(BlockLen(f, b), hi - At(b))
    /\ Len(bytes) \in 1..bs
    /\ \A i \in 1..Len(bytes) :
          bytes[i] = IF i > lo - At(b) /\ i <= hi - At(b) THEN input[At(b) + i - off]
                     ELSE C(f)[At(b) + i]

(* Writing such a block does that part of the write. *)
LEMMA BlockOverWrote ==
    ASSUME NEW f, Sound(f), ~f.failed, NEW b \in 0..MAX_BLOCKS, NEW bytes,
           NEW off \in Nat, NEW input, NEW lo \in Nat, NEW hi \in Nat,
           At(b) <= lo, lo < hi, hi <= At(b) + bs, lo <= Len(C(f)),
           BlockOver(f, b, bytes, off, input, lo, hi)
    PROVE  InBlock(f, WriteBlock(f, b, bytes), off, input, lo, hi)
<1> DEFINE g == WriteBlock(f, b, bytes)
<1>1. Sound(f) /\ b \in Nat /\ At(b) \in Nat /\ bs \in Nat /\ bs > 0
  BY Start, Sizes, LiteStreamAssumption
<1>2. Len(C(f)) \in Nat /\ bytes \in Seq(Bytes) /\ Len(bytes) \in 1..bs /\ Len(bytes) \in Nat
  BY <1>1, SoundFacts DEF BlockOver
<1>3. PICK p \in Nat, l \in Nat, k \in Nat, s \in Nat :
          p = At(b) /\ l = Len(C(f)) /\ k = Len(bytes) /\ s = bs
  BY <1>1, <1>2
<1>4. /\ p \in Nat /\ l \in Nat /\ k \in Nat /\ s \in Nat /\ s > 0 /\ k > 0 /\ k <= s
      /\ p <= lo /\ lo < hi /\ hi <= p + s /\ lo <= l
  BY <1>1, <1>2, <1>3
<1>5. BlockLen(f, b) = IF p < l THEN Smaller(s, l - p) ELSE 0
  BY <1>1, <1>2, <1>3, BlockLenFacts
<1>6. k = Larger(BlockLen(f, b), hi - p)
  BY <1>3 DEF BlockOver
<1> DEFINE x == BlockLen(f, b)
<1>7. x \in Nat /\ x <= k /\ p + x <= l /\ hi <= p + k /\ (k = x \/ k = hi - p)
  <2> HIDE DEF x
  <2>1. x = IF p < l THEN Smaller(s, l - p) ELSE 0 BY <1>5 DEF x
  <2>2. k = Larger(x, hi - p) BY <1>6 DEF x
  <2>3. x \in Nat /\ p + x <= l BY <2>1, <1>4 DEF Smaller
  <2>4. QED BY <2>2, <2>3, <1>4 DEF Larger
<1>8. At(b) <= Len(C(f)) /\ BlockLen(f, b) <= Len(bytes)
  <2>1. p <= l BY <1>4
  <2>2. At(b) <= Len(C(f)) BY <1>3, <2>1
  <2>3. BlockLen(f, b) <= Len(bytes) BY <1>3, <1>7 DEF x
  <2>4. QED BY <2>2, <2>3
<1>9. Sound(g) /\ Kept(f, g) /\ g.failed = f.failed /\ IsPut(C(g), C(f), At(b), bytes, 0)
  BY <1>2, <1>8, BlockWritten
<1> HIDE DEF g, x
<1>10. Kept(f, g) /\ ~g.failed /\ Len(C(g)) = Larger(l, p + k)
  BY <1>3, <1>9 DEF IsPut
<1>11. Len(C(g)) = Larger(l, hi)
  <2>1. Larger(l, p + k) = Larger(l, hi) BY <1>4, <1>7 DEF Larger
  <2>2. QED BY <1>10, <2>1
<1>12. ASSUME NEW i \in 1..Len(C(g))
       PROVE  C(g)[i] = IF i > lo /\ i <= hi THEN input[i - off] ELSE C(f)[i]
  <2>1. i \in Nat BY <1>4, <1>10 DEF Larger
  <2>2. C(g)[i] = IF i > p /\ i <= p + k THEN bytes[i - p] ELSE C(f)[i]
    <3>1. C(g)[i] = IF i > p /\ i <= p + k THEN bytes[i - p] ELSE IF i <= l THEN C(f)[i] ELSE 0
      BY <1>3, <1>9, <1>10 DEF IsPut
    <3>2. (i > p /\ i <= p + k) \/ i <= l BY <1>4, <1>10, <2>1 DEF Larger
    <3>3. QED BY <3>1, <3>2
  <2>3. CASE i > p /\ i <= p + k
    <3>1. PICK j \in 1..k : j = i - p
      BY <1>4, <2>1, <2>3
    <3>2. j \in Nat /\ p + j = i /\ ((j > lo - p /\ j <= hi - p) <=> (i > lo /\ i <= hi))
      BY <1>4, <2>1, <3>1
    <3>3. bytes[j] = IF j > lo - p /\ j <= hi - p THEN input[p + j - off] ELSE C(f)[p + j]
      BY <1>3, <3>1 DEF BlockOver
    <3>6. C(g)[i] = bytes[j]
      BY <2>2, <2>3, <3>1
    <3>7. CASE i > lo /\ i <= hi
      BY <3>2, <3>3, <3>6, <3>7
    <3>8. CASE ~(i > lo /\ i <= hi)
      BY <3>2, <3>3, <3>6, <3>8
    <3>9. QED BY <3>7, <3>8
  <2>4. CASE ~(i > p /\ i <= p + k)
    <3>1. ~(i > lo /\ i <= hi) BY <1>4, <1>7, <2>1, <2>4
    <3>2. QED BY <2>2, <2>4, <3>1
  <2>5. QED BY <2>3, <2>4
<1>13. Wrote(f, g, off, input, lo, hi)
  BY <1>3, <1>11, <1>12 DEF Wrote
<1>14. QED BY <1>9, <1>10, <1>13 DEF InBlock, g

(* The part of the input that falls into a block. *)
LEMMA PartOf ==
    ASSUME NEW input \in Seq(Bytes), NEW u \in Nat, NEW v \in Nat, u < v, v <= Len(input)
    PROVE  /\ SubSeq(input, u + 1, v) \in Seq(Bytes)
           /\ Len(SubSeq(input, u + 1, v)) = v - u
           /\ \A i \in 1..(v - u) : SubSeq(input, u + 1, v)[i] = input[u + i]
<1> DEFINE t == SubSeq(input, u + 1, v)
<1>1. u + 1 \in Int /\ v \in Int /\ \A i \in (u + 1)..v : input[i] \in Bytes
  OBVIOUS
<1>2. /\ t \in Seq(Bytes)
      /\ Len(t) = IF u + 1 <= v THEN v - (u + 1) + 1 ELSE 0
      /\ \A i \in 1..(v - (u + 1) + 1) : t[i] = input[u + 1 + i - 1]
  BY <1>1, SubSeqProperties
<1> HIDE DEF t
<1>3. u + 1 <= v /\ v - (u + 1) + 1 = v - u
  OBVIOUS
<1>4. \A i \in 1..(v - u) : u + 1 + i - 1 = u + i
  OBVIOUS
<1>5. QED BY <1>2, <1>3, <1>4 DEF t

(* A block beyond the last one is refused. *)
LEMMA WriteFails ==
    ASSUME NEW f, NEW b \in Nat, b > MAX_BLOCKS, NEW bytes
    PROVE  WriteBlock(f, b, bytes) = Failed(f)
BY DEF WriteBlock

(* The operators of StreamBytes are the same under BB. *)
LEMMA SameOperators ==
    /\ \A x, y : BB!Larger(x, y) = Larger(x, y) /\ BB!Smaller(x, y) = Smaller(x, y)
    /\ \A n : BB!Zeros(n) = Zeros(n)
    /\ \A f : BB!Failed(f) = Failed(f)
    /\ \A s, n, fill : BB!CutTo(s, n, fill) = CutTo(s, n, fill)
    /\ \A s, off, t, fill : BB!PutAt(s, off, t, fill) = PutAt(s, off, t, fill)
<1>1. \A x, y : BB!Larger(x, y) = Larger(x, y) /\ BB!Smaller(x, y) = Smaller(x, y)
  BY DEF BB!Larger, Larger, BB!Smaller, Smaller
<1>2. \A n : BB!Zeros(n) = Zeros(n)
  BY DEF BB!Zeros, Zeros
<1>3. \A f : BB!Failed(f) = Failed(f)
  BY DEF BB!Failed, Failed
<1>4. \A s, n, fill : BB!CutTo(s, n, fill) = CutTo(s, n, fill)
  BY DEF BB!CutTo, CutTo
<1>5. \A s, off, t, fill : BB!PutAt(s, off, t, fill) = PutAt(s, off, t, fill)
  BY <1>1 DEF BB!PutAt, PutAt
<1>6. QED BY <1>1, <1>2, <1>3, <1>4, <1>5

(* read_then_write_block, with a part that is not empty. *)
RewrittenBlock(g, f, b, input, z, e) ==
    g = IF z = 0 /\ e = bs THEN WriteBlock(f, b, input)
        ELSE IF ~CanRead(f, b) THEN Failed(f)
        ELSE WriteBlock(f, b, Merged(f, b, input, z, e))

(* Which of its three ways read_then_write_block takes. *)
LEMMA ReadThenWrite ==
    ASSUME NEW f, NEW b, NEW input, NEW z \in Nat, NEW e \in Nat, z < e
    PROVE  RewrittenBlock(BB!ReadThenWriteBlock(f, b, input, z, e), f, b, input, z, e)
<1>1. ~(z >= e) OBVIOUS
<1>2. QED BY <1>1, SameOperators DEF RewrittenBlock, BB!ReadThenWriteBlock, Merged, bs

(* What a part of a write, in bytes z + 1 to e of block b, leaves. *)
PartDone(f, g, b, off, input, z, e) ==
    IF b > MAX_BLOCKS THEN g = Failed(f)
    ELSE InBlock(f, g, off, input, At(b) + z, At(b) + e)

(* A part of a write, in one block: it is refused beyond the last block that
   can be encrypted, and done otherwise.                                     *)
LEMMA PartWritten ==
    ASSUME NEW f, Sound(f), ~f.failed, NEW b \in Nat, NEW off \in Nat, NEW input \in Seq(Bytes),
           NEW z \in Nat, NEW e \in Nat, NEW u \in Nat, NEW v \in Nat,
           z < e, e <= bs, u < v, v <= Len(input), v - u = e - z,
           At(b) + z = off + u, At(b) + z <= Len(C(f))
    PROVE  PartDone(f, BB!ReadThenWriteBlock(f, b, SubSeq(input, u + 1, v), z, e), b, off, input, z, e)
<1>1. Sound(f) /\ At(b) \in Nat /\ bs \in Nat /\ bs > 0 /\ Len(input) \in Nat /\ Len(C(f)) \in Nat
  BY Start, Sizes, SoundFacts
<1>2. PICK p \in Nat, l \in Nat, s \in Nat :
          p = At(b) /\ l = Len(C(f)) /\ s = bs
  BY <1>1
<1>3. p \in Nat /\ l \in Nat /\ s \in Nat /\ s > 0 /\ e <= s /\ p + z = off + u /\ p + z <= l
  BY <1>1, <1>2
<1> DEFINE sub == SubSeq(input, u + 1, v)
           g   == BB!ReadThenWriteBlock(f, b, sub, z, e)
           lo  == At(b) + z
           hi  == At(b) + e
<1> SUFFICES PartDone(f, g, b, off, input, z, e)
  OBVIOUS
<1>4. lo \in Nat /\ hi \in Nat /\ lo < hi /\ lo - At(b) = z /\ hi - At(b) = e
      /\ At(b) <= lo /\ hi <= At(b) + bs /\ lo <= Len(C(f))
  BY <1>1
<1> HIDE DEF lo, hi
<1>6. sub \in Seq(Bytes) /\ Len(sub) = e - z /\ \A i \in 1..(e - z) : sub[i] = input[u + i]
  BY PartOf
<1> HIDE DEF sub
<1>7. z <= BlockLen(f, b)
  <2>1. BlockLen(f, b) = IF p < l THEN Smaller(s, l - p) ELSE 0
    BY <1>1, <1>2, BlockLenFacts
  <2>2. QED BY <1>3, <2>1 DEF Smaller
<1> DEFINE t == Merged(f, b, sub, z, e)
<1>8. IsMerged(t, f, b, sub, z, e)
  BY <1>1, <1>6, <1>7, MergedFacts
<1>9. g =
               IF z = 0 /\ e = bs THEN WriteBlock(f, b, sub)
               ELSE IF ~CanRead(f, b) THEN Failed(f)
               ELSE WriteBlock(f, b, t)
  <2>1. RewrittenBlock(g, f, b, sub, z, e)
    BY ReadThenWrite, Zenon
  <2> HIDE DEF g
  <2>2. QED BY <2>1 DEF RewrittenBlock
<1> HIDE DEF t, g
<1>10. Len(sub) > 0 /\ Len(t) > 0
  <2>1. e - z > 0 OBVIOUS
  <2>2. Len(t) \in 1..bs BY <1>8 DEF IsMerged
  <2>3. QED BY <1>1, <1>6, <2>1, <2>2
<1>11. CASE b > MAX_BLOCKS
  <2>1. WriteBlock(f, b, sub) = Failed(f) /\ WriteBlock(f, b, t) = Failed(f)
    BY <1>10, <1>11, WriteFails
  <2>2. QED BY <1>9, <1>11, <2>1 DEF PartDone
<1>12. CASE ~(b > MAX_BLOCKS)
  <2>1. b \in 0..MAX_BLOCKS
    BY <1>12, LiteStreamAssumption
  <2>2. CanRead(f, b)
    <3>1. b \in Nat /\ b <= MAX_BLOCKS BY <2>1, LiteStreamAssumption
    <3>2. QED BY <3>1, SoundFacts DEF CanRead
  <2>4. CASE z = 0 /\ e = bs
    <3>1. e = s /\ z = 0 BY <1>2, <2>4
    <3>2. Len(sub) = s
      BY <1>3, <1>6, <3>1
    <3>3. BlockLen(f, b) \in Nat /\ BlockLen(f, b) <= s
      BY <1>1, <1>2, ReadBlockFacts
    <3>4. Len(sub) = Larger(BlockLen(f, b), hi - At(b)) /\ Len(sub) \in 1..bs
      <4>1. hi - At(b) = s BY <1>4, <3>1
      <4>2. QED BY <1>2, <1>3, <3>2, <3>3, <4>1 DEF Larger
    <3>5. ASSUME NEW i \in 1..Len(sub)
          PROVE  sub[i] = IF i > lo - At(b) /\ i <= hi - At(b) THEN input[At(b) + i - off]
                          ELSE C(f)[At(b) + i]
      <4>1. i \in 1..s /\ i \in Nat BY <1>3, <3>2
      <4>2. lo - At(b) = 0 /\ hi - At(b) = s BY <1>4, <3>1
      <4>3. At(b) + i - off = u + i BY <1>2, <1>3, <3>1, <4>1
      <4>4. i \in 1..(e - z) BY <1>3, <3>1, <4>1
      <4>5. sub[i] = input[u + i] BY <1>6, <4>4
      <4>6. i > 0 /\ i <= s BY <1>3, <4>1
      <4>7. QED BY <4>2, <4>3, <4>5, <4>6
    <3>6. BlockOver(f, b, sub, off, input, lo, hi)
      BY <1>6, <3>4, <3>5 DEF BlockOver
    <3>7. InBlock(f, WriteBlock(f, b, sub), off, input, lo, hi)
      BY <2>1, <1>4, <3>6, BlockOverWrote
    <3>8. QED BY <1>9, <1>12, <2>4, <3>7 DEF PartDone, lo, hi
  <2>5. CASE ~(z = 0 /\ e = bs)
    <3>1. ASSUME NEW i \in 1..Len(t)
          PROVE  t[i] = IF i > lo - At(b) /\ i <= hi - At(b) THEN input[At(b) + i - off]
                          ELSE C(f)[At(b) + i]
      <4>0. i \in Nat BY <1>1, <1>8 DEF IsMerged
      <4>1. t[i] = IF i > z /\ i <= e THEN sub[i - z] ELSE C(f)[At(b) + i]
        BY <1>8 DEF IsMerged
      <4>2. lo - At(b) = z /\ hi - At(b) = e BY <1>4
      <4>3. CASE i > z /\ i <= e
        <5>1. i - z \in 1..(e - z) /\ u + (i - z) = At(b) + i - off
          <6>1. i - z \in 1..(e - z) /\ u + (i - z) = p + i - off BY <1>3, <4>0, <4>3
          <6>2. QED BY <1>2, <6>1
        <5>2. sub[i - z] = input[u + (i - z)] BY <1>6, <5>1
        <5>3. QED BY <4>1, <4>2, <4>3, <5>1, <5>2
      <4>4. CASE ~(i > z /\ i <= e)
        BY <4>1, <4>2, <4>4
      <4>5. QED BY <4>3, <4>4
    <3>2. BlockOver(f, b, t, off, input, lo, hi)
      <4>1. hi - At(b) = e BY <1>4
      <4>2. QED BY <1>8, <3>1, <4>1 DEF BlockOver, IsMerged
    <3>3. InBlock(f, WriteBlock(f, b, t), off, input, lo, hi)
      BY <2>1, <1>4, <3>2, BlockOverWrote
    <3>4. QED BY <1>9, <1>12, <2>2, <2>5, <3>3 DEF PartDone, lo, hi
  <2>6. QED BY <2>4, <2>5
<1>13. QED BY <1>11, <1>12

(* Where the part of a write that falls into block b begins and ends. *)
PartAt(b, off, input, lo, hi) ==
    lo = Larger(off, At(b)) /\ hi = Smaller(At(b) + bs, off + Len(input))

(* A write, in one block. *)
LEMMA InBlockFacts ==
    ASSUME NEW f, Sound(f), ~f.failed, NEW b \in Nat, NEW off \in Nat, NEW input \in Seq(Bytes),
           NEW lo \in Nat, NEW hi \in Nat, lo < hi, lo <= Len(C(f)), PartAt(b, off, input, lo, hi)
    PROVE  IF b > MAX_BLOCKS THEN BB!WriteInBlock(f, b, off, input) = Failed(f)
           ELSE InBlock(f, BB!WriteInBlock(f, b, off, input), off, input, lo, hi)
<1>1. At(b) \in Nat /\ bs \in Nat /\ Len(input) \in Nat
  BY Start, Sizes
<1>2. PICK p \in Nat, s \in Nat, n \in Nat : p = At(b) /\ s = bs /\ n = Len(input)
  BY <1>1
<1>3. p \in Nat /\ s \in Nat /\ n \in Nat
  BY <1>2
<1>3a. lo = Larger(off, p) /\ hi = Smaller(p + s, off + n)
  BY <1>2 DEF PartAt
<1>4. /\ p <= lo /\ off <= lo /\ hi <= p + s /\ hi <= off + n
      /\ hi - p = Smaller(s, off + n - p) /\ hi - p <= s
  BY <1>3, <1>3a DEF Larger, Smaller
<1>5. PICK z \in Nat, e \in Nat, u \in Nat, v \in Nat :
               z = lo - p /\ e = hi - p /\ u = lo - off /\ v = hi - off
  <2>1. lo - p \in Nat /\ hi - p \in Nat /\ lo - off \in Nat /\ hi - off \in Nat
    BY <1>3, <1>4
  <2>2. QED BY <2>1
<1>6. /\ z < e /\ u < v /\ v <= n /\ v - u = e - z
      /\ p + z - off + 1 = u + 1 /\ p + e - off = v
      /\ lo = p + z /\ hi = p + e /\ p + z = off + u /\ e <= s
  BY <1>3, <1>4, <1>5
<1>7. BB!WriteInBlock(f, b, off, input) = BB!ReadThenWriteBlock(f, b, SubSeq(input, u + 1, v), z, e)
  <2>1. b * m_block_size = p /\ m_block_size = s BY <1>2 DEF At, bs
  <2>2. z = Larger(off, p) - p /\ e = Smaller(s, off + n - p) BY <1>3a, <1>4, <1>5
  <2>3. QED BY <1>2, <1>6, <2>1, <2>2, SameOperators DEF BB!WriteInBlock
<1>8. e <= bs /\ At(b) + z = off + u /\ At(b) + z <= Len(C(f)) /\ v <= Len(input)
      /\ z < e /\ u < v /\ v - u = e - z /\ lo = At(b) + z /\ hi = At(b) + e
  BY <1>2, <1>6
<1>9. PartDone(f, BB!WriteInBlock(f, b, off, input), b, off, input, z, e)
  <2>1. z \in Nat /\ e \in Nat /\ u \in Nat /\ v \in Nat BY <1>5
  <2>2. PartDone(f, BB!ReadThenWriteBlock(f, b, SubSeq(input, u + 1, v), z, e), b, off, input, z, e)
    BY <1>8, <2>1, PartWritten, Zenon
  <2>3. QED BY <1>7, <2>2, Zenon
<1>10. QED BY <1>8, <1>9, Zenon DEF PartDone

-----------------------------------------------------------------------------
(* The loop of unchecked_write. A set of numbers has a least one: what is so
   after no round, and after one round more, is so after every round.        *)
LEMMA Least ==
    ASSUME NEW T \in SUBSET Nat, T # {}
    PROVE  \E x \in T : \A y \in T : ~(y < x)
<1> DEFINE R == OpToRel(<, Nat)
<1>1. IsWellFoundedOn(R, Nat)
  BY NatLessThanWellFounded
<1>2. \A x, y \in Nat : <<y, x>> \in R <=> y < x
  BY DEF OpToRel
<1> HIDE DEF R
<1>3. PICK x \in T : \A y \in T : ~(<<y, x>> \in R)
  BY <1>1, WFMin
<1>4. QED BY <1>2, <1>3

(* One round of it. *)
Round(g, k, off, input) ==
    LET b == off \div m_block_size + k - 1
    IN  IF g.failed \/ b * m_block_size >= off + Len(input) THEN g
        ELSE BB!WriteInBlock(g, b, off, input)

(* a is the stream after each of n rounds. *)
IsLoop(a, f, n, off, input) ==
    a = [k \in 0..n |-> IF k = 0 THEN f ELSE Round(a[k - 1], k, off, input)]

(* The recursive definition of the loop defines a function. *)
LEMMA LoopRuns ==
    ASSUME NEW f, NEW off, NEW input, NEW n \in Nat
    PROVE  \E a : IsLoop(a, f, n, off, input)
<1> DEFINE Runs(m) == \E a : IsLoop(a, f, m, off, input)
           Bad == {m \in Nat : ~Runs(m)}
<1>1. SUFFICES ASSUME Bad # {} PROVE FALSE
  OBVIOUS
<1>2. PICK m \in Bad : \A y \in Bad : ~(y < m)
  <2> HIDE DEF Runs
  <2>1. Bad \in SUBSET Nat OBVIOUS
  <2> HIDE DEF Bad
  <2>2. QED BY <1>1, <2>1, Least
<1>3. m \in Nat /\ ~Runs(m)
  <2> HIDE DEF Runs
  <2>1. QED BY <1>2
<1>4. CASE m = 0
  <2> DEFINE a == [k \in 0..0 |-> f]
  <2>1. \A k \in 0..0 : k = 0 /\ a[k] = f OBVIOUS
  <2>2. a = [k \in 0..0 |-> IF k = 0 THEN f ELSE Round(a[k - 1], k, off, input)]
    BY <2>1
  <2>3. QED BY <1>3, <1>4, <2>2 DEF IsLoop
<1>5. CASE m # 0
  <2>1. m - 1 \in Nat /\ m - 1 < m BY <1>3, <1>5
  <2>2. Runs(m - 1)
    <3> HIDE DEF Runs
    <3>1. QED BY <1>2, <2>1
  <2>3. PICK a : IsLoop(a, f, m - 1, off, input)
    BY <2>2
  <2>4. \A k \in 0..(m - 1) : a[k] = IF k = 0 THEN f ELSE Round(a[k - 1], k, off, input)
    BY <2>3 DEF IsLoop
  <2> DEFINE c == [k \in 0..m |-> IF k < m THEN a[k] ELSE Round(a[m - 1], m, off, input)]
  <2>5. ASSUME NEW k \in 0..m
        PROVE  c[k] = IF k = 0 THEN f ELSE Round(c[k - 1], k, off, input)
    <3>1. CASE k = 0
      <4>1. 0 < m /\ 0 \in 0..(m - 1) BY <1>3, <1>5
      <4>2. QED BY <2>4, <3>1, <4>1
    <3>2. CASE k # 0
      <4>1. k - 1 \in 0..m /\ k - 1 < m BY <1>3, <3>2
      <4>2. c[k - 1] = a[k - 1] BY <4>1
      <4>3. CASE k < m
        <5>1. k \in 0..(m - 1) BY <1>3, <4>3
        <5>2. QED BY <2>4, <3>2, <4>2, <4>3, <5>1
      <4>4. CASE ~(k < m)
        <5>1. k = m BY <1>3, <4>4
        <5>2. QED BY <3>2, <4>2, <4>4, <5>1
      <4>5. QED BY <4>3, <4>4
    <3>3. QED BY <3>1, <3>2
  <2>6. c = [k \in 0..m |-> c[k]] OBVIOUS
  <2> HIDE DEF c
  <2>7. c = [k \in 0..m |-> IF k = 0 THEN f ELSE Round(c[k - 1], k, off, input)]
    BY <2>5, <2>6
  <2>8. QED BY <1>3, <2>7 DEF IsLoop
<1>6. QED BY <1>4, <1>5

(* unchecked_write is that loop. *)
LEMMA RangeIsLoop ==
    ASSUME NEW f, NEW off, NEW input, input # <<>>, Len(input) \in Nat
    PROVE  \E a : /\ IsLoop(a, f, Len(input) + 1, off, input)
                  /\ BB!WriteRange(f, off, input) = a[Len(input) + 1]
<1>1. PICK h : IsLoop(h, f, Len(input) + 1, off, input)
  <2>1. Len(input) + 1 \in Nat OBVIOUS
  <2>2. QED BY <2>1, LoopRuns
<1>2. QED BY <1>1 DEF BB!WriteRange, IsLoop, Round

-----------------------------------------------------------------------------
(* After k blocks. *)
Reached(off, input, k) == Smaller(off + Len(input), Larger(off, At(off \div bs + k)))

(* What k rounds leave: bytes off + 1 to r were written, and r is where
   block off \div bs + k begins unless a round threw. *)
Progressed(f, g, off, input, k) ==
    /\ Sound(g) /\ Kept(f, g)
    /\ \E r \in off..(off + Len(input)) :
          /\ Wrote(f, g, off, input, off, r)
          /\ ~g.failed => r = Reached(off, input, k)
    /\ g.failed => off + Len(input) > At(MAX_BLOCKS + 1)

(* One round more. *)
LEMMA RoundKeeps ==
    ASSUME NEW f, Sound(f), NEW off \in Nat, off <= Len(C(f)),
           NEW input \in Seq(Bytes), input # <<>>, NEW k \in Nat,
           NEW g, Progressed(f, g, off, input, k)
    PROVE  Progressed(f, Round(g, k + 1, off, input), off, input, k + 1)
<1> DEFINE b == off \div bs + k
           h == Round(g, k + 1, off, input)
<1>1. Sound(f) /\ Sound(g) /\ Kept(f, g)
  BY DEF Progressed
<1>2. off \div bs \in Nat /\ b \in Nat /\ bs \in Nat /\ bs > 0
  BY BlockOf, Sizes
<1>3. h = IF g.failed \/ At(b) >= off + Len(input) THEN g ELSE BB!WriteInBlock(g, b, off, input)
  <2>1. off \div m_block_size + (k + 1) - 1 = b
    BY <1>2 DEF bs
  <2>2. QED BY <2>1 DEF Round, At
<1>4. At(off \div bs + (k + 1)) = At(b) + bs /\ At(b) \in Nat
  <2>1. off \div bs + (k + 1) = b + 1 BY <1>2
  <2> HIDE DEF b
  <2>2. QED BY <1>2, <2>1, NextStart, Start
<1>4a. off < At(b) + bs
  <2>1. PICK d \in Nat : d = off \div bs /\ off < At(d) + bs
    BY <1>2, BlockOf
  <2>2. At(d) \in Nat BY <2>1, Start
  <2>3. b = d + k BY <2>1
  <2> HIDE DEF b
  <2>4. At(d) <= At(b)
    <3>1. CASE k = 0 BY <1>4, <2>1, <2>3, <3>1
    <3>2. CASE k > 0
      <4>1. d < b BY <1>2, <2>1, <2>3, <3>2
      <4>2. At(d) + bs <= At(b) BY <1>2, <2>1, <4>1, StartsApart
      <4>3. QED BY <1>2, <1>4, <2>2, <4>2
    <3>3. QED BY <3>1, <3>2
  <2>5. QED BY <1>2, <1>4, <2>1, <2>2, <2>4
<1> HIDE DEF h
<1> SUFFICES Progressed(f, h, off, input, k + 1)
  BY DEF h
<1>5. PICK r \in off..(off + Len(input)) :
          Wrote(f, g, off, input, off, r) /\ (~g.failed => r = Reached(off, input, k))
  BY DEF Progressed
<1>6. PICK p \in Nat, n \in Nat, s \in Nat, l \in Nat :
          p = At(b) /\ n = off + Len(input) /\ s = bs /\ l = Len(C(f))
  <2>1. Len(C(f)) \in Nat /\ off + Len(input) \in Nat BY <1>1, SoundFacts
  <2>2. QED BY <1>2, <1>4, <2>1
<1>7. /\ p \in Nat /\ n \in Nat /\ s \in Nat /\ s > 0 /\ r \in Nat
      /\ off <= r /\ r <= n /\ off < n /\ off < p + s
  BY <1>2, <1>4a, <1>5, <1>6
<1>8. /\ Reached(off, input, k) = Smaller(n, Larger(off, p))
      /\ Reached(off, input, k + 1) = Smaller(n, Larger(off, p + s))
  BY <1>4, <1>6 DEF Reached
<1>9. CASE g.failed
  <2>1. h = g BY <1>3, <1>9
  <2>2. QED BY <1>1, <1>5, <1>9, <2>1 DEF Progressed
<1>10. CASE ~g.failed /\ p >= n
  <2>1. h = g BY <1>3, <1>6, <1>10
  <2>0. r = Smaller(n, Larger(off, p)) BY <1>5, <1>8, <1>10
  <2>2. r = n
    BY <1>7, <1>10, <2>0 DEF Smaller, Larger
  <2>2a. Reached(off, input, k + 1) = n
    BY <1>7, <1>8, <1>10 DEF Smaller, Larger
  <2>3. QED BY <1>1, <1>5, <1>10, <2>1, <2>2, <2>2a DEF Progressed
<1>11. CASE ~g.failed /\ ~(p >= n)
  <2>1. h = BB!WriteInBlock(g, b, off, input)
    BY <1>3, <1>6, <1>11
  <2> DEFINE hi == Smaller(p + s, n)
  <2>0. r = Smaller(n, Larger(off, p)) BY <1>5, <1>8, <1>11
  <2>2. hi \in Nat /\ r < hi /\ hi <= n
    BY <1>7, <1>11, <2>0 DEF Smaller, Larger
  <2>2a. r = Larger(off, p)
    BY <1>7, <1>11, <2>0 DEF Smaller, Larger
  <2>2b. Reached(off, input, k + 1) = hi
    BY <1>7, <1>8, <1>11 DEF Smaller, Larger
  <2> HIDE DEF hi
  <2>3. r <= Len(C(g))
    <3>1. Len(C(g)) = Larger(l, r) BY <1>5, <1>6 DEF Wrote
    <3>2. l \in Nat BY <1>6
    <3>3. QED BY <1>7, <3>1, <3>2 DEF Larger
  <2>4. PartAt(b, off, input, r, hi)
    BY <1>6, <2>2a DEF hi, PartAt
  <2>5. IF b > MAX_BLOCKS THEN h = Failed(g) ELSE InBlock(g, h, off, input, r, hi)
    <3> HIDE DEF b
    <3>1. r \in Nat /\ hi \in Nat /\ r < hi BY <1>7, <2>2
    <3>2. QED BY <1>1, <1>2, <1>11, <2>1, <2>3, <2>4, <3>1, InBlockFacts
  <2>6. CASE b > MAX_BLOCKS
    <3>1. h = Failed(g) BY <2>5, <2>6
    <3>2. Sound(h) /\ Kept(g, h) /\ h.failed /\ C(h) = C(g)
      BY <1>1, <3>1, FailedFacts
    <3>3. Via(C(f), C(g), C(h)) BY <3>2 DEF Via
    <3>4. Kept(f, h) BY <1>1, <3>2, <3>3, KeptOn
    <3>5. Wrote(f, h, off, input, off, r) BY <1>5, <3>2 DEF Wrote
    <3>6. off + Len(input) > At(MAX_BLOCKS + 1)
      <4>1. PICK c \in Nat : c = MAX_BLOCKS + 1
        BY LiteStreamAssumption
      <4>2. c <= b BY <1>2, <2>6, <4>1, LiteStreamAssumption
      <4> HIDE DEF b
      <4>3. At(c) \in Nat /\ At(c) <= At(b)
        <5>1. CASE c = b BY <1>4, <5>1
        <5>2. CASE c < b
          <6>1. At(c) + bs <= At(b) /\ At(c) \in Nat BY <1>2, <4>1, <5>2, StartsApart, Start
          <6>2. QED BY <1>2, <1>4, <6>1
        <5>3. QED BY <1>2, <4>1, <4>2, <5>1, <5>2
      <4>4. QED BY <1>6, <1>7, <1>11, <4>1, <4>3
    <3>7. QED BY <1>5, <3>2, <3>4, <3>5, <3>6 DEF Progressed
  <2>7. CASE ~(b > MAX_BLOCKS)
    <3>1. Sound(h) /\ Kept(g, h) /\ ~h.failed /\ Wrote(g, h, off, input, r, hi)
      BY <2>5, <2>7 DEF InBlock
    <3>2. Wrote(f, h, off, input, off, hi) /\ Via(C(f), C(g), C(h))
      <4>1. r \in Nat /\ hi \in Nat /\ off <= r /\ r <= hi BY <1>7, <2>2
      <4>2. QED BY <1>1, <1>5, <3>1, <4>1, WroteOn
    <3>3. Kept(f, h) BY <1>1, <3>1, <3>2, KeptOn
    <3>5. hi \in off..(off + Len(input)) BY <1>6, <1>7, <2>2
    <3>6. QED BY <2>2b, <3>1, <3>2, <3>3, <3>5 DEF Progressed
  <2>8. QED BY <2>6, <2>7
<1>12. QED BY <1>9, <1>10, <1>11

(* n blocks hold at least n bytes. *)
LEMMA FarEnough ==
    ASSUME NEW off \in Nat, NEW n \in Nat
    PROVE  At(off \div bs + (n + 1)) >= off + n
<1> DEFINE d == off \div bs
<1>1. d \in Nat /\ off < At(d) + bs
  BY BlockOf
<1> HIDE DEF d
<1>2. At(d + 1) = At(d) + bs /\ At(d) \in Nat /\ d + 1 \in Nat
  BY <1>1, NextStart, Start
<1>3. At(d + (n + 1)) = At(d + 1) + n * bs
  BY <1>1, Sizes DEF At, bs
<1>4. PICK c \in Nat : bs = 1 + c
  <2>1. bs - 1 \in Nat /\ bs = 1 + (bs - 1) BY Sizes
  <2>2. QED BY <2>1
<1>5. n * bs = n + n * c BY <1>4
<1>6. n * c \in Nat BY <1>4
<1>7. PICK x \in Nat, y \in Nat : x = n * c /\ y = At(d) BY <1>2, <1>6
<1>8. At(d + (n + 1)) = y + bs + n + x BY <1>2, <1>3, <1>5, <1>7, Sizes
<1>9. QED BY <1>1, <1>7, <1>8, Sizes DEF d

(* A write within the stream: all of it is done, or a part of it when it
   goes beyond the last block that can be encrypted.                         *)
RangeWritten(f, g, off, input) ==
    /\ Sound(g) /\ Kept(f, g)
    /\ \E r \in off..(off + Len(input)) :
          /\ Wrote(f, g, off, input, off, r)
          /\ ~g.failed => r = off + Len(input)
    /\ g.failed => off + Len(input) > At(MAX_BLOCKS + 1)

(* The loop does that: the first round after which it would not be so has a
   round before it, after which it is so. *)
LEMMA WriteRangeFacts ==
    ASSUME NEW f, Sound(f), ~f.failed, NEW off \in Nat, off <= Len(C(f)),
           NEW input \in Seq(Bytes)
    PROVE  RangeWritten(f, BB!WriteRange(f, off, input), off, input)
<1>0. Sound(f) /\ Len(input) \in Nat
  OBVIOUS
<1>1. CASE input = <<>>
  <2>1. BB!WriteRange(f, off, input) = f BY <1>1 DEF BB!WriteRange
  <2>2. Wrote(f, f, off, input, off, off) BY <1>0, WroteNothing
  <2>3. Len(input) = 0 BY <1>1
  <2>4. off \in off..(off + Len(input)) /\ off = off + Len(input) BY <2>3
  <2>5. QED BY <1>0, <2>1, <2>2, <2>4, KeptSelf DEF RangeWritten
<1>2. CASE input # <<>>
  <2> DEFINE n == Len(input)
  <2>1. PICK a : IsLoop(a, f, n + 1, off, input) /\ BB!WriteRange(f, off, input) = a[n + 1]
    BY <1>0, <1>2, RangeIsLoop
  <2>2. \A k \in 0..(n + 1) : a[k] = IF k = 0 THEN f ELSE Round(a[k - 1], k, off, input)
    BY <2>1 DEF IsLoop
  <2> DEFINE Bad == {k \in 0..(n + 1) : ~Progressed(f, a[k], off, input, k)}
  <2>3. Bad = {}
    <3> SUFFICES ASSUME Bad # {} PROVE FALSE
      OBVIOUS
    <3>1. PICK k \in Bad : \A y \in Bad : ~(y < k)
      <4>1. Bad \in SUBSET Nat OBVIOUS
      <4> HIDE DEF Bad
      <4>2. QED BY <4>1, Least
    <3>2. k \in 0..(n + 1) /\ ~Progressed(f, a[k], off, input, k) BY <3>1
    <3>3. CASE k = 0
      <4>1. a[0] = f BY <2>2, <3>2, <3>3
      <4>2. off \div bs \in Nat /\ At(off \div bs) <= off /\ At(off \div bs) \in Nat
        BY BlockOf, Start
      <4>3. Reached(off, input, 0) = off
        <5>1. off \div bs + 0 = off \div bs BY <4>2
        <5>2. PICK p \in Nat : p = At(off \div bs) BY <4>2
        <5>3. Reached(off, input, 0) = Smaller(off + n, Larger(off, p)) BY <5>1, <5>2 DEF Reached
        <5>4. p \in Nat /\ p <= off /\ n \in Nat BY <1>0, <4>2, <5>2
        <5>5. QED BY <5>3, <5>4 DEF Smaller, Larger
      <4>4. Wrote(f, f, off, input, off, off) BY <1>0, WroteNothing
      <4>5. off \in off..(off + Len(input)) BY <1>0
      <4>6. Progressed(f, f, off, input, 0)
        BY <1>0, <4>3, <4>4, <4>5, KeptSelf DEF Progressed
      <4>7. QED BY <3>2, <3>3, <4>1, <4>6
    <3>4. CASE k # 0
      <4>1. k - 1 \in 0..(n + 1) /\ k - 1 < k /\ k - 1 \in Nat /\ k - 1 + 1 = k
        BY <1>0, <3>2, <3>4
      <4>2. k - 1 \notin Bad
        <5> HIDE DEF Bad
        <5>1. QED BY <3>1, <4>1
      <4>3. Progressed(f, a[k - 1], off, input, k - 1) BY <4>1, <4>2
      <4>4. a[k] = Round(a[k - 1], k - 1 + 1, off, input) BY <2>2, <3>2, <3>4, <4>1
      <4>5. Progressed(f, a[k], off, input, k - 1 + 1)
        BY <1>2, <4>1, <4>3, <4>4, RoundKeeps
      <4>6. QED BY <3>2, <4>1, <4>5
    <3>5. QED BY <3>3, <3>4
  <2>4. Progressed(f, a[n + 1], off, input, n + 1)
    <3>1. n + 1 \in 0..(n + 1) BY <1>0
    <3>2. QED BY <2>3, <3>1
  <2>5. Reached(off, input, n + 1) = off + n
    <3>1. At(off \div bs + (n + 1)) >= off + n BY <1>0, FarEnough
    <3>2. At(off \div bs + (n + 1)) \in Nat
      <4>1. off \div bs \in Nat BY BlockOf
      <4>2. off \div bs + (n + 1) \in Nat BY <1>0, <4>1
      <4>3. QED BY <4>2, Start
    <3>3. PICK p \in Nat : p = At(off \div bs + (n + 1)) BY <3>2
    <3>4. Reached(off, input, n + 1) = Smaller(off + n, Larger(off, p)) BY <3>3 DEF Reached
    <3>5. p \in Nat /\ p >= off + n /\ n \in Nat BY <1>0, <3>1, <3>3
    <3>6. QED BY <3>4, <3>5 DEF Smaller, Larger
  <2>6. QED BY <2>1, <2>4, <2>5 DEF Progressed, RangeWritten
<1>3. QED BY <1>1, <1>2

-----------------------------------------------------------------------------
(* g has k bytes: those of f, and zeros after them. *)
Resizes(f, g, k) == IsCut(C(g), C(f), k, 0)

(* What was in the underlying file while f was cut to n bytes: in the block of
   byte n it may be anything.                                                *)
CutKept(f, g, n) ==
    /\ g.sparse = f.sparse
    /\ \A m \in g.moments : \/ m \in f.moments
                             \/ Between(m, C(f), C(g))
                             \/ /\ m \in Seq(Cell)
                                /\ \A y \in Nat : y # n \div bs => Raw(m, y) = Raw(f.data, y)

(* What a call of resize leaves. *)
ResizeDone(f, g, n) ==
    /\ Sound(g)
    /\ Kept(f, g) \/ (n < Len(C(f)) /\ CutKept(f, g, n))
    /\ \E k \in Nat : /\ Resizes(f, g, k)
                      /\ ~g.failed => k = n
                      /\ g.failed => Len(C(f)) <= k /\ k <= Larger(n, Len(C(f)))
    /\ g.failed => n > At(MAX_BLOCKS + 1)

(* A stream has its own size, *)
LEMMA ResizesSelf ==
    ASSUME NEW f, Sound(f)
    PROVE  Resizes(f, f, Len(C(f)))
<1>1. Len(C(f)) \in Nat BY SoundFacts
<1>2. QED BY <1>1 DEF Resizes, IsCut

(* and a longer one has the same bytes, zeros beyond the end included. *)
LEMMA ResizesVia ==
    ASSUME NEW f, Sound(f), NEW w, NEW k \in Nat, Resizes(f, w, k), Len(C(f)) <= k
    PROVE  \A i \in Nat \ {0} : Old(C(w), i) = Old(C(f), i)
<1> SUFFICES ASSUME NEW i \in Nat \ {0} PROVE Old(C(w), i) = Old(C(f), i)
  OBVIOUS
<1>1. Len(C(w)) = k /\ \A j \in 1..k : C(w)[j] = IF j <= Len(C(f)) THEN C(f)[j] ELSE 0
  BY DEF Resizes, IsCut
<1>2. PICK l \in Nat : l = Len(C(f)) BY SoundFacts
<1>3. CASE i <= k
  <2>1. i \in 1..k BY <1>3
  <2>2. QED BY <1>1, <1>3, <2>1 DEF Old
<1>4. CASE ~(i <= k)
  <2>1. ~(i <= l) BY <1>2, <1>4
  <2>2. QED BY <1>1, <1>2, <1>4, <2>1 DEF Old
<1>5. QED BY <1>3, <1>4

(* A resize to a size where a block begins: the rest is cut off. *)
LEMMA ShrinkToBlock ==
    ASSUME NEW f, Sound(f), ~f.failed, NEW n \in Nat, NEW b \in Nat, n = At(b), n <= Len(C(f))
    PROVE  ResizeDone(f, AdjustLogicalSize(f, n), n)
<1> DEFINE g == AdjustLogicalSize(f, n)
<1>1. Sound(g) /\ Kept(f, g) /\ ~g.failed /\ IsCut(C(g), C(f), n, 0) BY Adjusted
<1> HIDE DEF g
<1>2. ResizeDone(f, g, n) BY <1>1 DEF ResizeDone, Resizes
<1>3. QED BY <1>2 DEF g

(* A resize to a size within a block: the bytes of the block that stay are
   written over it before the rest is cut off.                               *)
LEMMA ShrinkInBlock ==
    ASSUME NEW f, Sound(f), ~f.failed, NEW b \in 0..MAX_BLOCKS, NEW bytes \in Seq(Bytes),
           NEW n \in Nat, At(b) < n, n < At(b) + bs, n < Len(C(f)),
           Len(bytes) = n - At(b), \A i \in 1..(n - At(b)) : bytes[i] = C(f)[At(b) + i]
    PROVE  ResizeDone(f, AdjustLogicalSize(WriteBlock(f, b, bytes), n), n)
<1> DEFINE r == StoredForm(b, bytes)
           w == PutAt(f.data, Under(b), r, Zero)
           e == CutTo(w, U(n), Zero)
           x == CutTo(C(f), n, 0)
           h == Store(f, w)
           g == Store(h, e)
<1>1. b \in Nat /\ Stores(f.data, C(f)) /\ f \in Streams BY LiteStreamAssumption DEF Sound
<1>2. At(b) \in Nat /\ bs \in Nat /\ Len(C(f)) \in Nat BY <1>1, Start, Sizes, SoundFacts
<1>3. Len(bytes) \in 1..bs /\ n = At(b) + Len(bytes) /\ n <= Len(C(f)) BY <1>2
<1>4. WriteBlock(f, b, bytes) = h /\ Encodes(r, b, bytes) BY StoredFormFacts
<1> HIDE DEF r
<1>5. /\ w \in Seq(Cell)
      /\ \A y \in Nat : y # b => Raw(w, y) = Raw(f.data, y)
      /\ Stores(e, x)
  <2>1. \A i \in 1..Len(bytes) : bytes[i] = C(f)[At(b) + i] BY <1>2, <1>3
  <2>2. QED BY <1>1, <1>3, <1>4, <2>1, ShrinkStores
<1>6. IsCut(x, C(f), n, 0)
  <2>1. C(f) \in Seq(Bytes) /\ 0 \in Bytes BY <1>1, LiteStreamAssumption DEF Stores
  <2>2. QED BY <2>1, CutToFacts, Zenon
<1> HIDE DEF w, x
<1>7. /\ h \in Streams /\ h.data = w /\ h.failed = f.failed /\ h.sparse = f.sparse
      /\ h.moments = f.moments \cup {w}
  BY <1>1, <1>5 DEF Store, Streams
<1> HIDE DEF h
<1>8. AdjustLogicalSize(h, n) = g
  <2>1. AdjustLogicalSize(h, n) = Store(h, CutTo(h.data, U(n), Zero)) BY <1>7, AdjustIs
  <2>2. QED BY <1>7, <2>1
<1> HIDE DEF e
<1>9. e \in Seq(Cell) /\ Content(e) = x BY <1>5, StoredContent DEF Stores
<1>10. /\ g \in Streams /\ g.data = e /\ g.failed = f.failed /\ g.sparse = f.sparse
       /\ g.moments = f.moments \cup {w, e}
  BY <1>7, <1>9 DEF Store, Streams
<1> HIDE DEF g
<1>11. C(g) = x BY <1>9, <1>10 DEF C
<1>12. Sound(g) BY <1>5, <1>10, <1>11 DEF Sound
<1>13. Between(e, C(f), C(g))
  <2>1. Len(x) \in Nat /\ \A i \in 1..Len(x) : x[i] = Old(x, i)
    <3>1. Len(x) = n BY <1>6 DEF IsCut
    <3>2. QED BY <3>1 DEF Old
  <2>2. QED BY <1>5, <1>9, <1>11, <2>1 DEF Between
<1>14. n \div bs = b
  <2>1. At(b) <= n BY <1>2
  <2>2. QED BY <1>1, <2>1, BlockIsUnique
<1>15. CutKept(f, g, n) BY <1>5, <1>10, <1>13, <1>14 DEF CutKept
<1>16. Resizes(f, g, n) BY <1>6, <1>11 DEF Resizes
<1>17. ~g.failed BY <1>10
<1>18. ResizeDone(f, g, n) BY <1>12, <1>15, <1>16, <1>17 DEF ResizeDone
<1>19. QED BY <1>4, <1>8, <1>18

(* Both ways of shrinking. *)
LEMMA ShrinkFacts ==
    ASSUME NEW f, Sound(f), ~f.failed, NEW n \in Nat, n < Len(C(f))
    PROVE  ResizeDone(f, BB!Shrink(f, n), n)
<1> DEFINE b == n \div bs
           r == n % bs
           old == ReadBlock(f, b)
           bytes == SubSeq(CutTo(old, m_block_size, 0), 1, r)
<1>1. bs \in Nat /\ bs > 0 /\ Len(C(f)) \in Nat
  BY Sizes, SoundFacts
<1>2. b \in Nat /\ At(b) <= n /\ n < At(b) + bs /\ r = n - At(b)
  BY BlockOf
<1>3. BB!Shrink(f, n) = AdjustLogicalSize(IF r = 0 THEN f ELSE IF ~CanRead(f, b) THEN Failed(f)
                                          ELSE WriteBlock(f, b, bytes), n)
  BY SameOperators DEF BB!Shrink, bs
<1> HIDE DEF b, r
<1>4. At(b) \in Nat BY <1>2, Start
<1>5. r \in Nat /\ (r = 0 <=> n = At(b)) /\ r < bs
  BY <1>1, <1>2, <1>4
<1>6. CASE r = 0
  <2>1. BB!Shrink(f, n) = AdjustLogicalSize(f, At(b)) /\ n = At(b) BY <1>3, <1>5, <1>6
  <2>2. At(b) <= Len(C(f)) BY <1>1, <1>4, <2>1
  <2>3. QED BY <1>2, <2>1, <2>2, ShrinkToBlock
<1>7. CASE r # 0 /\ b > MAX_BLOCKS
  <2>1. At(b) < n /\ At(b) < Len(C(f)) BY <1>1, <1>2, <1>4, <1>5, <1>7
  <2>3. ~CanRead(f, b)
    <3>1. ~(b <= MAX_BLOCKS) BY <1>2, <1>7, LiteStreamAssumption
    <3>2. QED BY <3>1 DEF CanRead
  <2>4. BB!Shrink(f, n) = AdjustLogicalSize(Failed(f), n) BY <1>3, <1>7, <2>3
  <2>5. Sound(Failed(f)) /\ Kept(f, Failed(f)) /\ Failed(f).failed /\ C(Failed(f)) = C(f)
    BY FailedFacts
  <2>6. BB!Shrink(f, n) = Failed(f) BY <2>4, <2>5 DEF AdjustLogicalSize
  <2>7. Resizes(f, Failed(f), Len(C(f))) BY <1>1, <2>5, ResizesSelf DEF Resizes
  <2>8. n > At(MAX_BLOCKS + 1)
    <3>1. PICK c \in Nat : c = MAX_BLOCKS + 1 /\ c <= b BY <1>2, <1>7, LiteStreamAssumption
    <3>2. At(c) \in Nat /\ At(c) <= At(b)
      <4>1. CASE c = b BY <1>4, <4>1
      <4>2. CASE c < b
        <5>1. At(c) + bs <= At(b) /\ At(c) \in Nat BY <1>2, <3>1, <4>2, StartsApart, Start
        <5>2. QED BY <1>1, <1>4, <5>1
      <4>3. QED BY <1>2, <3>1, <4>1, <4>2
    <3>3. QED BY <1>4, <2>1, <3>1, <3>2
  <2>9. Len(C(f)) <= Len(C(f)) /\ Len(C(f)) <= Larger(n, Len(C(f))) BY <1>1 DEF Larger
  <2>10. QED BY <1>1, <2>5, <2>6, <2>7, <2>8, <2>9 DEF ResizeDone
<1>8. CASE r # 0 /\ ~(b > MAX_BLOCKS)
  <2>1. b \in 0..MAX_BLOCKS BY <1>2, <1>8, LiteStreamAssumption
  <2>2. CanRead(f, b)
    <3>1. BlockReadable(f.data, b) BY <1>2, SoundFacts
    <3>2. b <= MAX_BLOCKS BY <2>1, LiteStreamAssumption
    <3>3. QED BY <3>1, <3>2 DEF CanRead
  <2>3. BB!Shrink(f, n) = AdjustLogicalSize(WriteBlock(f, b, bytes), n) BY <1>3, <1>8, <2>2
  <2>4. old \in Seq(Bytes) /\ Len(old) = BlockLen(f, b) /\ BlockLen(f, b) \in Nat
        /\ \A i \in 1..BlockLen(f, b) : old[i] = C(f)[At(b) + i]
    <3> HIDE DEF old
    <3>1. BlockLen(f, b) \in Nat BY <1>1, <1>2, BlockLenFacts
    <3>2. QED BY <1>1, <1>2, <3>1, ReadBlockFacts DEF old
  <2>5. At(b) < n BY <1>1, <1>2, <1>4, <1>5, <1>8
  <2>6. r <= BlockLen(f, b)
    <3>1. PICK p \in Nat, l \in Nat, s \in Nat : p = At(b) /\ l = Len(C(f)) /\ s = bs BY <1>1, <1>4
    <3>2. p \in Nat /\ l \in Nat /\ s \in Nat /\ r = n - p /\ n < l /\ p < n /\ r < s
      BY <1>2, <1>5, <2>5, <3>1
    <3>3. BlockLen(f, b) = IF p < l THEN Smaller(s, l - p) ELSE 0 BY <1>1, <1>2, <3>1, BlockLenFacts
    <3>4. QED BY <3>2, <3>3 DEF Smaller
  <2> HIDE DEF old
  <2> DEFINE c == CutTo(old, m_block_size, 0)
  <2>7. c \in Seq(Bytes) /\ IsCut(c, old, m_block_size, 0)
    <3>1. 0 \in Bytes /\ m_block_size \in Nat BY LiteStreamAssumption
    <3>2. QED BY <2>4, <3>1, CutToFacts, Zenon
  <2>8. bytes = SubSeq(c, 1, r) OBVIOUS
  <2> HIDE DEF c, bytes
  <2>9. \A i \in 1..r : c[i] = C(f)[At(b) + i] /\ c[i] \in Bytes
    <3> SUFFICES ASSUME NEW i \in 1..r PROVE c[i] = C(f)[At(b) + i] /\ c[i] \in Bytes
      OBVIOUS
    <3>1. i \in 1..bs /\ i \in 1..BlockLen(f, b) /\ i <= Len(old)
      BY <1>1, <1>5, <2>4, <2>6
    <3>2. c[i] = old[i] BY <2>7, <3>1 DEF IsCut, bs
    <3>3. QED BY <2>4, <3>1, <3>2
  <2>10. bytes \in Seq(Bytes) /\ Len(bytes) = r /\ \A i \in 1..r : bytes[i] = c[i]
    <3>1. 1 \in Int /\ r \in Int /\ \A i \in 1..r : c[i] \in Bytes BY <1>5, <2>9
    <3>2. /\ bytes \in Seq(Bytes)
          /\ Len(bytes) = IF 1 <= r THEN r - 1 + 1 ELSE 0
          /\ \A i \in 1..(r - 1 + 1) : bytes[i] = c[1 + i - 1]
      BY <2>8, <3>1, SubSeqProperties
    <3>3. 1 <= r /\ r - 1 + 1 = r /\ \A i \in 1..r : 1 + i - 1 = i BY <1>5, <1>8
    <3>4. QED BY <3>2, <3>3
  <2>11. Len(bytes) = n - At(b) /\ \A i \in 1..(n - At(b)) : bytes[i] = C(f)[At(b) + i]
    BY <1>2, <2>9, <2>10
  <2>12. QED BY <1>2, <2>1, <2>3, <2>5, <2>10, <2>11, ShrinkInBlock
<1>9. QED BY <1>6, <1>7, <1>8

(* Filling with zeros makes the stream longer. *)
LEMMA FillResizes ==
    ASSUME NEW f, Sound(f), NEW w, Sound(w), NEW e \in Nat, NEW r \in Nat,
           Len(C(f)) <= r, r <= e,
           Wrote(f, w, Len(C(f)), Zeros(e - Len(C(f))), Len(C(f)), r)
    PROVE  Resizes(f, w, r)
<1>1. Len(C(f)) \in Nat BY SoundFacts
<1>2. PICK l \in Nat : l = Len(C(f)) BY <1>1
<1>3. l \in Nat /\ l <= r BY <1>2
<1>4. Len(C(w)) = Larger(l, r) BY <1>2 DEF Wrote
<1>5. Len(C(w)) = r BY <1>3, <1>4 DEF Larger
<1>6. ASSUME NEW i \in 1..r PROVE C(w)[i] = IF i <= l THEN C(f)[i] ELSE 0
  <2>1. C(w)[i] = IF i > l /\ i <= r THEN Zeros(e - l)[i - l] ELSE C(f)[i]
    BY <1>2, <1>5 DEF Wrote
  <2>2. CASE i <= l
    <3>1. ~(i > l) BY <1>3, <2>2
    <3>2. QED BY <2>1, <2>2, <3>1
  <2>3. CASE ~(i <= l)
    <3>1. i > l /\ i <= r /\ i - l \in 1..(e - l) BY <1>3, <2>3
    <3>2. Zeros(e - l)[i - l] = 0 BY <3>1 DEF Zeros
    <3>3. QED BY <2>1, <2>3, <3>1, <3>2
  <2>4. QED BY <2>2, <2>3
<1>7. QED BY <1>2, <1>5, <1>6 DEF Resizes, IsCut

(* Growing, with and without sparse files. *)
LEMMA GrowFacts ==
    ASSUME NEW f, Sound(f), ~f.failed, NEW n \in Nat, Len(C(f)) < n
    PROVE  ResizeDone(f, BB!Grow(f, n), n)
<1> DEFINE l == Len(C(f))
           b == l \div bs
           d == n \div bs
           e == IF ~f.sparse \/ b = d THEN n ELSE At(b + 1)
           z == Zeros(e - l)
           w == BB!WriteRange(f, l, z)
<1>1. l \in Nat /\ bs \in Nat /\ bs > 0 /\ size(f) = l BY Sizes, SoundFacts
<1> HIDE DEF l
<1>1a. l = Len(C(f)) /\ l < n BY DEF l
<1>2. /\ b \in Nat /\ At(b) <= l /\ l < At(b) + bs /\ d \in Nat /\ At(d) <= n /\ n < At(d) + bs
  BY <1>1, BlockOf
<1>3. BB!Grow(f, n) = AdjustLogicalSize(BB!ZeroFill(f, l, e), n)
  <2>1. (b + 1) * m_block_size = At(b + 1) BY DEF At
  <2>2. BB!Grow(f, n) = AdjustLogicalSize(IF ~f.sparse \/ b = d THEN BB!ZeroFill(f, l, n)
                                          ELSE BB!ZeroFill(f, l, (b + 1) * m_block_size), n)
    BY <1>1 DEF BB!Grow, bs
  <2>3. QED BY <2>1, <2>2
<1> HIDE DEF b, d
<1>4. At(b) \in Nat /\ At(d) \in Nat /\ At(b + 1) = At(b) + bs /\ b + 1 \in Nat
  BY <1>2, NextStart, Start
<1>5. e \in Nat /\ l < e /\ e <= n
  <2>1. CASE e = n BY <1>1a, <2>1
  <2>2. CASE e # n
    <3>1. e = At(b + 1) /\ b # d BY <2>2
    <3>2. ~(d < b)
      <4>1. d < b => At(d) + bs <= At(b) BY <1>2, StartsApart
      <4>2. QED BY <1>1, <1>1a, <1>2, <1>4, <4>1
    <3>3. b < d BY <1>2, <3>1, <3>2
    <3>4. At(b) + bs <= At(d) BY <1>2, <3>3, StartsApart
    <3>5. QED BY <1>1, <1>2, <1>4, <3>1, <3>4
  <2>3. QED BY <2>1, <2>2
<1>5a. e = n \/ e = At(b + 1) OBVIOUS
<1> HIDE DEF e
<1>6. z \in Seq(Bytes) /\ Len(z) = e - l
  <2>1. e - l \in Nat BY <1>1, <1>5
  <2>2. 0 \in Bytes BY LiteStreamAssumption
  <2>3. z \in [1..(e - l) -> Bytes] BY <2>2 DEF Zeros
  <2>4. QED BY <2>1, <2>3
<1>7. BB!ZeroFill(f, l, e) = w BY <1>5, SameOperators DEF BB!ZeroFill
<1>8. l + Len(z) = e BY <1>1, <1>5, <1>6
<1>9. RangeWritten(f, w, l, z)
  <2>1. l <= Len(C(f)) BY <1>1, <1>1a
  <2> HIDE DEF z
  <2>2. QED BY <1>1, <1>6, <2>1, WriteRangeFacts
<1> HIDE DEF w
<1>10. Sound(w) /\ Kept(f, w) BY <1>9 DEF RangeWritten
<1>11. PICK r \in l..e : Wrote(f, w, l, z, l, r) /\ (~w.failed => r = e)
  BY <1>8, <1>9 DEF RangeWritten
<1>12. r \in Nat /\ l <= r /\ r <= e BY <1>1, <1>5, <1>11
<1>13. Resizes(f, w, r)
  <2>1. Wrote(f, w, Len(C(f)), Zeros(e - Len(C(f))), Len(C(f)), r) BY <1>1a, <1>11
  <2>2. Len(C(f)) <= r BY <1>1a, <1>12
  <2>3. QED BY <1>1, <1>5, <1>10, <1>12, <2>1, <2>2, FillResizes
<1>14. w.failed => e > At(MAX_BLOCKS + 1)
  BY <1>8, <1>9 DEF RangeWritten
<1>15. CASE w.failed
  <2>1. BB!Grow(f, n) = w BY <1>3, <1>7, <1>15 DEF AdjustLogicalSize
  <2>2. At(MAX_BLOCKS + 1) \in Nat
    <3>1. MAX_BLOCKS + 1 \in Nat BY LiteStreamAssumption
    <3>2. QED BY <3>1, Start
  <2>3. n > At(MAX_BLOCKS + 1) BY <1>5, <1>14, <1>15, <2>2
  <2>4. Len(C(f)) <= r /\ r <= Larger(n, Len(C(f))) BY <1>1, <1>1a, <1>5, <1>12 DEF Larger
  <2>5. QED BY <1>10, <1>12, <1>13, <1>15, <2>1, <2>3, <2>4 DEF ResizeDone
<1>16. CASE ~w.failed
  <2> DEFINE g == AdjustLogicalSize(w, n)
  <2>1. BB!Grow(f, n) = g BY <1>3, <1>7
  <2>2. Len(C(w)) = e BY <1>11, <1>13, <1>16 DEF Resizes, IsCut
  <2>3. Len(C(w)) <= n BY <1>5, <2>2
  <2>4. n = Len(C(w)) \/ (Len(C(w)) = At(b + 1) /\ Len(C(w)) <= n) BY <1>5a, <2>2, <2>3
  <2>5. Sound(g) /\ Kept(w, g) /\ ~g.failed /\ IsCut(C(g), C(w), n, 0)
    BY <1>4, <1>10, <1>16, <2>4, Adjusted
  <2> HIDE DEF g
  <2>6. Kept(f, g)
    <3>1. Len(C(f)) <= r BY <1>1a, <1>12
    <3>2. Via(C(f), C(w), C(g)) BY <1>12, <1>13, <3>1, ResizesVia DEF Via
    <3>3. QED BY <1>10, <2>5, <3>2, KeptOn
  <2>8. ASSUME NEW i \in 1..n
        PROVE  C(g)[i] = IF i <= Len(C(f)) THEN C(f)[i] ELSE 0
    <3>1. C(g)[i] = IF i <= e THEN C(w)[i] ELSE 0
      BY <2>2, <2>5 DEF IsCut
    <3>2. CASE i <= e
      <4>1. i \in 1..r BY <1>5, <1>11, <1>16, <3>2
      <4>2. QED BY <1>13, <3>1, <3>2, <4>1 DEF Resizes, IsCut
    <3>3. CASE ~(i <= e)
      <4>1. ~(i <= Len(C(f))) BY <1>1, <1>1a, <1>5, <3>3
      <4>2. QED BY <3>1, <3>3, <4>1
    <3>4. QED BY <3>2, <3>3
  <2>9. Resizes(f, g, n)
    <3>1. Len(C(g)) = n BY <2>5 DEF IsCut
    <3>2. QED BY <2>8, <3>1 DEF Resizes, IsCut
  <2>10. QED BY <2>1, <2>5, <2>6, <2>9 DEF ResizeDone
<1>17. QED BY <1>15, <1>16

(* unchecked_resize, whichever way it goes. *)
LEMMA ResizeFacts ==
    ASSUME NEW f, Sound(f), ~f.failed, NEW n \in Nat
    PROVE  ResizeDone(f, BB!Resize(f, n), n)
<1>1. Len(C(f)) \in Nat /\ size(f) = Len(C(f)) BY SoundFacts
<1>2. BB!Resize(f, n) = IF n = Len(C(f)) THEN f ELSE IF n < Len(C(f)) THEN BB!Shrink(f, n) ELSE BB!Grow(f, n)
  BY <1>1 DEF BB!Resize
<1>3. CASE n = Len(C(f))
  <2>1. BB!Resize(f, n) = f BY <1>2, <1>3
  <2>2. Resizes(f, f, n) /\ Kept(f, f) BY <1>1, <1>3, ResizesSelf, KeptSelf
  <2>3. QED BY <2>1, <2>2 DEF ResizeDone
<1>4. CASE n < Len(C(f))
  <2>1. n # Len(C(f)) BY <1>1, <1>4
  <2>2. BB!Resize(f, n) = BB!Shrink(f, n) BY <1>2, <1>4, <2>1
  <2>3. QED BY <1>4, <2>2, ShrinkFacts
<1>5. CASE Len(C(f)) < n
  <2>1. n # Len(C(f)) /\ ~(n < Len(C(f))) BY <1>1, <1>5
  <2>2. BB!Resize(f, n) = BB!Grow(f, n) BY <1>2, <2>1
  <2>3. QED BY <1>5, <2>2, GrowFacts
<1>6. QED BY <1>1, <1>3, <1>4, <1>5

-----------------------------------------------------------------------------
(* Byte i of c after input was written at off. *)
Over(c, off, input, i) == IF i > off /\ i <= off + Len(input) THEN input[i - off] ELSE Old(c, i)

(* What a call of write leaves. *)
WriteDone(f, g, off, input) ==
    /\ Sound(g) /\ Kept(f, g)
    /\ Len(C(f)) <= Len(C(g))
    /\ Len(C(g)) <= Larger(Len(C(f)), off + Len(input))
    /\ ~g.failed => Len(C(g)) = Larger(Len(C(f)), off + Len(input))
    /\ \A i \in 1..Len(C(g)) : \/ C(g)[i] = Over(C(f), off, input, i)
                               \/ g.failed /\ C(g)[i] = Old(C(f), i)
    /\ g.failed => off + Len(input) > At(MAX_BLOCKS + 1)

(* BlockBasedStream::write does that: it resizes first where it must. *)
LEMMA WriteFacts ==
    ASSUME NEW f, Sound(f), ~f.failed, NEW off \in Nat, NEW input \in Seq(Bytes)
    PROVE  WriteDone(f, BB!Write(f, off, input), off, input)
<1> DEFINE h == IF off > Len(C(f)) THEN BB!Resize(f, off) ELSE f
           g == BB!Write(f, off, input)
<1>1. Len(C(f)) \in Nat /\ size(f) = Len(C(f)) /\ Len(input) \in Nat BY SoundFacts
<1>2. g = IF h.failed THEN h ELSE BB!WriteRange(h, off, input)
  BY <1>1 DEF BB!Write
<1>3. PICK l \in Nat, fin \in Nat, m \in Nat :
         l = Len(C(f)) /\ fin = off + Len(input) /\ m = At(MAX_BLOCKS + 1)
  <2>1. MAX_BLOCKS + 1 \in Nat BY LiteStreamAssumption
  <2>2. At(MAX_BLOCKS + 1) \in Nat BY <2>1, Start
  <2>3. QED BY <1>1, <2>2
<1>4. l \in Nat /\ fin \in Nat /\ off <= fin /\ m \in Nat BY <1>1, <1>3
<1>5. /\ Sound(h) /\ Kept(f, h)
      /\ \E k \in Nat : /\ Resizes(f, h, k)
                        /\ ~h.failed => k = Larger(off, l)
                        /\ h.failed => l <= k /\ k <= off /\ off > m
  <2>1. CASE off > Len(C(f))
    <3>1. h = BB!Resize(f, off) BY <2>1
    <3>2. ResizeDone(f, h, off) BY <3>1, ResizeFacts
    <3> HIDE DEF h
    <3>3. PICK k \in Nat : /\ Resizes(f, h, k)
                           /\ ~h.failed => k = off
                           /\ h.failed => Len(C(f)) <= k /\ k <= Larger(off, Len(C(f)))
      BY <3>2 DEF ResizeDone
    <3>4. Larger(off, l) = off BY <1>3, <1>4, <2>1 DEF Larger
    <3>5. h.failed => off > m BY <1>3, <3>2 DEF ResizeDone
    <3>6. Kept(f, h)
      <4>1. ~(off < Len(C(f))) BY <1>1, <2>1
      <4>2. QED BY <3>2, <4>1 DEF ResizeDone
    <3>7. Sound(h) BY <3>2 DEF ResizeDone
    <3>8. h.failed => l <= k /\ k <= off BY <1>3, <3>3, <3>4
    <3>9. ~h.failed => k = Larger(off, l) BY <3>3, <3>4
    <3>10. QED BY <3>3, <3>5, <3>6, <3>7, <3>8, <3>9
  <2>2. CASE ~(off > Len(C(f)))
    <3>1. h = f BY <2>2
    <3>2. Larger(off, l) = l BY <1>3, <1>4, <2>2 DEF Larger
    <3>3. Resizes(f, f, l) /\ Kept(f, f) BY <1>1, <1>3, ResizesSelf, KeptSelf
    <3>4. QED BY <1>3, <3>1, <3>2, <3>3
  <2>3. QED BY <2>1, <2>2
<1> HIDE DEF g, h
<1>6. PICK k \in Nat : /\ Resizes(f, h, k)
                       /\ ~h.failed => k = Larger(off, l)
                       /\ h.failed => l <= k /\ k <= off /\ off > m
  BY <1>5
<1>7. Len(C(h)) = k /\ \A i \in 1..k : C(h)[i] = Old(C(f), i)
  BY <1>6 DEF Resizes, IsCut, Old
<1>8. CASE h.failed
  <2>1. g = h BY <1>2, <1>8
  <2>2. l <= k /\ k <= Larger(l, fin) /\ fin > m BY <1>4, <1>6, <1>8 DEF Larger
  <2>3. QED BY <1>3, <1>5, <1>7, <1>8, <2>1, <2>2 DEF WriteDone, g
<1>9. CASE ~h.failed
  <2>1. g = BB!WriteRange(h, off, input) BY <1>2, <1>9
  <2>2. k = Larger(off, l) /\ off <= k /\ l <= k BY <1>4, <1>6, <1>9 DEF Larger
  <2>3. off <= Len(C(h)) BY <1>7, <2>2
  <2>4. RangeWritten(h, g, off, input) BY <1>5, <1>9, <2>1, <2>3, WriteRangeFacts
  <2>5. Sound(g) /\ Kept(h, g) BY <2>4 DEF RangeWritten
  <2>6. Kept(f, g)
    <3>1. Len(C(f)) <= k BY <1>3, <2>2
    <3>2. Via(C(f), C(h), C(g)) BY <1>6, <3>1, ResizesVia DEF Via
    <3>3. QED BY <1>5, <2>5, <3>2, KeptOn
  <2>7. g.failed => fin > m BY <1>3, <2>4 DEF RangeWritten
  <2>8. PICK r \in off..fin : Wrote(h, g, off, input, off, r) /\ (~g.failed => r = fin)
    BY <1>3, <2>4 DEF RangeWritten
  <2>9. r \in Nat /\ off <= r /\ r <= fin BY <1>4, <2>8
  <2>10. Len(C(g)) = Larger(k, r) BY <1>7, <2>8 DEF Wrote
  <2>11. /\ l <= Larger(k, r) /\ Larger(k, r) <= Larger(l, fin)
         /\ r = fin => Larger(k, r) = Larger(l, fin)
    BY <1>4, <2>2, <2>9 DEF Larger
  <2>12. ASSUME NEW i \in 1..Len(C(g))
         PROVE  \/ C(g)[i] = Over(C(f), off, input, i)
                \/ g.failed /\ C(g)[i] = Old(C(f), i)
    <3>0. i \in Nat /\ i >= 1 /\ (i <= k \/ i <= r) BY <1>6, <2>9, <2>10 DEF Larger
    <3>1. C(g)[i] = IF i > off /\ i <= r THEN input[i - off] ELSE C(h)[i]
      BY <2>8 DEF Wrote
    <3>2. Over(C(f), off, input, i) = IF i > off /\ i <= fin THEN input[i - off] ELSE Old(C(f), i)
      BY <1>3 DEF Over
    <3>3. CASE i > off /\ i <= r
      <4>1. i <= fin BY <1>4, <2>9, <3>0, <3>3
      <4>2. QED BY <3>1, <3>2, <3>3, <4>1
    <3>4. CASE ~(i > off /\ i <= r)
      <4>1. i \in 1..k BY <1>6, <2>2, <2>9, <3>0, <3>4
      <4>2. C(g)[i] = Old(C(f), i) BY <1>7, <3>1, <3>4, <4>1
      <4>3. CASE g.failed BY <4>2, <4>3
      <4>4. CASE ~g.failed
        <5>1. ~(i > off /\ i <= fin) BY <2>8, <3>4, <4>4
        <5>2. QED BY <3>2, <4>2, <5>1
      <4>5. QED BY <4>3, <4>4
    <3>5. QED BY <3>3, <3>4
  <2>13. /\ Len(C(f)) <= Len(C(g))
         /\ Len(C(g)) <= Larger(Len(C(f)), off + Len(input))
         /\ ~g.failed => Len(C(g)) = Larger(Len(C(f)), off + Len(input))
    BY <1>3, <2>8, <2>10, <2>11
  <2>14. g.failed => off + Len(input) > At(MAX_BLOCKS + 1) BY <1>3, <2>7
  <2>15. WriteDone(f, g, off, input) BY <2>5, <2>6, <2>12, <2>13, <2>14 DEF WriteDone
  <2>16. QED BY <2>15 DEF g
<1>10. QED BY <1>8, <1>9

-----------------------------------------------------------------------------
(* A file that is no longer than the header holds no block. *)
LEMMA HeaderOnly ==
    ASSUME NEW d \in Seq(Cell), Len(d) <= header_size
    PROVE  /\ \A b \in Nat : BlockReadable(d, b) /\ PlainBlock(d, b) = <<>>
           /\ calculate_real_size(Len(d)) = 0
           /\ Content(d) = <<>>
<1>1. Len(d) \in Nat OBVIOUS
<1>2. ASSUME NEW b \in Nat PROVE BlockReadable(d, b) /\ PlainBlock(d, b) = <<>>
  <2>1. Under(b) \in Nat /\ Under(b) >= header_size /\ us \in Nat /\ header_size \in Nat
        /\ overhead \in Nat
    BY UnderFacts, Sizes
  <2>2. Len(d) <= Under(b) BY <1>1, <2>1
  <2>3. Span(Len(d), Under(b), us) = 0 BY <1>1, <2>1, <2>2, SpanFacts
  <2>4. Len(Raw(d, b)) = 0 BY <2>3, RawFacts
  <2>5. Len(Raw(d, b)) <= overhead BY <2>1, <2>4
  <2>6. QED BY <2>5 DEF BlockReadable, PlainBlock
<1>3. calculate_real_size(Len(d)) = 0 BY <1>1, HeaderSize
<1>4. Content(d) = <<>>
  <2>1. 1..calculate_real_size(Len(d)) = {} BY <1>3
  <2>2. QED BY <2>1 DEF Content
<1>5. QED BY <1>2, <1>3, <1>4

(* The header that the constructor writes. *)
Headers == [i \in 1..header_size |-> Header]

(* It stores no bytes. *)
LEMMA HeadersFacts ==
    /\ Headers \in Seq(Cell) /\ Len(Headers) = header_size
    /\ Stores(Headers, <<>>)
<1>1. header_size \in Nat BY Sizes
<1>2. Headers \in Seq(Cell) /\ Len(Headers) = header_size BY <1>1 DEF Headers, Cell
<1>3. U(0) = header_size
  <2>1. 0 \in Nat /\ 0 <= bs /\ bs \in Nat BY Sizes
  <2>2. U(At(0) + 0) = Under(0) BY <2>1, UInBlock
  <2>3. At(0) + 0 = 0 BY <2>1 DEF At, bs
  <2>4. Under(0) = header_size BY UnderFacts
  <2>5. QED BY <2>2, <2>3, <2>4
<1>4. \A b \in Nat : ~(At(b) < Len(<<>>)) BY Start
<1>5. <<>> \in Seq(Bytes) /\ Len(<<>>) = 0 OBVIOUS
<1>6. QED BY <1>2, <1>3, <1>4, <1>5 DEF Stores

(* A part of the header, which the constructor refuses unless it is empty. *)
PartOfHeader(d) == d \in Seq(Cell) /\ Len(d) < header_size

(* The inductive invariant: the underlying file stores the bytes it reads as,
   from when there is a stream on it.                                        *)
IInv ==
    /\ sparse \in BOOLEAN /\ opened \in BOOLEAN
    /\ \/ Stores(data, Content(data))
       \/ ~opened /\ PartOfHeader(data)

(* The stream that a call begins with. *)
LEMMA StreamFacts ==
    /\ Stream.data = data /\ Stream.moments = {} /\ Stream.sparse = sparse /\ ~Stream.failed
    /\ C(Stream) = Content(data)
BY DEF Stream, C

(* It is sound when it is open. *)
LEMMA StreamSound ==
    ASSUME IInv, opened
    PROVE  Sound(Stream)
<1>1. Stores(data, Content(data)) /\ sparse \in BOOLEAN BY DEF IInv
<1>2. data \in Seq(Cell) BY <1>1 DEF Stores
<1>3. Stream \in Streams BY <1>1, <1>2 DEF Stream, Streams
<1>4. QED BY <1>1, <1>3, StreamFacts DEF Sound

(* It begins with a part of the header. *)
LEMMA InitIInv ==
    Init => IInv
<1> SUFFICES ASSUME Init PROVE IInv
  OBVIOUS
<1>1. header_size \in Nat /\ header_size > 0 BY Sizes
<1>2. PICK n \in 0..(header_size - 1) : data = [i \in 1..n |-> Header] BY DEF Init
<1>3. n \in Nat /\ n < header_size BY <1>1
<1>4. data \in Seq(Cell) /\ Len(data) = n BY <1>2, <1>3 DEF Cell
<1>5. PartOfHeader(data) BY <1>3, <1>4 DEF PartOfHeader
<1>6. QED BY <1>5 DEF Init, IInv

(* The constructor: it accepts what stores bytes, writes the header of an
   empty file, and refuses a part of a header.                               *)
LEMMA OpenFacts ==
    ASSUME IInv, open
    PROVE  /\ sparse' = sparse /\ last' = last
           /\ \/ /\ data' = data /\ moments' = {}
                 /\ opened' = TRUE /\ Stores(data, Content(data))
              \/ /\ data' = data /\ moments' = {} /\ opened' = FALSE
              \/ /\ data' = Headers /\ moments' = {Headers}
                 /\ opened' = TRUE /\ PartOfHeader(data)
<1> DEFINE rc == Smaller(Len(data), header_size)
           f  == IF rc = 0 THEN Store(Stream, Headers)
                 ELSE IF rc # header_size THEN Failed(Stream) ELSE Stream
<1>1. header_size \in Nat /\ header_size > 0 BY Sizes
<1>2. data' = f.data /\ moments' = f.moments /\ opened' = ~f.failed /\ sparse' = sparse /\ last' = last
  BY DEF open, Headers
<1>3. Stream.failed = FALSE /\ Stream.data = data /\ Stream.moments = {} BY DEF Stream
<1>4. Failed(Stream).failed = TRUE /\ Failed(Stream).data = data /\ Failed(Stream).moments = {}
  BY DEF Stream, Failed
<1>5. /\ Store(Stream, Headers).failed = FALSE /\ Store(Stream, Headers).data = Headers
      /\ Store(Stream, Headers).moments = {Headers}
  BY DEF Stream, Store
<1>6. CASE Stores(data, Content(data))
  <2>1. data \in Seq(Cell) /\ Len(data) = U(Len(Content(data))) /\ Len(Content(data)) \in Nat
    BY <1>6 DEF Stores
  <2>2. Len(Content(data)) <= Len(Content(data)) BY <2>1
  <2>3. U(Len(Content(data))) >= header_size BY <2>1, <2>2, UGrows
  <2>4. Len(data) \in Nat /\ Len(data) >= header_size BY <2>1, <2>3
  <2>5. rc = header_size BY <1>1, <2>4 DEF Smaller
  <2> HIDE DEF rc
  <2>6. f = Stream BY <1>1, <2>5
  <2>7. QED BY <1>2, <1>3, <1>6, <2>6
<1>7. CASE PartOfHeader(data)
  <2>1. Len(data) \in Nat /\ Len(data) < header_size BY <1>7 DEF PartOfHeader
  <2>2. rc = Len(data) /\ rc # header_size BY <1>1, <2>1 DEF Smaller
  <2> HIDE DEF rc
  <2>3. CASE rc = 0
    <3>1. f = Store(Stream, Headers) BY <2>3
    <3>2. QED BY <1>2, <1>5, <1>7, <3>1
  <2>4. CASE rc # 0
    <3>1. f = Failed(Stream) BY <2>2, <2>4
    <3>2. QED BY <1>2, <1>4, <3>1
  <2>5. QED BY <2>3, <2>4
<1>8. QED BY <1>6, <1>7 DEF IInv

(* What read returns; it leaves the stream as it is. *)
LEMMA ReadStep ==
    ASSUME NEW off, NEW len, read(off, len)
    PROVE  /\ data' = data /\ moments' = {} /\ sparse' = sparse /\ opened' = opened
           /\ last'.call = <<"read", off, len>>
           /\ last'.result = IF \A b \in BlocksRead(off, len) : CanRead(Stream, b)
                             THEN Success(SubSeq(Content(data), off + 1,
                                                 Smaller(off + len, Len(Content(data)))))
                             ELSE Error
<1> DEFINE f == IF \A b \in BlocksRead(off, len) : CanRead(Stream, b) THEN Stream ELSE Failed(Stream)
           s == SubSeq(Content(data), off + 1, Smaller(off + len, Len(Content(data))))
<1>1. Call(<<"read", off, len>>, f, s) /\ opened' = opened BY DEF read
<1>2. /\ f.data = data /\ f.moments = {}
      /\ f.failed = ~(\A b \in BlocksRead(off, len) : CanRead(Stream, b))
  BY DEF Stream, Failed
<1> HIDE DEF f, s
<1>3. QED BY <1>1, <1>2 DEF Call, s

(* What write, resize and flush make of the stream. *)
LEMMA CallStep ==
    ASSUME NEW call, NEW g, NEW bytes, Call(call, g, bytes)
    PROVE  /\ data' = g.data /\ moments' = g.moments /\ sparse' = sparse
           /\ last'.call = call
           /\ last'.result = IF g.failed THEN Error ELSE Success(bytes)
BY DEF Call

(* Every step keeps the invariant. *)
LEMMA NextIInv ==
    IInv /\ [Next]_vars => IInv'
<1> SUFFICES ASSUME IInv, [Next]_vars PROVE IInv'
  OBVIOUS
<1>0. sparse \in BOOLEAN /\ opened \in BOOLEAN BY DEF IInv
<1>1. ASSUME sparse' = sparse, opened' = opened, data' = data PROVE IInv'
  BY <1>1 DEF IInv
<1>2. ASSUME NEW g, Sound(g), data' = g.data, sparse' = sparse, opened' = opened PROVE IInv'
  <2>1. Stores(data', Content(data')) BY <1>2 DEF Sound, C
  <2>2. QED BY <1>0, <1>2, <2>1 DEF IInv
<1>3. CASE open
  <2>1. CASE data' = data /\ opened' = TRUE /\ Stores(data, Content(data))
    BY <1>0, <1>3, <2>1, OpenFacts DEF IInv
  <2>2. CASE data' = data /\ opened' = FALSE
    BY <1>0, <1>3, <2>2, OpenFacts DEF IInv
  <2>3. CASE data' = Headers /\ opened' = TRUE
    <3>1. Stores(Headers, <<>>) /\ Content(Headers) = <<>> BY HeadersFacts, StoredContent
    <3>2. Stores(data', Content(data')) BY <2>3, <3>1
    <3>3. QED BY <1>0, <1>3, <2>3, <3>2, OpenFacts DEF IInv
  <2>4. QED BY <1>3, <2>1, <2>2, <2>3, OpenFacts
<1>4. ASSUME NEW off \in 0..MaxSize, NEW len \in 0..MaxSize, read(off, len) PROVE IInv'
  BY <1>1, <1>4, ReadStep
<1>5. ASSUME NEW off \in 0..MaxSize, NEW input \in Inputs, write(off, input) PROVE IInv'
  <2> DEFINE g == BB!Write(Stream, off, input)
  <2>1. off \in Nat /\ input \in Seq(Bytes) BY LiteStreamAssumption
  <2>2. opened /\ opened' = opened /\ Call(<<"write", off, input>>, g, <<>>) BY <1>5 DEF write
  <2>3. Sound(Stream) /\ ~Stream.failed BY <2>2, StreamSound, StreamFacts
  <2>4. WriteDone(Stream, g, off, input) BY <2>1, <2>3, WriteFacts
  <2> HIDE DEF g
  <2>5. Sound(g) BY <2>4 DEF WriteDone
  <2>6. QED BY <1>2, <2>2, <2>5, CallStep
<1>6. ASSUME NEW n \in 0..MaxSize, resize(n) PROVE IInv'
  <2> DEFINE g == BB!Resize(Stream, n)
  <2>1. n \in Nat BY LiteStreamAssumption
  <2>2. opened /\ opened' = opened /\ Call(<<"resize", n>>, g, <<>>) BY <1>6 DEF resize
  <2>3. Sound(Stream) /\ ~Stream.failed BY <2>2, StreamSound, StreamFacts
  <2>4. ResizeDone(Stream, g, n) BY <2>1, <2>3, ResizeFacts
  <2> HIDE DEF g
  <2>5. Sound(g) BY <2>4 DEF ResizeDone
  <2>6. QED BY <1>2, <2>2, <2>5, CallStep
<1>7. CASE flush
  <2>1. Call(<<"flush">>, Stream, <<>>) /\ opened' = opened BY <1>7 DEF flush
  <2>2. QED BY <1>1, <2>1, CallStep, StreamFacts
<1>8. CASE UNCHANGED vars BY <1>1, <1>8 DEF vars
<1>9. QED BY <1>3, <1>4, <1>5, <1>6, <1>7, <1>8 DEF Next

(* The underlying file always stores the bytes it reads as, or is a part of a
   header that the constructor will not accept: after every write, resize and
   open of LiteAESGCMCryptStream, failed ones included.                      *)
THEOREM LiteStreamInvariant ==
    Spec => []IInv
BY InitIInv, NextIInv, PTL DEF Spec

(* So all its blocks decrypt, and the size that calculate_real_size computes
   from the underlying file is the number of bytes that read_block returns of
   them.                                                                     *)
THEOREM LiteStreamAuthentic ==
    Spec => []LiteBlocksAuthentic
<1>1. IInv => LiteBlocksAuthentic
  <2> SUFFICES ASSUME IInv, NEW b \in 0..(MaxSize \div m_block_size)
               PROVE  /\ BlockReadable(data, b)
                      /\ Len(PlainBlock(data, b)) =
                             Larger(0, Smaller(m_block_size, size(Stream) - b * m_block_size))
    BY DEF LiteBlocksAuthentic
  <2>1. b \in Nat
    <3>1. MaxSize \div bs \in Nat BY BlockOf, LiteStreamAssumption
    <3>2. QED BY <3>1 DEF bs
  <2>2. At(b) \in Nat /\ bs \in Nat /\ At(b) = b * m_block_size /\ bs = m_block_size
    BY <2>1, Start, Sizes DEF At, bs
  <2>3. size(Stream) = calculate_real_size(Len(data)) BY StreamFacts DEF size
  <2>4. CASE Stores(data, Content(data))
    <3> DEFINE c == Content(data)
    <3>1. c \in Seq(Bytes) /\ Len(c) \in Nat BY <2>4 DEF Stores
    <3>2. BlockReadable(data, b) /\ PlainBlock(data, b) = BlockAt(c, b)
      BY <2>1, <2>4, StoredBlock
    <3>3. calculate_real_size(Len(data)) = Len(c) BY <2>4, StoredContent
    <3> HIDE DEF c
    <3>4. Len(BlockAt(c, b)) = Span(Len(c), At(b), bs) BY <2>1, <3>1, BlockFacts
    <3>5. PICK l \in Nat, p \in Nat, s \in Nat : l = Len(c) /\ p = At(b) /\ s = bs
      BY <2>2, <3>1
    <3>6. Span(l, p, s) = Larger(0, Smaller(s, l - p)) BY <3>5 DEF Span, Larger, Smaller
    <3>7. QED BY <2>2, <2>3, <3>2, <3>3, <3>4, <3>5, <3>6
  <2>5. CASE PartOfHeader(data)
    <3>1. data \in Seq(Cell) /\ Len(data) <= header_size
      BY <2>5, Sizes DEF PartOfHeader
    <3>2. BlockReadable(data, b) /\ PlainBlock(data, b) = <<>> /\ calculate_real_size(Len(data)) = 0
      BY <2>1, <3>1, HeaderOnly
    <3>3. PICK p \in Nat, s \in Nat : p = At(b) /\ s = bs BY <2>2
    <3>4. Larger(0, Smaller(s, 0 - p)) = 0 BY <3>3 DEF Larger, Smaller
    <3>5. QED BY <2>2, <2>3, <3>2, <3>3, <3>4
  <2>6. QED BY <2>4, <2>5 DEF IInv
<1>2. QED BY <1>1, LiteStreamInvariant, PTL

-----------------------------------------------------------------------------
(* Block b of m decrypts, to bytes of c or of d. *)
BlockContained(m, c, d, b) ==
    /\ BlockReadable(m, b)
    /\ \A i \in DOMAIN PlainBlock(m, b) :
          \/ PlainBlock(m, b)[i] = Old(c, b * m_block_size + i)
          \/ PlainBlock(m, b)[i] = Old(d, b * m_block_size + i)

(* So it is when m stores bytes of c and of d. *)
LEMMA BetweenContained ==
    ASSUME NEW m, NEW c, NEW d, Between(m, c, d), NEW b \in Nat
    PROVE  BlockContained(m, c, d, b)
<1> DEFINE e == Content(m)
           s == PlainBlock(m, b)
           n == Span(Len(e), At(b), bs)
<1>1. Stores(m, e) /\ e \in Seq(Bytes) /\ Len(e) \in Nat BY DEF Between, Stores
<1>2. BlockReadable(m, b) /\ s = BlockAt(e, b) BY <1>1, StoredBlock
<1>3. \A i \in 1..Len(e) : e[i] = Old(c, i) \/ e[i] = Old(d, i) BY DEF Between
<1> HIDE DEF e, s
<1>4. At(b) \in Nat /\ bs \in Nat /\ At(b) = b * m_block_size BY Start, Sizes DEF At
<1>5. n \in Nat /\ \A i \in 1..n : At(b) + i \in 1..Len(e) BY <1>1, <1>4, SpanFacts
<1>6. s \in Seq(Bytes) /\ Len(s) = n /\ \A i \in 1..n : s[i] = e[At(b) + i]
  BY <1>1, <1>2, BlockFacts
<1> HIDE DEF n
<1>7. ASSUME NEW i \in DOMAIN s
      PROVE  s[i] = Old(c, b * m_block_size + i) \/ s[i] = Old(d, b * m_block_size + i)
  <2>1. i \in 1..n BY <1>6
  <2>2. s[i] = e[At(b) + i] /\ At(b) + i \in 1..Len(e) BY <1>5, <1>6, <2>1
  <2>3. s[i] = Old(c, At(b) + i) \/ s[i] = Old(d, At(b) + i) BY <1>3, <2>2
  <2>4. QED BY <1>4, <2>3
<1>8. QED BY <1>2, <1>7 DEF BlockContained, s

(* What a file stores is between itself and anything. *)
LEMMA BetweenSelf ==
    ASSUME NEW m, NEW d, Stores(m, Content(m))
    PROVE  Between(m, Content(m), d)
<1>1. Len(Content(m)) \in Nat BY DEF Stores
<1>2. QED BY <1>1 DEF Between, Old

(* A block depends on its own cells only. *)
LEMMA SameRaw ==
    ASSUME NEW m, NEW c, NEW d, NEW e, NEW b, Raw(m, b) = Raw(e, b), BlockContained(e, c, d, b)
    PROVE  BlockContained(m, c, d, b)
<1>1. (BlockReadable(m, b) <=> BlockReadable(e, b)) /\ PlainBlock(m, b) = PlainBlock(e, b)
  BY DEF BlockReadable, PlainBlock
<1>2. QED BY <1>1 DEF BlockContained

(* What a call that only adds or replaces bytes leaves on the way is contained, *)
LEMMA KeptContained ==
    ASSUME IInv, opened, NEW g, Kept(Stream, g), NEW m \in g.moments, NEW b \in Nat
    PROVE  BlockContained(m, Content(data), Content(g.data), b)
<1>1. m \notin Stream.moments /\ C(Stream) = Content(data) BY StreamFacts
<1>2. Between(m, Content(data), Content(g.data)) BY <1>1 DEF Kept, C
<1>3. QED BY <1>2, BetweenContained

(* and so is what a truncation leaves, the block that it cuts excepted. *)
LEMMA CutContained ==
    ASSUME IInv, opened, NEW g, NEW n, CutKept(Stream, g, n), NEW m \in g.moments, NEW b \in Nat,
           b # n \div bs
    PROVE  BlockContained(m, Content(data), Content(g.data), b)
<1>1. m \notin Stream.moments /\ C(Stream) = Content(data) /\ Stream.data = data BY StreamFacts
<1>2. CASE Between(m, Content(data), Content(g.data)) BY <1>2, BetweenContained
<1>3. CASE Raw(m, b) = Raw(data, b)
  <2>1. Stores(data, Content(data)) BY DEF IInv
  <2>2. Between(data, Content(data), Content(g.data)) BY <2>1, BetweenSelf
  <2>3. BlockContained(data, Content(data), Content(g.data), b) BY <2>2, BetweenContained
  <2>4. QED BY <1>3, <2>3, SameRaw
<1>4. QED BY <1>1, <1>2, <1>3 DEF CutKept, C

(* Every step leaves only such blocks. *)
LEMMA NextContained ==
    IInv /\ [Next]_vars => [BlocksContained]_vars
<1> SUFFICES ASSUME IInv, Next PROVE BlocksContained
  OBVIOUS
<1>1. ASSUME \A m \in moments' : \A b \in Nat :
                b \notin CutBlock(last'.call) => BlockContained(m, Content(data), Content(data'), b)
      PROVE  BlocksContained
  <2> SUFFICES ASSUME NEW bytes \in moments', NEW b \in 0..(MaxSize \div m_block_size),
                      b \notin CutBlock(last'.call)
               PROVE  /\ BlockReadable(bytes, b)
                      /\ \A i \in DOMAIN PlainBlock(bytes, b) :
                            LET at == b * m_block_size + i
                                Holds(c, x) == IF at <= Len(c) THEN x = c[at] ELSE x = 0
                            IN  \/ Holds(Content(data), PlainBlock(bytes, b)[i])
                                \/ Holds(Content(data'), PlainBlock(bytes, b)[i])
    BY DEF BlocksContained
  <2>1. b \in Nat
    <3>1. MaxSize \div bs \in Nat BY BlockOf, LiteStreamAssumption
    <3>2. QED BY <3>1 DEF bs
  <2>2. BlockContained(bytes, Content(data), Content(data'), b) BY <1>1, <2>1
  <2>3. QED BY <2>2 DEF BlockContained, Old
<1>2. ASSUME moments' = {} PROVE BlocksContained BY <1>2 DEF BlocksContained
<1>3. CASE open
  <2>1. CASE moments' = {} BY <1>2, <2>1
  <2>2. CASE moments' = {Headers}
    <3>1. ASSUME NEW b \in Nat PROVE BlockContained(Headers, Content(data), Content(data'), b)
      <4>1. Headers \in Seq(Cell) /\ Len(Headers) <= header_size BY HeadersFacts, Sizes
      <4>2. BlockReadable(Headers, b) /\ PlainBlock(Headers, b) = <<>> BY <4>1, HeaderOnly
      <4>3. QED BY <4>2 DEF BlockContained
    <3>2. QED BY <1>1, <2>2, <3>1
  <2>3. QED BY <1>3, <2>1, <2>2, OpenFacts
<1>4. ASSUME NEW off \in 0..MaxSize, NEW len \in 0..MaxSize, read(off, len) PROVE BlocksContained
  BY <1>2, <1>4, ReadStep
<1>5. ASSUME NEW off \in 0..MaxSize, NEW input \in Inputs, write(off, input) PROVE BlocksContained
  <2> DEFINE g == BB!Write(Stream, off, input)
  <2>1. off \in Nat /\ input \in Seq(Bytes) BY LiteStreamAssumption
  <2>2. opened /\ Call(<<"write", off, input>>, g, <<>>) BY <1>5 DEF write
  <2>3. Sound(Stream) /\ ~Stream.failed BY <2>2, StreamSound, StreamFacts
  <2>4. WriteDone(Stream, g, off, input) BY <2>1, <2>3, WriteFacts
  <2> HIDE DEF g
  <2>5. Kept(Stream, g) BY <2>4 DEF WriteDone
  <2>6. data' = g.data /\ moments' = g.moments BY <2>2, CallStep
  <2>7. QED BY <1>1, <2>2, <2>5, <2>6, KeptContained
<1>6. ASSUME NEW n \in 0..MaxSize, resize(n) PROVE BlocksContained
  <2> DEFINE g == BB!Resize(Stream, n)
  <2>1. n \in Nat BY LiteStreamAssumption
  <2>2. opened /\ Call(<<"resize", n>>, g, <<>>) BY <1>6 DEF resize
  <2>3. Sound(Stream) /\ ~Stream.failed BY <2>2, StreamSound, StreamFacts
  <2>4. ResizeDone(Stream, g, n) BY <2>1, <2>3, ResizeFacts
  <2> HIDE DEF g
  <2>5. data' = g.data /\ moments' = g.moments /\ last'.call = <<"resize", n>> BY <2>2, CallStep
  <2>6. CASE Kept(Stream, g) BY <1>1, <2>2, <2>5, <2>6, KeptContained
  <2>7. CASE n < Len(C(Stream)) /\ CutKept(Stream, g, n)
    <3>1. n < size(Stream) BY <2>3, <2>7, SoundFacts
    <3>2. CutBlock(last'.call) = {n \div bs} BY <2>5, <3>1 DEF CutBlock, bs
    <3>3. QED BY <1>1, <2>2, <2>5, <2>7, <3>2, CutContained
  <2>8. QED BY <2>4, <2>6, <2>7 DEF ResizeDone
<1>7. CASE flush
  <2>1. Call(<<"flush">>, Stream, <<>>) BY <1>7 DEF flush
  <2>2. QED BY <1>2, <2>1, CallStep, StreamFacts
<1>8. QED BY <1>3, <1>4, <1>5, <1>6, <1>7 DEF Next

(* A crash between any two writes that one call makes to the underlying file
   leaves blocks that decrypt, to bytes from before or from after the call; a
   truncation may lose the one block it cuts, which write_block shortens
   before adjust_logical_size cuts the file.                                 *)
THEOREM LiteStreamCrashContained ==
    Spec => CrashContained
BY NextContained, LiteStreamInvariant, PTL DEF Spec, CrashContained

-----------------------------------------------------------------------------
(* Overwritten and Resized of ByteStream with the contents as a parameter: c
   with bytes over it at off.                                                *)
Overwrites(c, off, bytes) ==
    [i \in 1..(IF off + Len(bytes) > Len(c) THEN off + Len(bytes) ELSE Len(c)) |->
        IF i > off /\ i <= off + Len(bytes) THEN bytes[i - off]
        ELSE IF i <= Len(c) THEN c[i] ELSE 0]

(* The first n bytes of c, and zeros after its end. *)
Resizing(c, n) == [i \in 1..n |-> IF i <= Len(c) THEN c[i] ELSE 0]

(* The operators of ByteStream are these, of the contents of the file. *)
LEMMA PlainOperators ==
    /\ \A off, bytes : Plain!Overwritten(off, bytes) = Overwrites(Content(data), off, bytes)
    /\ \A n : Plain!Resized(n) = Resizing(Content(data), n)
    /\ \A bytes : Plain!Success(bytes) = Success(bytes)
    /\ Plain!Error = Error
    /\ \A a, b : Plain!AtMost(a, b) = Smaller(a, b)
<1>1. \A off, bytes : Plain!Overwritten(off, bytes) = Overwrites(Content(data), off, bytes)
  BY Zenon DEF Plain!Overwritten, Overwrites
<1>2. \A n : Plain!Resized(n) = Resizing(Content(data), n)
  BY Zenon DEF Plain!Resized, Resizing
<1>3. \A bytes : Plain!Success(bytes) = Success(bytes)
  BY DEF Plain!Success, Success
<1>4. Plain!Error = Error
  BY DEF Plain!Error, Error
<1>5. \A a, b : Plain!AtMost(a, b) = Smaller(a, b)
  BY DEF Plain!AtMost, Smaller
<1>6. QED BY <1>1, <1>2, <1>3, <1>4, <1>5

(* BRead, of the contents of the file. *)
LEMMA PlainRead ==
    ASSUME NEW off, NEW len,
           last'.call = <<"read", off, len>>, data' = data,
           \/ last'.result = Success(SubSeq(Content(data), off + 1, Smaller(off + len, Len(Content(data)))))
           \/ off + len > At(MAX_BLOCKS + 1) /\ last'.result = Error
    PROVE  Plain!BRead(off, len)
BY PlainOperators, Zenon DEF Plain!BRead, At

(* BWrite, of the contents of the file. *)
LEMMA PlainWrite ==
    ASSUME NEW off, NEW bytes,
           last'.call = <<"write", off, bytes>>,
           \/ Content(data') = Overwrites(Content(data), off, bytes) /\ last'.result = Success(<<>>)
           \/ /\ off + Len(bytes) > At(MAX_BLOCKS + 1)
              /\ last'.result = Error
              /\ Len(Content(data')) >= Len(Content(data))
              /\ Len(Content(data')) <= Len(Overwrites(Content(data), off, bytes))
              /\ \A i \in 1..Len(Content(data')) :
                    Content(data')[i] \in {Overwrites(Content(data), off, bytes)[i],
                                           Resizing(Content(data), Len(Content(data')))[i]}
    PROVE  Plain!BWrite(off, bytes)
<1>1. CASE Content(data') = Overwrites(Content(data), off, bytes) /\ last'.result = Success(<<>>)
  BY <1>1, PlainOperators, Zenon DEF Plain!BWrite, At
<1>2. CASE /\ off + Len(bytes) > At(MAX_BLOCKS + 1)
           /\ last'.result = Error
           /\ Len(Content(data')) >= Len(Content(data))
           /\ Len(Content(data')) <= Len(Overwrites(Content(data), off, bytes))
           /\ \A i \in 1..Len(Content(data')) :
                 Content(data')[i] \in {Overwrites(Content(data), off, bytes)[i],
                                        Resizing(Content(data), Len(Content(data')))[i]}
  BY <1>2, PlainOperators, Zenon DEF Plain!BWrite, At
<1>3. QED BY <1>1, <1>2

(* BResize, of the contents of the file. *)
LEMMA PlainResize ==
    ASSUME NEW n, last'.call = <<"resize", n>>,
           \/ Content(data') = Resizing(Content(data), n) /\ last'.result = Success(<<>>)
           \/ /\ n > At(MAX_BLOCKS + 1)
              /\ last'.result = Error
              /\ \E k \in Len(Content(data))..(IF n > Len(Content(data)) THEN n ELSE Len(Content(data))) :
                    Content(data') = Resizing(Content(data), k)
    PROVE  Plain!BResize(n)
BY PlainOperators, Zenon DEF Plain!BResize, At

(* What resize leaves is what BResize allows. *)
LEMMA ResizeShown ==
    ASSUME NEW f, Sound(f), NEW g, NEW n \in Nat, ResizeDone(f, g, n)
    PROVE  \/ ~g.failed /\ C(g) = Resizing(C(f), n)
           \/ /\ g.failed /\ n > At(MAX_BLOCKS + 1)
              /\ \E k \in Len(C(f))..(IF n > Len(C(f)) THEN n ELSE Len(C(f))) :
                    C(g) = Resizing(C(f), k)
<1>1. Len(C(f)) \in Nat BY SoundFacts
<1>1a. Sound(g) BY DEF ResizeDone
<1>1b. C(g) \in Seq(Bytes) BY <1>1a, SoundFacts
<1>2. PICK k \in Nat : /\ Resizes(f, g, k)
                       /\ ~g.failed => k = n
                       /\ g.failed => Len(C(f)) <= k /\ k <= Larger(n, Len(C(f)))
  BY DEF ResizeDone
<1>3. Len(C(g)) = k /\ \A i \in 1..k : C(g)[i] = IF i <= Len(C(f)) THEN C(f)[i] ELSE 0
  BY <1>2 DEF Resizes, IsCut
<1>4. C(g) = Resizing(C(f), k)
  <2>1. C(g) = [i \in 1..k |-> C(g)[i]] BY <1>1b, <1>3
  <2>2. [i \in 1..k |-> C(g)[i]] = [i \in 1..k |-> IF i <= Len(C(f)) THEN C(f)[i] ELSE 0]
    BY <1>3
  <2>3. QED BY <2>1, <2>2 DEF Resizing
<1>5. CASE ~g.failed BY <1>2, <1>4, <1>5
<1>6. CASE g.failed
  <2>1. k \in Len(C(f))..(IF n > Len(C(f)) THEN n ELSE Len(C(f)))
    BY <1>1, <1>2, <1>6 DEF Larger
  <2>2. n > At(MAX_BLOCKS + 1) BY <1>6 DEF ResizeDone
  <2>3. QED BY <1>4, <1>6, <2>1, <2>2
<1>7. QED BY <1>5, <1>6

(* What write leaves is what BWrite allows. *)
LEMMA WriteShown ==
    ASSUME NEW f, Sound(f), NEW g, NEW off \in Nat, NEW input \in Seq(Bytes),
           WriteDone(f, g, off, input)
    PROVE  \/ ~g.failed /\ C(g) = Overwrites(C(f), off, input)
           \/ /\ g.failed /\ off + Len(input) > At(MAX_BLOCKS + 1)
              /\ Len(C(g)) >= Len(C(f))
              /\ Len(C(g)) <= Len(Overwrites(C(f), off, input))
              /\ \A i \in 1..Len(C(g)) :
                    C(g)[i] \in {Overwrites(C(f), off, input)[i], Resizing(C(f), Len(C(g)))[i]}
<1> DEFINE c == Overwrites(C(f), off, input)
           l == Len(C(f))
           k == Len(C(g))
           n == Larger(l, off + Len(input))
<1>0. Sound(g) BY DEF WriteDone
<1>1. C(g) \in Seq(Bytes) /\ l \in Nat /\ k \in Nat /\ Len(input) \in Nat
  BY <1>0, SoundFacts
<1>2. n \in Nat /\ l <= n BY <1>1 DEF Larger
<1>4. n = IF off + Len(input) > l THEN off + Len(input) ELSE l BY <1>1 DEF Larger
<1>5. c = [i \in 1..n |-> IF i > off /\ i <= off + Len(input) THEN input[i - off]
                          ELSE IF i <= l THEN C(f)[i] ELSE 0]
  BY <1>4 DEF Overwrites
<1>6. ASSUME NEW i \in 1..n PROVE c[i] = Over(C(f), off, input, i)
  BY <1>5 DEF Over, Old
<1>7. k <= n /\ l <= k BY DEF WriteDone
<1>8. \A i \in 1..k : C(g)[i] = Over(C(f), off, input, i) \/ (g.failed /\ C(g)[i] = Old(C(f), i))
  BY DEF WriteDone
<1>9. (~g.failed => k = n) /\ (g.failed => off + Len(input) > At(MAX_BLOCKS + 1))
  BY DEF WriteDone
<1>10. c = [i \in 1..n |-> c[i]] /\ Len(c) = n BY <1>2, <1>5
<1>10a. C(g) = [i \in 1..k |-> C(g)[i]] BY <1>1
<1> HIDE DEF c, l, k, n
<1>11. CASE ~g.failed
  <2>1. \A i \in 1..n : C(g)[i] = c[i] BY <1>6, <1>8, <1>9, <1>11
  <2>2. C(g) = c BY <1>9, <1>10, <1>10a, <1>11, <2>1
  <2>3. QED BY <1>11, <2>2 DEF c
<1>12. CASE g.failed
  <2> DEFINE d == Resizing(C(f), k)
  <2>1. ASSUME NEW i \in 1..k PROVE C(g)[i] \in {c[i], d[i]}
    <3>1. i \in 1..n BY <1>1, <1>2, <1>7
    <3>2. d[i] = IF i <= Len(C(f)) THEN C(f)[i] ELSE 0 BY DEF Resizing
    <3>3. d[i] = Old(C(f), i) BY <3>2 DEF Old
    <3> HIDE DEF d
    <3>4. QED BY <1>6, <1>8, <3>1, <3>3
  <2>2. k >= l /\ k <= Len(c) BY <1>1, <1>2, <1>7, <1>10
  <2>3. QED BY <1>9, <1>12, <2>1, <2>2 DEF c, k, l
<1>13. QED BY <1>11, <1>12

(* A read fails only when it reaches a block beyond the last one. *)
LEMMA ReadFails ==
    ASSUME IInv, opened, NEW off \in Nat, NEW len \in Nat, NEW b \in BlocksRead(off, len),
           ~CanRead(Stream, b)
    PROVE  off + len > At(MAX_BLOCKS + 1)
<1>1. Sound(Stream) /\ Stream.data = data BY StreamSound, StreamFacts
<1>2. b \in (off \div bs)..((off + len) \div bs) /\ At(b) < off + len BY DEF BlocksRead, At, bs
<1>3. b \in Nat
  <2>1. off \div bs \in Nat /\ (off + len) \div bs \in Nat BY BlockOf
  <2>2. QED BY <1>2, <2>1
<1>4. b > MAX_BLOCKS
  <2>1. BlockReadable(data, b) BY <1>1, <1>3, SoundFacts
  <2>2. ~(b <= MAX_BLOCKS) BY <1>1, <2>1 DEF CanRead
  <2>3. QED BY <1>3, <2>2, LiteStreamAssumption
<1>5. MAX_BLOCKS + 1 \in Nat /\ (b = MAX_BLOCKS + 1 \/ MAX_BLOCKS + 1 < b)
  BY <1>3, <1>4, LiteStreamAssumption
<1>6. At(MAX_BLOCKS + 1) \in Nat /\ At(b) \in Nat BY <1>3, <1>5, Start
<1>7. At(MAX_BLOCKS + 1) <= At(b)
  <2>1. CASE b = MAX_BLOCKS + 1 BY <1>6, <2>1
  <2>2. CASE MAX_BLOCKS + 1 < b
    <3>1. At(MAX_BLOCKS + 1) + bs <= At(b) BY <1>3, <1>5, <2>2, StartsApart
    <3>2. QED BY <1>6, <3>1, Sizes
  <2>3. QED BY <1>5, <2>1, <2>2
<1>8. PICK p \in Nat, q \in Nat : p = At(MAX_BLOCKS + 1) /\ q = At(b) BY <1>6
<1>9. QED BY <1>2, <1>7, <1>8

(* A step of the stream is a step of ByteStream, or leaves the contents alone. *)
LEMMA NextPlain ==
    IInv /\ [Next]_vars => [Plain!BNext]_(Plain!bvars)
<1> SUFFICES ASSUME IInv, [Next]_vars PROVE [Plain!BNext]_(Plain!bvars)
  OBVIOUS
<1>1. ASSUME opened PROVE Sound(Stream) /\ ~Stream.failed /\ C(Stream) = Content(data)
  BY <1>1, StreamSound, StreamFacts
<1>2. ASSUME Content(data') = Content(data), last' = last PROVE UNCHANGED Plain!bvars
  BY <1>2, Zenon DEF Plain!bvars
<1>3. ASSUME NEW off \in 0..MaxSize, NEW len \in 0..MaxSize, read(off, len) PROVE Plain!BNext
  <2>1. off \in Nat /\ len \in Nat /\ opened BY <1>3, LiteStreamAssumption DEF read
  <2>2. last'.call = <<"read", off, len>> /\ data' = data BY <1>3, ReadStep
  <2>3. last'.result = IF \A b \in BlocksRead(off, len) : CanRead(Stream, b)
                       THEN Success(SubSeq(Content(data), off + 1,
                                           Smaller(off + len, Len(Content(data)))))
                       ELSE Error
    BY <1>3, ReadStep
  <2>4. (\A b \in BlocksRead(off, len) : CanRead(Stream, b)) \/ off + len > At(MAX_BLOCKS + 1)
    BY <2>1, ReadFails
  <2>5. Plain!BRead(off, len) BY <2>2, <2>3, <2>4, PlainRead
  <2>6. QED BY <2>5 DEF Plain!BNext
<1>4. ASSUME NEW off \in 0..MaxSize, NEW input \in Inputs, write(off, input) PROVE Plain!BNext
  <2> DEFINE g == BB!Write(Stream, off, input)
  <2>1. off \in Nat /\ input \in Seq(Bytes) BY LiteStreamAssumption
  <2>2. opened /\ Call(<<"write", off, input>>, g, <<>>) BY <1>4 DEF write
  <2>3. WriteDone(Stream, g, off, input) BY <1>1, <2>1, <2>2, WriteFacts
  <2> HIDE DEF g
  <2>4. /\ data' = g.data /\ last'.call = <<"write", off, input>>
        /\ last'.result = IF g.failed THEN Error ELSE Success(<<>>)
    BY <2>2, CallStep
  <2>5. C(g) = Content(data') BY <2>4 DEF C
  <2>6. \/ ~g.failed /\ C(g) = Overwrites(C(Stream), off, input)
        \/ /\ g.failed /\ off + Len(input) > At(MAX_BLOCKS + 1)
           /\ Len(C(g)) >= Len(C(Stream))
           /\ Len(C(g)) <= Len(Overwrites(C(Stream), off, input))
           /\ \A i \in 1..Len(C(g)) :
                 C(g)[i] \in {Overwrites(C(Stream), off, input)[i], Resizing(C(Stream), Len(C(g)))[i]}
    BY <1>1, <2>1, <2>2, <2>3, WriteShown
  <2>7. Plain!BWrite(off, input) BY <1>1, <2>2, <2>4, <2>5, <2>6, PlainWrite
  <2>8. QED BY <2>7 DEF Plain!BNext
<1>5. ASSUME NEW n \in 0..MaxSize, resize(n) PROVE Plain!BNext
  <2> DEFINE g == BB!Resize(Stream, n)
  <2>1. n \in Nat BY LiteStreamAssumption
  <2>2. opened /\ Call(<<"resize", n>>, g, <<>>) BY <1>5 DEF resize
  <2>3. ResizeDone(Stream, g, n) BY <1>1, <2>1, <2>2, ResizeFacts
  <2> HIDE DEF g
  <2>4. /\ data' = g.data /\ last'.call = <<"resize", n>>
        /\ last'.result = IF g.failed THEN Error ELSE Success(<<>>)
    BY <2>2, CallStep
  <2>5. C(g) = Content(data') BY <2>4 DEF C
  <2>6. \/ ~g.failed /\ C(g) = Resizing(C(Stream), n)
        \/ /\ g.failed /\ n > At(MAX_BLOCKS + 1)
           /\ \E k \in Len(C(Stream))..(IF n > Len(C(Stream)) THEN n ELSE Len(C(Stream))) :
                 C(g) = Resizing(C(Stream), k)
    BY <1>1, <2>1, <2>2, <2>3, ResizeShown
  <2>7. Plain!BResize(n) BY <1>1, <2>2, <2>4, <2>5, <2>6, PlainResize
  <2>8. QED BY <2>7 DEF Plain!BNext
<1>6. CASE flush
  <2>1. Call(<<"flush">>, Stream, <<>>) BY <1>6 DEF flush
  <2>2. last'.call = <<"flush">> /\ last'.result = Success(<<>>) /\ data' = data
    BY <2>1, CallStep, StreamFacts
  <2>3. Plain!BFlush BY <2>2, PlainOperators, Zenon DEF Plain!BFlush
  <2>4. QED BY <2>3 DEF Plain!BNext
<1>7. CASE open
  <2>1. last' = last BY <1>7, OpenFacts
  <2>2. CASE data' = data BY <1>2, <2>1, <2>2
  <2>3. CASE data' = Headers /\ PartOfHeader(data)
    <3>1. data \in Seq(Cell) /\ Len(data) <= header_size BY <2>3, Sizes DEF PartOfHeader
    <3>2. Content(data) = <<>> BY <3>1, HeaderOnly
    <3>3. Content(Headers) = <<>> BY HeadersFacts, StoredContent
    <3>4. QED BY <1>2, <2>1, <2>3, <3>2, <3>3
  <2>4. QED BY <1>7, <2>2, <2>3, OpenFacts
<1>8. CASE UNCHANGED vars BY <1>2, <1>8 DEF vars
<1>9. QED BY <1>3, <1>4, <1>5, <1>6, <1>7, <1>8 DEF Next

(* The stream of the lite format is a sequence of bytes, as StreamBase
   promises: whatever the sizes of blocks, reads, writes and truncations, a
   read returns the bytes that were written last, holes read as zeros, and a
   call fails only beyond the last block that can be encrypted, having done a
   part of its work.                                                         *)
THEOREM LiteStreamImplementsByteStream ==
    Spec => ImplementsByteStream
<1>1. Init => Plain!BInit
  <2> SUFFICES ASSUME Init PROVE Plain!BInit
    OBVIOUS
  <2>1. IInv /\ opened = FALSE BY InitIInv DEF Init
  <2>2. Content(data) \in Seq(Bytes)
    <3>1. CASE Stores(data, Content(data)) BY <3>1 DEF Stores
    <3>2. CASE PartOfHeader(data)
      <4>1. data \in Seq(Cell) /\ Len(data) <= header_size BY <3>2, Sizes DEF PartOfHeader
      <4>2. Content(data) = <<>> BY <4>1, HeaderOnly
      <4>3. QED BY <4>2
    <3>3. QED BY <2>1, <3>1, <3>2 DEF IInv
  <2>3. QED BY <2>2, Zenon DEF Plain!BInit
<1>2. QED BY <1>1, NextPlain, LiteStreamInvariant, PTL DEF Spec, ImplementsByteStream, Plain!BSpec

=============================================================================
