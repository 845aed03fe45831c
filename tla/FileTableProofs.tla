--------------------------- MODULE FileTableProofs ---------------------------
(***************************************************************************)
(* Proofs about FileTable, for any set of ids, any cache size and any      *)
(* batch size of evictions.                                                *)
(*                                                                         *)
(* The invariants of FileTable are inductive only together. Linked is the  *)
(* strengthening they need: a table entry points to a live object that     *)
(* carries the id it is filed under.                                       *)
(***************************************************************************)
EXTENDS FileTable, TLAPS

Linked == \A id \in Ids : IsCached(id) => /\ heap[m_files[id]] # Freed
                                          /\ heap[m_files[id]].id = id

NoDuplicates(s) == \A i, j \in 1..Len(s) : s[i] = s[j] => i = j

(* Reopening a file takes its id, and nothing else, out of m_closed_ids. *)
LEMMA RemoveClosedFacts ==
    ASSUME NEW s \in Seq(Ids), NEW id \in Ids, NoDuplicates(s)
    PROVE  LET r == RemoveClosed(s, id) IN
           /\ r \in Seq(Ids)
           /\ Len(r) <= Len(s)
           /\ \A i \in 1..Len(r) : r[i] # id /\ \E j \in 1..Len(s) : r[i] = s[j]
           /\ NoDuplicates(r)
           /\ \A j \in 1..Len(s) : s[j] # id => \E i \in 1..Len(r) : r[i] = s[j]
<1>1. CASE ~IsQueued(s, id)
  BY <1>1 DEF RemoveClosed, IsQueued, NoDuplicates
<1>2. CASE IsQueued(s, id)
  <2> DEFINE k == Position(s, id)
             r == [j \in 1..(Len(s) - 1) |-> IF j < k THEN s[j] ELSE s[j + 1]]
  <2>1. PICK i0 \in 1..Len(s) : s[i0] = id
    BY <1>2 DEF IsQueued
  <2>2. \A j \in 1..Len(s) : s[j] = id => i0 <= j
    BY <2>1 DEF NoDuplicates
  <2>3. k \in 1..Len(s) /\ s[k] = id
    BY <2>1, <2>2 DEF Position
  <2>4. Len(s) \in Nat /\ \A j \in 1..Len(s) : s[j] \in Ids
    OBVIOUS
  <2> HIDE DEF k
  <2>5. r \in Seq(Ids) /\ Len(r) = Len(s) - 1
    BY <2>3, <2>4
  <2>6. \A i \in 1..Len(r) : r[i] = IF i < k THEN s[i] ELSE s[i + 1]
    BY <2>5
  <2>7. \A i \in 1..Len(r) : r[i] # id /\ \E j \in 1..Len(s) : r[i] = s[j]
    BY <2>3, <2>4, <2>5, <2>6 DEF NoDuplicates
  <2>8. NoDuplicates(r)
    BY <2>3, <2>4, <2>5, <2>6 DEF NoDuplicates
  <2>9. ASSUME NEW j \in 1..Len(s), s[j] # id
        PROVE  \E i \in 1..Len(r) : r[i] = s[j]
    <3>1. CASE j < k
      BY <3>1, <2>3, <2>4, <2>5, <2>6
    <3>2. CASE j > k
      <4>1. j - 1 \in 1..Len(r) /\ r[j - 1] = s[j]
        BY <3>2, <2>3, <2>4, <2>5, <2>6
      <4>2. QED BY <4>1
    <3>3. j # k
      BY <2>3, <2>9
    <3>4. j < k \/ j > k
      BY <3>3, <2>3
    <3>5. QED BY <3>1, <3>2, <3>4
  <2>10. RemoveClosed(s, id) = r
    BY <1>2 DEF RemoveClosed, k
  <2> HIDE DEF r
  <2>11. Len(r) <= Len(s)
    BY <2>4, <2>5
  <2>12. QED
    BY <2>5, <2>7, <2>8, <2>9, <2>10, <2>11
<1>3. QED BY <1>1, <1>2

(* gc after a close: the ids that stay in m_closed_ids are the ones that are
   not evicted, and fewer than MAX_NUM_CLOSED of them stay.                 *)
LEMMA EjectFacts ==
    ASSUME NEW s \in Seq(Ids), NoDuplicates(s), Len(s) <= MAX_NUM_CLOSED
    PROVE  LET r == SubSeq(s, NumEject(s) + 1, Len(s)) IN
           /\ r \in Seq(Ids)
           /\ Len(r) < MAX_NUM_CLOSED
           /\ \A i \in 1..Len(r) : /\ r[i] \notin Victims(s)
                                  /\ \E j \in 1..Len(s) : r[i] = s[j]
           /\ NoDuplicates(r)
           /\ \A j \in 1..Len(s) : s[j] \notin Victims(s) => \E i \in 1..Len(r) : r[i] = s[j]
           /\ \A v \in Victims(s) : v \in Ids /\ \E j \in 1..Len(s) : v = s[j]
<1> DEFINE n == NumEject(s)
           r == SubSeq(s, n + 1, Len(s))
<1>1. Len(s) \in Nat /\ \A j \in 1..Len(s) : s[j] \in Ids
  OBVIOUS
<1>2. n \in 0..Len(s) /\ (Len(s) = MAX_NUM_CLOSED => n > 0)
  BY <1>1, TableSizes DEF NumEject
<1> HIDE DEF n
<1>3. r \in Seq(Ids) /\ Len(r) = Len(s) - n
  BY <1>1, <1>2
<1>4. \A i \in 1..Len(r) : r[i] = s[i + n]
  BY <1>1, <1>2, <1>3
<1> HIDE DEF r
<1>5. Victims(s) = {s[i] : i \in 1..n}
  BY DEF Victims, n
<1>6. Len(r) < MAX_NUM_CLOSED
  BY <1>1, <1>2, <1>3, TableSizes
<1>7. \A i \in 1..Len(r) : /\ r[i] \notin Victims(s)
                          /\ \E j \in 1..Len(s) : r[i] = s[j]
  BY <1>1, <1>2, <1>3, <1>4, <1>5 DEF NoDuplicates
<1>8. NoDuplicates(r)
  BY <1>1, <1>2, <1>3, <1>4 DEF NoDuplicates
<1>9. ASSUME NEW j \in 1..Len(s), s[j] \notin Victims(s)
      PROVE  \E i \in 1..Len(r) : r[i] = s[j]
  <2>1. j > n
    BY <1>2, <1>5, <1>9
  <2>2. j - n \in 1..Len(r) /\ r[j - n] = s[j]
    BY <2>1, <1>1, <1>2, <1>3, <1>4
  <2>3. QED BY <2>2
<1>10. \A v \in Victims(s) : v \in Ids /\ \E j \in 1..Len(s) : v = s[j]
  BY <1>1, <1>2, <1>5
<1>11. r = SubSeq(s, NumEject(s) + 1, Len(s))
  BY DEF r, n
<1>12. QED
  BY <1>3, <1>6, <1>7, <1>8, <1>9, <1>10, <1>11

-----------------------------------------------------------------------------
(* The inductive invariant: the four invariants of the runs that concern the
   objects, the queue and the disk, and Linked.                             *)
IInv ==
    /\ TypeOK
    /\ Linked
    /\ RefCountExact
    /\ ClosedQueueSound
    /\ CleanAgreesWithDisk
    /\ UnlinkedFilesGo

(* The empty table. *)
LEMMA InitIInv == Init => IInv
<1> SUFFICES ASSUME Init PROVE IInv
  OBVIOUS
<1> USE DEF Init
<1>1. TypeOK
  BY Bounds, SentinelsAreNotData DEF TypeOK, Header
<1>2. Linked /\ RefCountExact
  BY DEF Linked, RefCountExact, IsCached
<1>3. ClosedQueueSound
  BY TableSizes DEF ClosedQueueSound
<1>4. CleanAgreesWithDisk
  BY DEF CleanAgreesWithDisk
<1>5. UnlinkedFilesGo
  BY SentinelsAreNotData DEF UnlinkedFilesGo, IsCached, Header
<1>6. QED
  BY <1>1, <1>2, <1>3, <1>4, <1>5 DEF IInv

(* A pointer a caller holds leads to a live object of the table. *)
LEMMA HeldIsLive ==
    ASSUME IInv, NEW p \in Ptrs, held[p] > 0
    PROVE  /\ heap[p] \in Object
           /\ heap[p] # Freed
           /\ m_files[heap[p].id] = p
           /\ IsCached(heap[p].id)
           /\ heap[p].ref = held[p]
           /\ disk[heap[p].id] # NoFile
BY Sentinels DEF IInv, TypeOK, RefCountExact, CleanAgreesWithDisk, IsCached, Object

-----------------------------------------------------------------------------
(* Most operations change one object in place, perhaps write its header to
   disk, and leave the table alone. This lemma says what the new object o and
   the new disk contents d must satisfy for the invariant to survive.       *)
LEMMA ObjectStep ==
    ASSUME IInv,
           NEW p \in Ptrs, heap[p] # Freed,
           NEW o \in Object, o.id = heap[p].id,
           NEW d \in Header \cup {Blank},
           ~o.dirty => d = HeaderOf(o),
           o.nlink = 0 => o.ref > 0,
           (d \in Header /\ d.nlink = 0) => o.nlink = 0,
           heap' = [heap EXCEPT ![p] = o],
           held' = [held EXCEPT ![p] = o.ref],
           disk' = [disk EXCEPT ![o.id] = d],
           m_files' = m_files,
           m_closed_ids' \in Seq(Ids),
           Len(m_closed_ids') < MAX_NUM_CLOSED,
           NoDuplicates(m_closed_ids'),
           \A i \in 1..Len(m_closed_ids') :
               /\ \E j \in 1..Len(m_closed_ids) : m_closed_ids'[i] = m_closed_ids[j]
               /\ o.ref > 0 => m_closed_ids'[i] # o.id,
           unsafe' \in SUBSET Ids
    PROVE  IInv'
<1>1. o # Freed /\ d # NoFile /\ o.id \in Ids /\ o.ref \in Nat
  BY Sentinels, SentinelsAreNotData DEF Object
<1>2. /\ heap \in [Ptrs -> {Freed} \cup Object]
      /\ held \in [Ptrs -> Nat]
      /\ disk \in [Ids -> {NoFile, Blank} \cup Header]
      /\ m_files \in [Ids -> Ptrs \cup {Null}]
  BY DEF IInv, TypeOK
<1>3. m_files[o.id] = p /\ p # Null
  BY Sentinels DEF IInv, RefCountExact
<1>4. /\ heap'[p] = o
      /\ \A q \in Ptrs : q # p => heap'[q] = heap[q] /\ held'[q] = held[q]
      /\ held'[p] = o.ref
      /\ disk'[o.id] = d
      /\ \A i \in Ids : i # o.id => disk'[i] = disk[i]
  BY <1>1, <1>2
<1>5. \A q \in Ptrs : q # p /\ heap[q] # Freed => heap[q].id # o.id /\ heap[q].id \in Ids
  BY <1>2, <1>3 DEF IInv, RefCountExact, Object
<1>6. TypeOK'
  BY <1>1, <1>2 DEF TypeOK, Header
<1>7. Linked'
  BY <1>1, <1>2, <1>3, <1>4 DEF IInv, Linked, IsCached
<1>8. RefCountExact'
  BY <1>1, <1>2, <1>3, <1>4 DEF IInv, RefCountExact
<1>9. ClosedQueueSound'
  <2>1. ASSUME NEW i \in 1..Len(m_closed_ids')
        PROVE  /\ m_files[m_closed_ids'[i]] # Null
               /\ heap'[m_files[m_closed_ids'[i]]].ref = 0
    <3> DEFINE c == m_closed_ids'[i]
    <3>1. c \in Ids /\ m_files[c] # Null /\ heap[m_files[c]].ref = 0
      BY DEF IInv, ClosedQueueSound, IsCached
    <3>2. CASE c = o.id
      <4>1. o.ref = 0
        BY <3>2, <1>1
      <4>2. QED BY <3>1, <3>2, <4>1, <1>3, <1>4
    <3>3. CASE c # o.id
      <4>1. m_files[c] # p
        BY <3>1, <3>3 DEF IInv, Linked, IsCached
      <4>2. QED BY <3>1, <4>1, <1>2, <1>4
    <3>4. QED BY <3>2, <3>3
  <2>2. QED
    BY <2>1 DEF ClosedQueueSound, IsCached, NoDuplicates
<1>10. CleanAgreesWithDisk'
  BY <1>1, <1>2, <1>4, <1>5 DEF IInv, CleanAgreesWithDisk, HeaderOf
<1>11. UnlinkedFilesGo'
  <2> SUFFICES ASSUME NEW i \in Ids
               PROVE  /\ (m_files[i] # Null /\ heap'[m_files[i]].nlink = 0)
                            => heap'[m_files[i]].ref > 0
                      /\ (disk'[i] \in Header /\ disk'[i].nlink = 0)
                            => (m_files[i] # Null /\ heap'[m_files[i]].nlink = 0)
    BY DEF UnlinkedFilesGo, IsCached, IsUnlinked, Header
  <2>1. CASE i = o.id
    BY <2>1, <1>1, <1>3, <1>4
  <2>2. CASE i # o.id
    <3>1. m_files[i] # p
      BY <1>3, <2>2 DEF IInv, Linked, IsCached
    <3>2. QED
      BY <2>2, <3>1, <1>2, <1>4 DEF IInv, UnlinkedFilesGo, IsCached, IsUnlinked
  <2>3. QED BY <2>1, <2>2
<1>12. QED
  BY <1>6, <1>7, <1>8, <1>9, <1>10, <1>11 DEF IInv

(* What the invariant says of the header an operation reads before it acts. *)
LEMMA LiveObject ==
    ASSUME IInv, NEW p \in Ptrs, heap[p] # Freed
    PROVE  /\ heap[p] \in Object
           /\ heap[p].id \in Ids
           /\ m_files[heap[p].id] = p
           /\ heap[p].ref = held[p]
           /\ disk[heap[p].id] \in Header \cup {Blank}
           /\ ~heap[p].dirty => disk[heap[p].id] = HeaderOf(heap[p])
           /\ (disk[heap[p].id] \in Header /\ disk[heap[p].id].nlink = 0)
                  => heap[p].nlink = 0
           /\ heap[p].nlink = 0 => heap[p].ref > 0
           /\ HeaderOf(heap[p]) \in Header
<1>1. heap[p] \in Object /\ heap[p].id \in Ids
  BY DEF IInv, TypeOK, Object
<1>2. m_files[heap[p].id] = p /\ heap[p].ref = held[p] /\ IsCached(heap[p].id)
  BY Sentinels DEF IInv, RefCountExact, IsCached
<1>3. /\ disk[heap[p].id] \in Header \cup {Blank}
      /\ ~heap[p].dirty => disk[heap[p].id] = HeaderOf(heap[p])
  BY <1>1 DEF IInv, TypeOK, CleanAgreesWithDisk
<1>4. /\ (disk[heap[p].id] \in Header /\ disk[heap[p].id].nlink = 0)
             => heap[p].nlink = 0
      /\ heap[p].nlink = 0 => heap[p].ref > 0
  BY <1>1, <1>2 DEF IInv, UnlinkedFilesGo, IsUnlinked
<1>5. HeaderOf(heap[p]) \in Header
  BY <1>1 DEF Object, Header, HeaderOf
<1>6. QED BY <1>1, <1>2, <1>3, <1>4, <1>5

(* What the invariant says of m_closed_ids, for operations that leave it alone. *)
LEMMA QueueStays ==
    ASSUME IInv, m_closed_ids' = m_closed_ids
    PROVE  /\ m_closed_ids' \in Seq(Ids)
           /\ Len(m_closed_ids') < MAX_NUM_CLOSED
           /\ NoDuplicates(m_closed_ids')
           /\ \A i \in 1..Len(m_closed_ids') :
                 /\ \E j \in 1..Len(m_closed_ids) : m_closed_ids'[i] = m_closed_ids[j]
                 /\ m_files[m_closed_ids'[i]] # Null
                 /\ heap[m_files[m_closed_ids'[i]]].ref = 0
BY DEF IInv, TypeOK, ClosedQueueSound, NoDuplicates, IsCached

(* A holder of an object changes it in place: the reference count stays. *)
LEMMA HolderStep ==
    ASSUME IInv, NEW p \in Ptrs, held[p] > 0,
           NEW o \in Object, o.id = heap[p].id, o.ref = heap[p].ref,
           NEW d \in Header \cup {Blank},
           ~o.dirty => d = HeaderOf(o),
           (d \in Header /\ d.nlink = 0) => o.nlink = 0,
           heap' = [heap EXCEPT ![p] = o],
           disk' = [disk EXCEPT ![o.id] = d],
           UNCHANGED <<m_files, m_closed_ids, held, unsafe>>
    PROVE  IInv'
<1>1. heap[p] # Freed /\ m_files[o.id] = p /\ o.ref = held[p] /\ o.ref > 0
  BY HeldIsLive
<1>2. held' = [held EXCEPT ![p] = o.ref] /\ unsafe' \in SUBSET Ids
  BY <1>1 DEF IInv, TypeOK
<1>3. m_closed_ids' = m_closed_ids /\ heap[p].ref # 0
  BY <1>1
<1>4. \A i \in 1..Len(m_closed_ids') : m_closed_ids'[i] # o.id
  BY <1>1, <1>3, QueueStays
<1>5. QED
  BY <1>1, <1>2, <1>3, <1>4, QueueStays, ObjectStep

(* Changing an open file. *)
LEMMA SetAttrIInv ==
    ASSUME IInv, NEW p \in Ptrs, NEW a \in Attrs, SetAttr(p, a)
    PROVE  IInv'
<1> DEFINE o == [heap[p] EXCEPT !.attr = a, !.dirty = TRUE]
<1>1. heap[p] \in Object /\ heap[p] # Freed /\ held[p] > 0
  BY HeldIsLive DEF SetAttr
<1>2. /\ o \in Object /\ o.id = heap[p].id /\ o.ref = heap[p].ref
      /\ o.dirty = TRUE /\ o.nlink = heap[p].nlink
  BY <1>1 DEF Object
<1>3. heap' = [heap EXCEPT ![p] = o]
  BY DEF SetAttr
<1>4. disk' = [disk EXCEPT ![o.id] = disk[o.id]]
  BY DEF SetAttr, IInv, TypeOK
<1> HIDE DEF o
<1>5. UNCHANGED <<m_files, m_closed_ids, held, unsafe>>
  BY DEF SetAttr
<1>6. QED
  BY <1>1, <1>2, <1>3, <1>4, <1>5, LiveObject, HolderStep, ZenonT(60)

(* One link more. *)
LEMMA LinkIInv ==
    ASSUME IInv, NEW p \in Ptrs, Link(p)
    PROVE  IInv'
<1> DEFINE n == heap[p].nlink + 1
           o == [heap[p] EXCEPT !.nlink = n, !.dirty = TRUE]
<1>1. heap[p] \in Object /\ heap[p] # Freed /\ held[p] > 0 /\ heap[p].nlink > 0
  BY HeldIsLive, Bounds DEF Link
<1>0. n \in Nat /\ heap[p].nlink # 0
  BY <1>1 DEF Object
<1>2. /\ o \in Object /\ o.id = heap[p].id /\ o.ref = heap[p].ref
      /\ o.dirty = TRUE
  BY <1>1, <1>0 DEF Object
<1>3. heap' = [heap EXCEPT ![p] = o]
  BY DEF Link
<1>4. disk' = [disk EXCEPT ![o.id] = disk[o.id]]
  BY DEF Link, IInv, TypeOK
<1> HIDE DEF o
<1>5. UNCHANGED <<m_files, m_closed_ids, held, unsafe>>
  BY DEF Link
<1>6. QED
  BY <1>0, <1>1, <1>2, <1>3, <1>4, <1>5, LiveObject, HolderStep

(* One link less. *)
LEMMA UnlinkIInv ==
    ASSUME IInv, NEW p \in Ptrs, Unlink(p)
    PROVE  IInv'
<1> DEFINE n == heap[p].nlink - 1
           o == [heap[p] EXCEPT !.nlink = n, !.dirty = TRUE]
<1>1. heap[p] \in Object /\ heap[p] # Freed /\ held[p] > 0 /\ heap[p].nlink > 0
  BY HeldIsLive DEF Unlink
<1>0. n \in Nat /\ heap[p].nlink # 0
  BY <1>1 DEF Object
<1>2. /\ o \in Object /\ o.id = heap[p].id /\ o.ref = heap[p].ref
      /\ o.dirty = TRUE
  BY <1>1, <1>0 DEF Object
<1>3. heap' = [heap EXCEPT ![p] = o]
  BY DEF Unlink
<1>4. disk' = [disk EXCEPT ![o.id] = disk[o.id]]
  BY DEF Unlink, IInv, TypeOK
<1> HIDE DEF o
<1>5. UNCHANGED <<m_files, m_closed_ids, held, unsafe>>
  BY DEF Unlink
<1>6. QED
  BY <1>0, <1>1, <1>2, <1>3, <1>4, <1>5, LiveObject, HolderStep

(* The header a flush leaves on disk. *)
LEMMA FlushFacts ==
    ASSUME IInv, NEW p \in Ptrs, heap[p] # Freed
    PROVE  DiskAfterFlush(heap[p]) = HeaderOf(heap[p])
BY LiveObject DEF DiskAfterFlush

(* Writing an open file. *)
LEMMA FlushIInv ==
    ASSUME IInv, NEW p \in Ptrs, Flush(p)
    PROVE  IInv'
<1> DEFINE o == [heap[p] EXCEPT !.dirty = FALSE]
<1>1. heap[p] \in Object /\ heap[p] # Freed /\ held[p] > 0
  BY HeldIsLive DEF Flush
<1>2. /\ o \in Object /\ o.id = heap[p].id /\ o.ref = heap[p].ref
      /\ o.nlink = heap[p].nlink /\ o.attr = heap[p].attr
  BY <1>1 DEF Object
<1>3. heap' = [heap EXCEPT ![p] = o]
  BY DEF Flush, Flushed
<1>4. disk' = [disk EXCEPT ![o.id] = HeaderOf(heap[p])]
  BY <1>1, <1>2, FlushFacts DEF Flush
<1> HIDE DEF o
<1>5. HeaderOf(o) = HeaderOf(heap[p]) /\ HeaderOf(heap[p]).nlink = o.nlink
  BY <1>2 DEF HeaderOf
<1>6. UNCHANGED <<m_files, m_closed_ids, held, unsafe>>
  BY DEF Flush
<1>7. QED
  BY <1>1, <1>2, <1>3, <1>4, <1>5, <1>6, LiveObject, HolderStep, ZenonT(60)

(* A close that is not the last one. *)
LEMMA CloseSharedIInv ==
    ASSUME IInv, NEW p \in Ptrs, CloseShared(p)
    PROVE  IInv'
<1> DEFINE o == [heap[p] EXCEPT !.ref = heap[p].ref - 1]
<1>1. /\ heap[p] \in Object /\ heap[p] # Freed /\ held[p] > 0
      /\ heap[p].ref = held[p] /\ m_files[heap[p].id] = p
  BY HeldIsLive DEF CloseShared
<1>2. /\ o \in Object /\ o.id = heap[p].id /\ o.ref = held[p] - 1 /\ o.ref > 0
      /\ o.nlink = heap[p].nlink /\ o.attr = heap[p].attr /\ o.dirty = heap[p].dirty
      /\ heap[p].ref # 0
  BY <1>1 DEF Object, CloseShared
<1>3. heap' = [heap EXCEPT ![p] = o] /\ held' = [held EXCEPT ![p] = o.ref]
  BY <1>2 DEF CloseShared
<1>4. disk' = [disk EXCEPT ![o.id] = disk[o.id]]
  BY DEF CloseShared, IInv, TypeOK
<1> HIDE DEF o
<1>5. HeaderOf(o) = HeaderOf(heap[p])
  BY <1>2 DEF HeaderOf
<1>6. m_files' = m_files /\ m_closed_ids' = m_closed_ids /\ unsafe' \in SUBSET Ids
  BY DEF CloseShared, IInv, TypeOK
<1>7. \A i \in 1..Len(m_closed_ids') : m_closed_ids'[i] # o.id
  BY <1>1, <1>2, <1>6, QueueStays
<1> DEFINE d == disk[o.id]
<1>8. /\ d \in Header \cup {Blank}
      /\ ~o.dirty => d = HeaderOf(o)
      /\ (d \in Header /\ d.nlink = 0) => o.nlink = 0
  BY <1>1, <1>2, <1>5, LiveObject
<1>9. /\ m_closed_ids' \in Seq(Ids)
      /\ Len(m_closed_ids') < MAX_NUM_CLOSED
      /\ NoDuplicates(m_closed_ids')
      /\ \A i \in 1..Len(m_closed_ids') :
            \E j \in 1..Len(m_closed_ids) : m_closed_ids'[i] = m_closed_ids[j]
  BY <1>6, QueueStays
<1> HIDE DEF d
<1>10. disk' = [disk EXCEPT ![o.id] = d]
  BY <1>4 DEF d
<1>11. QED
  BY <1>1, <1>2, <1>3, <1>6, <1>7, <1>8, <1>9, <1>10, ObjectStep

(* A last close whose flush throws. *)
LEMMA CloseFlushFailsIInv ==
    ASSUME IInv, NEW p \in Ptrs, NEW wrote \in BOOLEAN, CloseFlushFails(p, wrote)
    PROVE  IInv'
<1> DEFINE o == [heap[p] EXCEPT !.ref = 0, !.dirty = heap[p].dirty /\ ~wrote]
           d == IF wrote THEN HeaderOf(heap[p]) ELSE disk[heap[p].id]
<1>1. /\ heap[p] \in Object /\ heap[p] # Freed /\ held[p] > 0
      /\ heap[p].ref = held[p] /\ m_files[heap[p].id] = p
  BY HeldIsLive DEF CloseFlushFails
<1>2. /\ o \in Object /\ o.id = heap[p].id /\ o.ref = 0
      /\ o.nlink = heap[p].nlink /\ o.attr = heap[p].attr
      /\ ~o.dirty => wrote \/ ~heap[p].dirty
      /\ o.nlink # 0
  BY <1>1 DEF Object, CloseFlushFails, IsUnlinked
<1>3. heap' = [heap EXCEPT ![p] = o] /\ held' = [held EXCEPT ![p] = o.ref]
  BY <1>2 DEF CloseFlushFails
<1>4. disk' = [disk EXCEPT ![o.id] = d]
  BY <1>1, <1>2, FlushFacts DEF CloseFlushFails, IInv, TypeOK
<1> HIDE DEF o
<1>5. HeaderOf(o) = HeaderOf(heap[p]) /\ HeaderOf(heap[p]).nlink = o.nlink
  BY <1>2 DEF HeaderOf
<1>6. /\ d \in Header \cup {Blank}
      /\ ~o.dirty => d = HeaderOf(o)
      /\ (d \in Header /\ d.nlink = 0) => o.nlink = 0
  BY <1>1, <1>2, <1>5, LiveObject
<1> HIDE DEF d
<1>7. m_files' = m_files /\ m_closed_ids' = m_closed_ids /\ unsafe' \in SUBSET Ids
  BY <1>1, LiveObject DEF CloseFlushFails, IInv, TypeOK
<1>8. /\ m_closed_ids' \in Seq(Ids)
      /\ Len(m_closed_ids') < MAX_NUM_CLOSED
      /\ NoDuplicates(m_closed_ids')
      /\ \A i \in 1..Len(m_closed_ids') :
            /\ \E j \in 1..Len(m_closed_ids) : m_closed_ids'[i] = m_closed_ids[j]
            /\ o.ref > 0 => m_closed_ids'[i] # o.id
  BY <1>2, <1>7, QueueStays
<1>9. QED
  BY <1>1, <1>2, <1>3, <1>4, <1>6, <1>7, <1>8, ObjectStep

(* The queue after open_as took id out of it. *)
LEMMA QueueWithout ==
    ASSUME IInv, NEW id \in Ids, m_closed_ids' = RemoveClosed(m_closed_ids, id)
    PROVE  /\ m_closed_ids' \in Seq(Ids)
           /\ Len(m_closed_ids') < MAX_NUM_CLOSED
           /\ NoDuplicates(m_closed_ids')
           /\ \A i \in 1..Len(m_closed_ids') :
                 /\ \E j \in 1..Len(m_closed_ids) : m_closed_ids'[i] = m_closed_ids[j]
                 /\ m_closed_ids'[i] # id
<1> DEFINE r == RemoveClosed(m_closed_ids, id)
<1>1. /\ m_closed_ids \in Seq(Ids) /\ NoDuplicates(m_closed_ids)
      /\ Len(m_closed_ids) < MAX_NUM_CLOSED
  BY DEF IInv, TypeOK, ClosedQueueSound, NoDuplicates
<1>2. /\ r \in Seq(Ids)
      /\ Len(r) <= Len(m_closed_ids)
      /\ \A i \in 1..Len(r) : /\ r[i] # id
                              /\ \E j \in 1..Len(m_closed_ids) : r[i] = m_closed_ids[j]
      /\ NoDuplicates(r)
  BY <1>1, RemoveClosedFacts, Zenon
<1>3. m_closed_ids' = r
  OBVIOUS
<1> HIDE DEF r
<1>4. Len(r) < MAX_NUM_CLOSED
  BY <1>1, <1>2, TableSizes
<1>5. QED BY <1>2, <1>3, <1>4

(* Opening a file that is in the cache. *)
LEMMA OpenCachedIInv ==
    ASSUME IInv, NEW id \in Ids, NEW t \in Types, OpenCached(id, t)
    PROVE  IInv'
<1>0. PICK p \in Ptrs : p = m_files[id]
  BY DEF OpenCached, IsCached, IInv, TypeOK
<1> DEFINE o == [heap[p] EXCEPT !.ref = heap[p].ref + 1]
<1>1. heap[p] # Freed /\ heap[p].id = id
  BY <1>0, Sentinels DEF OpenCached, IsCached, IInv, Linked
<1>2. heap[p] \in Object /\ heap[p].ref = held[p]
  BY <1>1, LiveObject
<1>3. /\ o \in Object /\ o.id = id /\ o.ref = held[p] + 1 /\ o.ref > 0
      /\ o.nlink = heap[p].nlink /\ o.attr = heap[p].attr /\ o.dirty = heap[p].dirty
  BY <1>1, <1>2 DEF Object
<1>4. heap' = [heap EXCEPT ![p] = o] /\ held' = [held EXCEPT ![p] = o.ref]
  BY <1>0, <1>3 DEF OpenCached
<1> HIDE DEF o
<1>5. disk' = [disk EXCEPT ![o.id] = disk[o.id]]
  BY DEF OpenCached, IInv, TypeOK
<1>6. HeaderOf(o) = HeaderOf(heap[p])
  BY <1>3 DEF HeaderOf
<1>7. m_files' = m_files /\ unsafe' \in SUBSET Ids
  BY DEF OpenCached, IInv, TypeOK
<1>8. m_closed_ids' = RemoveClosed(m_closed_ids, id)
  BY DEF OpenCached
<1> DEFINE d == disk[o.id]
<1>9. /\ d \in Header \cup {Blank}
      /\ ~o.dirty => d = HeaderOf(o)
      /\ (d \in Header /\ d.nlink = 0) => o.nlink = 0
  BY <1>1, <1>3, <1>6, LiveObject
<1>10. disk' = [disk EXCEPT ![o.id] = d]
  BY <1>5
<1> HIDE DEF d
<1>11. /\ m_closed_ids' \in Seq(Ids)
       /\ Len(m_closed_ids') < MAX_NUM_CLOSED
       /\ NoDuplicates(m_closed_ids')
       /\ \A i \in 1..Len(m_closed_ids') :
             /\ \E j \in 1..Len(m_closed_ids) : m_closed_ids'[i] = m_closed_ids[j]
             /\ o.ref > 0 => m_closed_ids'[i] # o.id
  BY <1>3, <1>8, QueueWithout
<1>12. heap[p] # Freed /\ o \in Object /\ o.id = heap[p].id
  BY <1>1, <1>3
<1>13. o.nlink = 0 => o.ref > 0
  BY <1>3
<1>14. QED
  BY <1>4, <1>7, <1>9, <1>10, <1>11, <1>12, <1>13, ObjectStep

-----------------------------------------------------------------------------
(* The operations that change the table. First, an object o is installed for
   id, in place of an unreferenced one if there is one.                     *)
LEMMA InstallStep ==
    ASSUME IInv, NEW id \in Ids, NEW p \in Ptrs,
           IsCached(id) => heap[m_files[id]].ref = 0,
           HeapWithout(id)[p] = Freed,
           NEW o \in Object, o.id = id, o.ref = 1,
           NEW d \in Header \cup {Blank},
           ~o.dirty => d = HeaderOf(o),
           (d \in Header /\ d.nlink = 0) => o.nlink = 0,
           heap' = [HeapWithout(id) EXCEPT ![p] = o],
           m_files' = [m_files EXCEPT ![id] = p],
           held' = [held EXCEPT ![p] = 1],
           disk' = [disk EXCEPT ![id] = d],
           m_closed_ids' \in Seq(Ids),
           Len(m_closed_ids') < MAX_NUM_CLOSED,
           NoDuplicates(m_closed_ids'),
           \A i \in 1..Len(m_closed_ids') :
               /\ \E j \in 1..Len(m_closed_ids) : m_closed_ids'[i] = m_closed_ids[j]
               /\ m_closed_ids'[i] # id,
           unsafe' \in SUBSET Ids
    PROVE  IInv'
<1>1. o # Freed /\ d # NoFile /\ p # Null
  BY Sentinels, SentinelsAreNotData
<1>2. /\ heap \in [Ptrs -> {Freed} \cup Object]
      /\ held \in [Ptrs -> Nat]
      /\ disk \in [Ids -> {NoFile, Blank} \cup Header]
      /\ m_files \in [Ids -> Ptrs \cup {Null}]
  BY DEF IInv, TypeOK
<1>3. /\ heap'[p] = o
      /\ \A q \in Ptrs : q # p /\ q # m_files[id] => heap'[q] = heap[q]
      /\ \A q \in Ptrs : q # p /\ q = m_files[id] => heap'[q] = Freed
  BY <1>2 DEF HeapWithout
<1>4. /\ m_files'[id] = p /\ \A i \in Ids : i # id => m_files'[i] = m_files[i]
      /\ held'[p] = 1 /\ \A q \in Ptrs : q # p => held'[q] = held[q]
      /\ disk'[id] = d /\ \A i \in Ids : i # id => disk'[i] = disk[i]
  BY <1>2
<1>5. \A i \in Ids : i # id /\ IsCached(i) => m_files[i] # p /\ m_files[i] # m_files[id]
  <2> SUFFICES ASSUME NEW i \in Ids, i # id, IsCached(i)
               PROVE  m_files[i] # p /\ m_files[i] # m_files[id]
    OBVIOUS
  <2>1. heap[m_files[i]] # Freed /\ heap[m_files[i]].id = i
    BY DEF IInv, Linked
  <2>2. m_files[i] # m_files[id]
    BY <2>1 DEF IInv, Linked, IsCached
  <2>3. p = m_files[id] \/ heap[p] = Freed
    BY DEF HeapWithout
  <2>4. QED BY <2>1, <2>2, <2>3
<1>6. \A q \in Ptrs : heap[q] # Freed => /\ heap[q].id \in Ids
                                         /\ m_files[heap[q].id] = q
  BY <1>2 DEF IInv, RefCountExact, Object
<1>7. TypeOK'
  BY <1>2 DEF TypeOK, HeapWithout, Header
<1>8. Linked'
  BY <1>1, <1>2, <1>3, <1>4, <1>5 DEF IInv, Linked, IsCached
<1>9. RefCountExact'
  <2> SUFFICES ASSUME NEW q \in Ptrs
               PROVE  IF heap'[q] = Freed THEN held'[q] = 0
                      ELSE m_files'[heap'[q].id] = q /\ heap'[q].ref = held'[q]
    BY DEF RefCountExact
  <2>1. CASE q = p
    BY <2>1, <1>1, <1>3, <1>4
  <2>2. CASE q # p /\ q = m_files[id]
    <3>1. IsCached(id) /\ heap[q] # Freed
      BY <2>2, Sentinels DEF IInv, Linked, IsCached
    <3>2. held[q] = 0
      BY <3>1, <2>2 DEF IInv, RefCountExact
    <3>3. QED BY <2>2, <3>2, <1>3, <1>4
  <2>3. CASE q # p /\ q # m_files[id]
    <3>1. heap'[q] = heap[q] /\ held'[q] = held[q]
      BY <2>3, <1>3, <1>4
    <3>2. heap[q] # Freed => heap[q].id # id
      BY <2>3, <1>6
    <3>3. QED BY <3>1, <3>2, <1>4, <1>6 DEF IInv, RefCountExact
  <2>4. QED BY <2>1, <2>2, <2>3
<1>10. ClosedQueueSound'
  <2>1. ASSUME NEW i \in 1..Len(m_closed_ids')
        PROVE  /\ m_files'[m_closed_ids'[i]] # Null
               /\ heap'[m_files'[m_closed_ids'[i]]].ref = 0
    <3> DEFINE c == m_closed_ids'[i]
    <3>1. c \in Ids /\ c # id /\ IsCached(c) /\ heap[m_files[c]].ref = 0
      BY DEF IInv, ClosedQueueSound
    <3>2. m_files'[c] = m_files[c] /\ m_files[c] # p /\ m_files[c] # m_files[id]
      BY <3>1, <1>4, <1>5
    <3>3. QED BY <3>1, <3>2, <1>2, <1>3 DEF IsCached
  <2>2. QED
    BY <2>1 DEF ClosedQueueSound, IsCached, NoDuplicates
<1>11. CleanAgreesWithDisk'
  <2> SUFFICES ASSUME NEW q \in Ptrs, heap'[q] # Freed
               PROVE  /\ disk'[heap'[q].id] # NoFile
                      /\ ~heap'[q].dirty => disk'[heap'[q].id] = HeaderOf(heap'[q])
    BY DEF CleanAgreesWithDisk, HeaderOf
  <2>1. CASE q = p
    BY <2>1, <1>1, <1>3, <1>4
  <2>2. CASE q # p
    <3>1. q # m_files[id] /\ heap'[q] = heap[q]
      BY <2>2, <1>3
    <3>2. heap[q].id # id /\ heap[q].id \in Ids
      BY <3>1, <1>6
    <3>3. QED BY <3>1, <3>2, <1>4 DEF IInv, CleanAgreesWithDisk
  <2>3. QED BY <2>1, <2>2
<1>12. UnlinkedFilesGo'
  <2> SUFFICES ASSUME NEW i \in Ids
               PROVE  /\ (m_files'[i] # Null /\ heap'[m_files'[i]].nlink = 0)
                            => heap'[m_files'[i]].ref > 0
                      /\ (disk'[i] \in Header /\ disk'[i].nlink = 0)
                            => (m_files'[i] # Null /\ heap'[m_files'[i]].nlink = 0)
    BY DEF UnlinkedFilesGo, IsCached, IsUnlinked, Header
  <2>1. CASE i = id
    BY <2>1, <1>1, <1>3, <1>4
  <2>2. CASE i # id
    <3>1. m_files'[i] = m_files[i] /\ disk'[i] = disk[i]
      BY <2>2, <1>4
    <3>2. m_files[i] # Null => heap'[m_files[i]] = heap[m_files[i]]
      BY <2>2, <1>2, <1>3, <1>5 DEF IsCached
    <3>3. QED
      BY <3>1, <3>2 DEF IInv, UnlinkedFilesGo, IsCached, IsUnlinked
  <2>3. QED BY <2>1, <2>2
<1>13. QED
  BY <1>7, <1>8, <1>9, <1>10, <1>11, <1>12 DEF IInv

(* Opening a file from disk. *)
LEMMA OpenLoadIInv ==
    ASSUME IInv, NEW id \in Ids, NEW t \in Types, NEW p \in Ptrs, OpenLoad(id, t, p)
    PROVE  IInv'
<1> DEFINE d == disk[id]
           h == ReadHeader(d)
           o == NewObject(id, t, h, d = Blank)
<1>1. d \in Header \cup {Blank}
  BY DEF OpenLoad, IInv, TypeOK
<1>2. h \in Header /\ (d \in Header => h = d)
  BY <1>1, Bounds, Sentinels, SentinelsAreNotData DEF ReadHeader, BlankHeader, Header
<1>3. (d = Blank) \in BOOLEAN /\ ((d # Blank) => d \in Header)
  BY <1>1
<1>4. /\ heap' = [HeapWithout(id) EXCEPT ![p] = o]
      /\ disk' = [disk EXCEPT ![id] = d]
      /\ m_files' = [m_files EXCEPT ![id] = p]
      /\ held' = [held EXCEPT ![p] = 1]
      /\ unsafe' \in SUBSET Ids
      /\ HeapWithout(id)[p] = Freed
      /\ IsCached(id) => heap[m_files[id]].ref = 0
      /\ m_closed_ids' = RemoveClosed(m_closed_ids, id)
  BY DEF OpenLoad, MustLoad, IInv, TypeOK
<1> HIDE DEF d, h
<1>5. /\ o \in Object /\ o.id = id /\ o.ref = 1
      /\ o.nlink = h.nlink /\ o.attr = h.attr /\ o.dirty = (d = Blank)
  BY <1>2, <1>3 DEF NewObject, Object, Header
<1> HIDE DEF o
<1>6. h = [nlink |-> h.nlink, attr |-> h.attr]
  BY <1>2 DEF Header
<1>7. ~o.dirty => d = HeaderOf(o)
  BY <1>2, <1>3, <1>5, <1>6 DEF HeaderOf
<1>8. (d \in Header /\ d.nlink = 0) => o.nlink = 0
  BY <1>2, <1>5
<1>9. QED
  BY <1>1, <1>4, <1>5, <1>7, <1>8, QueueWithout, InstallStep

(* Creating a file. *)
LEMMA CreateAsIInv ==
    ASSUME IInv, NEW id \in Ids, NEW p \in Ptrs, NEW a \in Attrs, CreateAs(id, p, a)
    PROVE  IInv'
<1> DEFINE o == NewObject(id, "REAL", [nlink |-> 1, attr |-> a], TRUE)
<1>1. o \in Object /\ o.id = id /\ o.ref = 1 /\ o.dirty = TRUE
  BY DEF NewObject, Object, Types
<1>2. HeapWithout(id) = heap /\ heap[p] = Freed
  BY Sentinels DEF HeapWithout, CreateAs, IsCached, IInv, TypeOK
<1>3. /\ heap' = [heap EXCEPT ![p] = o]
      /\ disk' = [disk EXCEPT ![id] = Blank]
      /\ m_files' = [m_files EXCEPT ![id] = p]
      /\ held' = [held EXCEPT ![p] = 1]
      /\ unsafe' \in SUBSET Ids
      /\ m_closed_ids' = m_closed_ids
      /\ ~IsCached(id)
  BY DEF CreateAs, IInv, TypeOK
<1> HIDE DEF o
<1>4. Blank \in Header \cup {Blank} /\ Blank \notin Header
  BY SentinelsAreNotData
<1>5. /\ m_closed_ids' \in Seq(Ids)
      /\ Len(m_closed_ids') < MAX_NUM_CLOSED
      /\ NoDuplicates(m_closed_ids')
      /\ \A i \in 1..Len(m_closed_ids') :
            /\ \E j \in 1..Len(m_closed_ids) : m_closed_ids'[i] = m_closed_ids[j]
            /\ m_closed_ids'[i] # id
  BY <1>3, QueueStays DEF IsCached
<1>6. QED
  BY <1>1, <1>2, <1>3, <1>4, <1>5, InstallStep

(* The object filed under id leaves the table and the heap, and the disk
   holds d for it: nothing, or a header with a link left.                   *)
LEMMA RemoveStep ==
    ASSUME IInv, NEW id \in Ids,
           NEW d \in {NoFile, Blank} \cup Header,
           ~(d \in Header /\ d.nlink = 0),
           heap' = HeapWithout(id),
           m_files' = [m_files EXCEPT ![id] = Null],
           held' = [q \in Ptrs |-> IF q = m_files[id] THEN 0 ELSE held[q]],
           disk' = [disk EXCEPT ![id] = d],
           m_closed_ids' \in Seq(Ids),
           Len(m_closed_ids') < MAX_NUM_CLOSED,
           NoDuplicates(m_closed_ids'),
           \A i \in 1..Len(m_closed_ids') :
               /\ \E j \in 1..Len(m_closed_ids) : m_closed_ids'[i] = m_closed_ids[j]
               /\ m_closed_ids'[i] # id,
           unsafe' \in SUBSET Ids
    PROVE  IInv'
<1>2. /\ heap \in [Ptrs -> {Freed} \cup Object]
      /\ held \in [Ptrs -> Nat]
      /\ disk \in [Ids -> {NoFile, Blank} \cup Header]
      /\ m_files \in [Ids -> Ptrs \cup {Null}]
  BY DEF IInv, TypeOK
<1>3. /\ \A q \in Ptrs : q # m_files[id] => heap'[q] = heap[q] /\ held'[q] = held[q]
      /\ \A q \in Ptrs : q = m_files[id] => heap'[q] = Freed /\ held'[q] = 0
  BY <1>2 DEF HeapWithout
<1>4. /\ m_files'[id] = Null /\ \A i \in Ids : i # id => m_files'[i] = m_files[i]
      /\ disk'[id] = d /\ \A i \in Ids : i # id => disk'[i] = disk[i]
  BY <1>2
<1>5. \A i \in Ids : i # id /\ IsCached(i) => m_files[i] # m_files[id]
  BY DEF IInv, Linked, IsCached
<1>6. \A q \in Ptrs : heap[q] # Freed => /\ heap[q].id \in Ids
                                         /\ m_files[heap[q].id] = q
  BY <1>2 DEF IInv, RefCountExact, Object
<1>7. TypeOK'
  <2>1. heap' \in [Ptrs -> {Freed} \cup Object] /\ held' \in [Ptrs -> Nat]
    BY <1>2 DEF HeapWithout
  <2>2. m_files' \in [Ids -> Ptrs \cup {Null}] /\ disk' \in [Ids -> {NoFile, Blank} \cup Header]
    BY <1>2
  <2>3. QED BY <2>1, <2>2 DEF TypeOK, Header
<1>8. Linked'
  BY <1>2, <1>3, <1>4, <1>5 DEF IInv, Linked, IsCached
<1>9. RefCountExact'
  <2> SUFFICES ASSUME NEW q \in Ptrs
               PROVE  IF heap'[q] = Freed THEN held'[q] = 0
                      ELSE m_files'[heap'[q].id] = q /\ heap'[q].ref = held'[q]
    BY DEF RefCountExact
  <2>1. CASE q = m_files[id]
    BY <2>1, <1>3
  <2>2. CASE q # m_files[id]
    <3>1. heap'[q] = heap[q] /\ held'[q] = held[q]
      BY <2>2, <1>3
    <3>2. heap[q] # Freed => heap[q].id # id
      BY <2>2, <1>6
    <3>3. QED BY <3>1, <3>2, <1>4, <1>6 DEF IInv, RefCountExact
  <2>3. QED BY <2>1, <2>2
<1>10. ClosedQueueSound'
  <2>1. ASSUME NEW i \in 1..Len(m_closed_ids')
        PROVE  /\ m_files'[m_closed_ids'[i]] # Null
               /\ heap'[m_files'[m_closed_ids'[i]]].ref = 0
    <3> DEFINE c == m_closed_ids'[i]
    <3>1. c \in Ids /\ c # id /\ IsCached(c) /\ heap[m_files[c]].ref = 0
      BY DEF IInv, ClosedQueueSound
    <3>2. m_files'[c] = m_files[c] /\ m_files[c] # m_files[id]
      BY <3>1, <1>4, <1>5
    <3>3. QED BY <3>1, <3>2, <1>2, <1>3 DEF IsCached
  <2>2. QED
    BY <2>1 DEF ClosedQueueSound, IsCached, NoDuplicates
<1>11. CleanAgreesWithDisk'
  <2> SUFFICES ASSUME NEW q \in Ptrs, heap'[q] # Freed
               PROVE  /\ disk'[heap'[q].id] # NoFile
                      /\ ~heap'[q].dirty => disk'[heap'[q].id] = HeaderOf(heap'[q])
    BY DEF CleanAgreesWithDisk, HeaderOf
  <2>1. q # m_files[id] /\ heap'[q] = heap[q]
    BY <1>3
  <2>2. heap[q].id # id /\ heap[q].id \in Ids
    BY <2>1, <1>6
  <2>3. QED BY <2>1, <2>2, <1>4 DEF IInv, CleanAgreesWithDisk
<1>12. UnlinkedFilesGo'
  <2> SUFFICES ASSUME NEW i \in Ids
               PROVE  /\ (m_files'[i] # Null /\ heap'[m_files'[i]].nlink = 0)
                            => heap'[m_files'[i]].ref > 0
                      /\ (disk'[i] \in Header /\ disk'[i].nlink = 0)
                            => (m_files'[i] # Null /\ heap'[m_files'[i]].nlink = 0)
    BY DEF UnlinkedFilesGo, IsCached, IsUnlinked, Header
  <2>1. CASE i = id
    BY <2>1, <1>4
  <2>2. CASE i # id
    <3>1. m_files'[i] = m_files[i] /\ disk'[i] = disk[i]
      BY <2>2, <1>4
    <3>2. m_files[i] # Null => heap'[m_files[i]] = heap[m_files[i]]
      BY <2>2, <1>2, <1>3, <1>5 DEF IsCached
    <3>3. QED
      BY <3>1, <3>2 DEF IInv, UnlinkedFilesGo, IsCached, IsUnlinked
  <2>3. QED BY <2>1, <2>2
<1>13. QED
  BY <1>7, <1>8, <1>9, <1>10, <1>11, <1>12 DEF IInv

(* An open that fails. *)
LEMMA OpenFailsIInv ==
    ASSUME IInv, NEW id \in Ids, NEW t \in Types, OpenFails(id, t)
    PROVE  IInv'
<1> DEFINE d == disk[id]
<1>1. /\ heap' = HeapWithout(id)
      /\ m_files' = [m_files EXCEPT ![id] = Null]
      /\ m_closed_ids' = RemoveClosed(m_closed_ids, id)
      /\ disk' = [disk EXCEPT ![id] = d]
      /\ held' = held
      /\ unsafe' \in SUBSET Ids
      /\ d \in {NoFile, Blank} \cup Header
  BY DEF OpenFails, IInv, TypeOK
<1>2. ~(d \in Header /\ d.nlink = 0)
  <2>1. IsCached(id) => heap[m_files[id]].ref = 0
    BY DEF OpenFails, MustLoad
  <2>2. QED BY <2>1 DEF IInv, UnlinkedFilesGo
<1>3. \A q \in Ptrs : q = m_files[id] => held[q] = 0
  <2>1. ASSUME NEW q \in Ptrs, q = m_files[id] PROVE held[q] = 0
    <3>1. IsCached(id) /\ heap[q] # Freed /\ heap[q].ref = 0
      BY <2>1, Sentinels DEF IInv, Linked, IsCached, OpenFails, MustLoad
    <3>2. QED BY <3>1, LiveObject
  <2>2. QED BY <2>1
<1>4. held' = [q \in Ptrs |-> IF q = m_files[id] THEN 0 ELSE held[q]]
  BY <1>1, <1>3 DEF IInv, TypeOK
<1> HIDE DEF d
<1>5. QED
  BY <1>1, <1>2, <1>4, QueueWithout, RemoveStep

(* The last close of an unlinked file. *)
LEMMA CloseUnlinkedIInv ==
    ASSUME IInv, NEW p \in Ptrs, CloseUnlinked(p)
    PROVE  IInv'
<1> DEFINE id == heap[p].id
<1>1. /\ heap[p] # Freed /\ m_files[id] = p /\ id \in Ids
      /\ heap[p].ref = 1
  BY HeldIsLive, LiveObject DEF CloseUnlinked
<1>2. /\ heap' = [heap EXCEPT ![p] = Freed]
      /\ m_files' = [m_files EXCEPT ![id] = Null]
      /\ disk' = [disk EXCEPT ![id] = NoFile]
      /\ held' = [held EXCEPT ![p] = 0]
      /\ m_closed_ids' = m_closed_ids
      /\ unsafe' \in SUBSET Ids
  BY DEF CloseUnlinked, IInv, TypeOK
<1> HIDE DEF id
<1>3. heap' = HeapWithout(id)
  BY <1>1, <1>2 DEF HeapWithout, IInv, TypeOK
<1>4. held' = [q \in Ptrs |-> IF q = m_files[id] THEN 0 ELSE held[q]]
  BY <1>1, <1>2 DEF IInv, TypeOK
<1>5. /\ m_closed_ids' \in Seq(Ids)
      /\ Len(m_closed_ids') < MAX_NUM_CLOSED
      /\ NoDuplicates(m_closed_ids')
      /\ \A i \in 1..Len(m_closed_ids') :
            /\ \E j \in 1..Len(m_closed_ids) : m_closed_ids'[i] = m_closed_ids[j]
            /\ m_closed_ids'[i] # id
  BY <1>1, <1>2, QueueStays
<1>6. NoFile \notin Header
  BY SentinelsAreNotData
<1>7. QED
  BY <1>1, <1>2, <1>3, <1>4, <1>5, <1>6, RemoveStep

(* The last close of a linked file: its object becomes clean and unreferenced
   and joins the queue, and the victims of gc, unreferenced objects all of
   them (itself perhaps among them), leave the cache.                       *)
LEMMA CloseLinkedIInv ==
    ASSUME IInv, NEW p \in Ptrs, CloseLinked(p)
    PROVE  IInv'
<1>0. PICK id \in Ids : id = heap[p].id
  BY HeldIsLive, LiveObject DEF CloseLinked
<1> DEFINE o     == [heap[p] EXCEPT !.dirty = FALSE, !.ref = 0]
           queue == Append(m_closed_ids, id)
           V     == Victims(queue)
           r     == SubSeq(queue, NumEject(queue) + 1, Len(queue))
           h     == HeaderOf(heap[p])
<1>1. /\ heap[p] # Freed /\ heap[p] \in Object /\ m_files[id] = p /\ p # Null
      /\ heap[p].ref = 1 /\ heap[p].nlink # 0
      /\ h \in Header /\ h.nlink # 0
  BY <1>0, Sentinels, HeldIsLive, LiveObject DEF CloseLinked, IsUnlinked, HeaderOf
<1>2. o \in Object /\ o.id = id /\ o.ref = 0 /\ o.nlink # 0 /\ HeaderOf(o) = h
  BY <1>0, <1>1 DEF Object, HeaderOf
<1>3. /\ m_closed_ids \in Seq(Ids) /\ Len(m_closed_ids) < MAX_NUM_CLOSED
      /\ \A i \in 1..Len(m_closed_ids) : /\ IsCached(m_closed_ids[i])
                                         /\ heap[m_files[m_closed_ids[i]]].ref = 0
      /\ \A i, j \in 1..Len(m_closed_ids) : m_closed_ids[i] = m_closed_ids[j] => i = j
  BY DEF IInv, TypeOK, ClosedQueueSound
<1>4. /\ queue \in Seq(Ids) /\ Len(queue) = Len(m_closed_ids) + 1
      /\ \A i \in 1..Len(m_closed_ids) : queue[i] = m_closed_ids[i]
      /\ queue[Len(m_closed_ids) + 1] = id
  BY <1>3
<1>5. \A i \in 1..Len(m_closed_ids) : m_closed_ids[i] # id
  BY <1>1, <1>3
<1>6. Len(queue) <= MAX_NUM_CLOSED
  BY <1>3, <1>4, TableSizes
<1> HIDE DEF queue
<1>7. NoDuplicates(queue)
  BY <1>3, <1>4, <1>5 DEF NoDuplicates
<1>8. /\ r \in Seq(Ids)
      /\ Len(r) < MAX_NUM_CLOSED
      /\ \A i \in 1..Len(r) : /\ r[i] \notin V
                              /\ \E j \in 1..Len(queue) : r[i] = queue[j]
      /\ NoDuplicates(r)
      /\ \A j \in 1..Len(queue) : queue[j] \notin V => \E i \in 1..Len(r) : r[i] = queue[j]
      /\ \A v \in V : v \in Ids /\ \E j \in 1..Len(queue) : v = queue[j]
  BY <1>4, <1>6, <1>7, EjectFacts, Zenon
<1>9. /\ heap' = [q \in Ptrs |-> IF \E i \in V : m_files[i] = q THEN Freed
                                ELSE [heap EXCEPT ![p] = o][q]]
      /\ m_files' = [i \in Ids |-> IF i \in V THEN Null ELSE m_files[i]]
      /\ disk' = [disk EXCEPT ![id] = h]
      /\ held' = [held EXCEPT ![p] = 0]
      /\ m_closed_ids' = r
      /\ unsafe' = unsafe \ {id}
  <2>1. disk' = [disk EXCEPT ![id] = h]
    BY <1>0, <1>1, FlushFacts DEF CloseLinked
  <2>2. [Flushed(heap[p]) EXCEPT !.ref = 0] = o
    BY <1>1 DEF Flushed, Object
  <2>3. queue = Append(m_closed_ids, heap[p].id)
    BY <1>0 DEF queue
  <2>4. m_files' = [i \in Ids |-> IF i \in V THEN Null ELSE m_files[i]]
    BY <2>3 DEF CloseLinked
  <2>5. heap' = [q \in Ptrs |->
                   IF \E i \in V : m_files[i] = q THEN Freed
                   ELSE [heap EXCEPT ![p] = [Flushed(heap[p]) EXCEPT !.ref = 0]][q]]
    BY <2>3 DEF CloseLinked
  <2> HIDE DEF V, o
  <2>6. heap' = [q \in Ptrs |-> IF \E i \in V : m_files[i] = q THEN Freed
                                ELSE [heap EXCEPT ![p] = o][q]]
    BY <2>2, <2>5
  <2>7. held' = [held EXCEPT ![p] = 0] /\ m_closed_ids' = r /\ unsafe' = unsafe \ {id}
    BY <1>0 DEF CloseLinked, queue
  <2>8. QED BY <2>1, <2>7, <2>4, <2>6
<1> HIDE DEF o, V, r, h
<1>10. /\ heap \in [Ptrs -> {Freed} \cup Object]
       /\ held \in [Ptrs -> Nat]
       /\ disk \in [Ids -> {NoFile, Blank} \cup Header]
       /\ m_files \in [Ids -> Ptrs \cup {Null}]
       /\ o # Freed /\ h # NoFile
  BY <1>1, <1>2, SentinelsAreNotData DEF IInv, TypeOK
(* Everything that can be in the queue: cached and, after the close,
   unreferenced.                                                            *)
<1>11. \A j \in 1..Len(queue) :
          /\ queue[j] \in Ids /\ m_files[queue[j]] # Null
          /\ queue[j] = id \/ heap[m_files[queue[j]]].ref = 0
  BY <1>1, <1>3, <1>4 DEF IsCached
<1>12. \A i \in V : /\ i \in Ids /\ m_files[i] # Null
                    /\ i = id \/ heap[m_files[i]].ref = 0
  BY <1>8, <1>11
<1>13. \A i, j \in Ids : IsCached(i) /\ m_files[i] = m_files[j] => i = j
  BY DEF IInv, Linked, IsCached
<1>14. \A i \in Ids : i \notin V /\ IsCached(i) =>
          /\ m_files'[i] = m_files[i]
          /\ heap'[m_files[i]] = IF i = id THEN o ELSE heap[m_files[i]]
  <2> SUFFICES ASSUME NEW i \in Ids, i \notin V, IsCached(i)
               PROVE  /\ m_files'[i] = m_files[i]
                      /\ heap'[m_files[i]] = IF i = id THEN o ELSE heap[m_files[i]]
    OBVIOUS
  <2>1. ~ \E v \in V : m_files[v] = m_files[i]
    BY <1>12, <1>13
  <2>2. m_files[i] \in Ptrs
    BY <1>10 DEF IsCached
  <2>3. m_files[i] = p <=> i = id
    BY <1>1, <1>13
  <2>4. QED
    BY <2>1, <2>2, <2>3, <1>9, <1>10
<1>15. \A i \in Ids : IsCached(i)' => i \notin V /\ IsCached(i)
  BY <1>9 DEF IsCached
<1>16. \A q \in Ptrs : heap'[q] # Freed =>
          \E i \in Ids : /\ i \notin V /\ IsCached(i) /\ m_files[i] = q
                         /\ heap[q] # Freed /\ heap[q].id = i
  <2> SUFFICES ASSUME NEW q \in Ptrs, heap'[q] # Freed
               PROVE  \E i \in Ids : /\ i \notin V /\ IsCached(i) /\ m_files[i] = q
                                     /\ heap[q] # Freed /\ heap[q].id = i
    OBVIOUS
  <2>1. ~(\E i \in V : m_files[i] = q) /\ heap[q] # Freed
    BY <1>1, <1>9, <1>10
  <2>2. heap[q].id \in Ids /\ m_files[heap[q].id] = q /\ q # Null
    BY <2>1, <1>10, Sentinels DEF IInv, RefCountExact, Object
  <2>3. heap[q].id \notin V
    BY <2>1, <2>2
  <2>4. QED BY <2>1, <2>2, <2>3 DEF IsCached
<1>17. /\ disk'[id] = h /\ \A i \in Ids : i # id => disk'[i] = disk[i]
       /\ held'[p] = 0 /\ \A q \in Ptrs : q # p => held'[q] = held[q]
  BY <1>9, <1>10
<1>18. TypeOK'
  <2>1. heap' \in [Ptrs -> {Freed} \cup Object] /\ held' \in [Ptrs -> Nat]
    BY <1>2, <1>9, <1>10
  <2>2. m_files' \in [Ids -> Ptrs \cup {Null}] /\ disk' \in [Ids -> {NoFile, Blank} \cup Header]
    BY <1>1, <1>9, <1>10
  <2>3. m_closed_ids' \in Seq(Ids) /\ unsafe' \in SUBSET Ids
    BY <1>8, <1>9 DEF IInv, TypeOK
  <2>4. QED BY <2>1, <2>2, <2>3 DEF TypeOK, Header
<1>19. Linked'
  <2> SUFFICES ASSUME NEW i \in Ids, IsCached(i)'
               PROVE  heap'[m_files'[i]] # Freed /\ heap'[m_files'[i]].id = i
    BY DEF Linked
  <2>1. i \notin V /\ IsCached(i)
    BY <1>15
  <2>2. QED
    BY <2>1, <1>2, <1>10, <1>14 DEF IInv, Linked
<1>20. RefCountExact'
  <2> SUFFICES ASSUME NEW q \in Ptrs
               PROVE  IF heap'[q] = Freed THEN held'[q] = 0
                      ELSE m_files'[heap'[q].id] = q /\ heap'[q].ref = held'[q]
    BY DEF RefCountExact
  <2>1. CASE heap'[q] = Freed
    <3>1. CASE q = p
      BY <2>1, <3>1, <1>17
    <3>2. CASE q # p /\ heap[q] = Freed
      BY <2>1, <3>2, <1>17 DEF IInv, RefCountExact
    <3>3. CASE q # p /\ heap[q] # Freed
      <4>1. PICK i \in V : m_files[i] = q
        BY <2>1, <3>3, <1>9, <1>10
      <4>2. i # id /\ heap[q].ref = 0
        BY <4>1, <3>3, <1>1, <1>12
      <4>3. held[q] = 0
        BY <4>2, <3>3 DEF IInv, RefCountExact
      <4>4. QED BY <2>1, <4>3, <3>3, <1>17
    <3>4. QED BY <3>1, <3>2, <3>3
  <2>2. CASE heap'[q] # Freed
    <3>1. PICK i \in Ids : /\ i \notin V /\ IsCached(i) /\ m_files[i] = q
                           /\ heap[q] # Freed /\ heap[q].id = i
      BY <2>2, <1>16
    <3>2. m_files'[i] = q
      BY <3>1, <1>14
    <3>3. CASE i = id
      <4>1. q = p /\ heap'[q] = o
        BY <3>1, <3>3, <1>1, <1>14
      <4>2. held'[q] = 0
        BY <4>1, <1>9, <1>10
      <4>3. QED BY <2>2, <3>2, <3>3, <4>1, <4>2, <1>2
    <3>4. CASE i # id
      <4>1. q # p /\ heap'[q] = heap[q]
        BY <3>1, <3>4, <1>0, <1>14
      <4>2. held'[q] = held[q] /\ heap[q].ref = held[q]
        BY <4>1, <3>1, <1>9, <1>10 DEF IInv, RefCountExact
      <4>3. QED BY <2>2, <3>1, <3>2, <4>1, <4>2
    <3>5. QED BY <3>3, <3>4
  <2>3. QED BY <2>1, <2>2
<1>21. ClosedQueueSound'
  <2>1. ASSUME NEW i \in 1..Len(r)
        PROVE  /\ m_files'[r[i]] # Null
               /\ heap'[m_files'[r[i]]].ref = 0
    <3>1. /\ r[i] \in Ids /\ r[i] \notin V /\ m_files[r[i]] # Null
          /\ r[i] = id \/ heap[m_files[r[i]]].ref = 0
      BY <1>8, <1>11
    <3>2. QED BY <3>1, <1>2, <1>14 DEF IsCached
  <2>2. QED
    BY <2>1, <1>8, <1>9, ZenonT(60) DEF ClosedQueueSound, IsCached, NoDuplicates
<1>22. CleanAgreesWithDisk'
  <2> SUFFICES ASSUME NEW q \in Ptrs, heap'[q] # Freed
               PROVE  /\ disk'[heap'[q].id] # NoFile
                      /\ ~heap'[q].dirty => disk'[heap'[q].id] = HeaderOf(heap'[q])
    BY DEF CleanAgreesWithDisk, HeaderOf
  <2>1. PICK i \in Ids : /\ i \notin V /\ IsCached(i) /\ m_files[i] = q
                         /\ heap[q] # Freed /\ heap[q].id = i
    BY <1>16
  <2>2. CASE i = id
    <3>1. heap'[q] = o
      BY <2>1, <2>2, <1>14
    <3>2. QED BY <3>1, <1>2, <1>10, <1>17
  <2>3. CASE i # id
    <3>1. heap'[q] = heap[q] /\ disk'[i] = disk[i]
      BY <2>1, <2>3, <1>14, <1>17
    <3>2. QED BY <2>1, <3>1 DEF IInv, CleanAgreesWithDisk
  <2>4. QED BY <2>2, <2>3
<1>23. UnlinkedFilesGo'
  <2> SUFFICES ASSUME NEW i \in Ids
               PROVE  /\ (m_files'[i] # Null /\ heap'[m_files'[i]].nlink = 0)
                            => heap'[m_files'[i]].ref > 0
                      /\ (disk'[i] \in Header /\ disk'[i].nlink = 0)
                            => (m_files'[i] # Null /\ heap'[m_files'[i]].nlink = 0)
    BY DEF UnlinkedFilesGo, IsCached, IsUnlinked, Header
  <2>1. CASE i = id
    <3>1. ~(disk'[i].nlink = 0)
      BY <2>1, <1>1, <1>17
    <3>2. m_files'[i] # Null => heap'[m_files'[i]] = o
      BY <2>1, <1>14, <1>15 DEF IsCached
    <3>3. QED BY <3>1, <3>2, <1>2
  <2>2. CASE i # id
    <3>1. disk'[i] = disk[i]
      BY <2>2, <1>17
    <3>2. m_files'[i] # Null => /\ IsCached(i)
                                /\ heap'[m_files'[i]] = heap[m_files[i]]
      BY <2>2, <1>14, <1>15 DEF IsCached
    <3>3. (disk[i] \in Header /\ disk[i].nlink = 0) => i \notin V
      <4>1. i \in V => IsCached(i) /\ heap[m_files[i]].ref = 0
        BY <2>2, <1>12 DEF IsCached
      <4>2. QED BY <4>1 DEF IInv, UnlinkedFilesGo
    <3>4. i \notin V /\ IsCached(i) => m_files'[i] # Null
      BY <1>14 DEF IsCached
    <3>5. QED
      BY <3>1, <3>2, <3>3, <3>4 DEF IInv, UnlinkedFilesGo, IsUnlinked
  <2>3. QED BY <2>1, <2>2
<1>24. QED
  BY <1>18, <1>19, <1>20, <1>21, <1>22, <1>23 DEF IInv

(* The destructor of the table. *)
LEMMA DestroyIInv ==
    ASSUME IInv, Destroy
    PROVE  IInv'
<1> USE DEF Destroy
<1>1. \A i \in Ids : /\ Finalized(i) \in {NoFile, Blank} \cup Header
                     /\ ~(Finalized(i) \in Header /\ Finalized(i).nlink = 0)
  <2> SUFFICES ASSUME NEW i \in Ids
               PROVE  /\ Finalized(i) \in {NoFile, Blank} \cup Header
                      /\ ~(Finalized(i) \in Header /\ Finalized(i).nlink = 0)
    OBVIOUS
  <2>1. CASE ~IsCached(i)
    BY <2>1 DEF Finalized, IInv, TypeOK, UnlinkedFilesGo
  <2>2. CASE IsCached(i)
    <3>1. PICK p \in Ptrs : p = m_files[i]
      BY <2>2 DEF IsCached, IInv, TypeOK
    <3>2. heap[p] # Freed
      BY <2>2, <3>1 DEF IInv, Linked
    <3>3. DiskAfterFlush(heap[p]) = HeaderOf(heap[p]) /\ HeaderOf(heap[p]) \in Header
      BY <3>2, FlushFacts, LiveObject
    <3>4. HeaderOf(heap[p]).nlink = heap[p].nlink
      BY DEF HeaderOf
    <3>5. QED
      BY <2>2, <3>1, <3>3, <3>4, SentinelsAreNotData DEF Finalized, IsUnlinked
  <2>3. QED BY <2>1, <2>2
<1>2. TypeOK'
  BY <1>1 DEF TypeOK, Header
<1>3. Linked' /\ RefCountExact' /\ ClosedQueueSound' /\ CleanAgreesWithDisk'
  BY TableSizes DEF Linked, RefCountExact, ClosedQueueSound, CleanAgreesWithDisk, IsCached
<1>4. UnlinkedFilesGo'
  <2>1. \A i \in Ids : disk'[i] = Finalized(i) /\ m_files'[i] = Null
    OBVIOUS
  <2>2. QED BY <2>1, <1>1 DEF UnlinkedFilesGo, IsCached, Header
<1>5. QED
  BY <1>2, <1>3, <1>4 DEF IInv

(* Nothing changes. *)
LEMMA StutterIInv == IInv /\ UNCHANGED vars => IInv'
BY DEF IInv, vars, TypeOK, Linked, RefCountExact, ClosedQueueSound,
       CleanAgreesWithDisk, UnlinkedFilesGo, IsCached, IsUnlinked, HeaderOf, Header

(* One step of the specification keeps the inductive invariant. *)
LEMMA NextIInv == IInv /\ [Next]_vars => IInv'
<1> SUFFICES ASSUME IInv, [Next]_vars PROVE IInv'
  OBVIOUS
<1>1. ASSUME NEW id \in Ids, NEW t \in Types, OpenCached(id, t) PROVE IInv'
  BY <1>1, OpenCachedIInv
<1>2. ASSUME NEW id \in Ids, NEW t \in Types, OpenFails(id, t) PROVE IInv'
  BY <1>2, OpenFailsIInv
<1>3. ASSUME NEW id \in Ids, NEW t \in Types, NEW p \in Ptrs, OpenLoad(id, t, p) PROVE IInv'
  BY <1>3, OpenLoadIInv
<1>4. ASSUME NEW id \in Ids, NEW p \in Ptrs, NEW a \in Attrs, CreateAs(id, p, a) PROVE IInv'
  BY <1>4, CreateAsIInv
<1>5. ASSUME NEW p \in Ptrs, CloseShared(p) PROVE IInv'
  BY <1>5, CloseSharedIInv
<1>6. ASSUME NEW p \in Ptrs, CloseUnlinked(p) PROVE IInv'
  BY <1>6, CloseUnlinkedIInv
<1>7. ASSUME NEW p \in Ptrs, CloseLinked(p) PROVE IInv'
  BY <1>7, CloseLinkedIInv
<1>8. ASSUME NEW p \in Ptrs, NEW wrote \in BOOLEAN, CloseFlushFails(p, wrote) PROVE IInv'
  BY <1>8, CloseFlushFailsIInv
<1>9. ASSUME NEW p \in Ptrs, NEW a \in Attrs, SetAttr(p, a) PROVE IInv'
  BY <1>9, SetAttrIInv
<1>10. ASSUME NEW p \in Ptrs, Link(p) PROVE IInv'
  BY <1>10, LinkIInv
<1>11. ASSUME NEW p \in Ptrs, Unlink(p) PROVE IInv'
  BY <1>11, UnlinkIInv
<1>12. ASSUME NEW p \in Ptrs, Flush(p) PROVE IInv'
  BY <1>12, FlushIInv
<1>13. CASE Destroy
  BY <1>13, DestroyIInv
<1>14. CASE UNCHANGED vars
  BY <1>14, StutterIInv
<1>15. QED
  BY <1>1, <1>2, <1>3, <1>4, <1>5, <1>6, <1>7, <1>8, <1>9, <1>10, <1>11,
     <1>12, <1>13, <1>14 DEF Next

(* The inductive invariant holds in every reachable state. *)
THEOREM InductiveInvariant == Spec => []IInv
BY InitIInv, NextIInv, PTL DEF Spec

(* Type correctness of the table, its heap, its queue and the disk. *)
THEOREM TypeCorrect == Spec => []TypeOK
<1>1. IInv => TypeOK
  BY DEF IInv
<1>2. QED BY <1>1, InductiveInvariant, PTL

(* No caller of open_as, create_as and close ever holds a pointer to a freed
   object, and reference counts are exact.                                  *)
THEOREM NoDanglingPointers == Spec => []RefCountExact
<1>1. IInv => RefCountExact
  BY DEF IInv
<1>2. QED BY <1>1, InductiveInvariant, PTL

(* eject only ever evicts files nobody has open, and the number of closed
   files it leaves is below MAX_NUM_CLOSED.                                 *)
THEOREM EvictionIsSafe == Spec => []ClosedQueueSound
<1>1. IInv => ClosedQueueSound
  BY DEF IInv
<1>2. QED BY <1>1, InductiveInvariant, PTL

(* Skipping the header write of a clean object, and evicting one, is safe. *)
THEOREM CleanMeansWritten == Spec => []CleanAgreesWithDisk
<1>1. IInv => CleanAgreesWithDisk
  BY DEF IInv
<1>2. QED BY <1>1, InductiveInvariant, PTL

(* A file without links is on disk only while it is open. *)
THEOREM UnlinkedFilesAreRemoved == Spec => []UnlinkedFilesGo
<1>1. IInv => UnlinkedFilesGo
  BY DEF IInv
<1>2. QED BY <1>1, InductiveInvariant, PTL

-----------------------------------------------------------------------------
(* The cache is bounded, and FileTable implements OpenFiles: caching, the order
   of flushes and the evictions of gc are invisible to callers. Both rest on what
   IInv leaves open: an unreferenced object is queued for eviction and clean,
   unless its last write-back failed, and then it is not in the queue.       *)
ObjectOf(id) == heap[m_files[id]]

(* An unreferenced object whose last write-back succeeded has nothing that
   the disk does not have.                                                   *)
IdleIsWritten ==
    \A id \in Ids :
        (IsCached(id) /\ ObjectOf(id).ref = 0 /\ id \notin unsafe) => ~ObjectOf(id).dirty

(* eject never evicts an object whose write-back failed. *)
QueuedIsSafe == \A id \in Ids : IsQueued(m_closed_ids, id) => id \notin unsafe

RInv == IInv /\ CacheIsBounded /\ IdleIsWritten /\ QueuedIsSafe

-----------------------------------------------------------------------------
(* What a step on the file id may do to the others: nothing, or evict them. *)
Kept(i) ==
    /\ m_files'[i] = m_files[i]
    /\ IsCached(i) => heap'[m_files[i]] = heap[m_files[i]]
    /\ IsQueued(m_closed_ids, i) <=> IsQueued(m_closed_ids', i)

Evicted(i) ==
    /\ IsQueued(m_closed_ids, i)
    /\ m_files'[i] = Null
    /\ ~IsQueued(m_closed_ids', i)

Elsewhere(id) ==
    \A i \in Ids \ {id} :
        /\ disk'[i] = disk[i]
        /\ i \in unsafe' <=> i \in unsafe
        /\ Kept(i) \/ Evicted(i)

(* RInv at one file. *)
SoundAt(id) ==
    /\ (IsCached(id) /\ ObjectOf(id).ref = 0 /\ id \notin unsafe)
           => IsQueued(m_closed_ids, id) /\ ~ObjectOf(id).dirty
    /\ IsQueued(m_closed_ids, id) => id \notin unsafe

(* The header and the reference count of id that callers see. *)
ContentOf(id) == IF IsCached(id) THEN HeaderOf(ObjectOf(id)) ELSE ReadHeader(disk[id])

RefsOf(id) == IF IsCached(id) THEN ObjectOf(id).ref ELSE 0

Content == [id \in Ids |-> ContentOf(id)]

Refs == [id \in Ids |-> RefsOf(id)]

(* Every entry of the table satisfies its part of the invariant. *)
LEMMA SoundEverywhere ==
    ASSUME IInv
    PROVE  RInv <=> \A id \in Ids : SoundAt(id)
BY DEF RInv, CacheIsBounded, IdleIsWritten, QueuedIsSafe, SoundAt, ObjectOf

(* What the cache queue says of a file that is in it. *)
LEMMA QueuedFacts ==
    ASSUME RInv, NEW i \in Ids, IsQueued(m_closed_ids, i)
    PROVE  /\ IsCached(i) /\ ObjectOf(i).ref = 0 /\ ~ObjectOf(i).dirty
           /\ i \notin unsafe
           /\ disk[i] = HeaderOf(ObjectOf(i))
           /\ disk[i] \in Header
<1>1. IsCached(i) /\ ObjectOf(i).ref = 0
  BY DEF RInv, IInv, ClosedQueueSound, IsQueued, ObjectOf
<1>2. i \notin unsafe /\ ~ObjectOf(i).dirty
  BY <1>1 DEF RInv, QueuedIsSafe, IdleIsWritten
<1>3. m_files[i] \in Ptrs /\ ObjectOf(i) # Freed /\ ObjectOf(i).id = i
  BY <1>1 DEF RInv, IInv, TypeOK, Linked, IsCached, ObjectOf
<1>4. QED
  BY <1>1, <1>2, <1>3, LiveObject DEF ObjectOf, RInv

(* The frame: the other files stay sound, and callers see no difference. *)
LEMMA ElsewhereFacts ==
    ASSUME RInv, NEW id \in Ids, Elsewhere(id), NEW i \in Ids, i # id
    PROVE  /\ SoundAt(i)'
           /\ ContentOf(i)' = ContentOf(i)
           /\ RefsOf(i)' = RefsOf(i)
<1>1. SoundAt(i)
  BY SoundEverywhere DEF RInv
<1>2. /\ disk'[i] = disk[i]
      /\ i \in unsafe' <=> i \in unsafe
      /\ Kept(i) \/ Evicted(i)
  BY DEF Elsewhere
<1>3. CASE Kept(i)
  <2>1. IsCached(i)' <=> IsCached(i)
    BY <1>3 DEF Kept, IsCached
  <2>2. IsCached(i) => ObjectOf(i)' = ObjectOf(i)
    BY <1>3 DEF Kept, ObjectOf
  <2>3. IsQueued(m_closed_ids, i)' <=> IsQueued(m_closed_ids, i)
    BY <1>3 DEF Kept, IsQueued
  <2>4. SoundAt(i)'
    BY <1>1, <1>2, <2>1, <2>2, <2>3 DEF SoundAt
  <2>5. QED
    BY <1>2, <2>1, <2>2, <2>4 DEF ContentOf, RefsOf, HeaderOf, ReadHeader
<1>4. CASE Evicted(i)
  <2>1. ~IsCached(i)' /\ ~IsQueued(m_closed_ids, i)'
    BY <1>4 DEF Evicted, IsCached, IsQueued
  <2>2. IsCached(i) /\ ObjectOf(i).ref = 0 /\ disk[i] = HeaderOf(ObjectOf(i)) /\ disk[i] \in Header
    BY <1>4, QueuedFacts DEF Evicted
  <2>3. disk[i] # Blank
    BY <2>2, SentinelsAreNotData
  <2>4. QED
    BY <1>2, <2>1, <2>2, <2>3 DEF SoundAt, ContentOf, RefsOf, ReadHeader
<1>5. QED BY <1>2, <1>3, <1>4

(* One step on id: what has to be shown at id itself. *)
LEMMA LocalStep ==
    ASSUME RInv, IInv', NEW id \in Ids, Elsewhere(id), SoundAt(id)'
    PROVE  /\ RInv'
           /\ Content' = [Content EXCEPT ![id] = ContentOf(id)']
           /\ Refs' = [Refs EXCEPT ![id] = RefsOf(id)']
<1>1. \A i \in Ids : SoundAt(i)'
  BY ElsewhereFacts
<1>2. RInv'
  BY <1>1 DEF RInv, CacheIsBounded, IdleIsWritten, QueuedIsSafe, SoundAt, ObjectOf
<1>3. Content' = [Content EXCEPT ![id] = ContentOf(id)']
  <2>1. Content' = [i \in Ids |-> ContentOf(i)']
    BY DEF Content
  <2>2. \A i \in Ids : i # id => ContentOf(i)' = ContentOf(i)
    BY ElsewhereFacts
  <2>3. QED
    BY <2>1, <2>2 DEF Content
<1>4. Refs' = [Refs EXCEPT ![id] = RefsOf(id)']
  <2>1. Refs' = [i \in Ids |-> RefsOf(i)']
    BY DEF Refs
  <2>2. \A i \in Ids : i # id => RefsOf(i)' = RefsOf(i)
    BY ElsewhereFacts
  <2>3. QED
    BY <2>1, <2>2 DEF Refs
<1>5. QED BY <1>2, <1>3, <1>4

-----------------------------------------------------------------------------
(* A step that changes the object of a file in place. *)
LEMMA InPlace ==
    ASSUME RInv, NEW p \in Ptrs, heap[p] # Freed, NEW id, id = heap[p].id, NEW o, NEW d,
           heap' = [heap EXCEPT ![p] = o],
           disk' = [disk EXCEPT ![id] = d],
           m_files' = m_files,
           \A i \in Ids : i # id =>
               /\ i \in unsafe' <=> i \in unsafe
               /\ IsQueued(m_closed_ids, i) <=> IsQueued(m_closed_ids', i)
    PROVE  /\ id \in Ids
           /\ Elsewhere(id)
           /\ IsCached(id) /\ ObjectOf(id) = heap[p]
           /\ IsCached(id)' /\ (ObjectOf(id))' = o
           /\ ContentOf(id) = HeaderOf(heap[p])
           /\ RefsOf(id) = heap[p].ref
<1>1. /\ id \in Ids /\ m_files[id] = p /\ p # Null
      /\ heap \in [Ptrs -> {Freed} \cup Object]
      /\ disk \in [Ids -> {NoFile, Blank} \cup Header]
  BY LiveObject, Sentinels DEF RInv, IInv, TypeOK
<1>2. \A i \in Ids : i # id /\ IsCached(i) => m_files[i] # p
  BY DEF RInv, IInv, Linked
<1>3. Elsewhere(id)
  BY <1>1, <1>2 DEF Elsewhere, Kept
<1>4. IsCached(id) /\ ObjectOf(id) = heap[p]
  BY <1>1 DEF IsCached, ObjectOf
<1>5. IsCached(id)' /\ (ObjectOf(id))' = o
  BY <1>1 DEF IsCached, ObjectOf
<1>6. QED
  BY <1>1, <1>3, <1>4, <1>5 DEF ContentOf, RefsOf

(* A holder changes the header: the abstract file changes, or nothing does. *)
LEMMA HolderRefines ==
    ASSUME RInv, IInv', NEW p \in Ptrs, held[p] > 0,
           NEW o \in Object, o.ref = heap[p].ref,
           NEW id \in Ids, id = heap[p].id, NEW d,
           heap' = [heap EXCEPT ![p] = o],
           disk' = [disk EXCEPT ![id] = d],
           UNCHANGED <<m_files, m_closed_ids, unsafe>>
    PROVE  /\ RInv'
           /\ Refs' = Refs
           /\ \/ Content' = Content
              \/ \E i \in Ids : Logical!OChange(i)
           /\ HeaderOf(o) = HeaderOf(heap[p]) => Content' = Content
<1>1. heap[p] # Freed /\ heap[p].ref > 0 /\ heap[p] \in Object
  BY HeldIsLive DEF RInv
<1>3. /\ Elsewhere(id)
      /\ IsCached(id) /\ ObjectOf(id) = heap[p]
      /\ IsCached(id)' /\ (ObjectOf(id))' = o
      /\ ContentOf(id) = HeaderOf(heap[p])
      /\ RefsOf(id) = heap[p].ref
  BY <1>1, InPlace
<1>4. SoundAt(id)'
  <2>1. ObjectOf(id)'.ref # 0
    BY <1>1, <1>3
  <2>2. IsQueued(m_closed_ids, id)' <=> IsQueued(m_closed_ids, id)
    BY DEF IsQueued
  <2>3. ~IsQueued(m_closed_ids, id)
    BY <1>1, <1>3, QueuedFacts
  <2>4. QED BY <2>1, <2>2, <2>3 DEF SoundAt
<1>5. /\ RInv'
      /\ Content' = [Content EXCEPT ![id] = ContentOf(id)']
      /\ Refs' = [Refs EXCEPT ![id] = RefsOf(id)']
  BY <1>3, <1>4, LocalStep
<1>6. ContentOf(id)' = HeaderOf(o) /\ RefsOf(id)' = heap[p].ref
  BY <1>3 DEF ContentOf, RefsOf, HeaderOf
<1>7. Refs' = Refs
  BY <1>3, <1>5, <1>6 DEF Refs
<1>8. HeaderOf(o) = HeaderOf(heap[p]) => Content' = Content
  BY <1>3, <1>5, <1>6 DEF Content
<1>9. Logical!OChange(id)
  <2>1. HeaderOf(o) \in [nlink : Nat, attr : Attrs]
    BY DEF HeaderOf, Object
  <2>2. Refs[id] > 0 /\ Content'[id] = HeaderOf(o)
    BY <1>1, <1>3, <1>6, <1>5 DEF Refs, Content
  <2>3. Content' = [Content EXCEPT ![id] = Content'[id]]
    BY <1>5, <1>6, <2>2
  <2>4. QED
    BY <1>7, <2>1, <2>2, <2>3
       DEF Logical!OChange, Logical!NewHeader, Logical!OHeader, Content, Refs,
           ContentOf, RefsOf, ObjectOf
<1>10. QED BY <1>5, <1>7, <1>8, <1>9

(* The abstract steps in terms of what callers see. *)
LEMMA AbstractSteps ==
    ASSUME NEW id \in Ids
    PROVE  /\ Logical!OOpen(id) <=>
                 /\ Content[id] # NoFile
                 /\ Refs' = [Refs EXCEPT ![id] = @ + 1]
                 /\ Content' = Content /\ unsafe' = unsafe
           /\ Logical!OCreate(id) <=>
                 /\ Content[id] = NoFile
                 /\ \E a \in Attrs : Content' = [Content EXCEPT ![id] = [nlink |-> 1, attr |-> a]]
                 /\ Refs' = [Refs EXCEPT ![id] = 1]
                 /\ unsafe' = unsafe
           /\ Logical!Gone(id) <=> (Content[id] # NoFile /\ Content[id].nlink = 0)
           /\ Logical!OClose(id) <=>
                 /\ Refs[id] > 0
                 /\ Refs' = [Refs EXCEPT ![id] = @ - 1]
                 /\ IF Refs[id] = 1
                    THEN /\ Content' = [Content EXCEPT ![id] =
                                          IF Logical!Gone(id) THEN NoFile ELSE @]
                         /\ unsafe' = unsafe \ {id}
                    ELSE Content' = Content /\ unsafe' = unsafe
           /\ Logical!OCloseFails(id) <=>
                 /\ Refs[id] = 1
                 /\ ~Logical!Gone(id)
                 /\ Refs' = [Refs EXCEPT ![id] = 0]
                 /\ unsafe' = unsafe \cup {id}
                 /\ Content' = Content
           /\ Logical!OLose(id) <=>
                 /\ id \in unsafe
                 /\ Refs[id] = 0
                 /\ Content'[id] \in Header
                 /\ Content' = [Content EXCEPT ![id] = Content'[id]]
                 /\ \E n \in {0, 1} : Refs' = [Refs EXCEPT ![id] = n]
                 /\ unsafe' = unsafe
           /\ UNCHANGED Logical!ovars <=> Content' = Content /\ Refs' = Refs /\ unsafe' = unsafe
<1> USE DEF Content, Refs, ContentOf, RefsOf, ObjectOf
<1>1. Logical!OOpen(id) <=>
                 /\ Content[id] # NoFile
                 /\ Refs' = [Refs EXCEPT ![id] = @ + 1]
                 /\ Content' = Content /\ unsafe' = unsafe
  BY DEF Logical!OOpen
<1>2. Logical!OCreate(id) <=>
                 /\ Content[id] = NoFile
                 /\ \E a \in Attrs : Content' = [Content EXCEPT ![id] = [nlink |-> 1, attr |-> a]]
                 /\ Refs' = [Refs EXCEPT ![id] = 1]
                 /\ unsafe' = unsafe
  BY DEF Logical!OCreate
<1>3. Logical!Gone(id) <=> (Content[id] # NoFile /\ Content[id].nlink = 0)
  BY DEF Logical!Gone
<1>4. Logical!OClose(id) <=>
                 /\ Refs[id] > 0
                 /\ Refs' = [Refs EXCEPT ![id] = @ - 1]
                 /\ IF Refs[id] = 1
                    THEN /\ Content' = [Content EXCEPT ![id] =
                                          IF Logical!Gone(id) THEN NoFile ELSE @]
                         /\ unsafe' = unsafe \ {id}
                    ELSE Content' = Content /\ unsafe' = unsafe
  BY DEF Logical!OClose
<1>5. Logical!OCloseFails(id) <=>
                 /\ Refs[id] = 1
                 /\ ~Logical!Gone(id)
                 /\ Refs' = [Refs EXCEPT ![id] = 0]
                 /\ unsafe' = unsafe \cup {id}
                 /\ Content' = Content
  BY DEF Logical!OCloseFails
<1>6. Logical!OLose(id) <=>
                 /\ id \in unsafe
                 /\ Refs[id] = 0
                 /\ Content'[id] \in Header
                 /\ Content' = [Content EXCEPT ![id] = Content'[id]]
                 /\ \E n \in {0, 1} : Refs' = [Refs EXCEPT ![id] = n]
                 /\ unsafe' = unsafe
  BY DEF Logical!OLose, Logical!NewHeader, Logical!OHeader, Header
<1>7. UNCHANGED Logical!ovars <=> Content' = Content /\ Refs' = Refs /\ unsafe' = unsafe
  BY DEF Logical!ovars
<1>8. QED BY <1>1, <1>2, <1>3, <1>4, <1>5, <1>6, <1>7

(* The two ways to close. *)
LEMMA AbstractClose ==
    ASSUME NEW id \in Ids
    PROVE  /\ (/\ Refs[id] \in Nat /\ Refs[id] > 1
               /\ Refs' = [Refs EXCEPT ![id] = @ - 1]
               /\ Content' = Content /\ unsafe' = unsafe) => Logical!OClose(id)
           /\ (/\ Refs[id] = 1
               /\ Refs' = [Refs EXCEPT ![id] = 0]
               /\ Content' = [Content EXCEPT ![id] = IF Logical!Gone(id) THEN NoFile ELSE @]
               /\ unsafe' = unsafe \ {id}) => Logical!OClose(id)
BY AbstractSteps

(* A step of the table keeps RInv and is an abstract step or a stutter. *)
Refines == RInv' /\ (Logical!ONext \/ UNCHANGED Logical!ovars)

(* Changing an open file is the abstract change. *)
LEMMA SetAttrRefines ==
    ASSUME RInv, NEW p \in Ptrs, NEW a \in Attrs, SetAttr(p, a)
    PROVE  Refines
<1> DEFINE o == [heap[p] EXCEPT !.attr = a, !.dirty = TRUE]
<1>1. held[p] > 0 /\ heap[p] \in Object /\ heap[p].id \in Ids
  BY HeldIsLive DEF SetAttr, RInv, Object
<1>2. o \in Object /\ o.ref = heap[p].ref
  BY <1>1 DEF Object
<1>3. PICK id \in Ids : id = heap[p].id
  BY <1>1
<1>4. heap' = [heap EXCEPT ![p] = o] /\ disk' = [disk EXCEPT ![id] = disk[id]]
  BY DEF SetAttr, RInv, IInv, TypeOK
<1>5. IInv' /\ UNCHANGED <<m_files, m_closed_ids, unsafe>>
  BY SetAttrIInv DEF SetAttr, RInv
<1> HIDE DEF o
<1>6. RInv' /\ (Content' = Content \/ \E i \in Ids : Logical!OChange(i)) /\ Refs' = Refs
  BY <1>1, <1>2, <1>3, <1>4, <1>5, HolderRefines
<1>7. QED
  BY <1>5, <1>3, <1>6, AbstractSteps DEF Refines, Logical!ONext

(* One link more is one link more in the abstract file. *)
LEMMA LinkRefines ==
    ASSUME RInv, NEW p \in Ptrs, Link(p)
    PROVE  Refines
<1> DEFINE n == heap[p].nlink + 1
           o == [heap[p] EXCEPT !.nlink = n, !.dirty = TRUE]
<1>1. held[p] > 0 /\ heap[p] \in Object /\ heap[p].id \in Ids
  BY HeldIsLive DEF Link, RInv, Object
<1>2. o \in Object /\ o.ref = heap[p].ref
  <2>1. n \in Nat
    BY <1>1 DEF Object
  <2> HIDE DEF n
  <2>2. QED BY <1>1, <2>1 DEF Object
<1>3. PICK id \in Ids : id = heap[p].id
  BY <1>1
<1>4. heap' = [heap EXCEPT ![p] = o] /\ disk' = [disk EXCEPT ![id] = disk[id]]
  BY DEF Link, RInv, IInv, TypeOK
<1>5. IInv' /\ UNCHANGED <<m_files, m_closed_ids, unsafe>>
  BY LinkIInv DEF Link, RInv
<1> HIDE DEF o
<1>6. RInv' /\ (Content' = Content \/ \E i \in Ids : Logical!OChange(i)) /\ Refs' = Refs
  BY <1>1, <1>2, <1>3, <1>4, <1>5, HolderRefines
<1>7. QED
  BY <1>5, <1>3, <1>6, AbstractSteps DEF Refines, Logical!ONext

(* One link less is one link less in the abstract file. *)
LEMMA UnlinkRefines ==
    ASSUME RInv, NEW p \in Ptrs, Unlink(p)
    PROVE  Refines
<1> DEFINE n == heap[p].nlink - 1
           o == [heap[p] EXCEPT !.nlink = n, !.dirty = TRUE]
<1>1. held[p] > 0 /\ heap[p] \in Object /\ heap[p].id \in Ids /\ heap[p].nlink > 0
  BY HeldIsLive DEF Unlink, RInv, Object
<1>2. o \in Object /\ o.ref = heap[p].ref
  <2>1. n \in Nat
    BY <1>1 DEF Object
  <2> HIDE DEF n
  <2>2. QED BY <1>1, <2>1 DEF Object
<1>3. PICK id \in Ids : id = heap[p].id
  BY <1>1
<1>4. heap' = [heap EXCEPT ![p] = o] /\ disk' = [disk EXCEPT ![id] = disk[id]]
  BY DEF Unlink, RInv, IInv, TypeOK
<1>5. IInv' /\ UNCHANGED <<m_files, m_closed_ids, unsafe>>
  BY UnlinkIInv DEF Unlink, RInv
<1> HIDE DEF o
<1>6. RInv' /\ (Content' = Content \/ \E i \in Ids : Logical!OChange(i)) /\ Refs' = Refs
  BY <1>1, <1>2, <1>3, <1>4, <1>5, HolderRefines
<1>7. QED
  BY <1>5, <1>3, <1>6, AbstractSteps DEF Refines, Logical!ONext

(* A flush is the abstract flush. *)
LEMMA FlushRefines ==
    ASSUME RInv, NEW p \in Ptrs, Flush(p)
    PROVE  Refines
<1> DEFINE o == [heap[p] EXCEPT !.dirty = FALSE]
           d == DiskAfterFlush(heap[p])
<1>1. held[p] > 0 /\ heap[p] \in Object /\ heap[p].id \in Ids
  BY HeldIsLive DEF Flush, RInv, Object
<1>2. o \in Object /\ o.ref = heap[p].ref /\ HeaderOf(o) = HeaderOf(heap[p])
  BY <1>1 DEF Object, HeaderOf
<1>3. PICK id \in Ids : id = heap[p].id
  BY <1>1
<1>4. heap' = [heap EXCEPT ![p] = o] /\ disk' = [disk EXCEPT ![id] = d]
  BY <1>3 DEF Flush, Flushed
<1>5. IInv' /\ UNCHANGED <<m_files, m_closed_ids, unsafe>>
  BY FlushIInv DEF Flush, RInv
<1> HIDE DEF o, d
<1>6. RInv' /\ Content' = Content /\ Refs' = Refs
  BY <1>1, <1>2, <1>3, <1>4, <1>5, HolderRefines
<1>7. QED
  BY <1>5, <1>3, <1>6, AbstractSteps DEF Refines

-----------------------------------------------------------------------------
(* Reopening takes the file, and no other, out of the queue. *)
LEMMA OthersStayQueued ==
    ASSUME RInv, NEW id \in Ids, m_closed_ids' = RemoveClosed(m_closed_ids, id)
    PROVE  /\ ~IsQueued(m_closed_ids', id)
           /\ \A i \in Ids : i # id =>
                 (IsQueued(m_closed_ids, i) <=> IsQueued(m_closed_ids', i))
<1>1. m_closed_ids \in Seq(Ids) /\ NoDuplicates(m_closed_ids)
  BY DEF RInv, IInv, TypeOK, ClosedQueueSound, NoDuplicates
<1> DEFINE r == RemoveClosed(m_closed_ids, id)
<1>2. /\ \A i \in 1..Len(r) : r[i] # id /\ \E j \in 1..Len(m_closed_ids) : r[i] = m_closed_ids[j]
      /\ \A j \in 1..Len(m_closed_ids) : m_closed_ids[j] # id =>
             \E i \in 1..Len(r) : r[i] = m_closed_ids[j]
  BY <1>1, RemoveClosedFacts, Zenon
<1> HIDE DEF r
<1>3. m_closed_ids' = r
  BY DEF r
<1>4. QED
  BY <1>2, <1>3, Zenon, SMTT(30) DEF IsQueued

(* Opening a file that is still in the cache is an abstract open. *)
LEMMA OpenCachedRefines ==
    ASSUME RInv, NEW id \in Ids, NEW t \in Types, OpenCached(id, t)
    PROVE  Refines
<1> DEFINE p == m_files[id]
           o == [heap[p] EXCEPT !.ref = heap[p].ref + 1]
<1>1. /\ p \in Ptrs /\ heap[p] # Freed /\ heap[p] \in Object /\ heap[p].id = id
      /\ IsCached(id) /\ heap[p].ref \in Nat
  BY DEF OpenCached, IsCached, RInv, IInv, TypeOK, Linked, Object
<1>2. /\ heap' = [heap EXCEPT ![p] = o]
      /\ disk' = [disk EXCEPT ![id] = disk[id]]
      /\ m_files' = m_files /\ unsafe' = unsafe
      /\ m_closed_ids' = RemoveClosed(m_closed_ids, id)
  BY DEF OpenCached, RInv, IInv, TypeOK
<1>3. o.ref = heap[p].ref + 1 /\ HeaderOf(o) = HeaderOf(heap[p])
  BY <1>1 DEF HeaderOf, Object
<1>4. IInv'
  BY OpenCachedIInv DEF RInv
<1>5. PICK q \in Ptrs : q = p
  BY <1>1
<1> HIDE DEF o, p
<1>6. /\ Elsewhere(id)
      /\ IsCached(id) /\ ObjectOf(id) = heap[p]
      /\ IsCached(id)' /\ (ObjectOf(id))' = o
      /\ ContentOf(id) = HeaderOf(heap[p])
      /\ RefsOf(id) = heap[p].ref
  BY <1>1, <1>2, <1>5, OthersStayQueued, InPlace
<1>7. SoundAt(id)'
  <2>1. ObjectOf(id)'.ref # 0
    BY <1>1, <1>3, <1>6
  <2>2. ~IsQueued(m_closed_ids, id)'
    BY <1>2, OthersStayQueued
  <2>3. QED BY <2>1, <2>2 DEF SoundAt
<1>8. /\ RInv'
      /\ Content' = [Content EXCEPT ![id] = ContentOf(id)']
      /\ Refs' = [Refs EXCEPT ![id] = RefsOf(id)']
  BY <1>4, <1>6, <1>7, LocalStep
<1>9. ContentOf(id)' = HeaderOf(heap[p]) /\ RefsOf(id)' = heap[p].ref + 1
  BY <1>3, <1>6 DEF ContentOf, RefsOf, HeaderOf
<1>10. Content' = Content /\ Refs' = [Refs EXCEPT ![id] = @ + 1]
  BY <1>6, <1>8, <1>9 DEF Content, Refs
<1>11. Content[id] # NoFile
  BY <1>1, <1>6, LiveObject, SentinelsAreNotData DEF Content, RInv
<1>12. Logical!OOpen(id)
  BY <1>2, <1>10, <1>11, AbstractSteps
<1>13. QED
  BY <1>8, <1>12 DEF Refines, Logical!ONext

(* The object of id, if there is one, goes, and perhaps another comes. *)
LEMMA OthersStay ==
    ASSUME RInv, NEW id \in Ids,
           \A q \in Ptrs : HeapWithout(id)[q] # Freed => heap'[q] = heap[q],
           \A i \in Ids : i # id =>
               /\ m_files'[i] = m_files[i]
               /\ disk'[i] = disk[i]
               /\ i \in unsafe' <=> i \in unsafe
               /\ IsQueued(m_closed_ids, i) <=> IsQueued(m_closed_ids', i)
    PROVE  Elsewhere(id)
<1> SUFFICES ASSUME NEW i \in Ids, i # id, IsCached(i)
             PROVE  heap'[m_files[i]] = heap[m_files[i]]
  BY DEF Elsewhere, Kept
<1>1. m_files[i] \in Ptrs /\ heap[m_files[i]] # Freed /\ heap[m_files[i]].id = i
  BY DEF RInv, IInv, Linked, TypeOK, IsCached
<1>2. m_files[i] # m_files[id]
  <2>1. IsCached(id) => heap[m_files[id]].id = id
    BY DEF RInv, IInv, Linked
  <2>2. QED BY <1>1, <2>1 DEF IsCached
<1>3. HeapWithout(id)[m_files[i]] = heap[m_files[i]]
  BY <1>1, <1>2 DEF HeapWithout
<1>4. QED BY <1>1, <1>3

(* What the object that open_as destroys leaves: an unreferenced file, whose
   header is the one on disk unless a write-back failed.                     *)
LEMMA BeforeLoad ==
    ASSUME RInv, NEW id \in Ids, NEW t, MustLoad(id, t), disk[id] # NoFile
    PROVE  /\ RefsOf(id) = 0
           /\ ContentOf(id) \in Header
           /\ ReadHeader(disk[id]) \in Header
           /\ id \notin unsafe => ContentOf(id) = ReadHeader(disk[id])
<1>1. ReadHeader(disk[id]) \in Header
  BY Bounds, Sentinels DEF RInv, IInv, TypeOK, ReadHeader, BlankHeader, Header
<1>2. CASE ~IsCached(id)
  BY <1>1, <1>2 DEF RefsOf, ContentOf
<1>3. CASE IsCached(id)
  <2>1. m_files[id] \in Ptrs /\ ObjectOf(id) # Freed /\ ObjectOf(id).id = id
    BY <1>3 DEF RInv, IInv, TypeOK, Linked, IsCached, ObjectOf
  <2>2. ObjectOf(id).ref = 0
    BY <1>3 DEF MustLoad, ObjectOf
  <2>3. /\ HeaderOf(ObjectOf(id)) \in Header
        /\ ~ObjectOf(id).dirty => disk[id] = HeaderOf(ObjectOf(id))
    BY <2>1, LiveObject DEF ObjectOf, RInv
  <2>4. id \notin unsafe => disk[id] = HeaderOf(ObjectOf(id))
    BY <1>3, <2>2, <2>3 DEF RInv, IdleIsWritten
  <2>5. HeaderOf(ObjectOf(id)) # Blank
    BY <2>3, SentinelsAreNotData
  <2>6. QED
    BY <1>1, <1>3, <2>2, <2>3, <2>4, <2>5 DEF RefsOf, ContentOf, ReadHeader
<1>4. QED BY <1>2, <1>3

(* An open that fails leaves the abstract files alone. *)
LEMMA OpenFailsRefines ==
    ASSUME RInv, NEW id \in Ids, NEW t \in Types, OpenFails(id, t)
    PROVE  Refines
<1>1. /\ MustLoad(id, t)
      /\ m_closed_ids' = RemoveClosed(m_closed_ids, id)
      /\ heap' = HeapWithout(id)
      /\ m_files' = [m_files EXCEPT ![id] = Null]
      /\ disk' = disk /\ unsafe' = unsafe
      /\ m_files \in [Ids -> Ptrs \cup {Null}]
  BY DEF OpenFails, RInv, IInv, TypeOK
<1>2. IInv'
  BY OpenFailsIInv DEF RInv
<1>3. Elsewhere(id)
  <2>1. \A q \in Ptrs : HeapWithout(id)[q] # Freed => heap'[q] = heap[q]
    BY <1>1 DEF HeapWithout
  <2>2. QED BY <1>1, <2>1, OthersStayQueued, OthersStay
<1>4. ~IsCached(id)' /\ ~IsQueued(m_closed_ids, id)'
  BY <1>1, OthersStayQueued DEF IsCached
<1>5. SoundAt(id)'
  BY <1>4 DEF SoundAt
<1>6. /\ RInv'
      /\ Content' = [Content EXCEPT ![id] = ContentOf(id)']
      /\ Refs' = [Refs EXCEPT ![id] = RefsOf(id)']
  BY <1>2, <1>3, <1>5, LocalStep
<1>7. ContentOf(id)' = ReadHeader(disk[id]) /\ RefsOf(id)' = 0
  BY <1>1, <1>4 DEF ContentOf, RefsOf, ReadHeader
<1>8. CASE ~IsCached(id)
  <2>1. ContentOf(id) = ReadHeader(disk[id]) /\ RefsOf(id) = 0
    BY <1>8 DEF ContentOf, RefsOf
  <2>2. Content' = Content /\ Refs' = Refs
    BY <1>6, <1>7, <2>1 DEF Content, Refs
  <2>3. QED BY <1>1, <1>6, <2>2, AbstractSteps DEF Refines
<1>9. CASE IsCached(id)
  <2>1. disk[id] # NoFile
    <3>1. m_files[id] \in Ptrs /\ heap[m_files[id]] # Freed /\ heap[m_files[id]].id = id
      BY <1>9 DEF RInv, IInv, TypeOK, Linked, IsCached
    <3>2. QED BY <3>1 DEF RInv, IInv, CleanAgreesWithDisk
  <2>2. /\ RefsOf(id) = 0
        /\ ReadHeader(disk[id]) \in Header
        /\ id \notin unsafe => ContentOf(id) = ReadHeader(disk[id])
    BY <1>1, <2>1, BeforeLoad
  <2>3. Refs' = Refs /\ Refs' = [Refs EXCEPT ![id] = 0] /\ Refs[id] = 0
    BY <1>6, <1>7, <2>2 DEF Refs
  <2>4. CASE id \notin unsafe
    <3>1. Content' = Content
      BY <1>6, <1>7, <2>2, <2>4 DEF Content
    <3>2. QED BY <1>1, <1>6, <2>3, <3>1, AbstractSteps DEF Refines
  <2>5. CASE id \in unsafe
    <3>1. Content'[id] = ReadHeader(disk[id]) /\ Content' = [Content EXCEPT ![id] = Content'[id]]
      BY <1>6, <1>7 DEF Content
    <3>2. Logical!OLose(id)
      BY <1>1, <2>2, <2>3, <2>5, <3>1, AbstractSteps
    <3>3. QED BY <1>6, <3>2 DEF Refines, Logical!ONext
  <2>6. QED BY <2>4, <2>5
<1>10. QED BY <1>8, <1>9

(* Opening a file from disk is an abstract open. *)
LEMMA OpenLoadRefines ==
    ASSUME RInv, NEW id \in Ids, NEW t \in Types, NEW p \in Ptrs, OpenLoad(id, t, p)
    PROVE  Refines
<1> DEFINE o == NewObject(id, t, ReadHeader(disk[id]), disk[id] = Blank)
<1>1. /\ MustLoad(id, t) /\ disk[id] # NoFile
      /\ HeapWithout(id)[p] = Freed
      /\ m_closed_ids' = RemoveClosed(m_closed_ids, id)
      /\ heap' = [HeapWithout(id) EXCEPT ![p] = o]
      /\ m_files' = [m_files EXCEPT ![id] = p]
      /\ disk' = disk /\ unsafe' = unsafe
      /\ m_files \in [Ids -> Ptrs \cup {Null}]
      /\ p # Null
  BY Sentinels DEF OpenLoad, RInv, IInv, TypeOK
<1>2. /\ RefsOf(id) = 0
      /\ ContentOf(id) \in Header
      /\ ReadHeader(disk[id]) \in Header
      /\ id \notin unsafe => ContentOf(id) = ReadHeader(disk[id])
  BY <1>1, BeforeLoad
<1>3. o.ref = 1 /\ HeaderOf(o) = ReadHeader(disk[id])
  BY <1>2 DEF NewObject, HeaderOf, Header
<1> HIDE DEF o
<1>4. IInv'
  BY OpenLoadIInv DEF RInv
<1>5. Elsewhere(id)
  <2>1. \A q \in Ptrs : HeapWithout(id)[q] # Freed => heap'[q] = heap[q]
    BY <1>1 DEF HeapWithout
  <2>2. QED BY <1>1, <2>1, OthersStayQueued, OthersStay
<1>6. /\ IsCached(id)' /\ (ObjectOf(id))' = o
      /\ ~IsQueued(m_closed_ids, id)'
  BY <1>1, OthersStayQueued DEF IsCached, ObjectOf, HeapWithout
<1>7. SoundAt(id)'
  BY <1>3, <1>6 DEF SoundAt
<1>8. /\ RInv'
      /\ Content' = [Content EXCEPT ![id] = ContentOf(id)']
      /\ Refs' = [Refs EXCEPT ![id] = RefsOf(id)']
  BY <1>4, <1>5, <1>7, LocalStep
<1>9. ContentOf(id)' = ReadHeader(disk[id]) /\ RefsOf(id)' = 1
  BY <1>3, <1>6 DEF ContentOf, RefsOf, HeaderOf
<1>10. Refs' = [Refs EXCEPT ![id] = 1] /\ Refs[id] = 0
  BY <1>2, <1>8, <1>9 DEF Refs
<1>11. CASE id \notin unsafe
  <2>1. Content' = Content /\ Content[id] # NoFile
    BY <1>2, <1>8, <1>9, <1>11, SentinelsAreNotData DEF Content
  <2>2. Refs' = [Refs EXCEPT ![id] = @ + 1]
    BY <1>10
  <2>3. Logical!OOpen(id)
    BY <1>1, <2>1, <2>2, AbstractSteps
  <2>4. QED BY <1>8, <2>3 DEF Refines, Logical!ONext
<1>12. CASE id \in unsafe
  <2>1. Content'[id] = ReadHeader(disk[id]) /\ Content' = [Content EXCEPT ![id] = Content'[id]]
    BY <1>8, <1>9 DEF Content
  <2>2. Logical!OLose(id)
    BY <1>1, <1>2, <1>10, <1>12, <2>1, AbstractSteps
  <2>3. QED BY <1>8, <2>2 DEF Refines, Logical!ONext
<1>13. QED BY <1>11, <1>12

(* Creating a file is the abstract creation. *)
LEMMA CreateAsRefines ==
    ASSUME RInv, NEW id \in Ids, NEW p \in Ptrs, NEW a \in Attrs, CreateAs(id, p, a)
    PROVE  Refines
<1> DEFINE h == [nlink |-> 1, attr |-> a]
           o == NewObject(id, "REAL", h, TRUE)
<1>1. /\ ~IsCached(id) /\ disk[id] = NoFile /\ heap[p] = Freed
      /\ disk' = [disk EXCEPT ![id] = Blank]
      /\ heap' = [heap EXCEPT ![p] = o]
      /\ m_files' = [m_files EXCEPT ![id] = p]
      /\ m_closed_ids' = m_closed_ids /\ unsafe' = unsafe
      /\ m_files \in [Ids -> Ptrs \cup {Null}]
      /\ heap \in [Ptrs -> {Freed} \cup Object]
      /\ disk \in [Ids -> {NoFile, Blank} \cup Header]
      /\ p # Null
  BY Sentinels DEF CreateAs, RInv, IInv, TypeOK
<1>2. o.ref = 1 /\ HeaderOf(o) = h
  BY DEF NewObject, HeaderOf
<1> HIDE DEF o
<1>3. IInv'
  BY CreateAsIInv DEF RInv
<1>4. Elsewhere(id)
  <2>1. \A q \in Ptrs : HeapWithout(id)[q] # Freed => heap'[q] = heap[q]
    BY <1>1 DEF HeapWithout
  <2>2. QED BY <1>1, <2>1, OthersStay
<1>5. IsCached(id)' /\ (ObjectOf(id))' = o
  BY <1>1 DEF IsCached, ObjectOf
<1>6. SoundAt(id)'
  <2>1. ~IsQueued(m_closed_ids, id)
    BY <1>1, QueuedFacts
  <2>2. QED BY <1>1, <1>2, <1>5, <2>1 DEF SoundAt, IsQueued
<1>7. /\ RInv'
      /\ Content' = [Content EXCEPT ![id] = ContentOf(id)']
      /\ Refs' = [Refs EXCEPT ![id] = RefsOf(id)']
  BY <1>3, <1>4, <1>6, LocalStep
<1>8. ContentOf(id)' = h /\ RefsOf(id)' = 1
  BY <1>2, <1>5 DEF ContentOf, RefsOf, HeaderOf
<1>9. Content[id] = NoFile
  BY <1>1, Sentinels DEF Content, ContentOf, ReadHeader
<1>10. Logical!OCreate(id)
  <2>1. Content' = [Content EXCEPT ![id] = [nlink |-> 1, attr |-> a]]
    BY <1>7, <1>8
  <2>2. Refs' = [Refs EXCEPT ![id] = 1]
    BY <1>7, <1>8
  <2>3. QED BY <1>1, <1>9, <2>1, <2>2, AbstractSteps
<1>11. QED
  BY <1>7, <1>10 DEF Refines, Logical!ONext

-----------------------------------------------------------------------------
(* A close that is not the last one drops a reference. *)
LEMMA CloseSharedRefines ==
    ASSUME RInv, NEW p \in Ptrs, CloseShared(p)
    PROVE  Refines
<1> DEFINE n == heap[p].ref - 1
           o == [heap[p] EXCEPT !.ref = n]
<1>1. /\ heap[p] # Freed /\ heap[p] \in Object /\ heap[p].id \in Ids
      /\ heap[p].ref \in Nat /\ heap[p].ref > 1
  BY HeldIsLive DEF CloseShared, RInv, Object
<1>2. PICK id \in Ids : id = heap[p].id
  BY <1>1
<1>3. n \in Nat /\ n > 0
  BY <1>1
<1>4. o.ref = n /\ HeaderOf(o) = HeaderOf(heap[p])
  BY <1>1 DEF HeaderOf, Object
<1>5. /\ heap' = [heap EXCEPT ![p] = o] /\ disk' = [disk EXCEPT ![id] = disk[id]]
      /\ m_files' = m_files /\ m_closed_ids' = m_closed_ids /\ unsafe' = unsafe
  BY DEF CloseShared, RInv, IInv, TypeOK
<1>6. IInv'
  BY CloseSharedIInv DEF RInv
<1> HIDE DEF o
<1>7. /\ Elsewhere(id)
      /\ IsCached(id) /\ ObjectOf(id) = heap[p]
      /\ IsCached(id)' /\ (ObjectOf(id))' = o
      /\ ContentOf(id) = HeaderOf(heap[p])
      /\ RefsOf(id) = heap[p].ref
  BY <1>1, <1>2, <1>5, InPlace
<1>8. SoundAt(id)'
  <2>1. ~IsQueued(m_closed_ids, id)
    BY <1>1, <1>7, QueuedFacts
  <2>2. QED BY <1>3, <1>4, <1>5, <1>7, <2>1 DEF SoundAt, IsQueued
<1>9. /\ RInv'
      /\ Content' = [Content EXCEPT ![id] = ContentOf(id)']
      /\ Refs' = [Refs EXCEPT ![id] = RefsOf(id)']
  BY <1>6, <1>7, <1>8, LocalStep
<1>10. ContentOf(id)' = HeaderOf(heap[p]) /\ RefsOf(id)' = n
  BY <1>4, <1>7 DEF ContentOf, RefsOf, HeaderOf
<1>11. /\ Content' = Content /\ Refs' = [Refs EXCEPT ![id] = @ - 1]
       /\ Refs[id] \in Nat /\ Refs[id] > 1
  BY <1>1, <1>7, <1>9, <1>10 DEF Content, Refs
<1>12. Logical!OClose(id)
  BY <1>5, <1>11, AbstractClose
<1>13. QED
  BY <1>9, <1>12 DEF Refines, Logical!ONext

(* A last close whose flush throws. *)
LEMMA CloseFlushFailsRefines ==
    ASSUME RInv, NEW p \in Ptrs, NEW wrote \in BOOLEAN, CloseFlushFails(p, wrote)
    PROVE  Refines
<1>1. /\ heap[p] # Freed /\ heap[p] \in Object /\ heap[p].id \in Ids
      /\ heap[p].ref = 1 /\ heap[p].nlink # 0
  BY HeldIsLive DEF CloseFlushFails, IsUnlinked, RInv, Object
<1>2. PICK id \in Ids : id = heap[p].id
  BY <1>1
<1> DEFINE o == [heap[p] EXCEPT !.ref = 0, !.dirty = @ /\ ~wrote]
           d == IF wrote THEN DiskAfterFlush(heap[p]) ELSE disk[id]
<1>3. o.ref = 0 /\ HeaderOf(o) = HeaderOf(heap[p])
  BY <1>1 DEF HeaderOf, Object
<1>4. /\ heap' = [heap EXCEPT ![p] = o]
      /\ disk' = [disk EXCEPT ![id] = d]
      /\ m_files' = m_files /\ m_closed_ids' = m_closed_ids
      /\ unsafe' = unsafe \cup {id}
  BY <1>1, <1>2 DEF CloseFlushFails, RInv, IInv, TypeOK
<1>5. IInv'
  BY CloseFlushFailsIInv DEF RInv
<1> HIDE DEF o, d
<1>6. /\ Elsewhere(id)
      /\ IsCached(id) /\ ObjectOf(id) = heap[p]
      /\ IsCached(id)' /\ (ObjectOf(id))' = o
      /\ ContentOf(id) = HeaderOf(heap[p])
      /\ RefsOf(id) = heap[p].ref
  BY <1>1, <1>2, <1>4, InPlace
<1>7. SoundAt(id)'
  <2>1. ~IsQueued(m_closed_ids, id)
    BY <1>1, <1>6, QueuedFacts
  <2>2. QED BY <1>4, <2>1 DEF SoundAt, IsQueued
<1>8. /\ RInv'
      /\ Content' = [Content EXCEPT ![id] = ContentOf(id)']
      /\ Refs' = [Refs EXCEPT ![id] = RefsOf(id)']
  BY <1>5, <1>6, <1>7, LocalStep
<1>9. ContentOf(id)' = HeaderOf(heap[p]) /\ RefsOf(id)' = 0
  BY <1>3, <1>6 DEF ContentOf, RefsOf, HeaderOf
<1>10. /\ Content' = Content /\ Refs' = [Refs EXCEPT ![id] = 0]
       /\ Refs[id] = 1 /\ Content[id].nlink # 0
  <2>1. Content' = Content /\ Content[id] = HeaderOf(heap[p])
    BY <1>6, <1>8, <1>9 DEF Content
  <2>2. Refs' = [Refs EXCEPT ![id] = 0] /\ Refs[id] = 1
    BY <1>1, <1>6, <1>8, <1>9 DEF Refs
  <2>3. HeaderOf(heap[p]).nlink = heap[p].nlink
    BY DEF HeaderOf
  <2>4. QED BY <1>1, <2>1, <2>2, <2>3
<1>11. Logical!OCloseFails(id)
  BY <1>4, <1>10, AbstractSteps
<1>12. QED
  BY <1>8, <1>11 DEF Refines, Logical!ONext

(* The last close of an unlinked file removes it. *)
LEMMA CloseUnlinkedRefines ==
    ASSUME RInv, NEW p \in Ptrs, CloseUnlinked(p)
    PROVE  Refines
<1>1. /\ heap[p] # Freed /\ heap[p] \in Object /\ heap[p].id \in Ids
      /\ heap[p].ref = 1 /\ heap[p].nlink = 0 /\ m_files[heap[p].id] = p
  BY HeldIsLive DEF CloseUnlinked, IsUnlinked, RInv, Object
<1>2. PICK id \in Ids : id = heap[p].id
  BY <1>1
<1>3. /\ disk' = [disk EXCEPT ![id] = NoFile]
      /\ m_files' = [m_files EXCEPT ![id] = Null]
      /\ heap' = [heap EXCEPT ![p] = Freed]
      /\ unsafe' = unsafe \ {id} /\ m_closed_ids' = m_closed_ids
      /\ m_files \in [Ids -> Ptrs \cup {Null}]
      /\ heap \in [Ptrs -> {Freed} \cup Object]
      /\ disk \in [Ids -> {NoFile, Blank} \cup Header]
      /\ p # Null /\ m_files[id] = p
  BY <1>1, <1>2, Sentinels DEF CloseUnlinked, RInv, IInv, TypeOK
<1>4. IInv'
  BY CloseUnlinkedIInv DEF RInv
<1>5. Elsewhere(id)
  <2>1. \A q \in Ptrs : HeapWithout(id)[q] # Freed => heap'[q] = heap[q]
    BY <1>3 DEF HeapWithout
  <2>2. QED BY <1>3, <2>1, OthersStay
<1>6. IsCached(id) /\ ObjectOf(id) = heap[p] /\ ~IsCached(id)' /\ disk'[id] = NoFile
  BY <1>3 DEF IsCached, ObjectOf
<1>7. SoundAt(id)'
  <2>1. ~IsQueued(m_closed_ids, id)
    BY <1>1, <1>6, QueuedFacts
  <2>2. QED BY <1>3, <1>6, <2>1 DEF SoundAt, IsQueued
<1>8. /\ RInv'
      /\ Content' = [Content EXCEPT ![id] = ContentOf(id)']
      /\ Refs' = [Refs EXCEPT ![id] = RefsOf(id)']
  BY <1>4, <1>5, <1>7, LocalStep
<1>9. ContentOf(id)' = NoFile /\ RefsOf(id)' = 0
  BY <1>6, Sentinels DEF ContentOf, RefsOf, ReadHeader
<1>10. /\ Content[id] = HeaderOf(heap[p]) /\ Refs[id] = 1
       /\ Content[id] # NoFile /\ Content[id].nlink = 0
  <2>1. HeaderOf(heap[p]) \in Header
    BY <1>1, LiveObject DEF RInv
  <2>2. Content[id] = HeaderOf(heap[p]) /\ Refs[id] = 1
    BY <1>1, <1>6 DEF Content, Refs, ContentOf, RefsOf
  <2>3. QED BY <1>1, <2>1, <2>2, SentinelsAreNotData DEF HeaderOf
<1>11. Logical!OClose(id)
  <2>1. Logical!Gone(id)
    BY <1>10, AbstractSteps
  <2>2. Content' = [Content EXCEPT ![id] = NoFile] /\ Refs' = [Refs EXCEPT ![id] = 0]
    BY <1>8, <1>9
  <2>3. QED BY <1>3, <1>10, <2>1, <2>2, AbstractClose
<1>12. QED
  BY <1>8, <1>11 DEF Refines, Logical!ONext

(* The last reference to a linked file goes: it joins the queue with its
   header on disk, and gc evicts from the queue what it evicts.              *)
LEMMA CloseLinkedRefines ==
    ASSUME RInv, NEW p \in Ptrs, CloseLinked(p)
    PROVE  Refines
<1>1. /\ heap[p] # Freed /\ heap[p] \in Object /\ heap[p].id \in Ids
      /\ heap[p].ref = 1 /\ heap[p].nlink # 0 /\ m_files[heap[p].id] = p
      /\ HeaderOf(heap[p]) \in Header /\ p # Null
  BY HeldIsLive, LiveObject, Sentinels DEF CloseLinked, IsUnlinked, RInv, Object
<1>2. PICK id \in Ids : id = heap[p].id
  BY <1>1
<1> DEFINE o     == [Flushed(heap[p]) EXCEPT !.ref = 0]
           h     == HeaderOf(heap[p])
           queue == Append(m_closed_ids, id)
           V     == Victims(queue)
           r     == SubSeq(queue, NumEject(queue) + 1, Len(queue))
<1>3. o.ref = 0 /\ ~o.dirty /\ HeaderOf(o) = h
  BY <1>1 DEF HeaderOf, Object, Flushed
<1>4. /\ disk' = [disk EXCEPT ![id] = h]
      /\ m_closed_ids' = r
      /\ m_files' = [i \in Ids |-> IF i \in V THEN Null ELSE m_files[i]]
      /\ heap' = [q \in Ptrs |-> IF \E i \in V : m_files[i] = q THEN Freed
                                 ELSE [heap EXCEPT ![p] = o][q]]
      /\ unsafe' = unsafe \ {id}
  <2>1. DiskAfterFlush(heap[p]) = h
    BY <1>1, FlushFacts DEF RInv
  <2>2. queue = Append(m_closed_ids, heap[p].id)
    BY <1>2
  <2> HIDE DEF h, queue
  <2>3. m_files' = [i \in Ids |-> IF i \in V THEN Null ELSE m_files[i]]
    BY <2>2 DEF CloseLinked
  <2>4. heap' = [q \in Ptrs |-> IF \E i \in V : m_files[i] = q THEN Freed
                               ELSE [heap EXCEPT ![p] = o][q]]
    BY <2>2 DEF CloseLinked
  <2>5. disk' = [disk EXCEPT ![id] = h] /\ m_closed_ids' = r /\ unsafe' = unsafe \ {id}
    BY <1>2, <2>1, <2>2 DEF CloseLinked
  <2>6. QED BY <2>3, <2>4, <2>5
<1>5. /\ m_closed_ids \in Seq(Ids) /\ Len(m_closed_ids) < MAX_NUM_CLOSED
      /\ NoDuplicates(m_closed_ids)
      /\ heap \in [Ptrs -> {Freed} \cup Object]
      /\ disk \in [Ids -> {NoFile, Blank} \cup Header]
      /\ m_files \in [Ids -> Ptrs \cup {Null}]
  BY DEF RInv, IInv, TypeOK, ClosedQueueSound, NoDuplicates
<1>6. ~IsQueued(m_closed_ids, id) /\ IsCached(id) /\ ObjectOf(id) = heap[p]
  <2>1. IsCached(id) /\ ObjectOf(id) = heap[p]
    BY <1>1, <1>2 DEF IsCached, ObjectOf
  <2>2. QED BY <1>1, <2>1, QueuedFacts
<1>7. /\ queue \in Seq(Ids) /\ Len(queue) = Len(m_closed_ids) + 1
      /\ \A i \in 1..Len(m_closed_ids) : queue[i] = m_closed_ids[i]
      /\ queue[Len(m_closed_ids) + 1] = id
  BY <1>5
<1>8. Len(queue) <= MAX_NUM_CLOSED
  BY <1>5, <1>7, TableSizes
<1> HIDE DEF queue
<1>9. NoDuplicates(queue)
  BY <1>5, <1>6, <1>7 DEF NoDuplicates, IsQueued
<1>10. /\ \A i \in 1..Len(r) : /\ r[i] \notin V
                               /\ \E j \in 1..Len(queue) : r[i] = queue[j]
       /\ \A j \in 1..Len(queue) : queue[j] \notin V => \E i \in 1..Len(r) : r[i] = queue[j]
       /\ \A v \in V : v \in Ids /\ \E j \in 1..Len(queue) : v = queue[j]
  BY <1>7, <1>8, <1>9, EjectFacts, Zenon
<1> HIDE DEF V, r, o, h
<1>11. \A i \in Ids : (\E j \in 1..Len(queue) : queue[j] = i) <=> (i = id \/ IsQueued(m_closed_ids, i))
  <2> SUFFICES ASSUME NEW i \in Ids
               PROVE  (\E j \in 1..Len(queue) : queue[j] = i) <=> (i = id \/ IsQueued(m_closed_ids, i))
    OBVIOUS
  <2>0. Len(m_closed_ids) \in Nat
    BY <1>5
  <2>1. ASSUME NEW j \in 1..Len(queue), queue[j] = i, i # id
        PROVE  IsQueued(m_closed_ids, i)
    <3>1. j \in 1..Len(m_closed_ids)
      BY <2>0, <2>1, <1>7
    <3>2. QED BY <2>1, <3>1, <1>7 DEF IsQueued
  <2>2. ASSUME NEW j \in 1..Len(m_closed_ids), m_closed_ids[j] = i
        PROVE  \E k \in 1..Len(queue) : queue[k] = i
    BY <2>0, <2>2, <1>7
  <2>3. Len(m_closed_ids) + 1 \in 1..Len(queue)
    BY <2>0, <1>7
  <2>4. QED BY <2>1, <2>2, <2>3, <1>7 DEF IsQueued
<1>12. \A i \in Ids : IsQueued(m_closed_ids', i) <=>
          ((i = id \/ IsQueued(m_closed_ids, i)) /\ i \notin V)
  <2> SUFFICES ASSUME NEW i \in Ids
               PROVE  IsQueued(r, i) <=> ((i = id \/ IsQueued(m_closed_ids, i)) /\ i \notin V)
    BY <1>4
  <2>1. ASSUME NEW k \in 1..Len(r), r[k] = i
        PROVE  (i = id \/ IsQueued(m_closed_ids, i)) /\ i \notin V
    <3>1. r[k] \notin V /\ \E j \in 1..Len(queue) : r[k] = queue[j]
      BY <1>10
    <3>2. QED BY <2>1, <3>1, <1>11
  <2>2. ASSUME i = id \/ IsQueued(m_closed_ids, i), i \notin V
        PROVE  \E k \in 1..Len(r) : r[k] = i
    <3>1. PICK j \in 1..Len(queue) : queue[j] = i
      BY <2>2, <1>11
    <3>2. QED BY <2>2, <3>1, <1>10
  <2>3. QED BY <2>1, <2>2 DEF IsQueued
<1>13. \A v \in V : v \in Ids /\ IsCached(v) /\ (v = id \/ IsQueued(m_closed_ids, v))
  <2>1. \A v \in V : v \in Ids /\ (v = id \/ IsQueued(m_closed_ids, v))
    BY <1>10, <1>11, Zenon
  <2>2. QED BY <1>6, <2>1, QueuedFacts
<1>14. \A i \in Ids, v \in V : IsCached(i) /\ i # v => m_files[i] # m_files[v]
  BY <1>13 DEF RInv, IInv, Linked
<1>15. Elsewhere(id)
  <2> SUFFICES ASSUME NEW i \in Ids, i # id
               PROVE  /\ disk'[i] = disk[i]
                      /\ i \in unsafe' <=> i \in unsafe
                      /\ Kept(i) \/ Evicted(i)
    BY DEF Elsewhere
  <2>1. disk'[i] = disk[i] /\ (i \in unsafe' <=> i \in unsafe)
    BY <1>4, <1>5
  <2>2. CASE i \in V
    BY <2>1, <2>2, <1>4, <1>12, <1>13 DEF Evicted
  <2>3. CASE i \notin V
    <3>1. m_files'[i] = m_files[i]
      BY <2>3, <1>4
    <3>2. IsQueued(m_closed_ids, i) <=> IsQueued(m_closed_ids', i)
      BY <2>3, <1>12
    <3>3. ASSUME IsCached(i) PROVE heap'[m_files[i]] = heap[m_files[i]]
      <4>1. m_files[i] \in Ptrs
        BY <3>3, <1>5 DEF IsCached
      <4>2. ~\E v \in V : m_files[v] = m_files[i]
        BY <2>3, <3>3, <1>14
      <4>3. m_files[i] # p
        BY <1>1, <1>2, <3>3 DEF RInv, IInv, Linked
      <4>4. QED BY <4>1, <4>2, <4>3, <1>4, <1>5
    <3>4. QED BY <2>1, <3>1, <3>2, <3>3 DEF Kept
  <2>4. QED BY <2>1, <2>2, <2>3
<1>16. /\ SoundAt(id)'
       /\ ContentOf(id)' = h
       /\ RefsOf(id)' = 0
  <2>1. CASE id \in V
    <3>1. ~IsCached(id)' /\ ~IsQueued(m_closed_ids, id)' /\ disk'[id] = h
      BY <2>1, <1>4, <1>5, <1>12 DEF IsCached
    <3>2. h # Blank
      BY <1>1, SentinelsAreNotData DEF h
    <3>3. QED BY <3>1, <3>2 DEF SoundAt, ContentOf, RefsOf, ReadHeader
  <2>2. CASE id \notin V
    <3>1. m_files'[id] = p
      BY <2>2, <1>1, <1>2, <1>4
    <3>2. ~\E v \in V : m_files[v] = p
      BY <2>2, <1>1, <1>2, <1>6, <1>14
    <3>3. heap'[p] = o
      BY <3>2, <1>4, <1>5
    <3>4. IsCached(id)' /\ (ObjectOf(id))' = o
      BY <3>1, <3>3, <1>1 DEF IsCached, ObjectOf
    <3>5. IsQueued(m_closed_ids, id)' /\ ~(id \in unsafe')
      BY <2>2, <1>4, <1>12
    <3>6. SoundAt(id)'
      BY <1>3, <3>4, <3>5 DEF SoundAt
    <3>7. ContentOf(id)' = HeaderOf(o) /\ RefsOf(id)' = o.ref
      BY <3>4 DEF ContentOf, RefsOf, HeaderOf
    <3>8. QED BY <1>3, <3>6, <3>7
  <2>3. QED BY <2>1, <2>2
<1>17. IInv'
  BY CloseLinkedIInv DEF RInv
<1>18. /\ RInv'
       /\ Content' = [Content EXCEPT ![id] = h]
       /\ Refs' = [Refs EXCEPT ![id] = 0]
  BY <1>15, <1>16, <1>17, LocalStep
<1>19. Content[id] = h /\ Refs[id] = 1 /\ h.nlink # 0
  <2>1. Content[id] = h /\ Refs[id] = 1
    BY <1>1, <1>6 DEF Content, Refs, ContentOf, RefsOf, h
  <2>2. QED BY <1>1, <2>1 DEF h, HeaderOf
<1>20. Logical!OClose(id)
  <2>1. ~Logical!Gone(id)
    BY <1>19, AbstractSteps
  <2>2. Content' = [Content EXCEPT ![id] = @]
    BY <1>18, <1>19
  <2>3. QED BY <1>4, <1>18, <1>19, <2>1, <2>2, AbstractClose
<1>21. QED
  BY <1>18, <1>20 DEF Refines, Logical!ONext

(* ~FileTable: what callers saw is on disk, and the unlinked files are gone. *)
LEMMA DestroyRefines ==
    ASSUME RInv, Destroy
    PROVE  Refines
<1>1. IInv'
  BY DestroyIInv DEF RInv
<1>2. /\ disk' = [id \in Ids |-> Finalized(id)]
      /\ m_files' = [id \in Ids |-> Null]
      /\ m_closed_ids' = <<>> /\ unsafe' = {}
  BY DEF Destroy
<1>3. ASSUME NEW id \in Ids
      PROVE  /\ ~IsCached(id)' /\ SoundAt(id)' /\ RefsOf(id)' = 0
             /\ ContentOf(id)' = ReadHeader(Finalized(id))
  <2>1. ~IsCached(id)' /\ disk'[id] = Finalized(id)
    BY <1>2 DEF IsCached
  <2>2. ~IsQueued(m_closed_ids, id)'
    BY <1>2 DEF IsQueued
  <2>3. QED BY <2>1, <2>2 DEF SoundAt, RefsOf, ContentOf, ReadHeader
<1>4. RInv'
  BY <1>1, <1>3 DEF RInv, CacheIsBounded, IdleIsWritten, QueuedIsSafe, SoundAt, ObjectOf
<1>5. ASSUME NEW id \in Ids
      PROVE  ReadHeader(Finalized(id)) = IF Logical!Gone(id) THEN NoFile ELSE Content[id]
  <2>1. Logical!Gone(id) <=> (Content[id] # NoFile /\ Content[id].nlink = 0)
    BY AbstractSteps
  <2>2. CASE ~IsCached(id)
    <3>1. Content[id] = ReadHeader(disk[id]) /\ Finalized(id) = disk[id]
      BY <2>2 DEF Content, ContentOf, Finalized
    <3>2. disk[id] \in {NoFile, Blank} \cup Header
      BY DEF RInv, IInv, TypeOK
    <3>3. disk[id] \in Header => disk[id].nlink # 0
      BY <2>2 DEF RInv, IInv, UnlinkedFilesGo
    <3>4. disk[id] = Blank => Content[id].nlink = UINT32_MAX
      BY <3>1 DEF ReadHeader, BlankHeader
    <3>5. ~Logical!Gone(id)
      BY <2>1, <3>1, <3>2, <3>3, <3>4, Bounds, Sentinels DEF ReadHeader
    <3>6. QED BY <3>1, <3>5
  <2>3. CASE IsCached(id)
    <3>1. m_files[id] \in Ptrs /\ ObjectOf(id) # Freed /\ ObjectOf(id).id = id
      BY <2>3 DEF RInv, IInv, TypeOK, Linked, IsCached, ObjectOf
    <3>2. HeaderOf(ObjectOf(id)) \in Header /\ DiskAfterFlush(ObjectOf(id)) = HeaderOf(ObjectOf(id))
      BY <3>1, LiveObject, FlushFacts DEF RInv, ObjectOf
    <3>3. Content[id] = HeaderOf(ObjectOf(id)) /\ Content[id] # NoFile
      BY <2>3, <3>2, SentinelsAreNotData DEF Content, ContentOf
    <3>4. Content[id].nlink = ObjectOf(id).nlink
      BY <3>3 DEF HeaderOf
    <3>5. Finalized(id) = IF ObjectOf(id).nlink = 0 THEN NoFile ELSE HeaderOf(ObjectOf(id))
      BY <2>3, <3>2 DEF Finalized, IsUnlinked, ObjectOf
    <3>6. NoFile # Blank /\ HeaderOf(ObjectOf(id)) # Blank
      BY <3>2, Sentinels, SentinelsAreNotData
    <3>7. QED BY <2>1, <3>3, <3>4, <3>5, <3>6 DEF ReadHeader
  <2>4. QED BY <2>2, <2>3
<1>6. Content' = [id \in Ids |-> IF Logical!Gone(id) THEN NoFile ELSE Content[id]]
  <2>1. Content' = [id \in Ids |-> ContentOf(id)']
    BY DEF Content
  <2>2. \A id \in Ids : ContentOf(id)' = IF Logical!Gone(id) THEN NoFile ELSE Content[id]
    BY <1>3, <1>5
  <2>3. QED BY <2>1, <2>2
<1>7. Refs' = [id \in Ids |-> 0]
  <2>1. Refs' = [id \in Ids |-> RefsOf(id)']
    BY DEF Refs
  <2>2. QED BY <1>3, <2>1
<1>8. Logical!OShutdown
  BY <1>2, <1>6, <1>7 DEF Logical!OShutdown, Content, Refs, ContentOf, RefsOf, ObjectOf
<1>9. QED
  BY <1>4, <1>8 DEF Refines, Logical!ONext

(* The empty table is the empty abstract table. *)
LEMMA InitRefines == Init => RInv /\ Logical!OInit
<1> SUFFICES ASSUME Init PROVE RInv /\ Logical!OInit
  OBVIOUS
<1>1. IInv
  BY InitIInv
<1>2. \A id \in Ids : ~IsCached(id) /\ ~IsQueued(m_closed_ids, id)
  BY DEF Init, IsCached, IsQueued
<1>3. RInv
  BY <1>1, <1>2 DEF RInv, CacheIsBounded, IdleIsWritten, QueuedIsSafe
<1>4. \A id \in Ids : ContentOf(id) \in {NoFile} \cup [nlink : Nat, attr : Attrs]
  <2> SUFFICES ASSUME NEW id \in Ids
               PROVE  ContentOf(id) \in {NoFile} \cup [nlink : Nat, attr : Attrs]
    OBVIOUS
  <2>1. disk[id] \in {NoFile} \cup Header
    BY Bounds DEF Init, Header
  <2>2. disk[id] # Blank
    BY <2>1, Sentinels, SentinelsAreNotData
  <2>3. QED BY <1>2, <2>1, <2>2 DEF ContentOf, ReadHeader, Header
<1>5. \A id \in Ids : RefsOf(id) = 0
  BY <1>2 DEF RefsOf
<1>6. Content \in [Ids -> {NoFile} \cup [nlink : Nat, attr : Attrs]] /\ Refs = [id \in Ids |-> 0]
  BY <1>4, <1>5 DEF Content, Refs
<1>7. Logical!OInit
  BY <1>6 DEF Init, Logical!OInit, Logical!OHeader, Content, Refs, ContentOf, RefsOf, ObjectOf
<1>8. QED BY <1>3, <1>7

(* Nothing changes in the abstract files when nothing does in the table. *)
LEMMA StutterRefines == RInv /\ UNCHANGED vars => Refines
<1> SUFFICES ASSUME RInv, UNCHANGED vars PROVE Refines
  OBVIOUS
<1>1. IInv'
  BY StutterIInv DEF RInv
<1>2. RInv'
  BY <1>1 DEF RInv, vars, CacheIsBounded, IdleIsWritten, QueuedIsSafe, IsCached, IsQueued, ObjectOf
<1>3. UNCHANGED Logical!ovars
  BY DEF vars, Logical!ovars, IsCached, HeaderOf, ReadHeader
<1>4. QED BY <1>2, <1>3 DEF Refines

(* Every step of the table keeps RInv and maps to a step of OpenFiles. *)
LEMMA NextRefines == RInv /\ [Next]_vars => Refines
<1> SUFFICES ASSUME RInv, [Next]_vars PROVE Refines
  OBVIOUS
<1>1. ASSUME NEW id \in Ids, NEW t \in Types, OpenCached(id, t) PROVE Refines
  BY <1>1, OpenCachedRefines
<1>2. ASSUME NEW id \in Ids, NEW t \in Types, OpenFails(id, t) PROVE Refines
  BY <1>2, OpenFailsRefines
<1>3. ASSUME NEW id \in Ids, NEW t \in Types, NEW p \in Ptrs, OpenLoad(id, t, p) PROVE Refines
  BY <1>3, OpenLoadRefines
<1>4. ASSUME NEW id \in Ids, NEW p \in Ptrs, NEW a \in Attrs, CreateAs(id, p, a) PROVE Refines
  BY <1>4, CreateAsRefines
<1>5. ASSUME NEW p \in Ptrs, CloseShared(p) PROVE Refines
  BY <1>5, CloseSharedRefines
<1>6. ASSUME NEW p \in Ptrs, CloseUnlinked(p) PROVE Refines
  BY <1>6, CloseUnlinkedRefines
<1>7. ASSUME NEW p \in Ptrs, CloseLinked(p) PROVE Refines
  BY <1>7, CloseLinkedRefines
<1>8. ASSUME NEW p \in Ptrs, NEW wrote \in BOOLEAN, CloseFlushFails(p, wrote) PROVE Refines
  BY <1>8, CloseFlushFailsRefines
<1>9. ASSUME NEW p \in Ptrs, NEW a \in Attrs, SetAttr(p, a) PROVE Refines
  BY <1>9, SetAttrRefines
<1>10. ASSUME NEW p \in Ptrs, Link(p) PROVE Refines
  BY <1>10, LinkRefines
<1>11. ASSUME NEW p \in Ptrs, Unlink(p) PROVE Refines
  BY <1>11, UnlinkRefines
<1>12. ASSUME NEW p \in Ptrs, Flush(p) PROVE Refines
  BY <1>12, FlushRefines
<1>13. CASE Destroy
  BY <1>13, DestroyRefines
<1>14. CASE UNCHANGED vars
  BY <1>14, StutterRefines
<1>15. QED
  BY <1>1, <1>2, <1>3, <1>4, <1>5, <1>6, <1>7, <1>8, <1>9, <1>10, <1>11,
     <1>12, <1>13, <1>14 DEF Next

(* The strengthened invariant holds in every reachable state. *)
THEOREM StrongInvariant == Spec => []RInv
<1>1. Init => RInv
  BY InitRefines
<1>2. RInv /\ [Next]_vars => RInv'
  BY NextRefines DEF Refines
<1>3. QED BY <1>1, <1>2, PTL DEF Spec

(* gc can evict every unreferenced file of the cache, except one whose flush
   in finalize threw.                                                        *)
THEOREM CacheStaysBounded == Spec => []CacheIsBounded
<1>1. RInv => CacheIsBounded
  BY DEF RInv
<1>2. QED BY <1>1, StrongInvariant, PTL

(* The table implements its abstract specification: whatever is cached,
   flushed or evicted, callers of open_as, create_as and close see one header
   per file that changes only when a holder changes it.                      *)
THEOREM TableImplementsOpenFiles == Spec => ImplementsOpenFiles
<1>1. Init => Logical!OInit
  BY InitRefines
<1>2. RInv /\ [Next]_vars => [Logical!ONext]_(Logical!ovars)
  BY NextRefines DEF Refines
<1>3. QED
  BY <1>1, <1>2, StrongInvariant, PTL DEF Spec, ImplementsOpenFiles, Logical!OSpec

=============================================================================
