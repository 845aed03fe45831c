--------------------------- MODULE FullFSCrashProofs ---------------------------
(***************************************************************************)
(* That a kill costs a file its last path only by the files it leaves      *)
(* impossible to open (CrashKeepsPaths): the order in which the guards of  *)
(* an operation are closed makes it so. Closing a guard either adds        *)
(* entries to what is on disk, or it comes after every other directory on  *)
(* disk has the entries that it has in memory; both hold entry by entry,   *)
(* so they hold around any set of unsealed files.                          *)
(***************************************************************************)
EXTENDS FullFSProofs

NoDirHandles == \A x \in Ids : IsDir(mem, x) => handles[x] = 0

(* What is on disk of x is in memory too: writing x takes no entry away. *)
OnlyAdds(x) == \A n \in Names : Slot(disk, x, n) # None => Slot(mem, x, n) = Slot(disk, x, n)

(* What x has in memory is on disk. *)
Covered(x) == \A n \in Names : Slot(mem, x, n) # None => Slot(disk, x, n) = Slot(mem, x, n)

(* The guard at k only adds entries, or all but the files closed up to then
   have their entries on disk.                                               *)
CloseInOrder(k) ==
    \/ OnlyAdds(todo[k])
    \/ \A x \in Ids : (\A j \in 1..k : todo[j] # x) => Covered(x)

CloseOrder == NoDirHandles => \A k \in 1..Len(todo) : CloseInOrder(k)

(* Two guards on one file close one after the other. *)
TwinGuards ==
    \A i, j \in 1..Len(todo) : (i < j /\ todo[i] = todo[j]) => todo[i + 1] = todo[i]

(* What is no directory has no entries on disk. *)
BareOnDisk ==
    \A x \in Ids : (Exists(mem, x) /\ mem[x].type # "DIR" /\ Exists(disk, x)) => disk[x].ents = NoEntries

CInv == CloseOrder /\ TwinGuards /\ BareOnDisk

-----------------------------------------------------------------------------
(* A path stays where every entry on it stays. *)
LEMMA PathsGrow ==
    ASSUME NEW fs, NEW gs, NEW x \in ReachableIn(fs), Exists(gs, x),
           \A d \in Ids, n \in Names : Slot(fs, d, n) # None => Slot(gs, d, n) = Slot(fs, d, n)
    PROVE  x \in ReachableIn(gs)
<1>1. x \in Ids
  BY DEF ReachableIn
<1>2. \A S \in SUBSET Ids : (Root \in S /\ Holds(fs, S)) => x \in S
  BY <1>1, Reached
<1>3. \A S \in SUBSET Ids : Holds(gs, S) => Holds(fs, S)
  BY DEF Holds
<1>4. QED BY <1>1, <1>2, <1>3, Reached

(* The entries that are left without the files of W. *)
LEMMA WithoutSlots ==
    ASSUME NEW fs, NEW W, NEW d \in Ids
    PROVE  /\ Exists(Without(fs, W), d) <=> d \notin W /\ Exists(fs, d)
           /\ \A n \in Names : Slot(Without(fs, W), d, n) = IF d \in W THEN None ELSE Slot(fs, d, n)
BY DEF Without, Exists, Slot

(* A path around W stays where every entry stays. *)
LEMMA PathsGrowAround ==
    ASSUME NEW fs, NEW gs, NEW W, NEW x \in ReachableIn(Without(fs, W)), x \notin W, Exists(gs, x),
           \A d \in Ids, n \in Names : Slot(fs, d, n) # None => Slot(gs, d, n) = Slot(fs, d, n)
    PROVE  x \in ReachableIn(Without(gs, W))
<1>1. x \in Ids
  BY DEF ReachableIn
<1>2. Exists(Without(gs, W), x)
  BY <1>1, WithoutSlots
<1>3. \A d \in Ids, n \in Names : Slot(Without(fs, W), d, n) # None
                                   => Slot(Without(gs, W), d, n) = Slot(Without(fs, W), d, n)
  <2> TAKE d \in Ids, n \in Names
  <2>1. /\ Slot(Without(fs, W), d, n) = IF d \in W THEN None ELSE Slot(fs, d, n)
        /\ Slot(Without(gs, W), d, n) = IF d \in W THEN None ELSE Slot(gs, d, n)
    BY DEF Without, Exists, Slot
  <2>2. Slot(fs, d, n) # None => Slot(gs, d, n) = Slot(fs, d, n)
    OBVIOUS
  <2>3. QED BY <2>1, <2>2
<1>4. QED BY <1>2, <1>3, PathsGrow

(* What can be reached around W. *)
LEMMA AroundFacts ==
    ASSUME NEW fs, NEW W, NEW x \in ReachableIn(Without(fs, W))
    PROVE  x \in Ids /\ x \notin W /\ Exists(fs, x)
<1>1. x \in Ids /\ Exists(Without(fs, W), x)
  BY DEF ReachableIn
<1>2. QED BY <1>1, WithoutSlots

(* After an operation, what no guard is on has its entries on disk, if it is a
   directory without handles; what is no directory has none.                 *)
LEMMA CoveredElsewhere ==
    ASSUME IInv', NoDirHandles', NEW x \in Ids, ~InTodo(x)'
    PROVE  Covered(x)'
<1>1. CASE handles'[x] = 0
  <2>1. disk'[x] = mem'[x]
    BY <1>1 DEF IInv, Stored, StoredAt
  <2>2. QED BY <2>1 DEF Covered, Slot, Exists
<1>2. CASE handles'[x] # 0
  <2>1. Exists(mem, x)' => mem'[x].ents = NoEntries
    BY <1>2 DEF NoDirHandles, IsDir, IInv, Tree, OnlyDirsHold, Exists
  <2>2. QED BY <2>1 DEF Covered, Slot, NoEntries, Exists
<1>3. QED BY <1>1, <1>2

(* So the last guard closes in order. *)
LEMMA LastInOrder ==
    ASSUME IInv', NoDirHandles', NEW k, k = Len(todo')
    PROVE  CloseInOrder(k)'
BY CoveredElsewhere DEF CloseInOrder, InTodo

(* A single guard closes in order. *)
LEMMA ShortOrder ==
    ASSUME IInv', Len(todo') <= 1
    PROVE  CloseOrder' /\ TwinGuards'
<1>1. todo' \in Seq(Ids) /\ Len(todo') \in Nat
  BY DEF IInv, TypeOK
<1>2. TwinGuards'
  BY <1>1 DEF TwinGuards
<1>3. \A k \in 1..Len(todo') : k = Len(todo')
  BY <1>1
<1>4. QED BY <1>2, <1>3, LastInOrder DEF CloseOrder

(* Of two guards the first matters. *)
LEMMA PairOrder ==
    ASSUME IInv', NEW a \in Ids, NEW b \in Ids, todo' = <<a, b>>,
           NoDirHandles' => CloseInOrder(1)'
    PROVE  CloseOrder' /\ TwinGuards'
<1>1. Len(todo') = 2
  OBVIOUS
<1>2. TwinGuards'
  BY <1>1 DEF TwinGuards
<1>3. \A k \in 1..Len(todo') : k = 1 \/ k = Len(todo')
  BY <1>1
<1>4. QED BY <1>1, <1>2, <1>3, LastInOrder DEF CloseOrder

(* Of three the first two. *)
LEMMA TripleOrder ==
    ASSUME IInv', NEW a \in Ids, NEW b \in Ids, NEW c \in Ids, todo' = <<a, b, c>>,
           a # b, a # c, NoDirHandles' => CloseInOrder(1)' /\ CloseInOrder(2)'
    PROVE  CloseOrder' /\ TwinGuards'
<1>1. Len(todo') = 3 /\ todo'[1] = a /\ todo'[2] = b /\ todo'[3] = c
  OBVIOUS
<1>2. TwinGuards'
  <2> SUFFICES ASSUME NEW i \in 1..3, NEW j \in 1..3, i < j, todo'[i] = todo'[j]
               PROVE  todo'[i + 1] = todo'[i]
    BY <1>1 DEF TwinGuards
  <2>1. i = 2 /\ j = 3
    BY <1>1
  <2>2. QED BY <1>1, <2>1
<1>3. \A k \in 1..Len(todo') : k = 1 \/ k = 2 \/ k = Len(todo')
  BY <1>1
<1>4. QED BY <1>1, <1>2, <1>3, LastInOrder DEF CloseOrder

(* How an operation may change a file, so that BareOnDisk stays. *)
Kept(x) ==
    \/ disk'[x] = disk[x] /\ Exists(mem, x) /\ mem'[x].type = mem[x].type
    \/ disk'[x] = mem'[x]
    \/ disk'[x] = BlankNode
    \/ ~Exists(mem', x)

(* No write gives entries to what is no directory. *)
LEMMA BareKept ==
    ASSUME IInv, IInv', BareOnDisk, \A x \in Ids : Kept(x)
    PROVE  BareOnDisk'
<1> SUFFICES ASSUME NEW x \in Ids, Exists(mem', x), mem'[x].type # "DIR", Exists(disk', x)
             PROVE  disk'[x].ents = NoEntries
  BY DEF BareOnDisk, Exists
<1>1. mem'[x].ents = NoEntries
  BY DEF IInv, Tree, OnlyDirsHold, Exists
<1>2. BlankNode.ents = NoEntries
  BY DEF BlankNode
<1>3. QED BY <1>1, <1>2 DEF Kept, BareOnDisk, Exists

(* In between operations, with no handle on a directory. *)
LEMMA DirOnDisk ==
    ASSUME IInv, Idle, NEW x \in Ids, handles[x] = 0
    PROVE  disk[x] = mem[x] /\ \A n \in Names : Slot(disk, x, n) = Slot(mem, x, n)
<1>1. ~InTodo(x)
  BY DEF Idle, InTodo
<1>2. disk[x] = mem[x]
  BY <1>1 DEF IInv, Stored, StoredAt
<1>3. QED BY <1>2 DEF Slot, Exists

(* A file without entries in memory has none on disk, unless a handle is
   open on it and it is a directory. *)
LEMMA BareFile ==
    ASSUME IInv, Idle, BareOnDisk, NEW x \in Ids, Exists(mem, x), mem[x].ents = NoEntries,
           IsDir(mem, x) => handles[x] = 0
    PROVE  \A n \in Names : Slot(disk, x, n) = None
<1>1. CASE IsDir(mem, x)
  BY <1>1, DirOnDisk, NoSlots
<1>2. CASE ~IsDir(mem, x)
  BY <1>2 DEF IsDir, BareOnDisk, Slot, NoEntries
<1>3. QED BY <1>1, <1>2

-----------------------------------------------------------------------------
(* What an operation does in memory costs no path on disk. *)
LEMMA DiskUntouched ==
    ASSUME UNCHANGED disk
    PROVE  KeepsPathOnDisk
BY DEF KeepsPathOnDisk

(* Entries are added to what is on disk, and no file goes that has a path. *)
LEMMA DiskGrows ==
    ASSUME IInv',
           NoDirHandles => \A d \in Ids, n \in Names :
               Slot(disk, d, n) # None => Slot(disk', d, n) = Slot(disk, d, n)
    PROVE  KeepsPathOnDisk
<1> SUFFICES ASSUME NoDirHandles, NEW W, NEW x \in ReachableIn(Without(mem', W)),
                    x \in ReachableIn(Without(disk, W))
             PROVE  x \in ReachableIn(Without(disk', W))
  BY DEF KeepsPathOnDisk, NoDirHandles
<1>1. x \in Ids /\ x \notin W /\ Exists(mem', x)
  BY AroundFacts
<1>2. Exists(disk', x)
  BY <1>1 DEF IInv, Stored, StoredAt, Exists
<1>3. QED BY <1>1, <1>2, PathsGrowAround

(* A file is written while an operation runs or a handle is open on it. *)
LEMMA FlushGrows ==
    ASSUME IInv, IInv', Idle, BareOnDisk, NEW id \in Ids, Exists(mem, id), NEW v, v # NoFile,
           v.ents = mem[id].ents, disk' = [disk EXCEPT ![id] = v]
    PROVE  KeepsPathOnDisk
<1> SUFFICES ASSUME NoDirHandles, NEW d \in Ids, NEW n \in Names, Slot(disk, d, n) # None
             PROVE  Slot(disk', d, n) = Slot(disk, d, n)
  BY DiskGrows
<1>1. disk \in [Ids -> {NoFile} \cup Node]
  BY DEF IInv, TypeOK
<1>2. CASE d # id
  BY <1>1, <1>2 DEF Slot, Exists
<1>3. CASE d = id
  <2>1. IsDir(mem, id)
    BY <1>3, BareFile DEF IsDir, IInv, Tree, OnlyDirsHold
  <2>2. handles[id] = 0
    BY <2>1 DEF NoDirHandles
  <2>3. disk[id] = mem[id]
    BY <2>2, DirOnDisk
  <2>4. disk'[id] = v
    BY <1>1
  <2>5. QED BY <1>3, <2>3, <2>4 DEF Slot, Exists
<1>4. QED BY <1>2, <1>3

(* A new file is written without a header. *)
LEMMA BlankGrows ==
    ASSUME IInv, IInv', NEW id \in Ids, CreateFile(id)
    PROVE  /\ KeepsPathOnDisk
           /\ disk'[id] = BlankNode /\ \A x \in Ids : x # id => disk'[x] = disk[x]
           /\ ~Exists(mem, id) /\ \A n \in Names : Slot(disk', id, n) = None
<1>1. disk \in [Ids -> {NoFile} \cup Node] /\ disk' = [disk EXCEPT ![id] = BlankNode]
      /\ ~Exists(mem, id) /\ ~Exists(disk, id)
  BY DEF IInv, TypeOK, CreateFile
<1>2. disk'[id] = BlankNode /\ \A x \in Ids : x # id => disk'[x] = disk[x]
  BY <1>1
<1>3. \A n \in Names : Slot(disk', id, n) = None
  BY <1>2 DEF Slot, BlankNode, NoEntries
<1>4. \A d \in Ids, n \in Names : Slot(disk, d, n) # None => Slot(disk', d, n) = Slot(disk, d, n)
  BY <1>1, <1>2 DEF Slot, Exists
<1>5. KeepsPathOnDisk
  BY <1>4, DiskGrows
<1>6. QED BY <1>1, <1>2, <1>3, <1>5

(* Entries of an EXCEPT in memory. *)
LEMMA OnlyAddsFrom ==
    ASSUME NEW x \in Ids, todo'[1] = x,
           \A n \in Names : Slot(disk', x, n) # None => Slot(mem', x, n) = Slot(disk', x, n)
    PROVE  CloseInOrder(1)'
BY DEF CloseInOrder, OnlyAdds, Slot, Exists

-----------------------------------------------------------------------------
(* What every operation does to the invariant and to the paths on disk. *)
LEMMA CreateCrash ==
    ASSUME IInv, IInv', Idle, CInv, NEW d \in BaseDirs, NEW n \in UserNames, NEW id \in Ids,
           NEW a \in Attrs, create(d, n, id, a)
    PROVE  CInv' /\ KeepsPathOnDisk
<1>1. CreateFile(id) /\ todo' = <<d>>
      /\ mem' = [mem EXCEPT ![id] = EmptyNode("REG", a),
                            ![d] = WithEntry(@, n, [id |-> id, type |-> "REG"])]
  BY DEF create
<1>2. /\ KeepsPathOnDisk
      /\ disk'[id] = BlankNode /\ \A x \in Ids : x # id => disk'[x] = disk[x]
      /\ ~Exists(mem, id)
  BY <1>1, BlankGrows
<1>3. d \in Ids /\ Exists(mem, d) /\ mem[d] \in Node
  BY BaseDirFacts
<1>4. mem \in [Ids -> {NoFile} \cup Node]
  BY DEF IInv, TypeOK
<1>5. mem'[d].type = mem[d].type /\ \A x \in Ids : x # id /\ x # d => mem'[x] = mem[x]
  BY <1>1, <1>2, <1>3, <1>4 DEF WithEntry, Node
<1>6. \A x \in Ids : Kept(x)
  BY <1>2, <1>3, <1>5 DEF Kept, Exists
<1>7. BareOnDisk'
  BY <1>6, BareKept DEF CInv
<1>8. CloseOrder' /\ TwinGuards'
  BY <1>1, ShortOrder
<1>9. QED BY <1>2, <1>7, <1>8 DEF CInv

(* mkdir and symlink: the directory closes first, and gains an entry. *)
LEMMA MknodeCrash ==
    ASSUME IInv, IInv', Idle, CInv, NEW d \in BaseDirs, NEW n \in UserNames, NEW id \in Ids,
           NEW a \in Attrs, NEW t \in RealTypes, mknode(d, n, t, id, a)
    PROVE  CInv' /\ KeepsPathOnDisk
<1>1. CreateFile(id) /\ todo' = <<d, id>> /\ mem[d].ents[n] = None /\ handles' = handles
      /\ mem' = [mem EXCEPT ![id] = EmptyNode(t, a),
                            ![d] = WithEntry(@, n, [id |-> id, type |-> t])]
  BY DEF mknode
<1>2. /\ KeepsPathOnDisk
      /\ disk'[id] = BlankNode /\ \A x \in Ids : x # id => disk'[x] = disk[x]
      /\ ~Exists(mem, id)
  BY <1>1, BlankGrows
<1>3. d \in Ids /\ Exists(mem, d) /\ mem[d] \in Node /\ mem[d].type = "DIR"
  BY BaseDirFacts
<1>4. mem \in [Ids -> {NoFile} \cup Node]
  BY DEF IInv, TypeOK
<1> DEFINE e == [id |-> id, type |-> t]
           dir == WithEntry(mem[d], n, e)
<1>14. dir.type = mem[d].type /\ dir # NoFile /\ \A m \in Names : m # n => dir.ents[m] = mem[d].ents[m]
  <2>1. n \in Names /\ e \in Entry
    BY FSAssumption DEF Entry, EntryTypes
  <2>2. QED BY <1>3, <2>1, WithEntryFacts
<1>15. mem' = [mem EXCEPT ![id] = EmptyNode(t, a), ![d] = dir]
  BY <1>1, <1>2, <1>3, <1>4
<1> HIDE DEF dir, e
<1>5. mem'[d] = dir /\ \A x \in Ids : x # id /\ x # d => mem'[x] = mem[x]
  BY <1>2, <1>3, <1>4, <1>15
<1>6. \A x \in Ids : Kept(x)
  BY <1>2, <1>3, <1>5, <1>14 DEF Kept, Exists
<1>7. BareOnDisk'
  BY <1>6, BareKept DEF CInv
<1>8. NoDirHandles' => CloseInOrder(1)'
  <2> SUFFICES ASSUME NoDirHandles' PROVE CloseInOrder(1)'
    OBVIOUS
  <2>1. handles[d] = 0
    BY <1>1, <1>3, <1>5, <1>14 DEF NoDirHandles, IsDir, Exists
  <2>2. \A m \in Names : Slot(disk, d, m) = Slot(mem, d, m)
    BY <1>3, <2>1, DirOnDisk
  <2>3. \A m \in Names : Slot(disk', d, m) = mem[d].ents[m] /\ Slot(mem', d, m) = dir.ents[m]
    BY <1>2, <1>3, <1>5, <1>14, <2>2 DEF Slot, Exists
  <2>4. \A m \in Names : Slot(disk', d, m) # None => Slot(mem', d, m) = Slot(disk', d, m)
    BY <1>1, <1>14, <2>3
  <2>5. todo'[1] = d
    BY <1>1
  <2>6. QED BY <1>3, <2>4, <2>5, OnlyAddsFrom
<1>9. CloseOrder' /\ TwinGuards'
  BY <1>1, <1>3, <1>8, PairOrder
<1>10. QED BY <1>2, <1>7, <1>9 DEF CInv

(* create, mkdir and symlink when the name is taken: the new file closes
   first, and has no entries. *)
LEMMA CreateExistsCrash ==
    ASSUME IInv, IInv', Idle, CInv, NEW d \in BaseDirs, NEW n \in UserNames, NEW id \in Ids,
           NEW a \in Attrs, NEW t \in RealTypes, createExists(d, n, t, id, a)
    PROVE  CInv' /\ KeepsPathOnDisk
<1>1. CreateFile(id) /\ todo' = <<id, d>> /\ mem' = [mem EXCEPT ![id] = Unlinked(EmptyNode(t, a))]
  BY DEF createExists
<1>2. /\ KeepsPathOnDisk
      /\ disk'[id] = BlankNode /\ \A x \in Ids : x # id => disk'[x] = disk[x]
      /\ \A m \in Names : Slot(disk', id, m) = None
  BY <1>1, BlankGrows
<1>3. d \in Ids
  BY BaseDirFacts
<1>4. mem \in [Ids -> {NoFile} \cup Node]
  BY DEF IInv, TypeOK
<1>5. \A x \in Ids : x # id => mem'[x] = mem[x]
  BY <1>1, <1>4
<1>6. \A x \in Ids : Kept(x)
  BY <1>2, <1>5 DEF Kept, Exists
<1>7. BareOnDisk'
  BY <1>6, BareKept DEF CInv
<1>8. CloseInOrder(1)'
  BY <1>1, <1>2, OnlyAddsFrom
<1>9. CloseOrder' /\ TwinGuards'
  BY <1>1, <1>3, <1>8, PairOrder
<1>10. QED BY <1>2, <1>7, <1>9 DEF CInv

(* A header changes, and is written or not: open, read, write, truncate, chmod,
   utimens, readlink.                                                        *)
LEMMA AttrCrash ==
    ASSUME IInv, IInv', Idle, CInv, NEW id \in Ids, Exists(mem, id), NEW a \in Attrs,
           NEW f \in BOOLEAN, SetAttr(id, a, f), Len(todo') <= 1
    PROVE  CInv' /\ KeepsPathOnDisk
<1> DEFINE new == [mem[id] EXCEPT !.attr = a]
<1>1. mem' = [mem EXCEPT ![id] = new] /\ (disk' = [disk EXCEPT ![id] = new] \/ disk' = disk)
  BY DEF SetAttr
<1>2. /\ mem \in [Ids -> {NoFile} \cup Node] /\ disk \in [Ids -> {NoFile} \cup Node]
      /\ mem[id] \in Node
  BY HandleFacts DEF IInv, TypeOK
<1>3. new \in Node /\ new # NoFile /\ new.type = mem[id].type /\ new.ents = mem[id].ents
  BY <1>2, NoSentinels DEF Node
<1> HIDE DEF new
<1>4. mem'[id] = new /\ \A x \in Ids : x # id => mem'[x] = mem[x] /\ disk'[x] = disk[x]
  BY <1>1, <1>2
<1>5. disk'[id] = new \/ disk'[id] = disk[id]
  BY <1>1, <1>2
<1>6. \A x \in Ids : Kept(x)
  BY <1>3, <1>4, <1>5 DEF Kept, Exists
<1>7. BareOnDisk'
  BY <1>6, BareKept DEF CInv
<1>8. KeepsPathOnDisk
  <2>1. CASE disk' = disk
    BY <2>1, DiskUntouched
  <2>2. CASE disk' = [disk EXCEPT ![id] = new]
    BY <1>3, <2>2, FlushGrows DEF CInv
  <2>3. QED BY <1>1, <2>1, <2>2
<1>9. QED BY <1>7, <1>8, ShortOrder DEF CInv

(* opendir, release and fsync: the files in memory stay. *)
LEMMA HandleCrash ==
    ASSUME IInv, IInv', Idle, CInv, NEW id \in Ids, UNCHANGED mem, Len(todo') <= 1, Exists(mem, id),
           disk' = [disk EXCEPT ![id] = mem[id]] \/ disk' = disk
    PROVE  CInv' /\ KeepsPathOnDisk
<1>1. disk \in [Ids -> {NoFile} \cup Node]
  BY DEF IInv, TypeOK
<1>2. \A x \in Ids : Kept(x)
  BY <1>1 DEF Kept, Exists
<1>3. BareOnDisk'
  BY <1>2, BareKept DEF CInv
<1>4. KeepsPathOnDisk
  <2>1. CASE disk' = disk
    BY <2>1, DiskUntouched
  <2>2. CASE disk' = [disk EXCEPT ![id] = mem[id]]
    <3>1. mem[id] # NoFile
      BY DEF Exists
    <3>2. QED BY <2>2, <3>1, FlushGrows DEF CInv
  <2>3. QED BY <2>1, <2>2
<1>5. QED BY <1>3, <1>4, ShortOrder DEF CInv

(* remount writes everything. *)
LEMMA RemountCrash ==
    ASSUME IInv, IInv', Idle, CInv, remount
    PROVE  CInv' /\ KeepsPathOnDisk
<1>1. disk' = mem' /\ todo' = <<>>
  BY DEF remount, Idle
<1>2. \A x \in Ids : Kept(x)
  BY <1>1 DEF Kept
<1>3. BareOnDisk'
  BY <1>2, BareKept DEF CInv
<1>4. KeepsPathOnDisk
  BY <1>1 DEF KeepsPathOnDisk
<1>5. Len(todo') <= 1
  BY <1>1
<1>6. QED BY <1>3, <1>4, <1>5, ShortOrder DEF CInv

(* Operations that only change memory, on files that keep their types. *)
LEMMA MemoryCrash ==
    ASSUME IInv, IInv', CInv, UNCHANGED disk, CloseOrder', TwinGuards',
           \A x \in Ids : Exists(mem', x) => Exists(mem, x) /\ mem'[x].type = mem[x].type
    PROVE  CInv' /\ KeepsPathOnDisk
<1>1. \A x \in Ids : Kept(x)
  BY DEF Kept
<1>2. QED BY <1>1, BareKept, DiskUntouched DEF CInv

(* The first guard is on a file that has no entries. *)
LEMMA BareFirst ==
    ASSUME IInv, IInv', Idle, CInv, NEW id \in Ids, Exists(mem, id), mem[id].ents = NoEntries,
           Exists(mem', id), mem'[id].type = mem[id].type, UNCHANGED <<disk, handles>>,
           NoDirHandles', todo'[1] = id
    PROVE  CloseInOrder(1)'
<1>1. IsDir(mem, id) => handles[id] = 0
  BY DEF IsDir, NoDirHandles, Exists
<1>2. \A n \in Names : Slot(disk, id, n) = None
  BY <1>1, BareFile DEF CInv
<1>3. \A n \in Names : Slot(disk', id, n) = None
  BY <1>2
<1>4. QED BY <1>3, OnlyAddsFrom

(* unlink and rmdir: the file closes first, and has no entries. *)
LEMMA UnlinkCrash ==
    ASSUME IInv, IInv', Idle, CInv, NEW d \in BaseDirs, NEW n \in UserNames, unlink(d, n)
    PROVE  CInv' /\ KeepsPathOnDisk
<1>1. mem[d].ents[n] # None
  BY DEF unlink, Resolves
<1>2. PICK id \in Ids : id = mem[d].ents[n].id
  BY <1>1, EntryFacts
<1>3. /\ mem[d].ents[n].type = "DIR" => mem[id].ents = NoEntries
      /\ mem' = [mem EXCEPT ![d] = WithEntry(@, n, None), ![id] = Unlinked(@)]
      /\ todo' = <<id, d>> /\ disk' = disk /\ handles' = handles
  BY <1>2 DEF unlink, Resolves
<1>4. /\ n \in Names /\ Exists(mem, id) /\ mem[id].type = mem[d].ents[n].type /\ mem[id] \in Node
  BY <1>1, <1>2, EntryFacts
<1>5. d \in Ids /\ Exists(mem, d) /\ mem[d] \in Node
  BY BaseDirFacts
<1>6. mem[id].ents = NoEntries
  BY <1>3, <1>4 DEF IInv, Tree, OnlyDirsHold
<1>7. id # d
  BY <1>1, <1>4, <1>6 DEF NoEntries
<1>8. mem \in [Ids -> {NoFile} \cup Node]
  BY DEF IInv, TypeOK
<1> DEFINE dir == WithEntry(mem[d], n, None)
           new == Unlinked(mem[id])
<1>9. dir # NoFile /\ dir.type = mem[d].type /\ new # NoFile /\ new.type = mem[id].type
  BY <1>4, <1>5, WithEntryFacts, UnlinkedFacts
<1>10. mem' = [mem EXCEPT ![d] = dir, ![id] = new]
  BY <1>3, <1>5, <1>7, <1>8
<1> HIDE DEF dir, new
<1>11. mem'[d] = dir /\ mem'[id] = new /\ \A x \in Ids : x # d /\ x # id => mem'[x] = mem[x]
  BY <1>5, <1>7, <1>8, <1>10
<1>12. \A x \in Ids : Exists(mem', x) => Exists(mem, x) /\ mem'[x].type = mem[x].type
  BY <1>4, <1>5, <1>9, <1>11 DEF Exists
<1>13. NoDirHandles' => CloseInOrder(1)'
  <2>1. Exists(mem', id) /\ mem'[id].type = mem[id].type /\ todo'[1] = id
    BY <1>3, <1>9, <1>11 DEF Exists
  <2>2. QED BY <1>3, <1>4, <1>6, <2>1, BareFirst
<1>14. CloseOrder' /\ TwinGuards'
  BY <1>3, <1>5, <1>13, PairOrder
<1>15. QED BY <1>3, <1>12, <1>14, MemoryCrash

(* link: the file closes first, and has no entries. *)
LEMMA LinkCrash ==
    ASSUME IInv, IInv', Idle, CInv, NEW d1 \in BaseDirs, NEW n1 \in UserNames, NEW d2 \in BaseDirs,
           NEW n2 \in UserNames, link(d1, n1, d2, n2)
    PROVE  CInv' /\ KeepsPathOnDisk
<1>1. mem[d1].ents[n1] # None /\ mem[d1].ents[n1].type = "REG"
  BY DEF link, Resolves
<1>2. PICK id \in Ids : id = mem[d1].ents[n1].id
  BY <1>1, EntryFacts
<1> DEFINE e == mem[d1].ents[n1]
<1>3. /\ mem' = [mem EXCEPT ![id].nlink = @ + 1, ![d2] = WithEntry(@, n2, e)]
      /\ todo' = <<id, d2>> /\ disk' = disk /\ handles' = handles
  BY <1>2 DEF link
<1>4. Exists(mem, id) /\ mem[id].type = "REG" /\ mem[id] \in Node /\ e \in Entry
  BY <1>1, <1>2, EntryFacts
<1>5. d2 \in Ids /\ Exists(mem, d2) /\ mem[d2] \in Node /\ mem[d2].type = "DIR" /\ n2 \in Names
  BY BaseDirFacts, FSAssumption
<1>6. mem[id].ents = NoEntries /\ id # d2
  BY <1>4, <1>5 DEF IInv, Tree, OnlyDirsHold
<1>8. mem \in [Ids -> {NoFile} \cup Node]
  BY DEF IInv, TypeOK
<1> DEFINE new == [mem[id] EXCEPT !.nlink = @ + 1]
           dir == WithEntry(mem[d2], n2, e)
<1>9. dir # NoFile /\ dir.type = mem[d2].type /\ new # NoFile /\ new.type = mem[id].type
  <2>1. new \in Node /\ new.type = mem[id].type
    BY <1>4 DEF Node
  <2>2. QED BY <1>4, <1>5, <2>1, WithEntryFacts, NoSentinels
<1>10. mem' = [mem EXCEPT ![id] = new, ![d2] = dir]
  BY <1>3, <1>4, <1>5, <1>6, <1>8
<1> HIDE DEF new, dir, e
<1>11. mem'[d2] = dir /\ mem'[id] = new /\ \A x \in Ids : x # d2 /\ x # id => mem'[x] = mem[x]
  BY <1>5, <1>6, <1>8, <1>10
<1>12. \A x \in Ids : Exists(mem', x) => Exists(mem, x) /\ mem'[x].type = mem[x].type
  BY <1>4, <1>5, <1>9, <1>11 DEF Exists
<1>13. NoDirHandles' => CloseInOrder(1)'
  <2>1. Exists(mem', id) /\ mem'[id].type = mem[id].type /\ todo'[1] = id
    BY <1>3, <1>9, <1>11 DEF Exists
  <2>2. QED BY <1>3, <1>4, <1>6, <2>1, BareFirst
<1>14. CloseOrder' /\ TwinGuards'
  BY <1>3, <1>5, <1>13, PairOrder
<1>15. QED BY <1>3, <1>12, <1>14, MemoryCrash

(* rename to a free name: the directory that gains the entry closes first. *)
LEMMA RenameFreeCrash ==
    ASSUME IInv, IInv', Idle, CInv, NEW d1 \in BaseDirs, NEW n1 \in UserNames, NEW d2 \in BaseDirs,
           NEW n2 \in UserNames, renameFree(d1, n1, d2, n2)
    PROVE  CInv' /\ KeepsPathOnDisk
<1> DEFINE src == mem[d1].ents[n1]
           hs  == [mem EXCEPT ![d1] = WithEntry(@, n1, None)]
<1>1. /\ src # None /\ mem[d2].ents[n2] = None
      /\ mem' = [hs EXCEPT ![d2] = WithEntry(@, n2, src)]
      /\ todo' = <<d2, d1>> /\ disk' = disk /\ handles' = handles
  BY DEF renameFree
<1>2. n1 \in Names /\ src \in Entry
  BY <1>1, EntryFacts
<1>3. /\ d1 \in Ids /\ Exists(mem, d1)
      /\ d2 \in Ids /\ Exists(mem, d2) /\ mem[d2].type = "DIR" /\ n2 \in Names
  BY BaseDirFacts, FSAssumption
<1>4. mem \in [Ids -> {NoFile} \cup Node]
  BY DEF IInv, TypeOK
<1> HIDE DEF src
<1>6. EntryPut(mem, hs, d1, n1, None)
  BY <1>2, <1>3, <1>4, PutEntry
<1> HIDE DEF hs
<1>7. hs \in [Ids -> {NoFile} \cup Node] /\ Exists(hs, d2)
  BY <1>3, <1>6 DEF EntryPut, Same
<1>8. EntryPut(hs, mem', d2, n2, src)
  BY <1>1, <1>2, <1>3, <1>7, PutEntry
<1>9. \A x \in Ids : Same(mem, mem', x)
  BY <1>6, <1>8 DEF EntryPut, Same
<1>10. \A x \in Ids : Exists(mem', x) => Exists(mem, x) /\ mem'[x].type = mem[x].type
  BY <1>9 DEF Same
<1>11. NoDirHandles' => CloseInOrder(1)'
  <2> SUFFICES ASSUME NoDirHandles' PROVE CloseInOrder(1)'
    OBVIOUS
  <2>1. CASE d1 # d2
    <3>1. Exists(mem', d2) /\ mem'[d2].type = "DIR"
      BY <1>3, <1>9 DEF Same
    <3>2. handles[d2] = 0
      BY <1>1, <1>3, <3>1 DEF NoDirHandles, IsDir, Exists
    <3>3. \A m \in Names : Slot(disk', d2, m) = mem[d2].ents[m]
      BY <1>1, <1>3, <3>2, DirOnDisk DEF Slot, Exists
    <3>4. \A m \in Names : m # n2 => mem'[d2].ents[m] = mem[d2].ents[m]
      BY <1>3, <1>6, <1>8, <2>1 DEF EntryPut
    <3>5. \A m \in Names : Slot(disk', d2, m) # None => Slot(mem', d2, m) = Slot(disk', d2, m)
      BY <1>1, <3>1, <3>3, <3>4 DEF Slot
    <3>6. todo'[1] = d2
      BY <1>1
    <3>7. QED BY <1>3, <3>5, <3>6, OnlyAddsFrom
  <2>2. CASE d1 = d2
    <3>1. todo'[1] = d2 /\ Len(todo') = 2 /\ todo'[2] = d2
      BY <1>1, <2>2
    <3>2. \A x \in Ids : (\A j \in 1..1 : todo'[j] # x) => ~InTodo(x)'
      BY <3>1 DEF InTodo
    <3>3. \A x \in Ids : (\A j \in 1..1 : todo'[j] # x) => Covered(x)'
      BY <3>2, CoveredElsewhere
    <3>4. QED BY <3>3 DEF CloseInOrder
  <2>3. QED BY <2>1, <2>2
<1>12. CloseOrder' /\ TwinGuards'
  BY <1>1, <1>3, <1>11, PairOrder
<1>13. QED BY <1>1, <1>10, <1>12, MemoryCrash

(* rename over another file: the replaced file closes first and has no entries,
   and the directory that the source leaves closes last.                     *)
LEMMA RenameOverCrash ==
    ASSUME IInv, IInv', Idle, CInv, ~RenameOntoNonEmpty, NEW d1 \in BaseDirs, NEW n1 \in UserNames,
           NEW d2 \in BaseDirs, NEW n2 \in UserNames, renameOver(d1, n1, d2, n2)
    PROVE  CInv' /\ KeepsPathOnDisk
<1> DEFINE src == mem[d1].ents[n1]
           dst == mem[d2].ents[n2]
           ts  == [mem EXCEPT ![d1] = WithEntry(@, n1, None)]
           ms  == [ts EXCEPT ![d2] = WithEntry(@, n2, src)]
<1>1. /\ src # None /\ dst # None /\ src.type = dst.type
      /\ (src.type = "DIR" /\ Exists(mem, dst.id)) => mem[dst.id].ents = NoEntries
      /\ mem' = IF Exists(mem, dst.id) THEN [ms EXCEPT ![dst.id] = Unlinked(@)] ELSE ms
      /\ todo' = <<dst.id, d2, d1>> /\ disk' = disk /\ handles' = handles
  BY DEF renameOver
<1>2. /\ n1 \in Names /\ src \in Entry /\ n2 \in Names /\ dst \in Entry /\ dst.id \in Ids
      /\ Exists(mem, dst.id) /\ mem[dst.id].type = dst.type
  BY <1>1, EntryFacts
<1>3. PICK id \in Ids : id = dst.id
  BY <1>2
<1>4. /\ d1 \in Ids /\ Exists(mem, d1) /\ mem[d1].type = "DIR"
      /\ d2 \in Ids /\ Exists(mem, d2) /\ mem[d2].type = "DIR"
  BY BaseDirFacts
<1>5. mem \in [Ids -> {NoFile} \cup Node]
  BY DEF IInv, TypeOK
<1>6. mem[id].ents = NoEntries /\ Exists(mem, id)
  BY <1>1, <1>2, <1>3 DEF IInv, Tree, OnlyDirsHold
<1>7. id # d1 /\ id # d2
  BY <1>1, <1>2, <1>6 DEF NoEntries
<1>8. mem' = [ms EXCEPT ![id] = Unlinked(@)] /\ todo' = <<id, d2, d1>>
  BY <1>1, <1>2, <1>3
<1> HIDE DEF src, dst
<1>9. EntryPut(mem, ts, d1, n1, None)
  BY <1>2, <1>4, <1>5, PutEntry
<1> HIDE DEF ts
<1>10. ts \in [Ids -> {NoFile} \cup Node] /\ Exists(ts, d2)
  BY <1>4, <1>9 DEF EntryPut, Same
<1>11. EntryPut(ts, ms, d2, n2, src)
  BY <1>2, <1>4, <1>10, PutEntry
<1> HIDE DEF ms
<1>12. ms \in [Ids -> {NoFile} \cup Node] /\ Exists(ms, id)
  BY <1>6, <1>9, <1>11 DEF EntryPut, Same
<1>13. LinkLess(ms, mem', id)
  BY <1>8, <1>12, LoseLink
<1>14. \A x \in Ids : (Exists(mem', x) <=> Exists(mem, x)) /\ (Exists(mem, x) => mem'[x].type = mem[x].type)
  <2> SUFFICES ASSUME NEW x \in Ids
               PROVE  (Exists(mem', x) <=> Exists(mem, x)) /\ (Exists(mem, x) => mem'[x].type = mem[x].type)
    OBVIOUS
  <2>1. Same(mem, ts, x) /\ Same(ts, ms, x)
    BY <1>9, <1>11 DEF EntryPut
  <2>2. (Exists(ms, x) <=> Exists(mem, x)) /\ (Exists(mem, x) => ms[x].type = mem[x].type)
    BY <2>1 DEF Same
  <2>3. CASE x = id
    BY <1>6, <1>13, <2>2, <2>3 DEF LinkLess
  <2>4. CASE x # id
    BY <1>13, <2>2, <2>4 DEF LinkLess, Exists
  <2>5. QED BY <2>3, <2>4
<1>15. Len(todo') = 3 /\ todo'[1] = id /\ todo'[2] = d2 /\ todo'[3] = d1
  BY <1>8
<1>16. NoDirHandles' => CloseInOrder(1)'
  BY <1>1, <1>6, <1>14, <1>15, BareFirst
<1>17. NoDirHandles' => CloseInOrder(2)'
  <2> SUFFICES ASSUME NoDirHandles', NEW x \in Ids, \A j \in 1..2 : todo'[j] # x
               PROVE  Covered(x)'
    BY DEF CloseInOrder
  <2>1. x # id /\ x # d2
    BY <1>15
  <2>2. CASE x = d1
    <3>1. handles[d1] = 0
      BY <1>1, <1>4, <1>14 DEF NoDirHandles, IsDir, Exists
    <3>2. \A m \in Names : Slot(disk', d1, m) = mem[d1].ents[m]
      BY <1>1, <1>4, <3>1, DirOnDisk DEF Slot, Exists
    <3>3. mem'[d1] = ts[d1]
      BY <1>4, <1>7, <1>11, <1>13, <2>1, <2>2 DEF EntryPut, LinkLess
    <3>4. \A m \in Names : mem'[d1].ents[m] # None => mem'[d1].ents[m] = mem[d1].ents[m]
      BY <1>9, <3>3 DEF EntryPut
    <3>5. \A m \in Names : Slot(mem', d1, m) = mem'[d1].ents[m]
      BY <1>4, <1>14 DEF Slot
    <3>6. \A m \in Names : Slot(mem', d1, m) # None => Slot(disk', d1, m) = Slot(mem', d1, m)
      BY <3>2, <3>4, <3>5
    <3>7. QED BY <2>2, <3>6 DEF Covered, Slot, Exists
  <2>3. CASE x # d1
    <3>1. \A k \in 1..Len(todo') : todo'[k] \in {id, d2, d1}
      BY <1>15
    <3>2. ~InTodo(x)'
      BY <2>1, <2>3, <3>1 DEF InTodo
    <3>3. QED BY <3>2, CoveredElsewhere
  <2>4. QED BY <2>2, <2>3
<1>18. CloseOrder' /\ TwinGuards'
  BY <1>4, <1>7, <1>8, <1>16, <1>17, TripleOrder
<1>19. \A x \in Ids : Exists(mem', x) => Exists(mem, x) /\ mem'[x].type = mem[x].type
  BY <1>14
<1>20. QED BY <1>1, <1>18, <1>19, MemoryCrash

-----------------------------------------------------------------------------
(* What closing a guard does, and what it leaves to be closed. *)
LEMMA SettleFacts ==
    ASSUME IInv, Settle, NEW id, id = Head(todo)
    PROVE  /\ id \in Ids /\ id = todo[1] /\ 1 \in 1..Len(todo) /\ Exists(mem, id)
           /\ handles' = handles
           /\ \A x \in Ids : x # id => mem'[x] = mem[x] /\ disk'[x] = disk[x]
           /\ \/ mem' = mem /\ disk' = disk /\ (handles[id] > 0 \/ \E i \in 2..Len(todo) : todo[i] = id)
              \/ mem'[id] = mem[id] /\ disk'[id] = mem[id] /\ handles[id] = 0
              \/ mem'[id] = NoFile /\ disk'[id] = NoFile /\ mem[id].nlink = 0 /\ handles[id] = 0
           /\ Len(todo) \in Nat /\ Len(todo') = Len(todo) - 1
           /\ \A k \in 1..Len(todo') : k + 1 \in 2..Len(todo) /\ todo'[k] = todo[k + 1]
<1> DEFINE last == LastReference(id)
<1>1. todo # <<>> /\ todo \in Seq(Ids) /\ todo' = Tail(todo)
  BY DEF Settle, CloseGuard, IInv, TypeOK
<1>2. id \in Ids /\ Len(todo) \in Nat /\ Len(todo) > 0 /\ id = todo[1] /\ 1 \in 1..Len(todo)
  BY <1>1
<1>3. Len(todo') = Len(todo) - 1 /\ \A k \in 1..Len(todo') : k + 1 \in 2..Len(todo) /\ todo'[k] = todo[k + 1]
  BY <1>1, <1>2
<1>4. /\ handles' = handles
      /\ mem' = [mem EXCEPT ![id] = IF last /\ mem[id].nlink = 0 THEN NoFile ELSE mem[id]]
      /\ disk' = IF last THEN [disk EXCEPT ![id] = IF last /\ mem[id].nlink = 0 THEN NoFile ELSE mem[id]]
                 ELSE disk
  BY DEF Settle, CloseGuard
<1>5. Exists(mem, id) /\ handles[id] \in Nat
  BY <1>2 DEF IInv, GuardsValid, TypeOK
<1>6. last <=> handles[id] = 0 /\ \A i \in 2..Len(todo) : todo[i] # id
  BY <1>5 DEF LastReference
<1>7. mem \in [Ids -> {NoFile} \cup Node] /\ disk \in [Ids -> {NoFile} \cup Node]
  BY DEF IInv, TypeOK
<1> HIDE DEF last
<1>8. \A x \in Ids : x # id => mem'[x] = mem[x] /\ disk'[x] = disk[x]
  BY <1>2, <1>4, <1>7
<1>9. CASE ~last
  <2>1. mem' = mem /\ disk' = disk
    BY <1>2, <1>4, <1>7, <1>9
  <2>2. QED BY <1>2, <1>3, <1>4, <1>5, <1>6, <1>8, <1>9, <2>1
<1>10. CASE last /\ mem[id].nlink = 0
  <2>1. mem'[id] = NoFile /\ disk'[id] = NoFile
    BY <1>2, <1>4, <1>7, <1>10
  <2>2. QED BY <1>2, <1>3, <1>4, <1>5, <1>6, <1>8, <1>10, <2>1
<1>11. CASE last /\ mem[id].nlink # 0
  <2>1. mem'[id] = mem[id] /\ disk'[id] = mem[id]
    BY <1>2, <1>4, <1>7, <1>11
  <2>2. QED BY <1>2, <1>3, <1>4, <1>5, <1>6, <1>8, <1>11, <2>1
<1>12. QED BY <1>9, <1>10, <1>11

(* Closing a guard keeps every path. *)
LEMMA SettlePaths ==
    ASSUME IInv, IInv', CInv, ~RenameOntoNonEmpty, Settle
    PROVE  KeepsPathOnDisk
<1>1. PICK id : id = Head(todo)
  OBVIOUS
<1>2. /\ id \in Ids /\ id = todo[1] /\ 1 \in 1..Len(todo) /\ Exists(mem, id)
      /\ \A x \in Ids : x # id => mem'[x] = mem[x] /\ disk'[x] = disk[x]
      /\ \/ mem' = mem /\ disk' = disk
         \/ mem'[id] = mem[id] /\ disk'[id] = mem[id]
         \/ mem'[id] = NoFile /\ disk'[id] = NoFile /\ mem[id].nlink = 0
  BY <1>1, SettleFacts
<1>3. CASE disk' = disk
  BY <1>3, DiskUntouched
<1>4. CASE disk'[id] = mem'[id]
  <2> SUFFICES ASSUME NoDirHandles PROVE KeepsPathOnDisk
    BY DEF KeepsPathOnDisk, NoDirHandles
  <2>1. CloseInOrder(1)
    BY <1>2 DEF CInv, CloseOrder
  <2>2. \A x \in Ids, n \in Names : x # id => Slot(mem', x, n) = Slot(mem, x, n) /\ Slot(disk', x, n) = Slot(disk, x, n)
    BY <1>2 DEF Slot, Exists
  <2>3. \A n \in Names : Slot(disk', id, n) = Slot(mem', id, n)
    BY <1>4 DEF Slot, Exists
  <2>4. \A n \in Names : Slot(mem', id, n) = Slot(mem, id, n)
    <3>1. CASE mem'[id] = mem[id]
      BY <3>1 DEF Slot, Exists
    <3>2. CASE mem'[id] = NoFile /\ mem[id].nlink = 0
      <4>1. mem[id].ents = NoEntries
        BY <1>2, <3>2 DEF IInv, WholeTree, EmptyGo
      <4>2. \A n \in Names : Slot(mem, id, n) = None
        BY <1>2, <4>1, NoSlots
      <4>3. QED BY <3>2, <4>2 DEF Slot, Exists
    <3>3. QED BY <1>2, <3>1, <3>2
  <2>5. CASE OnlyAdds(id)
    <3>1. \A n \in Names : Slot(disk, id, n) # None => Slot(disk', id, n) = Slot(disk, id, n)
      BY <2>3, <2>4, <2>5 DEF OnlyAdds
    <3>2. \A d \in Ids, n \in Names : Slot(disk, d, n) # None => Slot(disk', d, n) = Slot(disk, d, n)
      BY <2>2, <3>1
    <3>3. QED BY <3>2, DiskGrows
  <2>6. CASE \A x \in Ids : x # id => Covered(x)
    <3>1. \A d \in Ids, n \in Names : Slot(mem', d, n) # None => Slot(disk', d, n) = Slot(mem', d, n)
      BY <2>2, <2>3, <2>6 DEF Covered
    <3> SUFFICES ASSUME NEW W, NEW x \in ReachableIn(Without(mem', W))
                 PROVE  x \in ReachableIn(Without(disk', W))
      BY DEF KeepsPathOnDisk
    <3>2. x \in Ids /\ x \notin W /\ Exists(mem', x)
      BY AroundFacts
    <3>3. Exists(disk', x)
      BY <3>2 DEF IInv, Stored, StoredAt, Exists
    <3>4. QED BY <3>1, <3>2, <3>3, PathsGrowAround
  <2>7. (\A x \in Ids : x # id => Covered(x)) \/ OnlyAdds(id)
    <3>1. \A x \in Ids : x # id => \A j \in 1..1 : todo[j] # x
      BY <1>2
    <3>2. QED BY <1>2, <2>1, <3>1 DEF CloseInOrder
  <2>8. QED BY <2>5, <2>6, <2>7
<1>5. QED BY <1>2, <1>3, <1>4

(* Closing a guard leaves the others in order. *)
LEMMA SettleOrder ==
    ASSUME IInv, IInv', CInv, ~RenameOntoNonEmpty, Settle
    PROVE  CInv'
<1>1. PICK id : id = Head(todo)
  OBVIOUS
<1>2. /\ id \in Ids /\ id = todo[1] /\ 1 \in 1..Len(todo) /\ Exists(mem, id)
      /\ handles' = handles
      /\ \A x \in Ids : x # id => mem'[x] = mem[x] /\ disk'[x] = disk[x]
      /\ \/ mem' = mem /\ disk' = disk /\ (handles[id] > 0 \/ \E i \in 2..Len(todo) : todo[i] = id)
         \/ mem'[id] = mem[id] /\ disk'[id] = mem[id] /\ handles[id] = 0
         \/ mem'[id] = NoFile /\ disk'[id] = NoFile /\ mem[id].nlink = 0 /\ handles[id] = 0
      /\ Len(todo) \in Nat /\ Len(todo') = Len(todo) - 1
      /\ \A k \in 1..Len(todo') : k + 1 \in 2..Len(todo) /\ todo'[k] = todo[k + 1]
  BY <1>1, SettleFacts
<1>3. BareOnDisk'
  <2>1. \A x \in Ids : Kept(x)
    BY <1>2 DEF Kept, Exists
  <2>2. QED BY <2>1, BareKept DEF CInv
<1>4. \A k \in 1..Len(todo') : k \in Nat /\ k + 1 \in 1..Len(todo)
  BY <1>2
<1>5. TwinGuards'
  <2> SUFFICES ASSUME NEW i \in 1..Len(todo'), NEW j \in 1..Len(todo'), i < j, todo'[i] = todo'[j]
               PROVE  todo'[i + 1] = todo'[i]
    BY DEF TwinGuards
  <2>1. i + 1 \in 1..Len(todo) /\ j + 1 \in 1..Len(todo) /\ i + 1 < j + 1 /\ i + 1 \in 1..Len(todo')
    BY <1>2, <1>4
  <2>2. todo[i + 1] = todo[j + 1]
    BY <1>2
  <2>3. todo[(i + 1) + 1] = todo[i + 1]
    BY <2>1, <2>2 DEF CInv, TwinGuards
  <2>4. QED BY <1>2, <2>1, <2>3
<1>6. CloseOrder'
  <2> SUFFICES ASSUME NoDirHandles', NEW k \in 1..Len(todo') PROVE CloseInOrder(k)'
    BY DEF CloseOrder
  <2>1. NoDirHandles
    <3> SUFFICES ASSUME NEW x \in Ids, IsDir(mem, x) PROVE handles[x] = 0
      BY DEF NoDirHandles
    <3>1. CASE mem'[x] = mem[x]
      BY <1>2, <3>1 DEF NoDirHandles, IsDir, Exists
    <3>2. CASE mem'[x] # mem[x]
      BY <1>2, <3>2
    <3>3. QED BY <3>1, <3>2
  <2>2. k + 1 \in 1..Len(todo) /\ todo'[k] = todo[k + 1] /\ CloseInOrder(k + 1)
    BY <1>2, <1>4, <2>1 DEF CInv, CloseOrder
  <2>3. \A n \in Names : Slot(mem', id, n) = Slot(mem, id, n)
    <3>1. CASE mem'[id] = mem[id]
      BY <3>1 DEF Slot, Exists
    <3>2. CASE mem'[id] = NoFile /\ mem[id].nlink = 0
      <4>1. mem[id].ents = NoEntries
        BY <1>2, <3>2 DEF IInv, WholeTree, EmptyGo
      <4>2. \A n \in Names : Slot(mem, id, n) = None
        BY <1>2, <4>1, NoSlots
      <4>3. QED BY <3>2, <4>2 DEF Slot, Exists
    <3>3. QED BY <1>2, <3>1, <3>2
  <2>4. \A x \in Ids, n \in Names : Slot(mem', x, n) = Slot(mem, x, n)
    BY <1>2, <2>3 DEF Slot, Exists
  <2>5. \A x \in Ids, n \in Names : x # id => Slot(disk', x, n) = Slot(disk, x, n)
    BY <1>2 DEF Slot, Exists
  <2>6. disk' = disk \/ \A n \in Names : Slot(disk', id, n) = Slot(mem', id, n)
    BY <1>2 DEF Slot, Exists
  <2>7. CASE OnlyAdds(todo[k + 1])
    <3>0. \A i \in 1..Len(todo) : todo[i] \in Ids
      BY DEF IInv, TypeOK
    <3>1. PICK y \in Ids : y = todo[k + 1]
      BY <2>2, <3>0
    <3>2. \A n \in Names : Slot(disk', y, n) # None => Slot(mem', y, n) = Slot(disk', y, n)
      BY <2>4, <2>5, <2>6, <2>7, <3>1 DEF OnlyAdds
    <3>3. QED BY <2>2, <3>1, <3>2 DEF CloseInOrder, OnlyAdds, Slot, Exists
  <2>8. CASE \A x \in Ids : (\A j \in 1..(k + 1) : todo[j] # x) => Covered(x)
    <3> SUFFICES ASSUME NEW x \in Ids, \A j \in 1..k : todo'[j] # x
                 PROVE  Covered(x)'
      BY DEF CloseInOrder
    <3>1. \A j \in 2..(k + 1) : todo[j] # x
      <4> SUFFICES ASSUME NEW j \in 2..(k + 1) PROVE todo[j] # x
        OBVIOUS
      <4>1. j - 1 \in 1..k /\ j - 1 \in 1..Len(todo') /\ (j - 1) + 1 = j
        BY <1>2
      <4>2. todo'[j - 1] = todo[(j - 1) + 1]
        BY <1>2, <4>1
      <4>3. QED BY <4>1, <4>2
    <3>2. CASE x # id
      <4>1. \A j \in 1..(k + 1) : j = 1 \/ j \in 2..(k + 1)
        OBVIOUS
      <4>2. Covered(x)
        BY <1>2, <2>8, <3>1, <3>2, <4>1
      <4>3. \A n \in Names : Slot(mem', x, n) # None => Slot(disk', x, n) = Slot(mem', x, n)
        BY <2>4, <2>5, <3>2, <4>2 DEF Covered
      <4>4. QED BY <4>3 DEF Covered, Slot, Exists
    <3>3. CASE x = id
      <4>1. todo[2] # id
        BY <1>4, <3>1, <3>3
      <4>2. \A i \in 2..Len(todo) : todo[i] # id
        <5> SUFFICES ASSUME NEW i \in 2..Len(todo), todo[i] = id PROVE FALSE
          OBVIOUS
        <5>1. 1 < i /\ i \in 1..Len(todo) /\ 1 + 1 = 2
          BY <1>2
        <5>2. QED BY <1>2, <4>1, <5>1 DEF CInv, TwinGuards
      <4>3. CASE handles[id] > 0
        <5>1. handles[id] # 0
          BY <1>2, <4>3 DEF IInv, TypeOK
        <5>2. mem[id].ents = NoEntries
          BY <1>2, <2>1, <5>1 DEF NoDirHandles, IsDir, IInv, Tree, OnlyDirsHold
        <5>3. \A n \in Names : Slot(mem', id, n) = None
          BY <1>2, <2>4, <5>2, NoSlots
        <5>4. QED BY <3>3, <5>3 DEF Covered, Slot, Exists
      <4>4. CASE disk'[id] = mem'[id]
        BY <3>3, <4>4 DEF Covered, Slot, Exists
      <4>5. QED BY <1>2, <4>2, <4>3, <4>4
    <3>4. QED BY <3>2, <3>3
  <2>9. QED BY <2>2, <2>7, <2>8 DEF CloseInOrder
<1>7. QED BY <1>3, <1>5, <1>6 DEF CInv

-----------------------------------------------------------------------------
(* Nothing is to be closed at first. *)
LEMMA InitCInv == Init => CInv
<1> SUFFICES ASSUME Init PROVE CInv
  OBVIOUS
<1>1. todo = <<>> /\ disk = mem /\ IInv
  BY InitIInv DEF Init
<1>2. BareOnDisk
  BY <1>1 DEF BareOnDisk, IInv, Tree, OnlyDirsHold
<1>3. QED BY <1>1, <1>2 DEF CInv, CloseOrder, TwinGuards

(* Every step. *)
LEMMA NextCInv ==
    ASSUME ~RenameOntoNonEmpty
    PROVE  IInv /\ CInv /\ [Next]_vars => CInv' /\ (Next => KeepsPathOnDisk)
<1> SUFFICES ASSUME IInv, CInv, [Next]_vars PROVE CInv' /\ (Next => KeepsPathOnDisk)
  OBVIOUS
<1>0. IInv'
  BY NextIInv
<1> USE <1>0
<1>1. CASE Settle
  BY <1>1, SettlePaths, SettleOrder
<1>2. CASE Idle /\ Operation
  <2> USE <1>2
  <2> SUFFICES CInv' /\ KeepsPathOnDisk
    OBVIOUS
  <2>0. Len(<<>>) <= 1 /\ (UNCHANGED todo => Len(todo') <= 1) /\ \A id : Len(<<id>>) <= 1
    BY DEF Idle
  <2>1. ASSUME NEW d \in BaseDirs, NEW n \in UserNames, NEW id \in Ids, NEW a \in Attrs,
               \/ create(d, n, id, a)
               \/ \E t \in RealTypes : mknode(d, n, t, id, a) \/ createExists(d, n, t, id, a)
        PROVE  CInv' /\ KeepsPathOnDisk
    BY <2>1, CreateCrash, MknodeCrash, CreateExistsCrash
  <2>2. ASSUME NEW d \in BaseDirs, NEW n \in UserNames, unlink(d, n)
        PROVE  CInv' /\ KeepsPathOnDisk
    BY <2>2, UnlinkCrash
  <2>3. ASSUME NEW id \in Ids, release(id) \/ fsync(id)
        PROVE  CInv' /\ KeepsPathOnDisk
    <3>1. /\ handles[id] > 0 /\ UNCHANGED mem /\ disk' = [disk EXCEPT ![id] = mem[id]]
          /\ Len(todo') <= 1
      BY <2>0, <2>3 DEF release, fsync
    <3>2. Exists(mem, id)
      BY <3>1, HandleFacts
    <3>3. QED BY <3>1, <3>2, HandleCrash
  <2>4. ASSUME NEW id \in Ids, NEW a \in Attrs, ReadWrite(id, a) \/ ftruncate(id, a)
        PROVE  CInv' /\ KeepsPathOnDisk
    <3>1. handles[id] > 0 /\ Len(todo') <= 1 /\ \E f \in BOOLEAN : SetAttr(id, a, f)
      BY <2>0, <2>4 DEF ReadWrite, ftruncate
    <3>2. Exists(mem, id)
      BY <3>1, HandleFacts
    <3>3. QED BY <3>1, <3>2, AttrCrash
  <2>5. ASSUME NEW id \in OpenAll, opendir(id)
        PROVE  CInv' /\ KeepsPathOnDisk
    <3>1. UNCHANGED mem /\ disk' = disk /\ Len(todo') <= 1
      BY <2>0, <2>5 DEF opendir
    <3>2. id \in Ids /\ Exists(mem, id)
      BY Opened
    <3>3. QED BY <3>1, <3>2, HandleCrash
  <2>6. ASSUME NEW id \in OpenAll, NEW a \in Attrs,
               \/ open(id, a) \/ chmod(id, a) \/ truncate(id, a)
               \/ utimens(id, a) \/ readlink(id, a)
        PROVE  CInv' /\ KeepsPathOnDisk
    <3>1. Len(todo') <= 1 /\ \E f \in BOOLEAN : SetAttr(id, a, f)
      BY <2>0, <2>6 DEF open, chmod, truncate, utimens, readlink
    <3>2. id \in Ids /\ Exists(mem, id)
      BY Opened
    <3>3. QED BY <3>1, <3>2, AttrCrash
  <2>7. ASSUME NEW d1 \in BaseDirs, NEW d2 \in BaseDirs, NEW n1 \in UserNames, NEW n2 \in UserNames,
               renameFree(d1, n1, d2, n2) \/ renameOver(d1, n1, d2, n2) \/ link(d1, n1, d2, n2)
        PROVE  CInv' /\ KeepsPathOnDisk
    BY <2>7, RenameFreeCrash, RenameOverCrash, LinkCrash
  <2>8. CASE remount
    BY <2>8, RemountCrash
  <2>9. QED BY <2>1, <2>2, <2>3, <2>4, <2>5, <2>6, <2>7, <2>8 DEF Operation
<1>3. CASE UNCHANGED vars
  <2>1. mem' = mem /\ disk' = disk /\ handles' = handles /\ todo' = todo
    BY <1>3 DEF vars
  <2>2. CInv'
    BY <2>1 DEF CInv, CloseOrder, CloseInOrder, OnlyAdds, Covered, NoDirHandles, IsDir, TwinGuards,
                BareOnDisk, Slot, Exists
  <2>3. KeepsPathOnDisk
    BY <2>1, DiskUntouched
  <2>4. QED BY <2>2, <2>3
<1>4. QED BY <1>1, <1>2, <1>3 DEF Next

(* Where no client renames onto a directory with entries, a kill between any
   two closes costs a file its last path on disk only by the unsealed files
   it leaves impossible to open, whichever they are: link, unlink and rename
   close what loses an entry after what gains one (operations.cpp, rename,
   and the order of the FileGuards).                                         *)
THEOREM CrashesKeepPaths ==
    ASSUME ~RenameOntoNonEmpty
    PROVE  Spec => CrashKeepsPaths
<1>1. Init => CInv
  BY InitCInv
<1>2. IInv /\ CInv /\ [Next]_vars => CInv' /\ [KeepsPathOnDisk]_vars
  BY NextCInv DEF vars
<1>3. QED BY <1>1, <1>2, InductiveInvariant, PTL DEF Spec, CrashKeepsPaths
=============================================================================
