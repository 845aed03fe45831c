----------------------------- MODULE FullFSProofs -----------------------------
(***************************************************************************)
(* The namespace of the full format, proved for any number of files and    *)
(* names. IInv joins what is stored and held (Stored, GuardsValid) with    *)
(* the shape of the tree (Tree), and, where no client renames onto a       *)
(* directory with entries, with its connectedness (WholeTree): rename does *)
(* not check for that, see FullFSRename.cfg.                               *)
(*                                                                         *)
(* An operation changes the tree in one of a few ways: a file is new       *)
(* (AddNew, AddUnlinked), an entry goes (DropLink), comes (AddLink) or     *)
(* moves (MoveLink), files without links go (RemoveFiles), or nothing of   *)
(* the tree changes (SameTree). Those lemmas are about any two states of   *)
(* the files, and the lemma of every action applies one of them. The count *)
(* of links is a cardinality, which GainedLink follows over one entry;     *)
(* reachability is membership in every closed set, so a path is kept by    *)
(* showing that a set closed afterwards was closed before.                 *)
(***************************************************************************)
EXTENDS FullFS, FiniteSetTheorems, TLAPS

(* The entry n of d in fs, None also when there is no d. *)
Slot(fs, d, n) == IF Exists(fs, d) THEN fs[d].ents[n] ELSE None

Links(fs, x) == Cardinality(LinksTo(fs, x))

SameSlots(fs, gs) == \A d \in Ids, n \in Names : Slot(gs, d, n) = Slot(fs, d, n)

(* fs and gs differ in the entry n of d only. *)
OtherSlots(fs, gs, d, n) ==
    \A c \in Ids, m \in Names : (c # d \/ m # n) => Slot(gs, c, m) = Slot(fs, c, m)

-----------------------------------------------------------------------------
(* Only directories have entries. *)
OnlyDirsHold(fs) ==
    \A x \in Ids : (Exists(fs, x) /\ fs[x].type # "DIR") => fs[x].ents = NoEntries

(* Every entry leads to a file of its type. *)
EntriesLead(fs) ==
    \A d \in Ids, n \in Names : Slot(fs, d, n) # None =>
        /\ Exists(fs, Slot(fs, d, n).id)
        /\ fs[Slot(fs, d, n).id].type = Slot(fs, d, n).type

RootLink(x) == IF x = Root THEN 1 ELSE 0

(* No file has more entries than its link count says. *)
LinksCounted(fs) ==
    \A x \in Ids : Exists(fs, x) => fs[x].nlink >= Links(fs, x) + RootLink(x)

(* What holds of the tree whatever clients do. *)
Tree(fs) ==
    /\ fs \in [Ids -> {NoFile} \cup Node]
    /\ Exists(fs, Root)
    /\ OnlyDirsHold(fs)
    /\ EntriesLead(fs)
    /\ LinksCounted(fs)

LinksExact(fs) ==
    \A x \in Ids : Exists(fs, x) => fs[x].nlink = Links(fs, x) + RootLink(x)

EmptyGo(fs) ==
    \A x \in Ids : (Exists(fs, x) /\ fs[x].nlink = 0) => fs[x].ents = NoEntries

Connected(fs) ==
    \A x \in Ids : (Exists(fs, x) /\ fs[x].nlink > 0) => x \in ReachableIn(fs)

(* What holds of it when no directory with entries is replaced. *)
WholeTree(fs) == LinksExact(fs) /\ EmptyGo(fs) /\ Connected(fs)

InTodo(x) == \E k \in 1..Len(todo) : todo[k] = x

(* A file that the mounted file system has is there on disk, and as it is in
   memory unless a handle or a guard is open on it; a handle is on a file that
   exists; and a file without links is held by a handle or a guard.          *)
StoredAt(x) ==
    /\ Exists(mem, x) => Exists(disk, x)
    /\ (handles[x] = 0 /\ ~InTodo(x)) => disk[x] = mem[x]
    /\ handles[x] > 0 => Exists(mem, x)
    /\ (Exists(mem, x) /\ mem[x].nlink = 0) => (handles[x] > 0 \/ InTodo(x))

Stored == \A x \in Ids : StoredAt(x)

(* A guard is on a file that exists. *)
GuardsValid == \A k \in 1..Len(todo) : Exists(mem, todo[k])

IInv ==
    /\ TypeOK
    /\ Stored
    /\ GuardsValid
    /\ Tree(mem)
    /\ ~RenameOntoNonEmpty => WholeTree(mem)

-----------------------------------------------------------------------------
(* Entries and slots are the same thing. *)
LEMMA EntrySlots ==
    ASSUME NEW fs, NEW d \in Ids, NEW n \in Names
    PROVE  /\ <<d, n>> \in EntriesOf(fs) <=> Slot(fs, d, n) # None
           /\ Slot(fs, d, n) # None => Target(fs, <<d, n>>) = Slot(fs, d, n)
BY DEF EntriesOf, Slot, Target

(* An entry is a pair of a directory and a name. *)
LEMMA EntryPair ==
    ASSUME NEW fs, NEW e \in EntriesOf(fs)
    PROVE  e[1] \in Ids /\ e[2] \in Names /\ e = <<e[1], e[2]>>
BY DEF EntriesOf

(* The links to a file are the slots that name it. *)
LEMMA LinksAreSlots ==
    ASSUME NEW fs, NEW x
    PROVE  LinksTo(fs, x) = {e \in Ids \X Names : /\ Slot(fs, e[1], e[2]) # None
                                                  /\ Slot(fs, e[1], e[2]).id = x}
<1>1. ASSUME NEW e \in LinksTo(fs, x)
      PROVE  e \in Ids \X Names /\ Slot(fs, e[1], e[2]) # None /\ Slot(fs, e[1], e[2]).id = x
  <2>1. e \in EntriesOf(fs) /\ Target(fs, e).id = x
    BY DEF LinksTo
  <2>2. e[1] \in Ids /\ e[2] \in Names /\ e = <<e[1], e[2]>>
    BY <2>1, EntryPair
  <2>3. QED BY <2>1, <2>2, EntrySlots
<1>2. ASSUME NEW e \in Ids \X Names, Slot(fs, e[1], e[2]) # None, Slot(fs, e[1], e[2]).id = x
      PROVE  e \in LinksTo(fs, x)
  <2>1. e[1] \in Ids /\ e[2] \in Names /\ e = <<e[1], e[2]>>
    OBVIOUS
  <2>2. QED BY <1>2, <2>1, EntrySlots DEF LinksTo
<1>3. QED BY <1>1, <1>2

(* Links can be counted: there are finitely many directories and names. *)
LEMMA LinksFinite ==
    ASSUME NEW fs, NEW x
    PROVE  IsFiniteSet(LinksTo(fs, x)) /\ Links(fs, x) \in Nat
<1>1. IsFiniteSet(Ids \X Names)
  BY FSAssumption, FS_Product
<1>2. LinksTo(fs, x) \subseteq Ids \X Names
  BY LinksAreSlots
<1>3. IsFiniteSet(LinksTo(fs, x))
  BY <1>1, <1>2, FS_Subset
<1>4. QED BY <1>3, FS_CardinalityType DEF Links

(* The same slots are the same links. *)
LEMMA SameLinks ==
    ASSUME NEW fs, NEW gs, SameSlots(fs, gs)
    PROVE  \A x : LinksTo(gs, x) = LinksTo(fs, x) /\ Links(gs, x) = Links(fs, x)
<1>1. ASSUME NEW x PROVE LinksTo(gs, x) = LinksTo(fs, x)
  BY LinksAreSlots DEF SameSlots
<1>2. QED BY <1>1 DEF Links

(* One entry more is one link more for what it names. *)
LEMMA GainedLink ==
    ASSUME NEW fs, NEW gs, NEW d \in Ids, NEW n \in Names, OtherSlots(fs, gs, d, n),
           Slot(fs, d, n) = None, Slot(gs, d, n) # None, NEW x
    PROVE  Links(gs, x) = Links(fs, x) + (IF Slot(gs, d, n).id = x THEN 1 ELSE 0)
<1>1. <<d, n>> \notin LinksTo(fs, x)
  BY LinksAreSlots
<1>2. CASE Slot(gs, d, n).id = x
  <2>1. LinksTo(gs, x) = LinksTo(fs, x) \cup {<<d, n>>}
    BY <1>2, LinksAreSlots DEF OtherSlots
  <2>2. Links(gs, x) = Links(fs, x) + 1
    BY <1>1, <2>1, LinksFinite, FS_AddElement DEF Links
  <2>3. QED BY <1>2, <2>2
<1>3. CASE Slot(gs, d, n).id # x
  <2>1. LinksTo(gs, x) = LinksTo(fs, x)
    BY <1>3, LinksAreSlots DEF OtherSlots
  <2>2. QED BY <1>3, <2>1, LinksFinite DEF Links
<1>4. QED BY <1>2, <1>3

-----------------------------------------------------------------------------
(* S has all that the entries of its directories name. *)
Holds(fs, S) == \A d \in Ids, n \in Names : (d \in S /\ Slot(fs, d, n) # None) => Slot(fs, d, n).id \in S

(* A set that is closed under the edges is one that holds what its slots
   name. *)
LEMMA ClosedSlots ==
    ASSUME NEW fs, NEW S
    PROVE  ClosedUnder(S, Edges(fs)) <=> Holds(fs, S)
<1>1. ASSUME ClosedUnder(S, Edges(fs)), NEW d \in Ids, NEW n \in Names, d \in S, Slot(fs, d, n) # None
      PROVE  Slot(fs, d, n).id \in S
  <2>1. <<d, n>> \in EntriesOf(fs) /\ Target(fs, <<d, n>>) = Slot(fs, d, n)
    BY <1>1, EntrySlots
  <2>2. <<d, Slot(fs, d, n).id>> \in Edges(fs)
    BY <2>1 DEF Edges
  <2>3. QED BY <1>1, <2>2 DEF ClosedUnder
<1>2. ASSUME Holds(fs, S), NEW edge \in Edges(fs), edge[1] \in S
      PROVE  edge[2] \in S
  <2>1. PICK e \in EntriesOf(fs) : edge = <<e[1], Target(fs, e).id>>
    BY DEF Edges
  <2>2. e[1] \in Ids /\ e[2] \in Names /\ e = <<e[1], e[2]>>
    BY EntryPair
  <2>3. Slot(fs, e[1], e[2]) # None /\ Target(fs, e) = Slot(fs, e[1], e[2])
    BY <2>2, EntrySlots
  <2>4. QED BY <1>2, <2>1, <2>2, <2>3 DEF Holds
<1>3. QED BY <1>1, <1>2 DEF Holds, ClosedUnder

(* A path leads to what every closed set with the root has. *)
LEMMA Reached ==
    ASSUME NEW fs, NEW x \in Ids
    PROVE  x \in ReachableIn(fs) <=>
              Exists(fs, x) /\ \A S \in SUBSET Ids : (Root \in S /\ Holds(fs, S)) => x \in S
BY ClosedSlots DEF ReachableIn

(* What can be reached has a link. *)
LEMMA ReachedIsLinked ==
    ASSUME NEW fs, Tree(fs), NEW x \in ReachableIn(fs)
    PROVE  x \in Ids /\ Exists(fs, x) /\ fs[x].nlink > 0
<1>1. x \in Ids /\ Exists(fs, x)
  BY DEF ReachableIn
<1> DEFINE S == {y \in Ids : y = Root \/ LinksTo(fs, y) # {}}
<1>2. Holds(fs, S)
  <2> SUFFICES ASSUME NEW d \in Ids, NEW n \in Names, Slot(fs, d, n) # None
               PROVE  Slot(fs, d, n).id \in S
    BY DEF Holds
  <2>1. Slot(fs, d, n) \in Entry
    BY DEF Slot, Exists, Tree, Node
  <2>2. Slot(fs, d, n).id \in Ids
    BY <2>1 DEF Entry
  <2>3. <<d, n>> \in LinksTo(fs, Slot(fs, d, n).id)
    BY LinksAreSlots
  <2>4. QED BY <2>2, <2>3
<1>3. Root \in S
  BY FSAssumption
<1>4. x \in S
  BY <1>1, <1>2, <1>3, Reached
<1>5. fs[x].nlink >= Links(fs, x) + RootLink(x) /\ fs[x].nlink \in Nat
  BY <1>1 DEF Tree, LinksCounted, Exists, Node
<1>6. CASE x = Root
  BY <1>1, <1>5, <1>6, LinksFinite DEF RootLink
<1>7. CASE LinksTo(fs, x) # {}
  <2>1. Links(fs, x) # 0
    BY <1>7, LinksFinite, FS_EmptySet DEF Links
  <2>2. RootLink(x) \in Nat
    BY DEF RootLink
  <2>3. Links(fs, x) \in Nat
    BY LinksFinite
  <2>4. fs[x].nlink > 0
    BY <1>5, <2>1, <2>2, <2>3
  <2>5. QED BY <1>1, <2>4
<1>8. QED BY <1>4, <1>6, <1>7

(* A file is not linked exactly when no entry names it. *)
LEMMA NoLinks ==
    ASSUME NEW fs, NEW x, Links(fs, x) = 0, NEW d \in Ids, NEW n \in Names, Slot(fs, d, n) # None
    PROVE  Slot(fs, d, n).id # x
<1>1. LinksTo(fs, x) = {}
  BY LinksFinite, FS_EmptySet DEF Links
<1>2. Slot(fs, d, n).id = x => <<d, n>> \in LinksTo(fs, x)
  BY LinksAreSlots
<1>3. QED BY <1>1, <1>2

(* A slot that is taken holds an entry of a file that exists. *)
LEMMA SlotType ==
    ASSUME NEW fs \in [Ids -> {NoFile} \cup Node], NEW d \in Ids, NEW n \in Names, Slot(fs, d, n) # None
    PROVE  /\ Slot(fs, d, n) \in Entry
           /\ Slot(fs, d, n).id \in Ids
           /\ Exists(fs, d) /\ Slot(fs, d, n) = fs[d].ents[n]
<1>1. Slot(fs, d, n) \in Entry
  BY DEF Slot, Exists, Node
<1>2. QED BY <1>1 DEF Slot, Entry

(* A file without entries has no slot taken. *)
LEMMA NoSlots ==
    ASSUME NEW fs, NEW d \in Ids, Exists(fs, d), fs[d].ents = NoEntries, NEW n \in Names
    PROVE  Slot(fs, d, n) = None
BY DEF Slot, NoEntries

(* Nothing about the tree changes. *)
LEMMA SameTree ==
    ASSUME NEW fs, NEW gs \in [Ids -> {NoFile} \cup Node], Tree(fs),
           \A x \in Ids : /\ Exists(gs, x) <=> Exists(fs, x)
                          /\ Exists(fs, x) => /\ gs[x].type = fs[x].type
                                              /\ gs[x].nlink = fs[x].nlink
                                              /\ gs[x].ents = fs[x].ents
    PROVE  Tree(gs) /\ (WholeTree(fs) => WholeTree(gs))
<1>1. SameSlots(fs, gs)
  BY DEF SameSlots, Slot
<1>2. \A x : Links(gs, x) = Links(fs, x)
  BY <1>1, SameLinks
<1>3. OnlyDirsHold(gs)
  BY DEF Tree, OnlyDirsHold
<1>4. EntriesLead(gs)
  BY <1>1, SlotType DEF Tree, EntriesLead, SameSlots
<1>5. LinksCounted(gs)
  BY <1>2 DEF Tree, LinksCounted
<1>6. ASSUME WholeTree(fs) PROVE WholeTree(gs)
  <2>1. LinksExact(gs) /\ EmptyGo(gs)
    BY <1>2, <1>6 DEF WholeTree, LinksExact, EmptyGo
  <2>2. \A S : Holds(gs, S) <=> Holds(fs, S)
    BY <1>1 DEF Holds, SameSlots
  <2>3. Connected(gs)
    BY <1>6, <2>2, Reached DEF WholeTree, Connected
  <2>4. QED BY <2>1, <2>3 DEF WholeTree
<1>7. Exists(gs, Root)
  BY FSAssumption DEF Tree
<1>8. QED BY <1>3, <1>4, <1>5, <1>6, <1>7 DEF Tree

-----------------------------------------------------------------------------
(* The other files of fs are the same in gs, but for their entries. *)
Same(fs, gs, x) ==
    /\ Exists(gs, x) <=> Exists(fs, x)
    /\ Exists(fs, x) => gs[x].type = fs[x].type /\ gs[x].nlink = fs[x].nlink

(* gs is fs with the new file id under the name n of d. *)
NewFile(fs, gs, d, n, id) ==
    /\ ~Exists(fs, id) /\ Exists(gs, id)
    /\ gs[id].nlink = 1 /\ gs[id].ents = NoEntries
    /\ Exists(fs, d) /\ fs[d].type = "DIR" /\ fs[d].ents[n] = None
    /\ \A x \in Ids : x # id => Same(fs, gs, x)
    /\ \A x \in Ids : x # id /\ x # d /\ Exists(fs, x) => gs[x].ents = fs[x].ents
    /\ \A m \in Names : m # n => gs[d].ents[m] = fs[d].ents[m]
    /\ gs[d].ents[n] # None /\ gs[d].ents[n].id = id /\ gs[d].ents[n].type = gs[id].type

(* A new file gets its first entry, in a directory that can be reached. *)
LEMMA AddNew ==
    ASSUME NEW fs, NEW gs \in [Ids -> {NoFile} \cup Node], Tree(fs),
           NEW d \in Ids, NEW n \in Names, NEW id \in Ids, NewFile(fs, gs, d, n, id)
    PROVE  Tree(gs) /\ (WholeTree(fs) /\ d \in ReachableIn(fs) => WholeTree(gs))
<1> USE DEF NewFile
<1>1. d # id /\ Exists(gs, d) /\ gs[d].type = "DIR" /\ gs[d].nlink = fs[d].nlink
  BY DEF Same
<1>2. OtherSlots(fs, gs, d, n) /\ Slot(fs, d, n) = None /\ Slot(gs, d, n) = gs[d].ents[n]
  <2>1. \A c \in Ids, m \in Names : c = id => Slot(fs, c, m) = None /\ Slot(gs, c, m) = None
    BY DEF Slot, NoEntries
  <2>2. \A c \in Ids, m \in Names : c # id /\ (c # d \/ m # n) => Slot(gs, c, m) = Slot(fs, c, m)
    BY DEF Slot, Same
  <2>3. QED BY <1>1, <2>1, <2>2 DEF OtherSlots, Slot
<1>3. Links(fs, id) = 0
  <2>1. LinksTo(fs, id) = {}
    BY LinksAreSlots, SlotType DEF Tree, EntriesLead
  <2>2. QED BY <2>1, FS_EmptySet DEF Links
<1>4. \A x \in Ids : Links(gs, x) = Links(fs, x) + (IF x = id THEN 1 ELSE 0)
  BY <1>2, GainedLink
<1>5. id # Root /\ Exists(gs, Root)
  BY FSAssumption DEF Tree, Same
<1>6. OnlyDirsHold(gs)
  BY <1>1 DEF Tree, OnlyDirsHold, Same
<1>7. EntriesLead(gs)
  <2> SUFFICES ASSUME NEW c \in Ids, NEW m \in Names, Slot(gs, c, m) # None
               PROVE  Exists(gs, Slot(gs, c, m).id) /\ gs[Slot(gs, c, m).id].type = Slot(gs, c, m).type
    BY DEF EntriesLead
  <2>1. CASE c = d /\ m = n
    BY <1>2, <2>1
  <2>2. CASE c # d \/ m # n
    BY <1>2, <2>2, SlotType DEF OtherSlots, Tree, EntriesLead, Same
  <2>3. QED BY <2>1, <2>2
<1>8. ASSUME NEW x \in Ids, Exists(gs, x)
      PROVE  \/ Exists(fs, x) /\ gs[x].nlink = fs[x].nlink /\ Links(gs, x) = Links(fs, x)
             \/ gs[x].nlink = Links(gs, x) + RootLink(x) /\ gs[x].nlink = 1
  <2>1. CASE x = id
    BY <1>3, <1>4, <1>5, <2>1 DEF RootLink
  <2>2. CASE x # id
    BY <1>4, <1>8, <2>2, LinksFinite DEF Same
  <2>3. QED BY <2>1, <2>2
<1>9. LinksCounted(gs)
  BY <1>8 DEF Tree, LinksCounted
<1>10. ASSUME WholeTree(fs), d \in ReachableIn(fs) PROVE WholeTree(gs)
  <2>1. LinksExact(gs)
    BY <1>8, <1>10 DEF WholeTree, LinksExact
  <2>2. EmptyGo(gs)
    BY <1>1, <1>10, ReachedIsLinked DEF WholeTree, EmptyGo, Same
  <2>3. ASSUME NEW S \in SUBSET Ids, Root \in S, Holds(gs, S)
        PROVE  Holds(fs, S) /\ id \in S
    <3>1. Holds(fs, S)
      BY <1>2, <2>3 DEF Holds, OtherSlots
    <3>2. d \in S
      BY <1>10, <2>3, <3>1, Reached
    <3>3. QED BY <1>2, <2>3, <3>1, <3>2 DEF Holds
  <2>4. Connected(gs)
    <3> SUFFICES ASSUME NEW x \in Ids, Exists(gs, x), gs[x].nlink > 0 PROVE x \in ReachableIn(gs)
      BY DEF Connected
    <3>1. CASE x = id
      BY <2>3, <3>1, Reached
    <3>2. CASE x # id
      <4>1. x \in ReachableIn(fs)
        BY <1>10, <3>2 DEF WholeTree, Connected, Same
      <4>2. QED BY <2>3, <4>1, Reached
    <3>3. QED BY <3>1, <3>2
  <2>5. QED BY <2>1, <2>2, <2>4 DEF WholeTree
<1>11. QED BY <1>5, <1>6, <1>7, <1>9, <1>10 DEF Tree

(* A new file that has lost its only link again. *)
LEMMA AddUnlinked ==
    ASSUME NEW fs, NEW gs \in [Ids -> {NoFile} \cup Node], Tree(fs),
           NEW id \in Ids, ~Exists(fs, id), Exists(gs, id),
           gs[id].nlink = 0, gs[id].ents = NoEntries,
           \A x \in Ids : x # id => gs[x] = fs[x]
    PROVE  Tree(gs) /\ (WholeTree(fs) => WholeTree(gs))
<1>1. SameSlots(fs, gs)
  BY DEF SameSlots, Slot, Exists, NoEntries
<1>2. \A x : LinksTo(gs, x) = LinksTo(fs, x) /\ Links(gs, x) = Links(fs, x)
  BY <1>1, SameLinks
<1>3. Links(gs, id) = 0
  <2>1. LinksTo(fs, id) = {}
    BY LinksAreSlots, SlotType DEF Tree, EntriesLead
  <2>2. QED BY <1>2, <2>1, FS_EmptySet DEF Links
<1>4. id # Root /\ Exists(gs, Root)
  BY FSAssumption DEF Tree, Exists
<1>5. OnlyDirsHold(gs)
  BY DEF Tree, OnlyDirsHold, Exists
<1>6. EntriesLead(gs)
  BY <1>1, SlotType DEF Tree, EntriesLead, SameSlots, Exists
<1>7. LinksCounted(gs)
  BY <1>2, <1>3, <1>4 DEF Tree, LinksCounted, RootLink, Exists
<1>8. ASSUME WholeTree(fs) PROVE WholeTree(gs)
  <2>1. LinksExact(gs)
    BY <1>2, <1>3, <1>4, <1>8 DEF WholeTree, LinksExact, RootLink, Exists
  <2>2. EmptyGo(gs)
    BY <1>8 DEF WholeTree, EmptyGo, Exists
  <2>3. \A S : Holds(gs, S) <=> Holds(fs, S)
    BY <1>1 DEF Holds, SameSlots
  <2>4. Connected(gs)
    <3> SUFFICES ASSUME NEW x \in Ids, Exists(gs, x), gs[x].nlink > 0 PROVE x \in ReachableIn(gs)
      BY DEF Connected
    <3>1. x # id
      OBVIOUS
    <3>2. x \in ReachableIn(fs)
      BY <1>8, <3>1 DEF WholeTree, Connected, Exists
    <3>3. QED BY <2>3, <3>2, Reached
  <2>5. QED BY <2>1, <2>2, <2>4 DEF WholeTree
<1>9. QED BY <1>4, <1>5, <1>6, <1>7, <1>8 DEF Tree

(* What an entry names has a link. *)
LEMMA NamedIsLinked ==
    ASSUME NEW fs, Tree(fs), NEW d \in Ids, NEW n \in Names, Slot(fs, d, n) # None
    PROVE  /\ Slot(fs, d, n).id \in Ids
           /\ Exists(fs, Slot(fs, d, n).id)
           /\ fs[Slot(fs, d, n).id].nlink \in Nat /\ fs[Slot(fs, d, n).id].nlink > 0
<1> DEFINE id == Slot(fs, d, n).id
<1>1. id \in Ids /\ Exists(fs, id)
  BY SlotType DEF Tree, EntriesLead
<1>2. Links(fs, id) # 0
  BY NoLinks
<1>3. Links(fs, id) \in Nat
  BY LinksFinite
<1>4. fs[id].nlink \in Nat
  BY <1>1 DEF Tree, Exists, Node
<1>5. fs[id].nlink >= Links(fs, id) + RootLink(id) /\ RootLink(id) \in Nat
  BY <1>1 DEF Tree, LinksCounted, RootLink
<1>6. fs[id].nlink > 0
  BY <1>2, <1>3, <1>4, <1>5
<1>7. QED BY <1>1, <1>4, <1>6

(* gs is fs without the entry n of d, which named id. *)
EntryGone(fs, gs, d, n, id) ==
    /\ Slot(fs, d, n) # None /\ id = Slot(fs, d, n).id
    /\ \A x \in Ids : x # id => Same(fs, gs, x)
    /\ Exists(gs, id) /\ gs[id].type = fs[id].type /\ gs[id].nlink = fs[id].nlink - 1
    /\ \A x \in Ids : x # d /\ Exists(fs, x) => gs[x].ents = fs[x].ents
    /\ \A m \in Names : m # n => gs[d].ents[m] = fs[d].ents[m]
    /\ gs[d].ents[n] = None

(* An entry goes, and what it named has one link less. *)
LEMMA DropLink ==
    ASSUME NEW fs, NEW gs \in [Ids -> {NoFile} \cup Node], Tree(fs),
           NEW d \in Ids, NEW n \in Names, NEW id, EntryGone(fs, gs, d, n, id)
    PROVE  Tree(gs) /\ (WholeTree(fs) /\ fs[id].ents = NoEntries => WholeTree(gs))
<1> USE DEF EntryGone
<1>1. id \in Ids /\ Exists(fs, id) /\ fs[id].nlink \in Nat /\ fs[id].nlink > 0
  BY NamedIsLinked
<1>2. \A x \in Ids : /\ Exists(gs, x) <=> Exists(fs, x)
                     /\ Exists(fs, x) => gs[x].type = fs[x].type
  BY <1>1 DEF Same
<1>3. OtherSlots(gs, fs, d, n) /\ Slot(gs, d, n) = None
  BY <1>2 DEF OtherSlots, Slot
<1>4. ASSUME NEW x \in Ids PROVE Links(fs, x) = Links(gs, x) + (IF id = x THEN 1 ELSE 0)
  BY <1>3, GainedLink
<1>5. Exists(gs, Root)
  BY <1>2, FSAssumption DEF Tree
<1>6. OnlyDirsHold(gs)
  <2>1. Exists(fs, d)
    BY SlotType DEF Tree
  <2>2. fs[d].type = "DIR"
    BY <2>1, NoSlots DEF Tree, OnlyDirsHold
  <2>3. QED BY <1>2, <2>2 DEF Tree, OnlyDirsHold
<1>7. EntriesLead(gs)
  BY <1>2, <1>3, SlotType DEF Tree, EntriesLead, OtherSlots
<1>8. ASSUME NEW x \in Ids, Exists(gs, x)
      PROVE  /\ Exists(fs, x) /\ Links(gs, x) \in Nat /\ gs[x].nlink \in Nat
             /\ x # id => gs[x].nlink = fs[x].nlink /\ Links(gs, x) = Links(fs, x)
             /\ x = id => gs[x].nlink = fs[x].nlink - 1 /\ Links(gs, x) = Links(fs, x) - 1
  <2>1. Links(gs, x) \in Nat
    BY LinksFinite
  <2>2. gs[x].nlink \in Nat
    BY <1>8 DEF Exists, Node
  <2>3. CASE x = id
    BY <1>1, <1>4, <2>1, <2>2, <2>3
  <2>4. CASE x # id
    BY <1>4, <1>8, <2>1, <2>2, <2>4 DEF Same
  <2>5. QED BY <2>3, <2>4
<1>9. LinksCounted(gs)
  <2> SUFFICES ASSUME NEW x \in Ids, Exists(gs, x) PROVE gs[x].nlink >= Links(gs, x) + RootLink(x)
    BY DEF LinksCounted
  <2>1. fs[x].nlink >= Links(fs, x) + RootLink(x) /\ RootLink(x) \in Nat
    BY <1>8 DEF Tree, LinksCounted, RootLink
  <2>2. fs[x].nlink \in Nat /\ Links(fs, x) \in Nat
    BY <1>8, LinksFinite DEF Tree, Exists, Node
  <2>3. CASE x = id
    BY <1>8, <2>1, <2>2, <2>3
  <2>4. CASE x # id
    BY <1>8, <2>1, <2>4
  <2>5. QED BY <2>3, <2>4
<1>10. ASSUME WholeTree(fs), fs[id].ents = NoEntries PROVE WholeTree(gs)
  <2>1. LinksExact(gs)
    <3> SUFFICES ASSUME NEW x \in Ids, Exists(gs, x) PROVE gs[x].nlink = Links(gs, x) + RootLink(x)
      BY DEF LinksExact
    <3>1. fs[x].nlink = Links(fs, x) + RootLink(x) /\ RootLink(x) \in Nat
      BY <1>8, <1>10 DEF WholeTree, LinksExact, RootLink
    <3>2. fs[x].nlink \in Nat /\ Links(fs, x) \in Nat
      BY <1>8, LinksFinite DEF Tree, Exists, Node
    <3>3. CASE x = id
      BY <1>8, <3>1, <3>2, <3>3
    <3>4. CASE x # id
      BY <1>8, <3>1, <3>4
    <3>5. QED BY <3>3, <3>4
  <2>2. id # d /\ gs[id].ents = NoEntries
    BY <1>1, <1>10, NoSlots
  <2>3. EmptyGo(gs)
    <3> SUFFICES ASSUME NEW x \in Ids, Exists(gs, x), gs[x].nlink = 0 PROVE gs[x].ents = NoEntries
      BY DEF EmptyGo
    <3>1. CASE x # id
      <4>1. Exists(fs, x) /\ fs[x].ents = NoEntries
        BY <1>8, <1>10, <3>1 DEF WholeTree, EmptyGo
      <4>2. x # d
        BY <4>1, NoSlots
      <4>3. QED BY <4>1, <4>2
    <3>2. QED BY <2>2, <3>1
  <2>4. ASSUME NEW S \in SUBSET Ids, Root \in S, Holds(gs, S), NEW x \in ReachableIn(fs), x # id
        PROVE  x \in S
    <3>1. Holds(fs, S \cup {id})
      <4> SUFFICES ASSUME NEW c \in Ids, NEW m \in Names, c \in S \cup {id}, Slot(fs, c, m) # None
                   PROVE  Slot(fs, c, m).id \in S \cup {id}
        BY DEF Holds
      <4>1. c # id
        BY <1>1, <1>10, NoSlots
      <4>2. CASE c = d /\ m = n
        BY <4>2
      <4>3. CASE c # d \/ m # n
        BY <1>3, <2>4, <4>1, <4>3 DEF Holds, OtherSlots
      <4>4. QED BY <4>2, <4>3
    <3>2. S \cup {id} \in SUBSET Ids /\ x \in Ids
      BY <1>1, ReachedIsLinked
    <3>3. QED BY <2>4, <3>1, <3>2, Reached
  <2>5. Connected(gs)
    <3> SUFFICES ASSUME NEW x \in Ids, Exists(gs, x), gs[x].nlink > 0,
                        NEW S \in SUBSET Ids, Root \in S, Holds(gs, S)
                 PROVE  x \in S
      BY Reached DEF Connected
    <3>1. CASE x # id
      BY <1>8, <1>10, <2>4, <3>1 DEF WholeTree, Connected
    <3>2. CASE x = id /\ x # Root
      <4>1. Links(gs, id) # 0
        BY <1>8, <2>1, <3>2 DEF LinksExact, RootLink
      <4>2. LinksTo(gs, id) # {}
        BY <4>1, FS_EmptySet DEF Links
      <4>3. PICK c \in Ids, m \in Names : Slot(gs, c, m) # None /\ Slot(gs, c, m).id = id
        BY <4>2, LinksAreSlots
      <4>4. c # id /\ Slot(fs, c, m) # None
        BY <1>3, <2>2, <4>3, NoSlots DEF OtherSlots
      <4>5. Exists(fs, c)
        BY <4>4 DEF Slot
      <4>6. fs[c].nlink \in Nat /\ fs[c].nlink # 0
        BY <1>10, <4>4, <4>5, NoSlots DEF WholeTree, EmptyGo, Tree, Exists, Node
      <4>7. c \in ReachableIn(fs)
        BY <1>10, <4>5, <4>6 DEF WholeTree, Connected
      <4>8. c \in S
        BY <2>4, <4>4, <4>7
      <4>9. QED BY <3>2, <4>3, <4>8 DEF Holds
    <3>3. QED BY <3>1, <3>2
  <2>6. QED BY <2>1, <2>3, <2>5 DEF WholeTree
<1>11. QED BY <1>5, <1>6, <1>7, <1>9, <1>10 DEF Tree

(* gs is fs with the entry n of d, which names id. *)
EntryMade(fs, gs, d, n, id) ==
    /\ Exists(fs, id) /\ fs[id].nlink > 0 /\ fs[id].type # "DIR"
    /\ Exists(fs, d) /\ fs[d].type = "DIR" /\ fs[d].ents[n] = None
    /\ \A x \in Ids : x # id => Same(fs, gs, x)
    /\ Exists(gs, id) /\ gs[id].type = fs[id].type /\ gs[id].nlink = fs[id].nlink + 1
    /\ \A x \in Ids : x # d /\ Exists(fs, x) => gs[x].ents = fs[x].ents
    /\ \A m \in Names : m # n => gs[d].ents[m] = fs[d].ents[m]
    /\ gs[d].ents[n] # None /\ gs[d].ents[n].id = id /\ gs[d].ents[n].type = fs[id].type

(* One more entry for a file that is linked already. *)
LEMMA AddLink ==
    ASSUME NEW fs, NEW gs \in [Ids -> {NoFile} \cup Node], Tree(fs),
           NEW d \in Ids, NEW n \in Names, NEW id \in Ids, EntryMade(fs, gs, d, n, id)
    PROVE  Tree(gs) /\ (WholeTree(fs) /\ d \in ReachableIn(fs) => WholeTree(gs))
<1> USE DEF EntryMade
<1>1. d # id
  OBVIOUS
<1>2. \A x \in Ids : /\ Exists(gs, x) <=> Exists(fs, x)
                     /\ Exists(fs, x) => gs[x].type = fs[x].type
  BY DEF Same
<1>3. OtherSlots(fs, gs, d, n) /\ Slot(fs, d, n) = None /\ Slot(gs, d, n) = gs[d].ents[n]
  BY <1>2 DEF OtherSlots, Slot
<1>4. ASSUME NEW x \in Ids PROVE Links(gs, x) = Links(fs, x) + (IF id = x THEN 1 ELSE 0)
  BY <1>3, GainedLink
<1>5. Exists(gs, Root)
  BY <1>2, FSAssumption DEF Tree
<1>6. OnlyDirsHold(gs)
  BY <1>2 DEF Tree, OnlyDirsHold
<1>7. EntriesLead(gs)
  <2> SUFFICES ASSUME NEW c \in Ids, NEW m \in Names, Slot(gs, c, m) # None
               PROVE  Exists(gs, Slot(gs, c, m).id) /\ gs[Slot(gs, c, m).id].type = Slot(gs, c, m).type
    BY DEF EntriesLead
  <2>1. CASE c = d /\ m = n
    BY <1>3, <2>1
  <2>2. CASE c # d \/ m # n
    BY <1>2, <1>3, <2>2, SlotType DEF OtherSlots, Tree, EntriesLead
  <2>3. QED BY <2>1, <2>2
<1>8. ASSUME NEW x \in Ids, Exists(gs, x)
      PROVE  /\ Exists(fs, x) /\ Links(fs, x) \in Nat /\ fs[x].nlink \in Nat
             /\ x # id => gs[x].nlink = fs[x].nlink /\ Links(gs, x) = Links(fs, x)
             /\ x = id => gs[x].nlink = fs[x].nlink + 1 /\ Links(gs, x) = Links(fs, x) + 1
  <2>1. Links(fs, x) \in Nat
    BY LinksFinite
  <2>2. Exists(fs, x) /\ fs[x].nlink \in Nat
    BY <1>2, <1>8 DEF Exists, Node, Tree
  <2>3. CASE x = id
    BY <1>4, <2>1, <2>2, <2>3
  <2>4. CASE x # id
    BY <1>4, <2>1, <2>2, <2>4 DEF Same
  <2>5. QED BY <2>3, <2>4
<1>9. LinksCounted(gs)
  <2> SUFFICES ASSUME NEW x \in Ids, Exists(gs, x) PROVE gs[x].nlink >= Links(gs, x) + RootLink(x)
    BY DEF LinksCounted
  <2>1. fs[x].nlink >= Links(fs, x) + RootLink(x) /\ RootLink(x) \in Nat
    BY <1>8 DEF Tree, LinksCounted, RootLink
  <2>2. CASE x = id
    BY <1>8, <2>1, <2>2
  <2>3. CASE x # id
    BY <1>8, <2>1, <2>3
  <2>4. QED BY <2>2, <2>3
<1>10. ASSUME WholeTree(fs), d \in ReachableIn(fs) PROVE WholeTree(gs)
  <2>1. LinksExact(gs)
    <3> SUFFICES ASSUME NEW x \in Ids, Exists(gs, x) PROVE gs[x].nlink = Links(gs, x) + RootLink(x)
      BY DEF LinksExact
    <3>1. fs[x].nlink = Links(fs, x) + RootLink(x) /\ RootLink(x) \in Nat
      BY <1>8, <1>10 DEF WholeTree, LinksExact, RootLink
    <3>2. CASE x = id
      BY <1>8, <3>1, <3>2
    <3>3. CASE x # id
      BY <1>8, <3>1, <3>3
    <3>4. QED BY <3>2, <3>3
  <2>2. EmptyGo(gs)
    <3>1. fs[d].nlink > 0
      BY <1>10, ReachedIsLinked
    <3>2. \A x \in Ids : Exists(gs, x) /\ gs[x].nlink = 0 => x # id /\ x # d
      BY <1>8, <3>1
    <3>3. QED BY <1>8, <1>10, <3>2 DEF WholeTree, EmptyGo
  <2>3. ASSUME NEW S, Holds(gs, S) PROVE Holds(fs, S)
    BY <1>3, <2>3 DEF Holds, OtherSlots
  <2>4. Connected(gs)
    <3> SUFFICES ASSUME NEW x \in Ids, Exists(gs, x), gs[x].nlink > 0 PROVE x \in ReachableIn(gs)
      BY DEF Connected
    <3>1. x \in ReachableIn(fs)
      BY <1>8, <1>10 DEF WholeTree, Connected
    <3>2. QED BY <2>3, <3>1, Reached
  <2>5. QED BY <2>1, <2>2, <2>4 DEF WholeTree
<1>11. QED BY <1>5, <1>6, <1>7, <1>9, <1>10 DEF Tree

(* gs is fs with the entry n1 of d1 as the entry n2 of d2. *)
EntryMoved(fs, gs, d1, n1, d2, n2) ==
    /\ Slot(fs, d1, n1) # None
    /\ Exists(fs, d2) /\ fs[d2].type = "DIR" /\ fs[d2].ents[n2] = None
    /\ \A x \in Ids : Same(fs, gs, x)
    /\ \A x \in Ids : x # d1 /\ x # d2 /\ Exists(fs, x) => gs[x].ents = fs[x].ents
    /\ gs[d2].ents[n2] = fs[d1].ents[n1]
    /\ gs[d1].ents[n1] = None
    /\ \A m \in Names : m # n1 /\ (d1 # d2 \/ m # n2) => gs[d1].ents[m] = fs[d1].ents[m]
    /\ \A m \in Names : m # n2 /\ (d1 # d2 \/ m # n1) => gs[d2].ents[m] = fs[d2].ents[m]

(* Whether the kernel's check of rename lets the file id go to d2: it is in a
   set that leads nowhere else and does not have d2.                         *)
NotAbove(fs, id, d2) == \E T \in SUBSET Ids : Holds(fs, T) /\ id \in T /\ d2 \notin T

(* An entry moves. *)
LEMMA MoveLink ==
    ASSUME NEW fs, NEW gs \in [Ids -> {NoFile} \cup Node], Tree(fs),
           NEW d1 \in Ids, NEW n1 \in Names, NEW d2 \in Ids, NEW n2 \in Names,
           EntryMoved(fs, gs, d1, n1, d2, n2)
    PROVE  /\ Tree(gs)
           /\ (WholeTree(fs) /\ fs[d2].nlink > 0 /\ NotAbove(fs, Slot(fs, d1, n1).id, d2))
                 => WholeTree(gs)
<1> USE DEF EntryMoved
<1> DEFINE src == Slot(fs, d1, n1)
<1>1. /\ Exists(fs, d1) /\ src = fs[d1].ents[n1] /\ src.id \in Ids
      /\ d1 # d2 \/ n1 # n2
  BY SlotType DEF Tree
<1>2. /\ Slot(fs, d2, n2) = None /\ Slot(gs, d2, n2) = src /\ Slot(gs, d1, n1) = None
      /\ \A c \in Ids, m \in Names : (c # d1 \/ m # n1) /\ (c # d2 \/ m # n2) =>
            Slot(gs, c, m) = Slot(fs, c, m)
  BY <1>1 DEF Slot, Same
<1> HIDE DEF src
<1>3. src # None
  BY DEF src
<1>4. ASSUME NEW x \in Ids PROVE Links(gs, x) = Links(fs, x)
  <2> DEFINE hs == [gs EXCEPT ![d2] = WithEntry(@, n2, None)]
  <2>1. gs[d2] \in Node /\ gs[d2] # NoFile
    BY DEF Same, Exists
  <2>2. hs[d2] \in Node /\ hs[d2].ents = [gs[d2].ents EXCEPT ![n2] = None]
    BY <2>1 DEF WithEntry, Node
  <2>3. \A c \in Ids : c # d2 => hs[c] = gs[c]
    OBVIOUS
  <2>4. gs[d2].ents \in [Names -> Entry \cup {None}]
    BY <2>1 DEF Node
  <2>5. hs[d2] # NoFile
    BY <2>2, NoSentinels
  <2> HIDE DEF hs
  <2>6. /\ Slot(hs, d2, n2) = None
        /\ \A c \in Ids, m \in Names : (c # d2 \/ m # n2) => Slot(hs, c, m) = Slot(gs, c, m)
    BY <2>1, <2>2, <2>3, <2>4, <2>5 DEF Slot, Exists
  <2>7. Links(gs, x) = Links(hs, x) + (IF src.id = x THEN 1 ELSE 0)
    BY <1>2, <1>3, <2>6, GainedLink DEF OtherSlots
  <2>8. OtherSlots(hs, fs, d1, n1) /\ Slot(hs, d1, n1) = None
    BY <1>1, <1>2, <2>6 DEF OtherSlots
  <2>9. Links(fs, x) = Links(hs, x) + (IF src.id = x THEN 1 ELSE 0)
    BY <1>3, <2>8, GainedLink DEF src
  <2>10. QED BY <2>7, <2>9
<1>5. Exists(gs, Root)
  BY FSAssumption DEF Tree, Same
<1>6. OnlyDirsHold(gs)
  <2>1. fs[d1].type = "DIR"
    BY <1>1, NoSlots DEF Tree, OnlyDirsHold
  <2>2. QED BY <2>1 DEF Tree, OnlyDirsHold, Same
<1>7. EntriesLead(gs)
  <2>1. /\ Exists(fs, src.id) /\ fs[src.id].type = src.type
    BY <1>3 DEF Tree, EntriesLead, src
  <2> SUFFICES ASSUME NEW c \in Ids, NEW m \in Names, Slot(gs, c, m) # None
               PROVE  Exists(gs, Slot(gs, c, m).id) /\ gs[Slot(gs, c, m).id].type = Slot(gs, c, m).type
    BY DEF EntriesLead
  <2>2. CASE c = d2 /\ m = n2
    BY <1>1, <1>2, <2>1, <2>2 DEF Same
  <2>3. CASE c # d2 \/ m # n2
    BY <1>2, <2>3, SlotType DEF Tree, EntriesLead, Same
  <2>4. QED BY <2>2, <2>3
<1>8. LinksCounted(gs)
  BY <1>4 DEF Tree, LinksCounted, Same
<1>9. ASSUME WholeTree(fs), fs[d2].nlink > 0,
             NEW T \in SUBSET Ids, Holds(fs, T), src.id \in T, d2 \notin T
      PROVE  WholeTree(gs)
  <2>1. LinksExact(gs)
    BY <1>4, <1>9 DEF WholeTree, LinksExact, Same
  <2>2. EmptyGo(gs)
    <3> SUFFICES ASSUME NEW x \in Ids, Exists(gs, x), gs[x].nlink = 0 PROVE gs[x].ents = NoEntries
      BY DEF EmptyGo
    <3>1. Exists(fs, x) /\ fs[x].nlink = 0 /\ fs[x].ents = NoEntries
      BY <1>9 DEF WholeTree, EmptyGo, Same
    <3>2. x # d1 /\ x # d2
      BY <1>3, <1>9, <3>1, NoSlots DEF src
    <3>3. QED BY <3>1, <3>2
  <2>3. ASSUME NEW S \in SUBSET Ids, Root \in S, Holds(gs, S) PROVE Holds(fs, S)
    <3>1. Holds(fs, S \cup T)
      <4> SUFFICES ASSUME NEW c \in Ids, NEW m \in Names, c \in S \cup T, Slot(fs, c, m) # None
                   PROVE  Slot(fs, c, m).id \in S \cup T
        BY DEF Holds
      <4>1. CASE c \in T
        BY <1>9, <4>1 DEF Holds
      <4>2. CASE c = d1 /\ m = n1
        BY <1>9, <4>2 DEF src
      <4>3. CASE c \in S /\ (c # d1 \/ m # n1)
        BY <1>2, <2>3, <4>3 DEF Holds
      <4>4. QED BY <4>1, <4>2, <4>3
    <3>2. d2 \in ReachableIn(fs)
      BY <1>9 DEF WholeTree, Connected
    <3>3. d2 \in S \cup T
      BY <2>3, <3>1, <3>2, Reached
    <3>4. src.id \in S
      BY <1>2, <1>3, <1>9, <2>3, <3>3 DEF Holds
    <3> SUFFICES ASSUME NEW c \in Ids, NEW m \in Names, c \in S, Slot(fs, c, m) # None
                 PROVE  Slot(fs, c, m).id \in S
      BY DEF Holds
    <3>5. CASE c = d1 /\ m = n1
      BY <3>4, <3>5 DEF src
    <3>6. CASE c # d1 \/ m # n1
      BY <1>2, <2>3, <3>6 DEF Holds
    <3>7. QED BY <3>5, <3>6
  <2>4. Connected(gs)
    <3> SUFFICES ASSUME NEW x \in Ids, Exists(gs, x), gs[x].nlink > 0 PROVE x \in ReachableIn(gs)
      BY DEF Connected
    <3>1. x \in ReachableIn(fs)
      BY <1>9 DEF WholeTree, Connected, Same
    <3>2. QED BY <2>3, <3>1, Reached
  <2>5. QED BY <2>1, <2>2, <2>4 DEF WholeTree
<1>10. QED BY <1>5, <1>6, <1>7, <1>8, <1>9 DEF Tree, src, NotAbove

(* Files without links go. *)
LEMMA RemoveFiles ==
    ASSUME NEW fs, NEW gs \in [Ids -> {NoFile} \cup Node], Tree(fs),
           \A x \in Ids : gs[x] = fs[x] \/ (gs[x] = NoFile /\ fs[x].nlink = 0)
    PROVE  Tree(gs) /\ (WholeTree(fs) => WholeTree(gs))
<1>1. \A x \in Ids : Exists(gs, x) => gs[x] = fs[x] /\ Exists(fs, x)
  BY DEF Exists
<1>2. \A d \in Ids, n \in Names : Slot(gs, d, n) # None => Slot(gs, d, n) = Slot(fs, d, n)
  BY <1>1 DEF Slot
<1>3. ASSUME NEW d \in Ids, NEW n \in Names, Slot(fs, d, n) # None
      PROVE  Slot(fs, d, n).id \in Ids /\ gs[Slot(fs, d, n).id] = fs[Slot(fs, d, n).id]
  BY <1>3, NamedIsLinked
<1>4. Exists(gs, Root)
  <2>1. fs[Root].nlink >= Links(fs, Root) + 1 /\ Links(fs, Root) \in Nat /\ fs[Root].nlink \in Nat
    BY FSAssumption, LinksFinite DEF Tree, LinksCounted, RootLink, Exists, Node
  <2>2. fs[Root].nlink # 0
    BY <2>1
  <2>3. QED BY <2>2, FSAssumption DEF Tree, Exists
<1>5. OnlyDirsHold(gs)
  BY <1>1 DEF Tree, OnlyDirsHold
<1>6. EntriesLead(gs)
  BY <1>2, <1>3 DEF Tree, EntriesLead, Exists
<1>7. \A x \in Ids : Links(gs, x) <= Links(fs, x)
  <2> SUFFICES ASSUME NEW x \in Ids PROVE Links(gs, x) <= Links(fs, x)
    OBVIOUS
  <2>1. LinksTo(gs, x) \subseteq LinksTo(fs, x)
    BY <1>2, LinksAreSlots
  <2>2. QED BY <2>1, LinksFinite, FS_Subset DEF Links
<1>8. LinksCounted(gs)
  <2> SUFFICES ASSUME NEW x \in Ids, Exists(gs, x) PROVE gs[x].nlink >= Links(gs, x) + RootLink(x)
    BY DEF LinksCounted
  <2>1. /\ gs[x].nlink >= Links(fs, x) + RootLink(x) /\ RootLink(x) \in Nat
        /\ gs[x].nlink \in Nat
    BY <1>1 DEF Tree, LinksCounted, RootLink, Exists, Node
  <2>2. Links(fs, x) \in Nat /\ Links(gs, x) \in Nat /\ Links(gs, x) <= Links(fs, x)
    BY <1>7, LinksFinite
  <2>3. QED BY <2>1, <2>2
<1>9. ASSUME WholeTree(fs) PROVE WholeTree(gs)
  <2>1. SameSlots(fs, gs)
    <3> SUFFICES ASSUME NEW d \in Ids, NEW n \in Names PROVE Slot(gs, d, n) = Slot(fs, d, n)
      BY DEF SameSlots
    <3>1. CASE gs[d] = fs[d]
      BY <3>1 DEF Slot, Exists
    <3>2. CASE Exists(fs, d) /\ ~Exists(gs, d) /\ fs[d].nlink = 0
      <4>1. fs[d].ents = NoEntries
        BY <1>9, <3>2 DEF WholeTree, EmptyGo
      <4>2. QED BY <3>2, <4>1, NoSlots DEF Slot
    <3>3. QED BY <3>1, <3>2 DEF Exists
  <2>2. LinksExact(gs)
    BY <1>1, <1>9, <2>1, SameLinks DEF WholeTree, LinksExact
  <2>3. EmptyGo(gs)
    BY <1>1, <1>9 DEF WholeTree, EmptyGo
  <2>4. \A S : Holds(gs, S) <=> Holds(fs, S)
    BY <2>1 DEF Holds, SameSlots
  <2>5. Connected(gs)
    BY <1>1, <1>9, <2>4, Reached DEF WholeTree, Connected
  <2>6. QED BY <2>2, <2>3, <2>5 DEF WholeTree
<1>10. QED BY <1>4, <1>5, <1>6, <1>8, <1>9 DEF Tree

-----------------------------------------------------------------------------
(* A new file has one link and no entries. *)
LEMMA EmptyNodeFacts ==
    ASSUME NEW t \in RealTypes, NEW a \in Attrs
    PROVE  /\ EmptyNode(t, a) \in Node /\ EmptyNode(t, a) # NoFile
           /\ EmptyNode(t, a).type = t /\ EmptyNode(t, a).nlink = 1
           /\ EmptyNode(t, a).ents = NoEntries
<1>1. NoEntries \in [Names -> Entry \cup {None}]
  BY DEF NoEntries
<1>2. EmptyNode(t, a) \in Node
  BY <1>1 DEF EmptyNode, Node
<1>3. QED BY <1>2, NoSentinels DEF EmptyNode

(* Files without a header are files too. *)
LEMMA BlankNodeFacts == BlankNode \in Node /\ BlankNode # NoFile
<1>1. NoEntries \in [Names -> Entry \cup {None}]
  BY DEF NoEntries
<1>2. BlankNode \in Node
  BY <1>1, FSAssumption DEF BlankNode, Node
<1>3. QED BY <1>2, NoSentinels

(* Setting an entry changes that entry only. *)
LEMMA WithEntryFacts ==
    ASSUME NEW node \in Node, NEW n \in Names, NEW e \in Entry \cup {None}
    PROVE  /\ WithEntry(node, n, e) \in Node /\ WithEntry(node, n, e) # NoFile
           /\ WithEntry(node, n, e).type = node.type /\ WithEntry(node, n, e).nlink = node.nlink
           /\ WithEntry(node, n, e).ents[n] = e
           /\ \A m \in Names : m # n => WithEntry(node, n, e).ents[m] = node.ents[m]
<1>1. node.ents \in [Names -> Entry \cup {None}]
  BY DEF Node
<1>2. WithEntry(node, n, e) \in Node
  BY <1>1 DEF WithEntry, Node
<1>3. QED BY <1>1, <1>2, NoSentinels DEF WithEntry, Node

(* FileBase::unlink takes one link, where there is one. *)
LEMMA UnlinkedFacts ==
    ASSUME NEW node \in Node
    PROVE  /\ Unlinked(node) \in Node /\ Unlinked(node) # NoFile
           /\ Unlinked(node).type = node.type /\ Unlinked(node).ents = node.ents
           /\ node.nlink > 0 => Unlinked(node).nlink = node.nlink - 1
<1>1. node.nlink \in Nat
  BY DEF Node
<1>2. Unlinked(node) \in Node
  BY <1>1, FSAssumption DEF Unlinked, Node
<1>3. QED BY <1>1, <1>2, NoSentinels DEF Unlinked, Node

(* An operation that leaves one guard to close. *)
LEMMA Guards1 ==
    ASSUME NEW a \in Ids, todo' = <<a>>
    PROVE  /\ todo' \in Seq(Ids) /\ Len(todo') <= 3
           /\ InTodo(a)'
           /\ Exists(mem, a)' => GuardsValid'
BY DEF InTodo, GuardsValid, Exists

(* An operation that leaves two guards to close. *)
LEMMA Guards2 ==
    ASSUME NEW a \in Ids, NEW b \in Ids, todo' = <<a, b>>
    PROVE  /\ todo' \in Seq(Ids) /\ Len(todo') <= 3
           /\ InTodo(a)' /\ InTodo(b)'
           /\ Exists(mem, a)' /\ Exists(mem, b)' => GuardsValid'
<1>1. Len(todo') = 2 /\ todo'[1] = a /\ todo'[2] = b
  OBVIOUS
<1>2. \A k \in 1..Len(todo') : todo'[k] \in {a, b}
  BY <1>1
<1>3. InTodo(a)' /\ InTodo(b)'
  BY <1>1 DEF InTodo
<1>4. Exists(mem, a)' /\ Exists(mem, b)' => GuardsValid'
  BY <1>2 DEF GuardsValid, Exists
<1>5. QED BY <1>3, <1>4

(* An operation that leaves three guards to close. *)
LEMMA Guards3 ==
    ASSUME NEW a \in Ids, NEW b \in Ids, NEW c \in Ids, todo' = <<a, b, c>>
    PROVE  /\ todo' \in Seq(Ids) /\ Len(todo') <= 3
           /\ InTodo(a)' /\ InTodo(b)' /\ InTodo(c)'
           /\ Exists(mem, a)' /\ Exists(mem, b)' /\ Exists(mem, c)' => GuardsValid'
<1>1. Len(todo') = 3 /\ todo'[1] = a /\ todo'[2] = b /\ todo'[3] = c
  OBVIOUS
<1>2. \A k \in 1..Len(todo') : todo'[k] \in {a, b, c}
  BY <1>1
<1>3. InTodo(a)' /\ InTodo(b)' /\ InTodo(c)'
  BY <1>1 DEF InTodo
<1>4. Exists(mem, a)' /\ Exists(mem, b)' /\ Exists(mem, c)' => GuardsValid'
  BY <1>2 DEF GuardsValid, Exists
<1>5. QED BY <1>3, <1>4

(* An operation holds, by a guard or a handle, every file it changes. *)
LEMMA StoredFrame ==
    ASSUME IInv, Idle,
           \A x \in Ids :
               \/ mem'[x] = mem[x] /\ disk'[x] = disk[x] /\ handles'[x] = handles[x]
               \/ Exists(mem, x)' /\ Exists(disk, x)' /\ (InTodo(x)' \/ handles'[x] \in Nat \ {0})
    PROVE  Stored'
<1> SUFFICES ASSUME NEW x \in Ids PROVE StoredAt(x)'
  BY DEF Stored
<1>1. CASE mem'[x] = mem[x] /\ disk'[x] = disk[x] /\ handles'[x] = handles[x]
  <2>1. ~InTodo(x)
    BY DEF Idle, InTodo
  <2>2. StoredAt(x)
    BY DEF IInv, Stored
  <2>3. QED BY <1>1, <2>1, <2>2 DEF StoredAt, Exists
<1>2. CASE Exists(mem, x)' /\ Exists(disk, x)' /\ (InTodo(x)' \/ handles'[x] \in Nat \ {0})
  <2>1. handles'[x] \in Nat \ {0} => handles'[x] > 0 /\ handles'[x] # 0
    OBVIOUS
  <2>2. QED BY <1>2, <2>1 DEF StoredAt
<1>3. QED BY <1>1, <1>2

(* What a path leads to. *)
LEMMA BaseDirFacts ==
    ASSUME IInv, NEW d \in BaseDirs
    PROVE  /\ d \in Ids /\ Exists(mem, d) /\ mem[d] \in Node /\ mem[d].type = "DIR"
           /\ d \in ReachableIn(mem) /\ mem[d].nlink > 0 /\ Exists(disk, d)
<1>1. d \in ReachableIn(mem) /\ mem[d].type = "DIR"
  BY DEF BaseDirs
<1>2. d \in Ids /\ Exists(mem, d) /\ mem[d].nlink > 0
  BY <1>1, ReachedIsLinked DEF IInv
<1>3. QED BY <1>1, <1>2 DEF IInv, Stored, StoredAt, Tree, Exists

-----------------------------------------------------------------------------
(* The new file and the directory of an operation that creates. *)
LEMMA Created ==
    ASSUME IInv, Idle, NEW d \in BaseDirs, NEW n \in UserNames, NEW id \in Ids, NEW a \in Attrs,
           NEW t \in RealTypes, CreateFile(id), mem[d].ents[n] = None,
           mem' = [mem EXCEPT ![id] = EmptyNode(t, a),
                              ![d] = WithEntry(@, n, [id |-> id, type |-> t])]
    PROVE  /\ mem' \in [Ids -> {NoFile} \cup Node] /\ disk' \in [Ids -> {NoFile} \cup Node]
           /\ Exists(mem, id)' /\ Exists(disk, id)' /\ Exists(mem, d)' /\ Exists(disk, d)'
           /\ \A x \in Ids : x # id /\ x # d => mem'[x] = mem[x] /\ disk'[x] = disk[x]
           /\ Tree(mem)' /\ (~RenameOntoNonEmpty => WholeTree(mem)')
<1>1. /\ d \in Ids /\ Exists(mem, d) /\ mem[d] \in Node /\ mem[d].type = "DIR"
      /\ d \in ReachableIn(mem) /\ Exists(disk, d)
  BY BaseDirFacts
<1>2. ~Exists(mem, id) /\ ~Exists(disk, id) /\ disk' = [disk EXCEPT ![id] = BlankNode] /\ d # id
  BY <1>1 DEF CreateFile
<1>3. n \in Names /\ [id |-> id, type |-> t] \in Entry /\ [id |-> id, type |-> t] # None
  BY FSAssumption, NoSentinels DEF Entry, EntryTypes
<1> DEFINE e == [id |-> id, type |-> t]
<1>4. e.id = id /\ e.type = t /\ e \in Entry \cup {None} /\ e # None
  BY <1>3
<1> HIDE DEF e
<1>5. mem' = [mem EXCEPT ![id] = EmptyNode(t, a), ![d] = WithEntry(@, n, e)]
  BY DEF e
<1>6. mem \in [Ids -> {NoFile} \cup Node] /\ disk \in [Ids -> {NoFile} \cup Node]
  BY DEF IInv, TypeOK
<1> DEFINE new == EmptyNode(t, a)
           dir == WithEntry(mem[d], n, e)
<1>16. /\ new \in Node /\ new # NoFile /\ new.type = t /\ new.nlink = 1 /\ new.ents = NoEntries
       /\ dir \in Node /\ dir # NoFile /\ dir.type = mem[d].type /\ dir.nlink = mem[d].nlink
       /\ dir.ents[n] = e /\ \A m \in Names : m # n => dir.ents[m] = mem[d].ents[m]
  BY <1>1, <1>3, <1>4, EmptyNodeFacts, WithEntryFacts, SMTT(30)
<1>17. mem' = [mem EXCEPT ![id] = new, ![d] = dir]
  BY <1>1, <1>2, <1>5, <1>6
<1> HIDE DEF new, dir
<1>7. /\ mem'[id] = new /\ mem'[d] = dir
      /\ \A x \in Ids : x # id /\ x # d => mem'[x] = mem[x]
  BY <1>1, <1>2, <1>6, <1>17
<1>8. mem' \in [Ids -> {NoFile} \cup Node]
  BY <1>1, <1>6, <1>16, <1>17
<1>9. disk' \in [Ids -> {NoFile} \cup Node] /\ disk'[id] = BlankNode /\ disk'[d] = disk[d]
      /\ \A x \in Ids : x # id /\ x # d => disk'[x] = disk[x]
  BY <1>1, <1>2, <1>6, BlankNodeFacts
<1>10. Exists(mem, id)' /\ Exists(disk, id)' /\ Exists(mem, d)' /\ Exists(disk, d)'
  BY <1>1, <1>7, <1>9, <1>16, BlankNodeFacts DEF Exists
<1>11. \A x \in Ids : x # id => Same(mem, mem', x)
  BY <1>1, <1>7, <1>10, <1>16 DEF Same, Exists
<1>13. Tree(mem') /\ (WholeTree(mem) /\ d \in ReachableIn(mem) => WholeTree(mem'))
  <2>1. Tree(mem) /\ Exists(mem', id)
    BY <1>10 DEF IInv, Exists
  <2>2. NewFile(mem, mem', d, n, id)
    BY <1>1, <1>2, <1>4, <1>7, <1>11, <1>16, <2>1 DEF NewFile
  <2>3. QED BY <1>1, <1>3, <1>8, <2>1, <2>2, AddNew
<1>14. Tree(mem)' /\ (WholeTree(mem')  => WholeTree(mem)')
  BY <1>13 DEF Tree, WholeTree
<1>15. QED BY <1>1, <1>7, <1>8, <1>9, <1>10, <1>13, <1>14 DEF IInv

(* gs is fs with e as the entry n of d. *)
EntryPut(fs, gs, d, n, e) ==
    /\ gs \in [Ids -> {NoFile} \cup Node]
    /\ \A x \in Ids : Same(fs, gs, x)
    /\ \A x \in Ids : x # d /\ Exists(fs, x) => gs[x].ents = fs[x].ents
    /\ \A m \in Names : m # n => gs[d].ents[m] = fs[d].ents[m]
    /\ gs[d].ents[n] = e
    /\ \A x \in Ids : x # d => gs[x] = fs[x]

(* Setting an entry of a directory that exists. *)
LEMMA PutEntry ==
    ASSUME NEW fs \in [Ids -> {NoFile} \cup Node], NEW d \in Ids, Exists(fs, d),
           NEW n \in Names, NEW e \in Entry \cup {None}
    PROVE  EntryPut(fs, [fs EXCEPT ![d] = WithEntry(@, n, e)], d, n, e)
<1> DEFINE dir == WithEntry(fs[d], n, e)
           gs  == [fs EXCEPT ![d] = dir]
<1>1. fs[d] \in Node
  BY DEF Exists
<1>2. /\ dir \in Node /\ dir # NoFile /\ dir.type = fs[d].type /\ dir.nlink = fs[d].nlink
      /\ dir.ents[n] = e /\ \A m \in Names : m # n => dir.ents[m] = fs[d].ents[m]
  BY <1>1, WithEntryFacts
<1> HIDE DEF dir
<1>3. gs \in [Ids -> {NoFile} \cup Node] /\ gs[d] = dir /\ \A x \in Ids : x # d => gs[x] = fs[x]
  BY <1>2
<1> HIDE DEF gs
<1>4. EntryPut(fs, gs, d, n, e)
  BY <1>2, <1>3 DEF EntryPut, Same, Exists
<1>5. QED BY <1>4 DEF gs, dir

(* gs is fs with one link less for id. *)
LinkLess(fs, gs, id) ==
    /\ gs \in [Ids -> {NoFile} \cup Node]
    /\ \A x \in Ids : x # id => gs[x] = fs[x]
    /\ Exists(gs, id) /\ gs[id].type = fs[id].type /\ gs[id].ents = fs[id].ents
    /\ fs[id].nlink > 0 => gs[id].nlink = fs[id].nlink - 1

(* Unlinking a file that exists. *)
LEMMA LoseLink ==
    ASSUME NEW fs \in [Ids -> {NoFile} \cup Node], NEW id \in Ids, Exists(fs, id)
    PROVE  LinkLess(fs, [fs EXCEPT ![id] = Unlinked(@)], id)
<1> DEFINE node == Unlinked(fs[id])
           gs   == [fs EXCEPT ![id] = node]
<1>1. fs[id] \in Node
  BY DEF Exists
<1>2. /\ node \in Node /\ node # NoFile /\ node.type = fs[id].type /\ node.ents = fs[id].ents
      /\ fs[id].nlink > 0 => node.nlink = fs[id].nlink - 1
  BY <1>1, UnlinkedFacts
<1> HIDE DEF node
<1>3. gs \in [Ids -> {NoFile} \cup Node] /\ gs[id] = node /\ \A x \in Ids : x # id => gs[x] = fs[x]
  BY <1>2
<1> HIDE DEF gs
<1>4. LinkLess(fs, gs, id)
  BY <1>2, <1>3 DEF LinkLess, Exists
<1>5. QED BY <1>4 DEF gs, node

(* An entry goes and its file has one link less: unlink, and rename for the file
   it replaces.                                                              *)
LEMMA UnlinkEntry ==
    ASSUME NEW fs, Tree(fs), NEW d \in Ids, NEW n \in Names, Slot(fs, d, n) # None,
           NEW id, id = Slot(fs, d, n).id, NEW hs, EntryPut(fs, hs, d, n, None),
           NEW gs, LinkLess(hs, gs, id)
    PROVE  EntryGone(fs, gs, d, n, id)
<1>1. id \in Ids /\ Exists(fs, id) /\ fs[id].nlink \in Nat /\ fs[id].nlink > 0
  BY NamedIsLinked
<1>2. hs[id].nlink = fs[id].nlink /\ hs[id].type = fs[id].type
  BY <1>1 DEF EntryPut, Same
<1>3. \A x \in Ids : x # id => Same(fs, gs, x)
  BY DEF EntryPut, LinkLess, Same, Exists
<1>4. \A x \in Ids : gs[x].ents = hs[x].ents
  BY <1>1 DEF LinkLess
<1>5. QED BY <1>1, <1>2, <1>3, <1>4 DEF EntryGone, EntryPut, LinkLess

(* rename: the entry n2 of d2, if there was one, is gone already. *)
LEMMA MoveEntry ==
    ASSUME NEW fs, Tree(fs), NEW d1 \in Ids, NEW n1 \in Names, Slot(fs, d1, n1) # None,
           NEW d2 \in Ids, NEW n2 \in Names, Slot(fs, d2, n2) = None,
           Exists(fs, d2), fs[d2].type = "DIR",
           NEW hs, EntryPut(fs, hs, d1, n1, None),
           NEW gs, EntryPut(hs, gs, d2, n2, Slot(fs, d1, n1))
    PROVE  EntryMoved(fs, gs, d1, n1, d2, n2)
<1>1. /\ Exists(fs, d1) /\ Slot(fs, d1, n1) = fs[d1].ents[n1]
      /\ fs[d2].ents[n2] = None /\ (d1 # d2 \/ n1 # n2)
  BY SlotType DEF Tree, Slot
<1>2. \A x \in Ids : Same(fs, gs, x)
  BY DEF EntryPut, Same
<1>3. \A x \in Ids : x # d1 /\ x # d2 /\ Exists(fs, x) => gs[x].ents = fs[x].ents
  BY DEF EntryPut, Same
<1>4. gs[d1].ents[n1] = None
  BY <1>1 DEF EntryPut
<1>5. \A m \in Names : m # n1 /\ (d1 # d2 \/ m # n2) => gs[d1].ents[m] = fs[d1].ents[m]
  BY DEF EntryPut
<1>6. \A m \in Names : m # n2 /\ (d1 # d2 \/ m # n1) => gs[d2].ents[m] = fs[d2].ents[m]
  BY DEF EntryPut
<1>7. QED BY <1>1, <1>2, <1>3, <1>4, <1>5, <1>6 DEF EntryMoved, EntryPut

(* The kernel's check, with the sets of MoveLink. *)
LEMMA KernelCheck ==
    ASSUME NEW d1 \in Ids, NEW n1, NEW d2 \in Ids, NEW n2, KernelAllowsRename(d1, n1, d2, n2),
           mem[d1].ents[n1].id \in Ids
    PROVE  NotAbove(mem, mem[d1].ents[n1].id, d2)
<1> DEFINE id == mem[d1].ents[n1].id
<1>1. id \notin AtOrAbove(d2)
  BY DEF KernelAllowsRename
<1> HIDE DEF id
<1>2. \E S \in SUBSET (Ids \ {d2}) : ClosedUnder(S, Edges(mem)) /\ id \in S
  BY <1>1 DEF AtOrAbove, id
<1>3. QED BY <1>2, ClosedSlots DEF NotAbove, id


-----------------------------------------------------------------------------
(* What an operation has to establish. *)
LEMMA Established ==
    ASSUME IInv, mem' \in [Ids -> {NoFile} \cup Node], disk' \in [Ids -> {NoFile} \cup Node],
           handles' \in [Ids -> 0..MaxHandles], todo' \in Seq(Ids), Len(todo') <= 3,
           Stored', GuardsValid', Tree(mem)', ~RenameOntoNonEmpty => WholeTree(mem)'
    PROVE  IInv'
BY DEF IInv, TypeOK

(* An operation that leaves no guard. *)
LEMMA NoGuards ==
    ASSUME Idle, UNCHANGED todo
    PROVE  todo' \in Seq(Ids) /\ Len(todo') <= 3 /\ GuardsValid'
BY DEF Idle, GuardsValid

(* What a handle and a file in memory imply. *)
LEMMA HandleFacts ==
    ASSUME IInv, NEW id \in Ids
    PROVE  /\ handles \in [Ids -> 0..MaxHandles] /\ handles[id] \in Nat /\ MaxHandles \in Nat
           /\ Exists(mem, id) => Exists(disk, id) /\ mem[id] \in Node
           /\ handles[id] > 0 => Exists(mem, id) /\ handles[id] \in Nat \ {0}
<1>1. /\ handles \in [Ids -> 0..MaxHandles] /\ handles[id] \in Nat /\ MaxHandles \in Nat
      /\ mem \in [Ids -> {NoFile} \cup Node]
  BY FSAssumption DEF IInv, TypeOK
<1>2. QED BY <1>1 DEF IInv, Stored, StoredAt, Exists

(* open and opendir: one handle more, within the bound. *)
LEMMA HandleTaken ==
    ASSUME IInv, NEW id \in Ids, HandleLeft(id), handles' = [handles EXCEPT ![id] = @ + 1]
    PROVE  /\ handles' \in [Ids -> 0..MaxHandles] /\ handles'[id] \in Nat \ {0}
           /\ \A x \in Ids : x # id => handles'[x] = handles[x]
<1>1. handles[id] < MaxHandles
  BY DEF HandleLeft
<1>2. QED BY <1>1, HandleFacts

-----------------------------------------------------------------------------
(* create *)
LEMMA CreateStep ==
    ASSUME IInv, Idle, NEW d \in BaseDirs, NEW n \in UserNames, NEW id \in Ids, NEW a \in Attrs,
           create(d, n, id, a)
    PROVE  IInv'
<1>1. /\ CreateFile(id) /\ mem[d].ents[n] = None
      /\ mem' = [mem EXCEPT ![id] = EmptyNode("REG", a),
                            ![d] = WithEntry(@, n, [id |-> id, type |-> "REG"])]
      /\ handles[id] < MaxHandles /\ handles' = [handles EXCEPT ![id] = 1] /\ todo' = <<d>>
  BY DEF create, HandleLeft
<1>2. "REG" \in RealTypes
  BY DEF RealTypes
<1>3. /\ mem' \in [Ids -> {NoFile} \cup Node] /\ disk' \in [Ids -> {NoFile} \cup Node]
      /\ Exists(mem, id)' /\ Exists(disk, id)' /\ Exists(mem, d)' /\ Exists(disk, d)'
      /\ \A x \in Ids : x # id /\ x # d => mem'[x] = mem[x] /\ disk'[x] = disk[x]
      /\ Tree(mem)' /\ (~RenameOntoNonEmpty => WholeTree(mem)')
  BY <1>1, <1>2, Created
<1>4. /\ handles' \in [Ids -> 0..MaxHandles] /\ handles'[id] = 1
      /\ \A x \in Ids : x # id => handles'[x] = handles[x]
  BY <1>1, HandleFacts
<1>5. d \in Ids
  BY BaseDirFacts
<1>6. todo' \in Seq(Ids) /\ Len(todo') <= 3 /\ InTodo(d)' /\ GuardsValid'
  BY <1>1, <1>3, <1>5, Guards1
<1>7. Stored'
  BY <1>3, <1>4, <1>6, StoredFrame
<1>8. QED BY <1>3, <1>4, <1>6, <1>7, Established

(* mkdir and symlink *)
LEMMA MknodeStep ==
    ASSUME IInv, Idle, NEW d \in BaseDirs, NEW n \in UserNames, NEW id \in Ids, NEW a \in Attrs,
           NEW t \in RealTypes, mknode(d, n, t, id, a)
    PROVE  IInv'
<1>1. /\ CreateFile(id) /\ mem[d].ents[n] = None
      /\ mem' = [mem EXCEPT ![id] = EmptyNode(t, a),
                            ![d] = WithEntry(@, n, [id |-> id, type |-> t])]
      /\ handles' = handles /\ todo' = <<d, id>>
  BY DEF mknode
<1>3. /\ mem' \in [Ids -> {NoFile} \cup Node] /\ disk' \in [Ids -> {NoFile} \cup Node]
      /\ Exists(mem, id)' /\ Exists(disk, id)' /\ Exists(mem, d)' /\ Exists(disk, d)'
      /\ \A x \in Ids : x # id /\ x # d => mem'[x] = mem[x] /\ disk'[x] = disk[x]
      /\ Tree(mem)' /\ (~RenameOntoNonEmpty => WholeTree(mem)')
  BY <1>1, Created
<1>4. d \in Ids
  BY BaseDirFacts
<1>5. todo' \in Seq(Ids) /\ Len(todo') <= 3 /\ InTodo(d)' /\ InTodo(id)' /\ GuardsValid'
  BY <1>1, <1>3, <1>4, Guards2
<1>6. Stored'
  BY <1>1, <1>3, <1>5, StoredFrame
<1>7. handles' \in [Ids -> 0..MaxHandles]
  BY <1>1 DEF IInv, TypeOK
<1>8. QED BY <1>3, <1>5, <1>6, <1>7, Established

(* create, mkdir and symlink when the name is taken *)
LEMMA CreateExistsStep ==
    ASSUME IInv, Idle, NEW d \in BaseDirs, NEW n \in UserNames, NEW id \in Ids, NEW a \in Attrs,
           NEW t \in RealTypes, createExists(d, n, t, id, a)
    PROVE  IInv'
<1>1. /\ ~Exists(mem, id) /\ ~Exists(disk, id) /\ disk' = [disk EXCEPT ![id] = BlankNode]
      /\ mem' = [mem EXCEPT ![id] = Unlinked(EmptyNode(t, a))]
      /\ handles' = handles /\ todo' = <<id, d>>
  BY DEF createExists, CreateFile
<1>2. d \in Ids /\ Exists(mem, d) /\ Exists(disk, d) /\ d # id
  BY <1>1, BaseDirFacts
<1> DEFINE new == Unlinked(EmptyNode(t, a))
<1>3. new \in Node /\ new # NoFile /\ new.nlink = 0 /\ new.ents = NoEntries
  BY EmptyNodeFacts, UnlinkedFacts
<1>4. mem' = [mem EXCEPT ![id] = new]
  BY <1>1
<1> HIDE DEF new
<1>5. mem \in [Ids -> {NoFile} \cup Node] /\ disk \in [Ids -> {NoFile} \cup Node]
      /\ handles \in [Ids -> 0..MaxHandles] /\ Tree(mem) /\ (~RenameOntoNonEmpty => WholeTree(mem))
  BY DEF IInv, TypeOK
<1>6. /\ mem' \in [Ids -> {NoFile} \cup Node] /\ mem'[id] = new
      /\ \A x \in Ids : x # id => mem'[x] = mem[x]
  BY <1>3, <1>4, <1>5
<1>7. /\ disk' \in [Ids -> {NoFile} \cup Node] /\ disk'[id] = BlankNode
      /\ \A x \in Ids : x # id => disk'[x] = disk[x]
  BY <1>1, <1>5, BlankNodeFacts
<1>8. Exists(mem, id)' /\ Exists(disk, id)' /\ Exists(mem, d)' /\ Exists(mem', id)
  BY <1>2, <1>3, <1>6, <1>7, BlankNodeFacts DEF Exists
<1>9. Tree(mem') /\ (WholeTree(mem) => WholeTree(mem'))
  <2>1. mem'[id].nlink = 0 /\ mem'[id].ents = NoEntries
    BY <1>3, <1>6
  <2>2. ~Exists(mem, id) /\ Exists(mem', id) /\ Tree(mem)
    BY <1>1, <1>5, <1>8
  <2>3. mem' \in [Ids -> {NoFile} \cup Node] /\ \A x \in Ids : x # id => mem'[x] = mem[x]
    BY <1>6
  <2>4. QED BY ONLY <2>1, <2>2, <2>3, id \in Ids, AddUnlinked
<1>10. Tree(mem)' /\ (~RenameOntoNonEmpty => WholeTree(mem)')
  BY <1>5, <1>9 DEF Tree, WholeTree
<1>11. todo' \in Seq(Ids) /\ Len(todo') <= 3 /\ InTodo(id)' /\ GuardsValid'
  BY <1>1, <1>2, <1>8, Guards2
<1>12. Stored'
  BY <1>1, <1>6, <1>7, <1>8, <1>11, StoredFrame
<1>13. QED BY <1>1, <1>5, <1>6, <1>7, <1>10, <1>11, <1>12, Established

-----------------------------------------------------------------------------
(* The header of an open file changes, and its entries and links do not. *)
LEMMA AttrSet ==
    ASSUME IInv, NEW id \in Ids, Exists(mem, id), NEW a \in Attrs, NEW f \in BOOLEAN, SetAttr(id, a, f)
    PROVE  /\ mem' \in [Ids -> {NoFile} \cup Node] /\ disk' \in [Ids -> {NoFile} \cup Node]
           /\ Exists(mem, id)' /\ Exists(disk, id)'
           /\ \A x \in Ids : x # id => mem'[x] = mem[x] /\ disk'[x] = disk[x]
           /\ Tree(mem)' /\ (~RenameOntoNonEmpty => WholeTree(mem)')
<1> DEFINE new == [mem[id] EXCEPT !.attr = a]
<1>1. Exists(disk, id) /\ mem[id] \in Node
  BY HandleFacts
<1>2. /\ new \in Node /\ new # NoFile /\ new.type = mem[id].type /\ new.nlink = mem[id].nlink
      /\ new.ents = mem[id].ents
  BY <1>1, NoSentinels DEF Node
<1>3. mem' = [mem EXCEPT ![id] = new] /\ (disk' = [disk EXCEPT ![id] = new] \/ disk' = disk)
  BY DEF SetAttr
<1> HIDE DEF new
<1>4. mem \in [Ids -> {NoFile} \cup Node] /\ disk \in [Ids -> {NoFile} \cup Node]
      /\ Tree(mem) /\ (~RenameOntoNonEmpty => WholeTree(mem))
  BY DEF IInv, TypeOK
<1>5. /\ mem' \in [Ids -> {NoFile} \cup Node] /\ mem'[id] = new
      /\ \A x \in Ids : x # id => mem'[x] = mem[x]
  BY <1>2, <1>3, <1>4
<1>6. /\ disk' \in [Ids -> {NoFile} \cup Node] /\ Exists(disk, id)'
      /\ \A x \in Ids : x # id => disk'[x] = disk[x]
  BY <1>1, <1>2, <1>3, <1>4 DEF Exists
<1>7. \A x \in Ids : /\ Exists(mem', x) <=> Exists(mem, x)
                     /\ Exists(mem, x) => /\ mem'[x].type = mem[x].type
                                          /\ mem'[x].nlink = mem[x].nlink
                                          /\ mem'[x].ents = mem[x].ents
  BY <1>2, <1>5 DEF Exists
<1>8. Tree(mem') /\ (WholeTree(mem) => WholeTree(mem'))
  BY <1>4, <1>5, <1>7, SameTree
<1>9. QED BY <1>2, <1>4, <1>5, <1>6, <1>8 DEF Tree, WholeTree, Exists

(* Files a path leads to exist. *)
LEMMA Opened ==
    ASSUME IInv, NEW id \in OpenAll
    PROVE  id \in Ids /\ Exists(mem, id)
BY ReachedIsLinked DEF OpenAll, IInv

(* chmod, chown, truncate, utimens and readlink: a guard holds the file. *)
LEMMA GuardedAttrStep ==
    ASSUME IInv, Idle, NEW id \in OpenAll, NEW a \in Attrs, NEW f \in BOOLEAN, SetAttr(id, a, f),
           todo' = <<id>>, UNCHANGED handles
    PROVE  IInv'
<1>1. id \in Ids /\ Exists(mem, id)
  BY Opened
<1>2. /\ mem' \in [Ids -> {NoFile} \cup Node] /\ disk' \in [Ids -> {NoFile} \cup Node]
      /\ Exists(mem, id)' /\ Exists(disk, id)'
      /\ \A x \in Ids : x # id => mem'[x] = mem[x] /\ disk'[x] = disk[x]
      /\ Tree(mem)' /\ (~RenameOntoNonEmpty => WholeTree(mem)')
  BY <1>1, AttrSet
<1>3. todo' \in Seq(Ids) /\ Len(todo') <= 3 /\ InTodo(id)' /\ GuardsValid'
  BY <1>1, <1>2, Guards1
<1>4. handles' \in [Ids -> 0..MaxHandles]
  BY DEF IInv, TypeOK
<1>5. Stored'
  BY <1>2, <1>3, StoredFrame
<1>6. QED BY <1>2, <1>3, <1>4, <1>5, Established

(* open, read, write, readdir and ftruncate: a handle holds the file. *)
LEMMA HeldAttrStep ==
    ASSUME IInv, Idle, NEW id \in Ids, Exists(mem, id), NEW a \in Attrs, NEW f \in BOOLEAN,
           SetAttr(id, a, f), UNCHANGED todo, handles' \in [Ids -> 0..MaxHandles],
           handles'[id] \in Nat \ {0}, \A x \in Ids : x # id => handles'[x] = handles[x]
    PROVE  IInv'
<1>2. /\ mem' \in [Ids -> {NoFile} \cup Node] /\ disk' \in [Ids -> {NoFile} \cup Node]
      /\ Exists(mem, id)' /\ Exists(disk, id)'
      /\ \A x \in Ids : x # id => mem'[x] = mem[x] /\ disk'[x] = disk[x]
      /\ Tree(mem)' /\ (~RenameOntoNonEmpty => WholeTree(mem)')
  BY AttrSet
<1>3. todo' \in Seq(Ids) /\ Len(todo') <= 3 /\ GuardsValid'
  BY NoGuards
<1>5. Stored'
  BY <1>2, StoredFrame
<1>6. QED BY <1>2, <1>3, <1>5, Established

(* open *)
LEMMA OpenStep ==
    ASSUME IInv, Idle, NEW id \in OpenAll, NEW a \in Attrs, open(id, a)
    PROVE  IInv'
<1>1. id \in Ids /\ Exists(mem, id)
  BY Opened
<1>2. HandleLeft(id) /\ SetAttr(id, a, FALSE) /\ handles' = [handles EXCEPT ![id] = @ + 1] /\ UNCHANGED todo
  BY DEF open
<1>3. QED BY <1>1, <1>2, HandleTaken, HeldAttrStep

(* read, write, readdir and ftruncate *)
LEMMA ReadWriteStep ==
    ASSUME IInv, Idle, NEW id \in Ids, NEW a \in Attrs, ReadWrite(id, a) \/ ftruncate(id, a)
    PROVE  IInv'
<1>1. handles[id] > 0 /\ UNCHANGED <<handles, todo>> /\ \E f \in BOOLEAN : SetAttr(id, a, f)
  BY DEF ReadWrite, ftruncate
<1>2. Exists(mem, id) /\ handles[id] \in Nat \ {0} /\ handles \in [Ids -> 0..MaxHandles]
  BY <1>1, HandleFacts
<1>3. QED BY <1>1, <1>2, HeldAttrStep

(* chmod, chown, truncate, utimens and readlink *)
LEMMA AttrStep ==
    ASSUME IInv, Idle, NEW id \in OpenAll, NEW a \in Attrs,
           chmod(id, a) \/ truncate(id, a) \/ utimens(id, a) \/ readlink(id, a)
    PROVE  IInv'
<1>1. todo' = <<id>> /\ UNCHANGED handles /\ \E f \in BOOLEAN : SetAttr(id, a, f)
  BY DEF chmod, truncate, utimens, readlink
<1>2. QED BY <1>1, GuardedAttrStep

(* The tree stays. *)
LEMMA TreeKept ==
    ASSUME IInv, UNCHANGED mem
    PROVE  /\ mem' \in [Ids -> {NoFile} \cup Node]
           /\ Tree(mem)' /\ (~RenameOntoNonEmpty => WholeTree(mem)')
BY SameTree DEF IInv, TypeOK, Tree, WholeTree

(* opendir *)
LEMMA OpendirStep ==
    ASSUME IInv, Idle, NEW id \in OpenAll, opendir(id)
    PROVE  IInv'
<1>1. id \in Ids /\ Exists(mem, id)
  BY Opened
<1>2. HandleLeft(id) /\ handles' = [handles EXCEPT ![id] = @ + 1] /\ UNCHANGED <<mem, disk, todo>>
  BY DEF opendir
<1>3. /\ handles' \in [Ids -> 0..MaxHandles] /\ handles'[id] \in Nat \ {0}
      /\ \A x \in Ids : x # id => handles'[x] = handles[x]
  BY <1>1, <1>2, HandleTaken
<1>4. Exists(disk, id)' /\ Exists(mem, id)'
  BY <1>1, <1>2, HandleFacts DEF Exists
<1>5. Stored'
  BY <1>2, <1>3, <1>4, StoredFrame
<1>6. todo' \in Seq(Ids) /\ Len(todo') <= 3 /\ GuardsValid'
  BY <1>2, NoGuards
<1>7. disk' \in [Ids -> {NoFile} \cup Node]
  BY <1>2 DEF IInv, TypeOK
<1>8. QED BY <1>2, <1>3, <1>5, <1>6, <1>7, TreeKept, Established

(* release and releasedir *)
LEMMA ReleaseStep ==
    ASSUME IInv, Idle, NEW id \in Ids, release(id)
    PROVE  IInv'
<1>1. /\ handles[id] > 0 /\ disk' = [disk EXCEPT ![id] = mem[id]]
      /\ handles' = [handles EXCEPT ![id] = @ - 1] /\ todo' = <<id>> /\ UNCHANGED mem
  BY DEF release
<1>2. /\ Exists(mem, id) /\ mem[id] \in Node /\ handles \in [Ids -> 0..MaxHandles]
      /\ handles[id] \in Nat /\ MaxHandles \in Nat
  BY <1>1, HandleFacts
<1>3. handles' \in [Ids -> 0..MaxHandles] /\ \A x \in Ids : x # id => handles'[x] = handles[x]
  BY <1>1, <1>2
<1>4. disk \in [Ids -> {NoFile} \cup Node]
  BY DEF IInv, TypeOK
<1>5. /\ disk' \in [Ids -> {NoFile} \cup Node] /\ disk'[id] = mem[id]
      /\ \A x \in Ids : x # id => disk'[x] = disk[x]
  BY <1>1, <1>2, <1>4
<1>6. Exists(mem, id)' /\ Exists(disk, id)'
  BY <1>1, <1>2, <1>5 DEF Exists
<1>7. todo' \in Seq(Ids) /\ Len(todo') <= 3 /\ InTodo(id)' /\ GuardsValid'
  BY <1>1, <1>6, Guards1
<1>8. Stored'
  BY <1>1, <1>3, <1>5, <1>6, <1>7, StoredFrame
<1>9. QED BY <1>1, <1>3, <1>5, <1>7, <1>8, TreeKept, Established

(* flush, fsync and fsyncdir *)
LEMMA FsyncStep ==
    ASSUME IInv, Idle, NEW id \in Ids, fsync(id)
    PROVE  IInv'
<1>1. /\ handles[id] > 0 /\ disk' = [disk EXCEPT ![id] = mem[id]]
      /\ UNCHANGED <<mem, handles, todo>>
  BY DEF fsync
<1>2. /\ Exists(mem, id) /\ mem[id] \in Node /\ handles \in [Ids -> 0..MaxHandles]
      /\ handles[id] \in Nat \ {0}
  BY <1>1, HandleFacts
<1>4. disk \in [Ids -> {NoFile} \cup Node]
  BY DEF IInv, TypeOK
<1>5. /\ disk' \in [Ids -> {NoFile} \cup Node] /\ disk'[id] = mem[id]
      /\ \A x \in Ids : x # id => disk'[x] = disk[x]
  BY <1>1, <1>2, <1>4
<1>6. Exists(mem, id)' /\ Exists(disk, id)'
  BY <1>1, <1>2, <1>5 DEF Exists
<1>7. todo' \in Seq(Ids) /\ Len(todo') <= 3 /\ GuardsValid'
  BY <1>1, NoGuards
<1>8. Stored'
  BY <1>1, <1>2, <1>5, <1>6, StoredFrame
<1>9. QED BY <1>1, <1>2, <1>5, <1>7, <1>8, TreeKept, Established

-----------------------------------------------------------------------------
(* The entry that an operation is given. *)
LEMMA EntryFacts ==
    ASSUME IInv, NEW d \in BaseDirs, NEW n \in UserNames, mem[d].ents[n] # None
    PROVE  /\ n \in Names /\ Slot(mem, d, n) = mem[d].ents[n] /\ Slot(mem, d, n) # None
           /\ mem[d].ents[n] \in Entry /\ mem[d].ents[n].id \in Ids
           /\ Exists(mem, mem[d].ents[n].id) /\ mem[mem[d].ents[n].id] \in Node
           /\ mem[mem[d].ents[n].id].type = mem[d].ents[n].type
           /\ mem[mem[d].ents[n].id].nlink > 0
           /\ Exists(disk, mem[d].ents[n].id)
<1>1. d \in Ids /\ Exists(mem, d) /\ n \in Names /\ Tree(mem)
  BY BaseDirFacts, FSAssumption DEF IInv
<1>2. Slot(mem, d, n) = mem[d].ents[n] /\ Slot(mem, d, n) # None
  BY <1>1 DEF Slot
<1>3. mem[d].ents[n] \in Entry
  BY <1>1, <1>2, SlotType DEF Tree
<1>4. mem[d].ents[n].id \in Ids /\ Exists(mem, mem[d].ents[n].id) /\ mem[mem[d].ents[n].id].nlink > 0
  BY <1>1, <1>2, NamedIsLinked
<1>5. mem[mem[d].ents[n].id].type = mem[d].ents[n].type
  BY <1>1, <1>2 DEF Tree, EntriesLead
<1>6. QED BY <1>1, <1>2, <1>3, <1>4, <1>5, HandleFacts

(* unlink and rmdir *)
LEMMA UnlinkStep ==
    ASSUME IInv, Idle, NEW d \in BaseDirs, NEW n \in UserNames, unlink(d, n)
    PROVE  IInv'
<1>20. mem[d].ents[n] # None
  BY DEF unlink, Resolves
<1>21. PICK id \in Ids : id = mem[d].ents[n].id
  BY <1>20, EntryFacts
<1>1. /\ mem[d].ents[n] # None
      /\ mem[d].ents[n].type = "DIR" => mem[id].ents = NoEntries
      /\ mem' = [mem EXCEPT ![d] = WithEntry(@, n, None), ![id] = Unlinked(@)]
      /\ todo' = <<id, d>> /\ disk' = disk /\ handles' = handles
  BY <1>21 DEF unlink, Resolves
<1>2. /\ n \in Names /\ Slot(mem, d, n) = mem[d].ents[n] /\ Slot(mem, d, n) # None
      /\ id \in Ids /\ Exists(mem, id) /\ mem[id].type = mem[d].ents[n].type /\ Exists(disk, id)
      /\ id = Slot(mem, d, n).id
  BY <1>1, <1>21, EntryFacts
<1>3. d \in Ids /\ Exists(mem, d) /\ Exists(disk, d)
  BY BaseDirFacts
<1>4. mem \in [Ids -> {NoFile} \cup Node] /\ disk \in [Ids -> {NoFile} \cup Node]
      /\ handles \in [Ids -> 0..MaxHandles] /\ Tree(mem) /\ (~RenameOntoNonEmpty => WholeTree(mem))
  BY DEF IInv, TypeOK
<1>5. mem[id].ents = NoEntries
  BY <1>1, <1>2, <1>4 DEF Tree, OnlyDirsHold
<1> DEFINE hs == [mem EXCEPT ![d] = WithEntry(@, n, None)]
<1>6. EntryPut(mem, hs, d, n, None)
  BY <1>2, <1>3, <1>4, PutEntry
<1>7. mem' = [hs EXCEPT ![id] = Unlinked(@)]
  <2>1. id # d
    BY <1>1, <1>2, <1>5 DEF NoEntries
  <2>2. hs[id] = mem[id]
    BY <1>2, <1>4, <2>1
  <2>3. QED BY <1>1, <1>2, <1>3, <1>4, <2>1, <2>2
<1> HIDE DEF hs
<1>8. hs \in [Ids -> {NoFile} \cup Node] /\ Exists(hs, id)
  BY <1>2, <1>6 DEF EntryPut, Same
<1>9. LinkLess(hs, mem', id)
  BY <1>2, <1>7, <1>8, LoseLink
<1>10. EntryGone(mem, mem', d, n, id)
  BY <1>2, <1>3, <1>4, <1>6, <1>9, UnlinkEntry
<1>11. mem' \in [Ids -> {NoFile} \cup Node]
  BY <1>9 DEF LinkLess
<1>12. Tree(mem') /\ (WholeTree(mem) => WholeTree(mem'))
  BY <1>2, <1>3, <1>4, <1>5, <1>10, <1>11, DropLink
<1>13. Tree(mem)' /\ (~RenameOntoNonEmpty => WholeTree(mem)')
  BY <1>4, <1>12 DEF Tree, WholeTree
<1>14. Exists(mem', id) /\ Exists(mem', d)
  BY <1>2, <1>3, <1>10 DEF EntryGone, Same
<1>15. Exists(mem, id)' /\ Exists(mem, d)' /\ Exists(disk, id)' /\ Exists(disk, d)'
  BY <1>1, <1>2, <1>3, <1>14 DEF Exists
<1>16. todo' \in Seq(Ids) /\ Len(todo') <= 3 /\ InTodo(id)' /\ InTodo(d)' /\ GuardsValid'
  BY <1>1, <1>2, <1>3, <1>15, Guards2
<1>17. \A x \in Ids : x # id /\ x # d => mem'[x] = mem[x]
  BY <1>6, <1>9 DEF EntryPut, LinkLess
<1>18. Stored'
  BY <1>1, <1>15, <1>16, <1>17, StoredFrame
<1>19. QED BY <1>1, <1>4, <1>11, <1>13, <1>16, <1>18, Established

(* link *)
LEMMA LinkStep ==
    ASSUME IInv, Idle, NEW d1 \in BaseDirs, NEW n1 \in UserNames, NEW d2 \in BaseDirs,
           NEW n2 \in UserNames, link(d1, n1, d2, n2)
    PROVE  IInv'
<1>22. mem[d1].ents[n1] # None
  BY DEF link, Resolves
<1>23. PICK id \in Ids : id = mem[d1].ents[n1].id
  BY <1>22, EntryFacts
<1> DEFINE e  == mem[d1].ents[n1]
           new == [mem[id] EXCEPT !.nlink = @ + 1]
           dir == WithEntry(mem[d2], n2, e)
<1>1. /\ e # None /\ mem[d2].ents[n2] = None /\ e.type = "REG"
      /\ mem' = [mem EXCEPT ![id].nlink = @ + 1, ![d2] = WithEntry(@, n2, e)]
      /\ todo' = <<id, d2>> /\ disk' = disk /\ handles' = handles
  BY <1>23 DEF link, Resolves
<1>2. /\ e \in Entry /\ id \in Ids /\ Exists(mem, id) /\ mem[id] \in Node /\ mem[id].type = "REG"
      /\ mem[id].nlink > 0 /\ Exists(disk, id)
  BY <1>1, <1>23, EntryFacts
<1>3. /\ d2 \in Ids /\ Exists(mem, d2) /\ mem[d2] \in Node /\ mem[d2].type = "DIR"
      /\ d2 \in ReachableIn(mem) /\ Exists(disk, d2) /\ n2 \in Names
  BY BaseDirFacts, FSAssumption
<1>4. mem \in [Ids -> {NoFile} \cup Node] /\ disk \in [Ids -> {NoFile} \cup Node]
      /\ handles \in [Ids -> 0..MaxHandles] /\ Tree(mem) /\ (~RenameOntoNonEmpty => WholeTree(mem))
  BY DEF IInv, TypeOK
<1>5. id # d2
  BY <1>2, <1>3
<1>6. /\ new \in Node /\ new # NoFile /\ new.type = mem[id].type /\ new.nlink = mem[id].nlink + 1
      /\ new.ents = mem[id].ents
  BY <1>2, NoSentinels DEF Node
<1>7. /\ dir \in Node /\ dir # NoFile /\ dir.type = mem[d2].type /\ dir.nlink = mem[d2].nlink
      /\ dir.ents[n2] = e /\ \A m \in Names : m # n2 => dir.ents[m] = mem[d2].ents[m]
  BY <1>2, <1>3, WithEntryFacts
<1>8. mem' = [mem EXCEPT ![id] = new, ![d2] = dir]
  BY <1>1, <1>2, <1>3, <1>4, <1>5
<1>20. /\ e # None /\ e.id = id /\ e.type = mem[id].type /\ "REG" # "DIR"
  BY <1>1, <1>2, <1>23
<1>21. todo' = <<id, d2>>
  BY <1>1
<1> HIDE DEF new, dir, e
<1>9. /\ mem' \in [Ids -> {NoFile} \cup Node] /\ mem'[id] = new /\ mem'[d2] = dir
      /\ \A x \in Ids : x # id /\ x # d2 => mem'[x] = mem[x]
  BY <1>2, <1>3, <1>4, <1>5, <1>6, <1>7, <1>8
<1>10. Exists(mem', id) /\ Exists(mem', d2)
  BY <1>6, <1>7, <1>9 DEF Exists
<1>11. \A x \in Ids : x # id => Same(mem, mem', x)
  BY <1>3, <1>7, <1>9, <1>10 DEF Same, Exists
<1>12. \A x \in Ids : x # d2 /\ Exists(mem, x) => mem'[x].ents = mem[x].ents
  BY <1>6, <1>9
<1>13. EntryMade(mem, mem', d2, n2, id)
  <2>1. /\ mem'[d2].ents[n2] # None /\ mem'[d2].ents[n2].id = id
        /\ mem'[d2].ents[n2].type = mem[id].type
        /\ \A m \in Names : m # n2 => mem'[d2].ents[m] = mem[d2].ents[m]
    BY <1>7, <1>9, <1>20
  <2>2. Exists(mem', id) /\ mem'[id].type = mem[id].type /\ mem'[id].nlink = mem[id].nlink + 1
    BY <1>6, <1>9, <1>10
  <2>3. Exists(mem, id) /\ mem[id].nlink > 0 /\ mem[id].type # "DIR"
    BY <1>2
  <2>4. Exists(mem, d2) /\ mem[d2].type = "DIR" /\ mem[d2].ents[n2] = None
    BY <1>1, <1>3
  <2>5. QED BY ONLY <2>1, <2>2, <2>3, <2>4, <1>11, <1>12 DEF EntryMade
<1>14. Tree(mem') /\ (WholeTree(mem) => WholeTree(mem'))
  BY <1>2, <1>3, <1>4, <1>9, <1>13, AddLink
<1>15. Tree(mem)' /\ (~RenameOntoNonEmpty => WholeTree(mem)')
  BY <1>4, <1>14 DEF Tree, WholeTree
<1>16. Exists(mem, id)' /\ Exists(mem, d2)' /\ Exists(disk, id)' /\ Exists(disk, d2)'
  BY <1>1, <1>2, <1>3, <1>10 DEF Exists
<1>17. todo' \in Seq(Ids) /\ Len(todo') <= 3 /\ InTodo(id)' /\ InTodo(d2)' /\ GuardsValid'
  BY <1>2, <1>3, <1>16, <1>21, Guards2
<1>18. Stored'
  BY <1>1, <1>9, <1>16, <1>17, StoredFrame
<1>19. QED BY <1>1, <1>4, <1>9, <1>15, <1>17, <1>18, Established

(* rename to a free name *)
LEMMA RenameFreeStep ==
    ASSUME IInv, Idle, NEW d1 \in BaseDirs, NEW n1 \in UserNames, NEW d2 \in BaseDirs,
           NEW n2 \in UserNames, renameFree(d1, n1, d2, n2)
    PROVE  IInv'
<1> DEFINE src == mem[d1].ents[n1]
           hs  == [mem EXCEPT ![d1] = WithEntry(@, n1, None)]
<1>1. /\ src # None /\ mem[d2].ents[n2] = None /\ KernelAllowsRename(d1, n1, d2, n2)
      /\ mem' = [hs EXCEPT ![d2] = WithEntry(@, n2, src)]
      /\ todo' = <<d2, d1>> /\ disk' = disk /\ handles' = handles
  BY DEF renameFree
<1>2. /\ n1 \in Names /\ Slot(mem, d1, n1) = src /\ Slot(mem, d1, n1) # None
      /\ src \in Entry /\ src.id \in Ids
  BY <1>1, EntryFacts
<1>3. /\ d1 \in Ids /\ Exists(mem, d1) /\ Exists(disk, d1)
      /\ d2 \in Ids /\ Exists(mem, d2) /\ Exists(disk, d2) /\ mem[d2].type = "DIR"
      /\ n2 \in Names /\ mem[d2].nlink > 0
  BY BaseDirFacts, FSAssumption
<1>4. mem \in [Ids -> {NoFile} \cup Node] /\ disk \in [Ids -> {NoFile} \cup Node]
      /\ handles \in [Ids -> 0..MaxHandles] /\ Tree(mem) /\ (~RenameOntoNonEmpty => WholeTree(mem))
  BY DEF IInv, TypeOK
<1>5. NotAbove(mem, src.id, d2)
  BY <1>1, <1>2, <1>3, KernelCheck
<1> HIDE DEF src
<1>6. EntryPut(mem, hs, d1, n1, None)
  BY <1>2, <1>3, <1>4, PutEntry
<1> HIDE DEF hs
<1>7. hs \in [Ids -> {NoFile} \cup Node] /\ Exists(hs, d2)
  BY <1>3, <1>6 DEF EntryPut, Same
<1>8. EntryPut(hs, mem', d2, n2, src)
  BY <1>1, <1>2, <1>3, <1>7, PutEntry
<1>9. Slot(mem, d2, n2) = None
  BY <1>1, <1>3 DEF Slot
<1>10. EntryMoved(mem, mem', d1, n1, d2, n2)
  BY <1>2, <1>3, <1>4, <1>6, <1>8, <1>9, MoveEntry
<1>11. mem' \in [Ids -> {NoFile} \cup Node]
  BY <1>8 DEF EntryPut
<1>12. Tree(mem') /\ (WholeTree(mem) => WholeTree(mem'))
  BY <1>2, <1>3, <1>4, <1>5, <1>10, <1>11, MoveLink
<1>13. Tree(mem)' /\ (~RenameOntoNonEmpty => WholeTree(mem)')
  BY <1>4, <1>12 DEF Tree, WholeTree
<1>14. Exists(mem', d1) /\ Exists(mem', d2)
  BY <1>3, <1>10 DEF EntryMoved, Same
<1>15. Exists(mem, d1)' /\ Exists(mem, d2)' /\ Exists(disk, d1)' /\ Exists(disk, d2)'
  BY <1>1, <1>3, <1>14 DEF Exists
<1>16. todo' \in Seq(Ids) /\ Len(todo') <= 3 /\ InTodo(d2)' /\ InTodo(d1)' /\ GuardsValid'
  BY <1>1, <1>3, <1>15, Guards2
<1>17. \A x \in Ids : x # d1 /\ x # d2 => mem'[x] = mem[x]
  BY <1>6, <1>8 DEF EntryPut
<1>18. Stored'
  BY <1>1, <1>15, <1>16, <1>17, StoredFrame
<1>19. QED BY <1>1, <1>4, <1>11, <1>13, <1>16, <1>18, Established

(* rename over the entry n2 of d2, which names id: ts, ms and gs are the files
   after the source's entry was taken, put in place, and id unlinked; hs is fs
   with the entry n2 of d2 unlinked.                                         *)
Replaced(fs, hs, ts, ms, gs, d1, n1, d2, n2, id) ==
    /\ Slot(fs, d1, n1) # None /\ Slot(fs, d2, n2) # None /\ fs[d2].type = "DIR"
    /\ id = Slot(fs, d2, n2).id /\ Slot(fs, d1, n1).id # id
    /\ EntryGone(fs, hs, d2, n2, id)
    /\ EntryPut(fs, ts, d1, n1, None)
    /\ EntryPut(ts, ms, d2, n2, Slot(fs, d1, n1))
    /\ LinkLess(ms, gs, id)

(* rename over another file is an unlink of that file and a rename to the name
   that is then free.                                                        *)
LEMMA ReplaceEntry ==
    ASSUME NEW fs, NEW hs, NEW ts, NEW ms, NEW gs, Tree(fs),
           NEW d1 \in Ids, NEW n1 \in Names, NEW d2 \in Ids, NEW n2 \in Names, NEW id \in Ids,
           Replaced(fs, hs, ts, ms, gs, d1, n1, d2, n2, id)
    PROVE  EntryMoved(hs, gs, d1, n1, d2, n2) /\ Slot(hs, d1, n1) = Slot(fs, d1, n1)
<1> USE DEF Replaced
<1>1. /\ Exists(fs, d1) /\ Slot(fs, d1, n1) = fs[d1].ents[n1]
      /\ Exists(fs, d2) /\ Slot(fs, d2, n2) = fs[d2].ents[n2]
      /\ (d1 # d2 \/ n1 # n2)
  BY SlotType DEF Tree
<1>2. Exists(fs, id) /\ fs[id].nlink \in Nat /\ fs[id].nlink > 0
  BY NamedIsLinked
<1>3. \A x \in Ids : Exists(fs, x) <=> Exists(hs, x)
  BY <1>2 DEF EntryGone, Same
<1>4. \A x \in Ids : Exists(fs, x) => hs[x].type = fs[x].type
  BY DEF EntryGone, Same
<1>5. \A x \in Ids : Same(fs, ms, x)
  BY DEF EntryPut, Same
<1>6. \A x \in Ids : gs[x].ents = ms[x].ents
  BY DEF LinkLess
<1>7. /\ Exists(gs, id) /\ gs[id].type = fs[id].type /\ gs[id].nlink = fs[id].nlink - 1
  BY <1>2, <1>5 DEF LinkLess, Same
<1>8. \A x \in Ids : Same(hs, gs, x)
  <2> SUFFICES ASSUME NEW x \in Ids PROVE Same(hs, gs, x)
    OBVIOUS
  <2>1. CASE x = id
    BY <1>2, <1>3, <1>7, <2>1 DEF Same, EntryGone
  <2>2. CASE x # id
    <3>1. Same(fs, hs, x) /\ Same(fs, ms, x) /\ gs[x] = ms[x]
      BY <1>5, <2>2 DEF EntryGone, LinkLess
    <3>2. QED BY <3>1 DEF Same, Exists
  <2>3. QED BY <2>1, <2>2
<1>9. hs[d1].ents[n1] = fs[d1].ents[n1]
  BY <1>1 DEF EntryGone
<1>10. Slot(hs, d1, n1) = Slot(fs, d1, n1)
  BY <1>1, <1>3, <1>9 DEF Slot
<1>11. Exists(hs, d2) /\ hs[d2].type = "DIR" /\ hs[d2].ents[n2] = None
  BY <1>1, <1>3, <1>4 DEF EntryGone
<1>12. \A x \in Ids : x # d1 /\ x # d2 /\ Exists(hs, x) => gs[x].ents = hs[x].ents
  BY <1>3, <1>6 DEF EntryPut, Same, EntryGone
<1>13. gs[d2].ents[n2] = hs[d1].ents[n1] /\ gs[d1].ents[n1] = None
  BY <1>1, <1>6, <1>9, <1>5 DEF EntryPut, Same
<1>14. \A m \in Names : m # n1 /\ (d1 # d2 \/ m # n2) => gs[d1].ents[m] = hs[d1].ents[m]
  <2> SUFFICES ASSUME NEW m \in Names, m # n1, d1 # d2 \/ m # n2
               PROVE  gs[d1].ents[m] = hs[d1].ents[m]
    OBVIOUS
  <2>1. gs[d1].ents[m] = ms[d1].ents[m]
    BY <1>1, <1>6
  <2>2. ms[d1].ents[m] = fs[d1].ents[m]
    BY <1>1 DEF EntryPut, Same
  <2>3. fs[d1].ents[m] = hs[d1].ents[m]
    BY <1>1 DEF EntryGone, Same
  <2>4. QED BY <2>1, <2>2, <2>3
<1>15. \A m \in Names : m # n2 /\ (d1 # d2 \/ m # n1) => gs[d2].ents[m] = hs[d2].ents[m]
  <2> SUFFICES ASSUME NEW m \in Names, m # n2, d1 # d2 \/ m # n1
               PROVE  gs[d2].ents[m] = hs[d2].ents[m]
    OBVIOUS
  <2>1. gs[d2].ents[m] = ms[d2].ents[m]
    BY <1>1, <1>6
  <2>2. ms[d2].ents[m] = fs[d2].ents[m]
    BY <1>1 DEF EntryPut, Same
  <2>3. fs[d2].ents[m] = hs[d2].ents[m]
    BY <1>1 DEF EntryGone, Same
  <2>4. QED BY <2>1, <2>2, <2>3
<1>16. QED BY <1>8, <1>10, <1>11, <1>12, <1>13, <1>14, <1>15 DEF EntryMoved

(* rename over another file *)
LEMMA RenameOverStep ==
    ASSUME IInv, Idle, NEW d1 \in BaseDirs, NEW n1 \in UserNames, NEW d2 \in BaseDirs,
           NEW n2 \in UserNames, renameOver(d1, n1, d2, n2)
    PROVE  IInv'
<1> DEFINE src == mem[d1].ents[n1]
           dst == mem[d2].ents[n2]
           ts  == [mem EXCEPT ![d1] = WithEntry(@, n1, None)]
           ms  == [ts EXCEPT ![d2] = WithEntry(@, n2, src)]
           hs1 == [mem EXCEPT ![d2] = WithEntry(@, n2, None)]
<1>1. /\ src # None /\ dst # None /\ src.id # dst.id /\ src.type = dst.type
      /\ KernelAllowsRename(d1, n1, d2, n2)
      /\ (src.type = "DIR" /\ Exists(mem, dst.id) /\ mem[dst.id].ents # NoEntries) => RenameOntoNonEmpty
      /\ mem' = IF Exists(mem, dst.id) THEN [ms EXCEPT ![dst.id] = Unlinked(@)] ELSE ms
      /\ todo' = <<dst.id, d2, d1>> /\ disk' = disk /\ handles' = handles
  BY DEF renameOver
<1>2. /\ n1 \in Names /\ Slot(mem, d1, n1) = src /\ src \in Entry /\ src.id \in Ids
      /\ n2 \in Names /\ Slot(mem, d2, n2) = dst /\ dst \in Entry /\ dst.id \in Ids
      /\ Exists(mem, dst.id) /\ Exists(disk, dst.id) /\ mem[dst.id].type = dst.type
  BY <1>1, EntryFacts
<1>3. PICK id \in Ids : id = dst.id
  BY <1>2
<1>4. /\ d1 \in Ids /\ Exists(mem, d1) /\ Exists(disk, d1)
      /\ d2 \in Ids /\ Exists(mem, d2) /\ Exists(disk, d2) /\ mem[d2].type = "DIR"
      /\ mem[d2].nlink > 0
  BY BaseDirFacts
<1>5. mem \in [Ids -> {NoFile} \cup Node] /\ disk \in [Ids -> {NoFile} \cup Node]
      /\ handles \in [Ids -> 0..MaxHandles] /\ Tree(mem) /\ (~RenameOntoNonEmpty => WholeTree(mem))
  BY DEF IInv, TypeOK
<1>6. NotAbove(mem, src.id, d2)
  BY <1>1, <1>2, <1>4, KernelCheck
<1>7. /\ Slot(mem, d1, n1) # None /\ Slot(mem, d2, n2) # None /\ id = Slot(mem, d2, n2).id
      /\ Slot(mem, d1, n1).id # id /\ mem' = [ms EXCEPT ![id] = Unlinked(@)]
      /\ todo' = <<id, d2, d1>> /\ Exists(mem, id) /\ Exists(disk, id)
  BY <1>1, <1>2, <1>3
<1>8. ~RenameOntoNonEmpty => mem[id].ents = NoEntries /\ id # d2
  <2> SUFFICES ASSUME ~RenameOntoNonEmpty PROVE mem[id].ents = NoEntries /\ id # d2
    OBVIOUS
  <2>1. mem[id].ents = NoEntries
    BY <1>1, <1>2, <1>3, <1>5 DEF Tree, OnlyDirsHold
  <2>2. id # d2
    BY <1>1, <1>2, <2>1 DEF NoEntries
  <2>3. QED BY <2>1, <2>2
<1>9. src = Slot(mem, d1, n1) /\ src \in Entry \cup {None}
  BY <1>2
<1> HIDE DEF src, dst
<1>10. EntryPut(mem, ts, d1, n1, None) /\ EntryPut(mem, hs1, d2, n2, None)
  BY <1>2, <1>4, <1>5, PutEntry
<1> DEFINE hs == [hs1 EXCEPT ![id] = Unlinked(@)]
<1> HIDE DEF ts, hs1
<1>11. ts \in [Ids -> {NoFile} \cup Node] /\ Exists(ts, d2) /\ hs1 \in [Ids -> {NoFile} \cup Node]
       /\ Exists(hs1, id)
  BY <1>4, <1>7, <1>10 DEF EntryPut, Same
<1>12. EntryPut(ts, ms, d2, n2, src)
  BY <1>2, <1>4, <1>9, <1>11, PutEntry
<1>13. LinkLess(hs1, hs, id)
  BY <1>11, LoseLink
<1> HIDE DEF ms, hs
<1>14. ms \in [Ids -> {NoFile} \cup Node] /\ Exists(ms, id)
  BY <1>7, <1>10, <1>12 DEF EntryPut, Same
<1>15. LinkLess(ms, mem', id)
  BY <1>7, <1>14, LoseLink
<1>16. EntryGone(mem, hs, d2, n2, id)
  BY <1>2, <1>4, <1>5, <1>7, <1>10, <1>13, UnlinkEntry
<1>17. hs \in [Ids -> {NoFile} \cup Node] /\ mem' \in [Ids -> {NoFile} \cup Node]
  BY <1>13, <1>15 DEF LinkLess
<1>18. Tree(hs) /\ (WholeTree(mem) /\ mem[id].ents = NoEntries => WholeTree(hs))
  BY <1>2, <1>4, <1>5, <1>16, <1>17, DropLink
<1>19. EntryMoved(hs, mem', d1, n1, d2, n2) /\ Slot(hs, d1, n1) = src
  <2>1. EntryPut(ts, ms, d2, n2, Slot(mem, d1, n1))
    BY <1>9, <1>12
  <2>2. EntryPut(mem, ts, d1, n1, None) /\ Tree(mem) /\ mem[d2].type = "DIR"
    BY <1>4, <1>5, <1>10
  <2>3. n1 \in Names /\ n2 \in Names /\ d1 \in Ids /\ d2 \in Ids
    BY <1>2, <1>4
  <2>4. /\ Slot(mem, d1, n1) # None /\ Slot(mem, d2, n2) # None /\ id = Slot(mem, d2, n2).id
        /\ Slot(mem, d1, n1).id # id
    BY <1>7
  <2>5. EntryMoved(hs, mem', d1, n1, d2, n2) /\ Slot(hs, d1, n1) = Slot(mem, d1, n1)
    <3>1. Replaced(mem, hs, ts, ms, mem', d1, n1, d2, n2, id)
      BY ONLY <2>1, <2>2, <2>4, <1>15, <1>16 DEF Replaced
    <3>2. QED BY ONLY <2>2, <2>3, <3>1, id \in Ids, ReplaceEntry
  <2>6. QED BY <1>9, <2>5
<1>20. NotAbove(hs, src.id, d2)
  <2>1. PICK T \in SUBSET Ids : Holds(mem, T) /\ src.id \in T /\ d2 \notin T
    BY <1>6 DEF NotAbove
  <2>2. \A c \in Ids, m \in Names : Slot(hs, c, m) # None => Slot(hs, c, m) = Slot(mem, c, m)
    <3> SUFFICES ASSUME NEW c \in Ids, NEW m \in Names, Slot(hs, c, m) # None
                 PROVE  Slot(hs, c, m) = Slot(mem, c, m)
      OBVIOUS
    <3>1. Exists(hs, c) /\ Slot(hs, c, m) = hs[c].ents[m]
      BY DEF Slot
    <3>2. Exists(mem, c)
      BY <1>7, <1>16, <3>1 DEF EntryGone, Same
    <3>3. hs[c].ents[m] = mem[c].ents[m]
      BY <1>16, <3>1, <3>2 DEF EntryGone
    <3>4. QED BY <3>1, <3>2, <3>3, <1>16 DEF Slot
  <2>3. Holds(hs, T)
    BY <2>1, <2>2 DEF Holds
  <2>4. QED BY <2>1, <2>3 DEF NotAbove
<1>21. Tree(mem') /\ (WholeTree(hs) /\ hs[d2].nlink > 0 => WholeTree(mem'))
  BY <1>2, <1>4, <1>17, <1>18, <1>19, <1>20, MoveLink
<1>22. ~RenameOntoNonEmpty => WholeTree(mem')
  <2> SUFFICES ASSUME ~RenameOntoNonEmpty PROVE WholeTree(mem')
    OBVIOUS
  <2>1. hs[d2].nlink > 0
    BY <1>4, <1>8, <1>16 DEF EntryGone, Same
  <2>2. QED BY <2>1, <1>5, <1>8, <1>18, <1>21
<1>23. Tree(mem)' /\ (~RenameOntoNonEmpty => WholeTree(mem)')
  BY <1>21, <1>22 DEF Tree, WholeTree
<1>24. Exists(mem', d1) /\ Exists(mem', d2) /\ Exists(mem', id)
  BY <1>4, <1>10, <1>12, <1>15 DEF EntryPut, LinkLess, Same, Exists
<1>25. /\ Exists(mem, d1)' /\ Exists(mem, d2)' /\ Exists(mem, id)'
       /\ Exists(disk, d1)' /\ Exists(disk, d2)' /\ Exists(disk, id)'
  BY <1>1, <1>4, <1>7, <1>24 DEF Exists
<1>26. todo' \in Seq(Ids) /\ Len(todo') <= 3 /\ InTodo(id)' /\ InTodo(d2)' /\ InTodo(d1)' /\ GuardsValid'
  BY <1>4, <1>7, <1>25, Guards3
<1>27. \A x \in Ids : x # d1 /\ x # d2 /\ x # id => mem'[x] = mem[x]
  BY <1>10, <1>12, <1>15 DEF EntryPut, LinkLess
<1>28. Stored'
  BY <1>1, <1>25, <1>26, <1>27, StoredFrame
<1>29. QED BY <1>1, <1>5, <1>17, <1>23, <1>26, <1>28, Established

(* destroy and mount again *)
LEMMA RemountStep ==
    ASSUME IInv, Idle, remount
    PROVE  IInv'
<1>1. /\ mem' = [id \in Ids |-> IF Exists(mem, id) /\ mem[id].nlink = 0 THEN NoFile ELSE mem[id]]
      /\ disk' = mem' /\ handles' = [id \in Ids |-> 0] /\ UNCHANGED todo
  BY DEF remount
<1>2. mem \in [Ids -> {NoFile} \cup Node] /\ Tree(mem) /\ (~RenameOntoNonEmpty => WholeTree(mem))
  BY DEF IInv, TypeOK
<1>3. mem' \in [Ids -> {NoFile} \cup Node]
  BY <1>1, <1>2
<1>4. \A x \in Ids : mem'[x] = mem[x] \/ (mem'[x] = NoFile /\ mem[x].nlink = 0)
  BY <1>1
<1>5. Tree(mem') /\ (WholeTree(mem) => WholeTree(mem'))
  BY <1>2, <1>3, <1>4, RemoveFiles
<1>6. Tree(mem)' /\ (~RenameOntoNonEmpty => WholeTree(mem)')
  BY <1>2, <1>5 DEF Tree, WholeTree
<1>7. handles' \in [Ids -> 0..MaxHandles] /\ disk' \in [Ids -> {NoFile} \cup Node]
  BY <1>1, <1>3, FSAssumption
<1>8. todo' \in Seq(Ids) /\ Len(todo') <= 3 /\ GuardsValid'
  BY <1>1, NoGuards
<1>9. Stored'
  <2> SUFFICES ASSUME NEW x \in Ids PROVE StoredAt(x)'
    BY DEF Stored
  <2>1. disk'[x] = mem'[x] /\ handles'[x] = 0
    BY <1>1
  <2>2. mem'[x] # NoFile => mem'[x].nlink # 0
    BY <1>1 DEF Exists
  <2>3. QED BY <2>1, <2>2 DEF StoredAt, Exists
<1>10. QED BY <1>3, <1>6, <1>7, <1>8, <1>9, Established

(* A guard closes. *)
LEMMA SettleStep ==
    ASSUME IInv, Settle
    PROVE  IInv'
<1> DEFINE last == LastReference(Head(todo))
<1>1. todo # <<>> /\ todo \in Seq(Ids) /\ Len(todo) <= 3
  BY DEF Settle, CloseGuard, IInv, TypeOK
<1>2. Head(todo) \in Ids /\ Len(todo) \in Nat /\ Len(todo) > 0 /\ Head(todo) = todo[1]
  BY <1>1
<1>3. PICK id \in Ids : id = Head(todo)
  BY <1>2
<1>4. /\ todo' = Tail(todo) /\ handles' = handles
      /\ mem' = [mem EXCEPT ![id] = IF last /\ mem[id].nlink = 0 THEN NoFile ELSE mem[id]]
      /\ disk' = IF last THEN [disk EXCEPT ![id] = IF last /\ mem[id].nlink = 0 THEN NoFile ELSE mem[id]]
                 ELSE disk
  BY <1>3 DEF Settle, CloseGuard
<1>5. /\ mem \in [Ids -> {NoFile} \cup Node] /\ disk \in [Ids -> {NoFile} \cup Node]
      /\ handles \in [Ids -> 0..MaxHandles] /\ Tree(mem) /\ (~RenameOntoNonEmpty => WholeTree(mem))
      /\ Stored /\ GuardsValid
  BY DEF IInv, TypeOK
<1>6. todo' \in Seq(Ids) /\ Len(todo') <= 3
  BY <1>1, <1>2, <1>4
<1>7. \A k \in 1..Len(todo') : k + 1 \in 2..Len(todo) /\ todo'[k] = todo[k + 1]
  BY <1>1, <1>2, <1>4
<1>8. \A k \in 2..Len(todo) : k - 1 \in 1..Len(todo') /\ todo'[k - 1] = todo[k]
  BY <1>1, <1>2, <1>4
<1>9. 1 \in 1..Len(todo) /\ \A k \in 2..Len(todo) : k \in 1..Len(todo)
  BY <1>2
<1>10. \A x \in Ids : InTodo(x)' <=> \E k \in 2..Len(todo) : todo[k] = x
  BY <1>7, <1>8 DEF InTodo
<1>11. \A x \in Ids : x # id => (InTodo(x)' <=> InTodo(x))
  <2> SUFFICES ASSUME NEW x \in Ids, x # id PROVE InTodo(x)' <=> InTodo(x)
    OBVIOUS
  <2>1. \A k \in 1..Len(todo) : todo[k] = x => k \in 2..Len(todo)
    BY <1>2, <1>3
  <2>2. QED BY <1>9, <1>10, <2>1 DEF InTodo
<1>12. InTodo(id) /\ Exists(mem, id) /\ Exists(disk, id)
  BY <1>2, <1>3, <1>5, <1>9 DEF InTodo, GuardsValid, Stored, StoredAt
<1>13. last <=> handles[id] = 0 /\ ~InTodo(id)'
  BY <1>3, <1>10, <1>12 DEF LastReference
<1>14. \A k \in 1..Len(todo') : todo'[k] \in Ids /\ Exists(mem, todo'[k])
  BY <1>1, <1>5, <1>7, <1>9 DEF GuardsValid
<1> HIDE DEF last
<1>15. CASE last /\ mem[id].nlink = 0
  <2>1. /\ mem' = [mem EXCEPT ![id] = NoFile] /\ disk' = [disk EXCEPT ![id] = NoFile]
    BY <1>4, <1>15
  <2>2. mem' \in [Ids -> {NoFile} \cup Node] /\ disk' \in [Ids -> {NoFile} \cup Node]
    BY <1>5, <2>1
  <2>3. /\ mem'[id] = NoFile /\ disk'[id] = NoFile
        /\ \A x \in Ids : x # id => mem'[x] = mem[x] /\ disk'[x] = disk[x]
    BY <1>5, <2>1
  <2>4. Tree(mem') /\ (WholeTree(mem) => WholeTree(mem'))
    <3>1. \A x \in Ids : mem'[x] = mem[x] \/ (mem'[x] = NoFile /\ mem[x].nlink = 0)
      BY <1>15, <2>3
    <3>2. QED BY <1>5, <2>2, <3>1, RemoveFiles
  <2>5. Tree(mem)' /\ (~RenameOntoNonEmpty => WholeTree(mem)')
    BY <1>5, <2>4 DEF Tree, WholeTree
  <2>6. Stored'
    <3> SUFFICES ASSUME NEW x \in Ids PROVE StoredAt(x)'
      BY DEF Stored
    <3>1. CASE x = id
      BY <1>4, <1>13, <1>15, <2>3, <3>1 DEF StoredAt, Exists
    <3>2. CASE x # id
      <4>1. StoredAt(x)
        BY <1>5 DEF Stored
      <4>2. QED BY <1>4, <1>11, <2>3, <3>2, <4>1 DEF StoredAt, Exists
    <3>3. QED BY <3>1, <3>2
  <2>7. GuardsValid'
    <3> SUFFICES ASSUME NEW k \in 1..Len(todo') PROVE Exists(mem', todo'[k])
      BY DEF GuardsValid, Exists
    <3>1. todo'[k] # id
      BY <1>13, <1>15 DEF InTodo
    <3>2. QED BY <1>14, <2>3, <3>1 DEF Exists
  <2>8. QED BY <1>4, <1>5, <1>6, <2>2, <2>5, <2>6, <2>7, Established
<1>16. CASE ~(last /\ mem[id].nlink = 0)
  <2>1. mem' = mem
    BY <1>4, <1>5, <1>16
  <2>2. /\ disk' \in [Ids -> {NoFile} \cup Node] /\ Exists(disk, id)'
        /\ \A x \in Ids : x # id => disk'[x] = disk[x]
        /\ last => disk'[id] = mem[id]
    BY <1>4, <1>5, <1>12, <1>16 DEF Exists
  <2>3. Stored'
    <3> SUFFICES ASSUME NEW x \in Ids PROVE StoredAt(x)'
      BY DEF Stored
    <3>1. CASE x = id
      <4>1. handles[id] > 0 <=> handles[id] # 0
        BY <1>5
      <4>2. QED BY <1>4, <1>12, <1>13, <1>16, <2>1, <2>2, <3>1, <4>1 DEF StoredAt, Exists
    <3>2. CASE x # id
      <4>1. StoredAt(x)
        BY <1>5 DEF Stored
      <4>2. QED BY <1>4, <1>11, <2>1, <2>2, <3>2, <4>1 DEF StoredAt, Exists
    <3>3. QED BY <3>1, <3>2
  <2>4. GuardsValid'
    BY <1>14, <2>1 DEF GuardsValid, Exists
  <2>5. QED BY <1>4, <1>5, <1>6, <2>1, <2>2, <2>3, <2>4, TreeKept, Established
<1>17. QED BY <1>15, <1>16

-----------------------------------------------------------------------------
(* An empty root directory, and nothing else. *)
LEMMA InitIInv == Init => IInv
<1> SUFFICES ASSUME Init PROVE IInv
  OBVIOUS
<1>1. PICK a \in Attrs : mem = [id \in Ids |-> IF id = Root THEN EmptyNode("DIR", a) ELSE NoFile]
  BY DEF Init
<1>2. disk = mem /\ handles = [id \in Ids |-> 0] /\ todo = <<>>
  BY DEF Init
<1>3. Root \in Ids /\ MaxHandles \in Nat
  BY FSAssumption
<1> DEFINE new == EmptyNode("DIR", a)
<1>4. new \in Node /\ new # NoFile /\ new.type = "DIR" /\ new.nlink = 1 /\ new.ents = NoEntries
  BY EmptyNodeFacts DEF RealTypes
<1>5. /\ mem \in [Ids -> {NoFile} \cup Node] /\ mem[Root] = new
      /\ \A x \in Ids : x # Root => mem[x] = NoFile
  BY <1>1, <1>3, <1>4
<1> HIDE DEF new
<1>6. TypeOK
  BY <1>2, <1>3, <1>5 DEF TypeOK
<1>7. Stored
  <2> SUFFICES ASSUME NEW x \in Ids PROVE StoredAt(x)
    BY DEF Stored
  <2>1. handles[x] = 0 /\ disk[x] = mem[x]
    BY <1>2
  <2>2. Exists(mem, x) => mem[x].nlink # 0
    BY <1>3, <1>4, <1>5 DEF Exists
  <2>3. QED BY <2>1, <2>2 DEF StoredAt, Exists
<1>8. GuardsValid
  BY <1>2 DEF GuardsValid
<1>9. \A d \in Ids, n \in Names : Slot(mem, d, n) = None
  BY <1>4, <1>5 DEF Slot, Exists, NoEntries
<1>10. \A x : Links(mem, x) = 0
  <2> SUFFICES ASSUME NEW x PROVE Links(mem, x) = 0
    OBVIOUS
  <2>1. LinksTo(mem, x) = {}
    BY <1>9, LinksAreSlots
  <2>2. QED BY <2>1, FS_EmptySet DEF Links
<1>11. Tree(mem)
  BY <1>3, <1>4, <1>5, <1>9, <1>10 DEF Tree, OnlyDirsHold, EntriesLead, LinksCounted, RootLink, Exists
<1>12. WholeTree(mem)
  <2>1. LinksExact(mem)
    BY <1>3, <1>4, <1>5, <1>10 DEF LinksExact, RootLink, Exists
  <2>2. EmptyGo(mem)
    BY <1>4, <1>5 DEF EmptyGo, Exists
  <2>3. Connected(mem)
    BY <1>3, <1>5, Reached DEF Connected, Exists
  <2>4. QED BY <2>1, <2>2, <2>3 DEF WholeTree
<1>13. QED BY <1>6, <1>7, <1>8, <1>11, <1>12 DEF IInv

(* Every step keeps it. *)
LEMMA NextIInv == IInv /\ [Next]_vars => IInv'
<1> SUFFICES ASSUME IInv, [Next]_vars PROVE IInv'
  OBVIOUS
<1>1. CASE Settle
  BY <1>1, SettleStep
<1>2. CASE Idle /\ Operation
  <2> USE <1>2
  <2>1. ASSUME NEW d \in BaseDirs, NEW n \in UserNames, NEW id \in Ids, NEW a \in Attrs,
               \/ create(d, n, id, a)
               \/ \E t \in RealTypes : mknode(d, n, t, id, a) \/ createExists(d, n, t, id, a)
        PROVE  IInv'
    BY <2>1, CreateStep, MknodeStep, CreateExistsStep
  <2>2. ASSUME NEW d \in BaseDirs, NEW n \in UserNames, unlink(d, n)
        PROVE  IInv'
    BY <2>2, UnlinkStep
  <2>3. ASSUME NEW id \in Ids, release(id) \/ fsync(id)
        PROVE  IInv'
    BY <2>3, ReleaseStep, FsyncStep
  <2>4. ASSUME NEW id \in Ids, NEW a \in Attrs, ReadWrite(id, a) \/ ftruncate(id, a)
        PROVE  IInv'
    BY <2>4, ReadWriteStep
  <2>5. ASSUME NEW id \in OpenAll, opendir(id)
        PROVE  IInv'
    BY <2>5, OpendirStep
  <2>6. ASSUME NEW id \in OpenAll, NEW a \in Attrs,
               \/ open(id, a) \/ chmod(id, a) \/ truncate(id, a)
               \/ utimens(id, a) \/ readlink(id, a)
        PROVE  IInv'
    BY <2>6, OpenStep, AttrStep
  <2>7. ASSUME NEW d1 \in BaseDirs, NEW d2 \in BaseDirs, NEW n1 \in UserNames, NEW n2 \in UserNames,
               renameFree(d1, n1, d2, n2) \/ renameOver(d1, n1, d2, n2) \/ link(d1, n1, d2, n2)
        PROVE  IInv'
    BY <2>7, RenameFreeStep, RenameOverStep, LinkStep
  <2>8. CASE remount
    BY <2>8, RemountStep
  <2>9. QED BY <2>1, <2>2, <2>3, <2>4, <2>5, <2>6, <2>7, <2>8 DEF Operation
<1>3. CASE UNCHANGED vars
  <2>1. mem' = mem /\ disk' = disk /\ handles' = handles /\ todo' = todo
    BY <1>3 DEF vars
  <2>2. TypeOK' /\ Stored' /\ GuardsValid'
    BY <2>1 DEF IInv, TypeOK, Stored, StoredAt, GuardsValid, InTodo, Exists
  <2>3. QED BY <2>1, <2>2, TreeKept DEF IInv
<1>4. QED BY <1>1, <1>2, <1>3 DEF Next

(* The tree and its link counts, what is stored and what is held, whatever the
   operations do.                                                            *)
THEOREM InductiveInvariant == Spec => []IInv
<1>1. Init => IInv
  BY InitIInv
<1>2. IInv /\ [Next]_vars => IInv'
  BY NextIInv
<1>3. QED BY <1>1, <1>2, PTL DEF Spec

(* Every variable keeps its type: at most three guards are open at once, and
   release never takes a count below zero (operations.cpp, release).         *)
THEOREM TypeCorrect == Spec => []TypeOK
<1>1. IInv => TypeOK
  BY DEF IInv
<1>2. QED BY <1>1, InductiveInvariant, PTL

(* An entry never outlives its file, and never names it by another type: open_as
   trusts the type of the entry.                                             *)
THEOREM EntriesNeverDangle == Spec => []NoDanglingEntries
<1>1. IInv => NoDanglingEntries
  <2> SUFFICES ASSUME IInv, NEW e \in EntriesOf(mem)
               PROVE  /\ Exists(mem, Target(mem, e).id)
                      /\ mem[Target(mem, e).id].type = Target(mem, e).type
    BY DEF NoDanglingEntries
  <2>1. e[1] \in Ids /\ e[2] \in Names /\ e = <<e[1], e[2]>>
    BY EntryPair
  <2>2. Slot(mem, e[1], e[2]) # None /\ Target(mem, e) = Slot(mem, e[1], e[2])
    BY <2>1, EntrySlots
  <2>3. QED BY <2>1, <2>2 DEF IInv, Tree, EntriesLead
<1>2. QED BY <1>1, InductiveInvariant, PTL

(* A handle is on a file that exists, in memory and on disk, also when its last
   name is gone.                                                             *)
THEOREM HandlesValid == Spec => []HandlesStayValid
<1>1. IInv => HandlesStayValid
  BY DEF IInv, Stored, StoredAt, HandlesStayValid
<1>2. QED BY <1>1, InductiveInvariant, PTL

(* Between operations, what no handle holds is on disk as it is in memory. *)
THEOREM Durable == Spec => []DurableWhenIdle
<1>1. IInv => DurableWhenIdle
  <2> SUFFICES ASSUME IInv, Idle, NEW id \in Ids, handles[id] = 0 PROVE disk[id] = mem[id]
    BY DEF DurableWhenIdle
  <2>1. ~InTodo(id)
    BY DEF Idle, InTodo
  <2>2. QED BY <2>1 DEF IInv, Stored, StoredAt
<1>2. QED BY <1>1, InductiveInvariant, PTL

(* Where no client renames onto a directory with entries, the link count is the
   number of entries, and a file is freed with its last one.                 *)
THEOREM LinkCountsExact ==
    ASSUME ~RenameOntoNonEmpty
    PROVE  Spec => []LinkCountExact
<1>1. IInv => LinkCountExact
  BY DEF IInv, WholeTree, LinksExact, LinkCountExact, Links, RootLink
<1>2. QED BY <1>1, InductiveInvariant, PTL

(* Where no client renames onto a directory with entries, a file that no path
   leads to has no link and is held by a handle or by the running operation.  *)
THEOREM NothingIsLost ==
    ASSUME ~RenameOntoNonEmpty
    PROVE  Spec => []NoOrphans
<1>1. IInv => NoOrphans
  <2> SUFFICES ASSUME IInv, NEW id \in Ids, Exists(mem, id), id \notin ReachableIn(mem)
               PROVE  mem[id].nlink = 0 /\ (handles[id] > 0 \/ Contains(todo, id))
    BY DEF NoOrphans
  <2>1. mem[id].nlink \in Nat
    BY DEF IInv, TypeOK, Node, Exists
  <2>2. mem[id].nlink = 0
    BY <2>1 DEF IInv, WholeTree, Connected
  <2>3. handles[id] > 0 \/ InTodo(id)
    BY <2>2 DEF IInv, Stored, StoredAt
  <2>4. QED BY <2>2, <2>3 DEF InTodo, Contains
<1>2. QED BY <1>1, InductiveInvariant, PTL
=============================================================================
