------------------------------- MODULE FixProofs -------------------------------
(***************************************************************************)
(* Proofs about fix, on whatever a killed mount left, for any number of    *)
(* files and names and any number of restarts of fix: what it promises     *)
(* when it completes (FixRepairs, FixedCounts), that it never opens a      *)
(* directory that its recursion holds unless directories were open in the  *)
(* mount (NeverReopensHeld), and that none of its steps costs a file with  *)
(* links its path of files with links, but for the paths through files     *)
(* that a kill leaves refused (FixKeepsFiles).                             *)
(*                                                                         *)
(* The invariant FixInv has three layers. MountInv says what a mount may   *)
(* leave on disk at any moment, and that its directories have no cycle in  *)
(* memory, and on disk none either while no client has one open. Core says *)
(* how memory and disk differ during fix: only in the directories that it  *)
(* holds, and every entry on disk that leads to a file is in memory too.   *)
(* PhaseInv says how far each phase got: every entry of a directory that   *)
(* was met is pending in the recursion or has been dealt with. The walks   *)
(* visit entries in any order, so what a walk has seen is a set (all_ids,  *)
(* or S, C and D of the two walks of fix_hardlink_count, which the model   *)
(* does not keep and the invariant asserts to exist). Beside it RefusedInv *)
(* says that no refused file is in memory or on disk, and that fix never   *)
(* comes to count links while one is left unless the user ignored it.      *)
(***************************************************************************)
EXTENDS Fix, FullFSProofs

(* The files that fix may meet. *)
Files == [Ids -> {NoFile} \cup FixNode]

(* The entry n of d names a file that is there. *)
Leads(fs, d, n) == Slot(fs, d, n) # None /\ Exists(fs, Slot(fs, d, n).id)

(* From a directory to what its entries name. *)
Arcs(fs) ==
    {a \in Ids \X Ids : \E n \in Names : Slot(fs, a[1], n) # None /\ Slot(fs, a[1], n).id = a[2]}

(* Every set of files has one that no other of them names. *)
Acyclic(arcs) == \A S \in SUBSET Ids : S # {} => \E x \in S : \A y \in S : <<y, x>> \notin arcs

(* No entry names the root. *)
RootUnnamed(fs) == \A d \in Ids, n \in Names : Slot(fs, d, n) # None => Slot(fs, d, n).id # Root

(* An entry has the type of its file, unless the header was never written. *)
TypesAgree(fs) ==
    \A d \in Ids, n \in Names :
        Leads(fs, d, n) => fs[Slot(fs, d, n).id].type \in {Slot(fs, d, n).type, "UNKNOWN"}

(* The name that fix gives a file names no other. *)
HexNamed(fs) ==
    \A x \in Ids : Slot(fs, Root, hexify(x)) # None => Slot(fs, Root, hexify(x)).id = x

(* What fix may find and leave. *)
Volume(fs) ==
    /\ fs \in Files
    /\ IsDir(fs, Root)
    /\ OnlyDirsHold(fs)
    /\ HexNamed(fs)
    /\ RootUnnamed(fs)
    /\ TypesAgree(fs)

-----------------------------------------------------------------------------
(* The mount. *)
NoOpenDirs == \A x \in Ids : IsDir(mem, x) => handles[x] = 0

UserEntries(fs) == \A d \in Ids, n \in Names : Slot(fs, d, n) # None => n \in UserNames

Typed(x) == Exists(disk, x) => disk[x].type \in {mem[x].type, "UNKNOWN"}

DiskTypes ==
    /\ \A x \in Ids : Typed(x)
    /\ \A d \in Ids, n \in Names :
          (Slot(disk, d, n) # None /\ Exists(mem, Slot(disk, d, n).id))
              => mem[Slot(disk, d, n).id].type = Slot(disk, d, n).type

MountInv ==
    /\ IInv
    /\ IsDir(mem, Root) /\ IsDir(disk, Root)
    /\ OnlyDirsHold(disk)
    /\ UserEntries(mem) /\ UserEntries(disk)
    /\ RootUnnamed(mem) /\ RootUnnamed(disk)
    /\ DiskTypes
    /\ Acyclic(Arcs(mem))
    /\ NoOpenDirs => Acyclic(Arcs(mem) \cup Arcs(disk))

-----------------------------------------------------------------------------
(* Fix: fs is what it has in memory, gs what is on disk, H the directories it
   holds. Only those may differ. Every entry on disk that leads to a file is in
   memory too, possibly with another type.                                   *)
Mirrored(fs, gs, H, x) ==
    /\ Exists(fs, x) <=> Exists(gs, x)
    /\ x \notin H => fs[x] = gs[x]
    /\ Exists(fs, x) => fs[x].nlink = gs[x].nlink /\ fs[x].type = gs[x].type
    /\ \A n \in Names : Leads(gs, x, n) =>
          Slot(fs, x, n) # None /\ Slot(fs, x, n).id = Slot(gs, x, n).id

Core(fs, gs, H) == Volume(fs) /\ Volume(gs) /\ \A x \in Ids : Mirrored(fs, gs, H, x)

(* The recursion is along entries, and its frames list entries. *)
Frames == [dir : Ids, rest : SUBSET Names]

FrameOn(f, fs) == IsDir(fs, f.dir) /\ \A n \in f.rest : Slot(fs, f.dir, n) # None

StackOn(s, fs) ==
    /\ s \in Seq(Frames)
    /\ \A i \in 1..Len(s) : FrameOn(s[i], fs)
    /\ \A i, j \in 1..Len(s) : s[i].dir = s[j].dir => i = j
    /\ Len(s) > 0 => s[Len(s)].dir = Root
    /\ \A i, j \in 1..Len(s) : j = i + 1 => <<s[j].dir, s[i].dir>> \in Arcs(fs)

(* The walk has yet to look at the entry n of d. *)
Pending(s, d, n) == \E i \in 1..Len(s) : s[i].dir = d /\ n \in s[i].rest

StackIn(s, S) == \A i \in 1..Len(s) : s[i].dir \in S

FixingInv ==
    /\ Core(mem, disk, Held)
    /\ StackOn(stack, mem)
    /\ handles = [id \in Ids |-> 0]
    /\ all_ids \in SUBSET Ids /\ Root \in all_ids
    /\ unseen \in SUBSET Ids
    /\ nlink_map \in [Ids -> Nat]
    /\ phase \in {"helper", "orphans"} => nlink_map = [id \in Ids |-> 0]
    /\ ~dirsOpen => Acyclic(Arcs(mem) \cup Arcs(disk))

(* An entry that fix need not repair: the file has its type, or fix removed it. *)
Right(fs, g, t) == t.id \in g \/ (Exists(fs, t.id) /\ fs[t.id].type = t.type)

RightEntries(fs, A, g, dec) ==
    ~dec => \A d \in A, n \in Names : Slot(fs, d, n) # None => Right(fs, g, Slot(fs, d, n))

(* S holds what the directories that are in A and in S lead to. *)
Shut(fs, A, S) ==
    \A d \in Ids, n \in Names : (d \in A /\ d \in S /\ Leads(fs, d, n)) => Slot(fs, d, n).id \in S

(* The files in A are reached along directories in A. *)
ReachedWithin(fs, A) ==
    \A S \in SUBSET Ids : (Root \in S /\ Shut(fs, A, S)) => \A x \in A : Exists(fs, x) => x \in S

(* fix_helper closed them, and they are still there. *)
LinkedWithin(fs, A) == \A x \in A : (x # Root /\ Exists(fs, x)) => fs[x].nlink > 0

(* A is what fix_helper met. *)
HelperOn(fs, s, A, g, dec) ==
    /\ StackIn(s, A)
    /\ \A d \in A, n \in Names : Slot(fs, d, n) # None =>
          \/ Pending(s, d, n)
          \/ /\ Exists(fs, Slot(fs, d, n).id) => Slot(fs, d, n).id \in A
             /\ ~dec => Right(fs, g, Slot(fs, d, n))
    /\ LinkedWithin(fs, A)
    /\ ReachedWithin(fs, A)

(* U are the files that fix has yet to look at. *)
OrphansOn(fs, gs, A, U, g, dec) ==
    /\ \A x \in U : Exists(fs, x)
    /\ \A d \in A, n \in Names : Leads(gs, d, n) => Slot(gs, d, n).id \in A
    /\ RightEntries(fs, A, g, dec)
    /\ LinkedWithin(fs, A)
    /\ ReachedWithin(fs, A)
    /\ ~dec => \A x \in Ids : (Exists(fs, x) /\ x \notin A /\ x \notin U) =>
          Slot(fs, Root, hexify(x)) # None /\ fs[x].nlink > 0

CountOn(fs, A, g, dec) ==
    /\ RightEntries(fs, A, g, dec)
    /\ ~dec => \A x \in Ids : Exists(fs, x) =>
          x \in ReachableIn(fs) /\ (x # Root => fs[x].nlink > 0)

(* No directory has two entries. *)
OneEntry(fs) ==
    \A d1, d2 \in Ids, n1, n2 \in Names :
        (/\ Slot(fs, d1, n1) # None /\ Slot(fs, d2, n2) # None
         /\ Slot(fs, d1, n1).id = Slot(fs, d2, n2).id
         /\ IsDir(fs, Slot(fs, d1, n1).id)) => d1 = d2 /\ n1 = n2

CountedLinks(fs, C, x) == {e \in C : Slot(fs, e[1], e[2]).id = x}

(* The directories S that the collecting walk entered, the entries C that it
   counted, and the counts m.                                                *)
Walked(fs, m, S, C) ==
    /\ S \in SUBSET Ids /\ C \in SUBSET (Ids \X Names)
    /\ Root \in S
    /\ \A x \in S : IsDir(fs, x) /\ x \in ReachableIn(fs)
    /\ \A x \in S : x # Root => \E e \in C : Slot(fs, e[1], e[2]).id = x
    /\ \A e \in C : e[1] \in S /\ Slot(fs, e[1], e[2]) # None
    /\ \A x \in Ids : m[x] >= Cardinality(CountedLinks(fs, C, x))
    /\ OneEntry(fs) => \A x \in Ids : m[x] = Cardinality(CountedLinks(fs, C, x))

CollectedAt(fs, S, C, d, n) ==
    <<d, n>> \in C /\ (Slot(fs, d, n).type = "DIR" => Slot(fs, d, n).id \in S)

CollectingOn(fs, s, m, S, C) ==
    /\ Walked(fs, m, S, C)
    /\ StackIn(s, S)
    /\ \A d \in S, n \in Names : Leads(fs, d, n) => Pending(s, d, n) \/ CollectedAt(fs, S, C, d, n)
    /\ OneEntry(fs) => \A d \in Ids, n \in Names : Pending(s, d, n) => <<d, n>> \notin C

CollectingInv == \E S \in SUBSET Ids, C \in SUBSET (Ids \X Names) : CollectingOn(mem, stack, nlink_map, S, C)

(* D are the directories that the second walk entered. *)
SetAt(fs, m, D, t) == fs[t.id].nlink = m[t.id] /\ (t.type = "DIR" => t.id \in D)

SettingOn(fs, s, m, S, C, D) ==
    /\ Walked(fs, m, S, C)
    /\ \A d \in S, n \in Names : Leads(fs, d, n) => CollectedAt(fs, S, C, d, n)
    /\ D \in SUBSET S /\ Root \in D /\ StackIn(s, D)
    /\ \A d \in D, n \in Names : Leads(fs, d, n) => Pending(s, d, n) \/ SetAt(fs, m, D, Slot(fs, d, n))

SettingInv ==
    \E S \in SUBSET Ids, C \in SUBSET (Ids \X Names) :
        \E D \in SUBSET Ids : SettingOn(mem, stack, nlink_map, S, C, D)

PhaseInv ==
    /\ phase = "helper" => HelperOn(mem, stack, all_ids, gone, declined)
    /\ phase = "orphans" => OrphansOn(mem, disk, all_ids, unseen \ refused, gone, declined)
    /\ phase \in {"CollectingNLink", "FixingNLink"} => CountOn(mem, all_ids, gone, declined)
    /\ phase = "CollectingNLink" => CollectingInv
    /\ phase = "FixingNLink" => SettingInv

FixInv ==
    /\ phase \in Walks \cup {"mounted", "orphans", "complete", "aborted", "undefined"}
    /\ phase \in Walks <=> stack # <<>>
    /\ phase = "mounted" => MountInv /\ ~dirsOpen
    /\ Fixing => FixingInv /\ PhaseInv
    /\ FixRepairs /\ FixedCounts /\ NeverReopensHeld

(* The files that cannot be opened. *)
RefusedInv ==
    /\ refused \in SUBSET Ids
    /\ phase = "mounted" => refused = {}
    /\ Fixing => \A x \in refused : ~Exists(disk, x)
    /\ (phase = "orphans" /\ ~declined) => refused \subseteq unseen
    /\ (phase \in {"CollectingNLink", "FixingNLink"} /\ ~declined) => refused = {}

-----------------------------------------------------------------------------
(* A mount writes entries and files that fix may find. *)
LEMMA WideTypes == Entry \subseteq FixEntry /\ Node \subseteq FixNode
<1>1. Entry \subseteq FixEntry
  BY DEF Entry, FixEntry, EntryTypes
<1>2. [Names -> Entry \cup {None}] \subseteq [Names -> FixEntry \cup {None}]
  BY <1>1
<1>3. QED BY <1>1, <1>2 DEF Node, FixNode

(* What an entry is. *)
LEMMA SlotWide ==
    ASSUME NEW fs \in Files, NEW d \in Ids, NEW n \in Names, Slot(fs, d, n) # None
    PROVE  /\ Slot(fs, d, n) \in FixEntry /\ Slot(fs, d, n).id \in Ids
           /\ Exists(fs, d) /\ fs[d] \in FixNode /\ Slot(fs, d, n) = fs[d].ents[n]
<1>1. Exists(fs, d) /\ Slot(fs, d, n) = fs[d].ents[n]
  BY DEF Slot
<1>2. fs[d] \in FixNode
  BY <1>1 DEF Exists, Files
<1>3. fs[d].ents[n] \in FixEntry \cup {None}
  BY <1>2 DEF FixNode
<1>4. QED BY <1>1, <1>2, <1>3 DEF FixEntry

(* What a path leads to is in every set that holds what its entries lead to;
   entries that lead nowhere do not matter.                                  *)
LEMMA ReachedShut ==
    ASSUME NEW fs \in Files, NEW x \in Ids
    PROVE  x \in ReachableIn(fs) <=>
              Exists(fs, x) /\ \A S \in SUBSET Ids : (Root \in S /\ Shut(fs, Ids, S)) => x \in S
<1>1. ASSUME x \in ReachableIn(fs), NEW S \in SUBSET Ids, Root \in S, Shut(fs, Ids, S)
      PROVE  x \in S
  <2> DEFINE T == S \cup {y \in Ids : ~Exists(fs, y)}
  <2>1. Exists(fs, x) /\ \A P \in SUBSET Ids : (Root \in P /\ Holds(fs, P)) => x \in P
    BY <1>1, Reached
  <2>2. Holds(fs, T)
    <3> SUFFICES ASSUME NEW d \in Ids, NEW n \in Names, d \in T, Slot(fs, d, n) # None
                 PROVE  Slot(fs, d, n).id \in T
      BY DEF Holds
    <3>1. Slot(fs, d, n).id \in Ids /\ Exists(fs, d)
      BY SlotWide
    <3>2. d \in S
      BY <3>1
    <3>3. QED BY <1>1, <3>1, <3>2 DEF Shut, Leads
  <2>3. x \in T
    BY <1>1, <2>1, <2>2
  <2>4. QED BY <2>1, <2>3
<1>2. ASSUME NEW S \in SUBSET Ids, Holds(fs, S) PROVE Shut(fs, Ids, S)
  BY <1>2 DEF Holds, Shut, Leads
<1>3. x \in ReachableIn(fs) => Exists(fs, x)
  BY Reached
<1>4. ASSUME Exists(fs, x), \A S \in SUBSET Ids : (Root \in S /\ Shut(fs, Ids, S)) => x \in S
      PROVE  x \in ReachableIn(fs)
  <2>1. \A S \in SUBSET Ids : (Root \in S /\ Holds(fs, S)) => x \in S
    BY <1>2, <1>4
  <2>2. QED BY <1>4, <2>1, Reached
<1>5. QED BY <1>1, <1>3, <1>4

(* A path goes on along an entry. *)
LEMMA ReachedNext ==
    ASSUME NEW fs \in Files, NEW d \in ReachableIn(fs), NEW n \in Names, Leads(fs, d, n)
    PROVE  Slot(fs, d, n).id \in ReachableIn(fs)
<1>1. d \in Ids
  BY DEF ReachableIn
<1>2. Slot(fs, d, n).id \in Ids /\ Exists(fs, Slot(fs, d, n).id)
  BY <1>1, SlotWide DEF Leads
<1>3. ASSUME NEW S \in SUBSET Ids, Root \in S, Shut(fs, Ids, S)
      PROVE  Slot(fs, d, n).id \in S
  <2>1. d \in S
    BY <1>1, <1>3, ReachedShut
  <2>2. QED BY <1>1, <1>3, <2>1 DEF Shut
<1>4. QED BY <1>2, <1>3, ReachedShut

(* A path begins at the root. *)
LEMMA RootReached ==
    ASSUME NEW fs \in Files, Exists(fs, Root)
    PROVE  Root \in ReachableIn(fs)
BY ReachedShut, FSAssumption

(* A file system without its files that have no links: what is there and what its
   entries are. *)
LEMMA LinkedFacts ==
    ASSUME NEW fs \in Files
    PROVE  /\ LinkedFiles(fs) \in Files
           /\ \A x \in Ids : Exists(LinkedFiles(fs), x) <=> Exists(fs, x) /\ fs[x].nlink > 0
           /\ \A x \in Ids, n \in Names :
                 Slot(LinkedFiles(fs), x, n) = IF Exists(fs, x) /\ fs[x].nlink > 0 THEN Slot(fs, x, n) ELSE None
<1>1. LinkedFiles(fs) \in Files
  BY DEF LinkedFiles, Files
<1>2. \A x \in Ids : LinkedFiles(fs)[x] = IF Exists(fs, x) /\ fs[x].nlink > 0 THEN fs[x] ELSE NoFile
  BY DEF LinkedFiles
<1>3. \A x \in Ids : Exists(LinkedFiles(fs), x) <=> Exists(fs, x) /\ fs[x].nlink > 0
  BY <1>2 DEF Exists
<1>4. QED BY <1>1, <1>2, <1>3 DEF Slot

(* x has links in fs. *)
HasLinks(fs, x) == Exists(fs, x) /\ fs[x].nlink > 0

LinkedPaths(fs) == ReachableIn(LinkedFiles(fs))

(* A path of files with links stays where its files keep links and its entries
   keep their files.                                                         *)
LEMMA KeepsLinked ==
    ASSUME NEW fs \in Files, NEW gs \in Files,
           \A a \in LinkedPaths(fs) :
              /\ HasLinks(gs, a)
              /\ \A n \in Names : Leads(fs, a, n) =>
                    Slot(gs, a, n) # None /\ Slot(gs, a, n).id = Slot(fs, a, n).id
    PROVE  LinkedPaths(fs) \subseteq LinkedPaths(gs)
<1> DEFINE F == LinkedFiles(fs)
           G == LinkedFiles(gs)
           R == LinkedPaths(fs)
<1>1. F \in Files /\ G \in Files
  BY LinkedFacts
<1>2. R \subseteq Ids
  BY DEF LinkedPaths, ReachableIn
<1> SUFFICES ASSUME NEW x \in R PROVE x \in ReachableIn(G)
  BY DEF LinkedPaths
<1>3. Exists(G, x)
  BY <1>2, LinkedFacts DEF HasLinks
<1>4. ASSUME NEW S \in SUBSET Ids, Root \in S, Shut(G, Ids, S)
      PROVE  x \in S
  <2> DEFINE T == (S \cap R) \cup {Root}
  <2>1. Shut(F, Ids, T)
    <3> SUFFICES ASSUME NEW d \in Ids, NEW n \in Names, d \in T, Leads(F, d, n)
                 PROVE  Slot(F, d, n).id \in T
      BY DEF Shut
    <3>1. Slot(F, d, n).id \in Ids /\ Exists(F, d)
      BY <1>1, SlotWide DEF Leads
    <3>2. d \in R /\ d \in S
      <4>1. CASE d = Root
        BY <1>1, <1>4, <3>1, <4>1, RootReached DEF LinkedPaths
      <4>2. CASE d # Root
        BY <4>2
      <4>3. QED BY <4>1, <4>2
    <3>3. Slot(F, d, n).id \in R
      BY <1>1, <3>2, ReachedNext DEF LinkedPaths
    <3>4. Slot(F, d, n) = Slot(fs, d, n) /\ Exists(fs, Slot(F, d, n).id)
      BY <3>1, LinkedFacts DEF Leads
    <3>5. Slot(gs, d, n) # None /\ Slot(gs, d, n).id = Slot(F, d, n).id
      BY <3>2, <3>4 DEF Leads
    <3>6. Slot(G, d, n) = Slot(gs, d, n) /\ Exists(G, Slot(F, d, n).id)
      BY <3>1, <3>2, <3>3, LinkedFacts DEF HasLinks
    <3>7. Leads(G, d, n)
      BY <3>5, <3>6 DEF Leads
    <3>8. Slot(G, d, n).id \in S
      BY <1>4, <3>2, <3>7 DEF Shut
    <3>9. QED BY <3>3, <3>5, <3>6, <3>8
  <2>2. T \in SUBSET Ids /\ Root \in T
    BY FSAssumption
  <2>3. x \in T
    BY <1>1, <1>2, <2>1, <2>2, ReachedShut DEF LinkedPaths
  <2>4. QED BY <1>4, <2>3
<1>5. QED BY <1>1, <1>2, <1>3, <1>4, ReachedShut

-----------------------------------------------------------------------------
(* Directories without a cycle *)

(* Without some of its entries a file system has no new cycle. *)
LEMMA FewerArcs ==
    ASSUME NEW A, NEW B, A \subseteq B, Acyclic(B)
    PROVE  Acyclic(A)
BY DEF Acyclic

(* An arc that leaves a closed set from the outside closes no cycle. *)
LEMMA OneArcMore ==
    ASSUME NEW A, Acyclic(A), NEW d, NEW x, NEW T \in SUBSET Ids,
           \A e \in A : e[1] \in T => e[2] \in T, x \in T, d \notin T
    PROVE  Acyclic(A \cup {<<d, x>>})
<1> SUFFICES ASSUME NEW S \in SUBSET Ids, S # {},
                    \A z \in S : \E y \in S : <<y, z>> \in A \cup {<<d, x>>}
             PROVE  FALSE
  BY DEF Acyclic
<1>1. \A z \in S \ T : \E y \in S \ T : <<y, z>> \in A
  <2> SUFFICES ASSUME NEW z \in S \ T PROVE \E y \in S \ T : <<y, z>> \in A
    OBVIOUS
  <2>1. PICK y \in S : <<y, z>> \in A \cup {<<d, x>>}
    OBVIOUS
  <2>2. <<y, z>> \in A
    BY <2>1
  <2>3. <<y, z>>[1] \in T => <<y, z>>[2] \in T
    BY <2>2
  <2>4. y \notin T
    BY <2>3
  <2>5. QED BY <2>2, <2>4
<1>2. S \ T = {}
  BY <1>1 DEF Acyclic
<1>3. \A z \in S : \E y \in S : <<y, z>> \in A
  <2> SUFFICES ASSUME NEW z \in S PROVE \E y \in S : <<y, z>> \in A
    OBVIOUS
  <2>1. PICK y \in S : <<y, z>> \in A \cup {<<d, x>>}
    OBVIOUS
  <2>2. y # d
    BY <1>2
  <2>3. QED BY <2>1, <2>2
<1>4. QED BY <1>3 DEF Acyclic

-----------------------------------------------------------------------------
(* The mount *)

(* The underlying directory has the files that the mount has. *)
LEMMA SameFiles ==
    ASSUME IInv, NEW x \in Ids
    PROVE  Exists(mem, x) <=> Exists(disk, x)
<1>1. Exists(mem, x) => Exists(disk, x)
  BY DEF IInv, Stored, StoredAt
<1>2. ASSUME ~Exists(mem, x) PROVE ~Exists(disk, x)
  <2>1. handles[x] = 0
    BY <1>2, HandleFacts
  <2>2. ~InTodo(x)
    BY <1>2 DEF IInv, GuardsValid, InTodo
  <2>3. QED BY <1>2, <2>1, <2>2 DEF IInv, Stored, StoredAt, Exists
<1>3. QED BY <1>1, <1>2

(* The same in the next state. *)
LEMMA SameFilesNext == IInv' => \A x \in Ids : Exists(mem', x) <=> Exists(disk', x)
<1> DEFINE Agree == \A x \in Ids : Exists(mem, x) <=> Exists(disk, x)
<1>1. IInv => Agree
  BY SameFiles
<1>2. Agree' => \A x \in Ids : Exists(mem', x) <=> Exists(disk', x)
  BY DEF Exists
<1> HIDE DEF Agree
<1>3. IInv' => Agree'
  BY <1>1, PTL
<1>4. QED BY <1>2, <1>3

Unnamed(x) == \A d \in Ids, n \in Names : Slot(disk, d, n) # None => Slot(disk, d, n).id # x

(* What every operation of the mount does to one file, and to entries. *)
MountFrame ==
    /\ \A x \in Ids : \/ disk'[x] = disk[x] \/ disk'[x] = mem'[x]
                      \/ disk'[x] = BlankNode /\ ~Exists(mem, x)
    /\ \A x \in Ids : Exists(mem', x) =>
          \/ Exists(mem, x) /\ mem'[x].type = mem[x].type
          \/ ~Exists(mem, x) /\ mem'[x].ents = NoEntries /\ Unnamed(x)
    /\ \A d \in Ids, n \in Names : Slot(mem', d, n) # None =>
          Slot(mem', d, n) = Slot(mem, d, n) \/ (n \in UserNames /\ Slot(mem', d, n).id # Root)

(* No entry is new. *)
NoNewEntry == \A d \in Ids, n \in Names : Slot(mem', d, n) # None => Slot(mem', d, n) = Slot(mem, d, n)

MountNodes ==
    /\ IsDir(mem, Root) /\ IsDir(disk, Root)
    /\ OnlyDirsHold(disk)
    /\ UserEntries(mem) /\ UserEntries(disk)
    /\ RootUnnamed(mem) /\ RootUnnamed(disk)
    /\ DiskTypes

(* A file that was created and never written has no entries and no type. *)
LEMMA BlankHasNone ==
    ASSUME NEW fs, NEW d \in Ids, fs[d] = BlankNode, NEW n \in Names
    PROVE  Slot(fs, d, n) = None /\ fs[d].type = "UNKNOWN" /\ Exists(fs, d) /\ fs[d].ents = NoEntries
BY BlankNodeFacts DEF Slot, Exists, BlankNode, NoEntries

(* An entry on disk was there, or is in memory. *)
LEMMA DiskSlots ==
    ASSUME MountFrame, NEW d \in Ids, NEW n \in Names, Slot(disk', d, n) # None
    PROVE  \/ disk'[d] = disk[d] /\ Slot(disk', d, n) = Slot(disk, d, n)
           \/ disk'[d] = mem'[d] /\ Slot(disk', d, n) = Slot(mem', d, n)
<1>1. CASE disk'[d] = disk[d]
  BY <1>1 DEF Slot, Exists
<1>2. CASE disk'[d] = mem'[d]
  BY <1>2 DEF Slot, Exists
<1>3. CASE disk'[d] = BlankNode
  BY <1>3, BlankHasNone
<1>4. QED BY <1>1, <1>2, <1>3 DEF MountFrame

(* A step within the frame keeps what MountInv says of each file and entry. *)
LEMMA MountNodesKept ==
    ASSUME IInv, IInv', MountNodes, MountFrame
    PROVE  MountNodes'
<1>1. Root \in Ids
  BY FSAssumption
<1>2. \A x \in Ids : Exists(mem, x) <=> Exists(disk, x)
  BY SameFiles
<1>3. \A x \in Ids : Exists(mem', x) <=> Exists(disk', x)
  BY SameFilesNext
<1>4. /\ OnlyDirsHold(mem') /\ EntriesLead(mem') /\ Exists(mem', Root)
  <2>1. Tree(mem)'
    BY DEF IInv
  <2>2. QED BY <2>1 DEF Tree, OnlyDirsHold, EntriesLead, Exists, Slot
<1>5. mem'[Root].type = "DIR"
  BY <1>1, <1>4 DEF MountNodes, MountFrame, IsDir
<1>6. Exists(disk', Root) /\ disk'[Root].type = "DIR"
  <2>1. Exists(disk', Root) /\ Exists(mem, Root)
    BY <1>1, <1>3, <1>4 DEF MountNodes, IsDir
  <2>2. disk'[Root] = disk[Root] \/ disk'[Root] = mem'[Root]
    BY <1>1, <2>1 DEF MountFrame
  <2>3. QED BY <1>5, <2>1, <2>2 DEF MountNodes, IsDir
<1>7. ASSUME NEW x \in Ids, Exists(disk', x), disk'[x].type # "DIR"
      PROVE  disk'[x].ents = NoEntries
  <2>1. CASE disk'[x] = disk[x]
    BY <1>7, <2>1 DEF MountNodes, OnlyDirsHold, Exists
  <2>2. CASE disk'[x] = mem'[x]
    BY <1>4, <1>7, <2>2 DEF OnlyDirsHold, Exists
  <2>3. CASE disk'[x] = BlankNode
    BY <2>3, BlankNodeFacts DEF BlankNode
  <2>4. QED BY <2>1, <2>2, <2>3 DEF MountFrame
<1>8. ASSUME NEW d \in Ids, NEW n \in Names, Slot(mem', d, n) # None
      PROVE  n \in UserNames /\ Slot(mem', d, n).id # Root
  BY <1>8 DEF MountFrame, MountNodes, UserEntries, RootUnnamed
<1>9. ASSUME NEW d \in Ids, NEW n \in Names, Slot(disk', d, n) # None
      PROVE  n \in UserNames /\ Slot(disk', d, n).id # Root
  BY <1>8, <1>9, DiskSlots DEF MountNodes, UserEntries, RootUnnamed
<1>10. ASSUME NEW x \in Ids, Exists(disk', x)
       PROVE  disk'[x].type \in {mem'[x].type, "UNKNOWN"}
  <2>1. CASE disk'[x] = disk[x]
    <3>1. Exists(disk, x) /\ Exists(mem, x) /\ Exists(mem', x)
      BY <1>2, <1>3, <1>10, <2>1 DEF Exists
    <3>2. mem'[x].type = mem[x].type
      BY <3>1 DEF MountFrame
    <3>3. QED BY <2>1, <3>1, <3>2 DEF MountNodes, DiskTypes, Typed
  <2>2. CASE disk'[x] = mem'[x]
    BY <2>2
  <2>3. CASE disk'[x] = BlankNode
    BY <2>3 DEF BlankNode
  <2>4. QED BY <2>1, <2>2, <2>3 DEF MountFrame
<1>11. ASSUME NEW d \in Ids, NEW n \in Names, Slot(disk', d, n) # None,
              Exists(mem', Slot(disk', d, n).id)
       PROVE  mem'[Slot(disk', d, n).id].type = Slot(disk', d, n).type
  <2>1. CASE disk'[d] = mem'[d] /\ Slot(disk', d, n) = Slot(mem', d, n)
    BY <1>4, <1>11, <2>1 DEF EntriesLead
  <2>2. CASE disk'[d] = disk[d] /\ Slot(disk', d, n) = Slot(disk, d, n)
    <3> DEFINE t == Slot(disk, d, n)
    <3>1. t # None /\ t.id \in Ids
      BY <1>11, <2>2, SlotType DEF IInv, TypeOK
    <3>2. ~Unnamed(t.id)
      BY <3>1 DEF Unnamed
    <3>3. Exists(mem, t.id) /\ mem'[t.id].type = mem[t.id].type
      BY <1>11, <2>2, <3>1, <3>2 DEF MountFrame
    <3>4. QED BY <2>2, <3>1, <3>3 DEF MountNodes, DiskTypes
  <2>3. QED BY <1>11, <2>1, <2>2, DiskSlots
<1>12. IsDir(mem, Root)' /\ IsDir(disk, Root)' /\ OnlyDirsHold(disk)'
  BY <1>4, <1>5, <1>6, <1>7 DEF IsDir, OnlyDirsHold, Exists
<1>13. UserEntries(mem)' /\ UserEntries(disk)' /\ RootUnnamed(mem)' /\ RootUnnamed(disk)'
  BY <1>8, <1>9 DEF UserEntries, RootUnnamed, Slot, Exists
<1>14. DiskTypes'
  BY <1>10, <1>11 DEF DiskTypes, Typed, Slot, Exists
<1>15. QED BY <1>12, <1>13, <1>14 DEF MountNodes

(* An arc is an entry. *)
LEMMA ArcSlot ==
    ASSUME NEW fs, NEW e
    PROVE  e \in Arcs(fs) <=>
              /\ e \in Ids \X Ids
              /\ \E n \in Names : Slot(fs, e[1], n) # None /\ Slot(fs, e[1], n).id = e[2]
BY DEF Arcs

(* A step puts no entry on disk that memory does not have. *)
LEMMA DiskArcs ==
    ASSUME MountFrame
    PROVE  Arcs(disk') \subseteq Arcs(disk) \cup Arcs(mem')
<1> SUFFICES ASSUME NEW e \in Arcs(disk') PROVE e \in Arcs(disk) \cup Arcs(mem')
  OBVIOUS
<1>1. e \in Ids \X Ids /\ e[1] \in Ids
  BY DEF Arcs
<1>2. PICK n \in Names : Slot(disk', e[1], n) # None /\ Slot(disk', e[1], n).id = e[2]
  BY DEF Arcs
<1>3. Slot(disk', e[1], n) = Slot(disk, e[1], n) \/ Slot(disk', e[1], n) = Slot(mem', e[1], n)
  BY <1>1, <1>2, DiskSlots
<1>4. QED BY <1>1, <1>2, <1>3, ArcSlot

(* The arcs of the next state are those of the files in the next state. *)
LEMMA ArcsPrimed == Arcs(mem)' = Arcs(mem') /\ Arcs(disk)' = Arcs(disk')
BY DEF Arcs, Slot, Exists

(* What has to be shown of a step of the mount. *)
LEMMA MountEstablished ==
    ASSUME IInv', MountNodes', Acyclic(Arcs(mem')), NoOpenDirs' => Acyclic(Arcs(mem') \cup Arcs(disk'))
    PROVE  MountInv'
<1>1. Acyclic(Arcs(mem))' /\ (NoOpenDirs => Acyclic(Arcs(mem) \cup Arcs(disk)))'
  BY ArcsPrimed DEF Acyclic
<1>2. QED BY <1>1 DEF MountInv, MountNodes

(* What MountInv says, in the parts that a step of the mount is shown by. *)
LEMMA MountParts ==
    ASSUME MountInv
    PROVE  /\ IInv /\ MountNodes /\ Acyclic(Arcs(mem))
           /\ NoOpenDirs => Acyclic(Arcs(mem) \cup Arcs(disk))
BY DEF MountInv, MountNodes

(* A step that adds no entry. *)
LEMMA MountShrinks ==
    ASSUME MountInv, IInv', MountFrame, NoNewEntry,
           NoOpenDirs' => NoOpenDirs \/ Arcs(disk') \subseteq Arcs(mem')
    PROVE  MountInv'
<1>1. IInv /\ MountNodes /\ Acyclic(Arcs(mem)) /\ (NoOpenDirs => Acyclic(Arcs(mem) \cup Arcs(disk)))
  BY MountParts
<1>2. MountNodes'
  BY <1>1, MountNodesKept
<1>3. Arcs(mem') \subseteq Arcs(mem)
  <2> SUFFICES ASSUME NEW e \in Arcs(mem') PROVE e \in Arcs(mem)
    OBVIOUS
  <2>1. e \in Ids \X Ids /\ e[1] \in Ids
    BY DEF Arcs
  <2>2. PICK n \in Names : Slot(mem', e[1], n) # None /\ Slot(mem', e[1], n).id = e[2]
    BY DEF Arcs
  <2>3. Slot(mem', e[1], n) = Slot(mem, e[1], n)
    BY <2>1, <2>2 DEF NoNewEntry
  <2>4. QED BY <2>1, <2>2, <2>3, ArcSlot
<1>4. Acyclic(Arcs(mem'))
  BY <1>1, <1>3, FewerArcs
<1>5. Arcs(disk') \subseteq Arcs(disk) \cup Arcs(mem')
  BY DiskArcs
<1>6. ASSUME NoOpenDirs' PROVE Acyclic(Arcs(mem') \cup Arcs(disk'))
  <2>1. CASE NoOpenDirs
    <3>1. Arcs(mem') \cup Arcs(disk') \subseteq Arcs(mem) \cup Arcs(disk)
      BY <1>3, <1>5
    <3>2. QED BY <1>1, <2>1, <3>1, FewerArcs
  <2>2. CASE Arcs(disk') \subseteq Arcs(mem')
    <3>1. Arcs(mem') \cup Arcs(disk') \subseteq Arcs(mem')
      BY <2>2
    <3>2. QED BY <1>4, <3>1, FewerArcs
  <2>3. QED BY <1>6, <2>1, <2>2
<1>7. QED BY <1>2, <1>4, <1>6, MountEstablished

(* Between operations, with no directory open, every entry is on disk. *)
LEMMA IdleArcs ==
    ASSUME MountInv, Idle, NoOpenDirs
    PROVE  Arcs(disk) \subseteq Arcs(mem)
<1> SUFFICES ASSUME NEW e \in Arcs(disk) PROVE e \in Arcs(mem)
  OBVIOUS
<1>1. e \in Ids \X Ids /\ e[1] \in Ids
  BY DEF Arcs
<1>2. PICK n \in Names : Slot(disk, e[1], n) # None /\ Slot(disk, e[1], n).id = e[2]
  BY DEF Arcs
<1>3. Exists(disk, e[1]) /\ disk[e[1]].ents[n] # None
  BY <1>2 DEF Slot
<1>4. disk[e[1]].type = "DIR"
  BY <1>1, <1>3 DEF MountInv, OnlyDirsHold, NoEntries
<1>5. IsDir(mem, e[1])
  <2>1. Exists(mem, e[1])
    BY <1>1, <1>3, SameFiles DEF MountInv
  <2>2. disk[e[1]].type \in {mem[e[1]].type, "UNKNOWN"}
    BY <1>1, <1>3 DEF MountInv, DiskTypes, Typed
  <2>3. QED BY <1>4, <2>1, <2>2 DEF IsDir
<1>6. handles[e[1]] = 0 /\ ~InTodo(e[1])
  BY <1>1, <1>5 DEF NoOpenDirs, InTodo, Idle
<1>7. disk[e[1]] = mem[e[1]]
  BY <1>1, <1>6 DEF MountInv, IInv, Stored, StoredAt
<1>8. Slot(mem, e[1], n) = Slot(disk, e[1], n)
  BY <1>7 DEF Slot, Exists
<1>9. QED BY <1>1, <1>2, <1>8, ArcSlot

(* An operation that adds the entry n of d, naming x. *)
LEMMA MountGrows ==
    ASSUME MountInv, IInv', Idle, MountFrame, NoOpenDirs' => NoOpenDirs,
           NEW d \in Ids, NEW x \in Ids, NotAbove(mem, x, d),
           \A c \in Ids, m \in Names : Slot(mem', c, m) # None =>
               \/ Slot(mem', c, m) = Slot(mem, c, m)
               \/ c = d /\ Slot(mem', c, m).id = x
    PROVE  MountInv'
<1>1. IInv /\ MountNodes /\ Acyclic(Arcs(mem))
  BY MountParts
<1>2. MountNodes'
  BY <1>1, MountNodesKept
<1> DEFINE A == Arcs(mem) \cup {<<d, x>>}
<1>3. Arcs(mem') \subseteq A
  <2> SUFFICES ASSUME NEW e \in Arcs(mem') PROVE e \in A
    OBVIOUS
  <2>1. e \in Ids \X Ids /\ e[1] \in Ids /\ e = <<e[1], e[2]>>
    BY DEF Arcs
  <2>2. PICK n \in Names : Slot(mem', e[1], n) # None /\ Slot(mem', e[1], n).id = e[2]
    BY DEF Arcs
  <2>3. CASE Slot(mem', e[1], n) = Slot(mem, e[1], n)
    BY <2>1, <2>2, <2>3, ArcSlot
  <2>4. CASE e[1] = d /\ Slot(mem', e[1], n).id = x
    BY <2>1, <2>2, <2>4
  <2>5. QED BY <2>1, <2>2, <2>3, <2>4
<1>4. Acyclic(A)
  <2>1. PICK T \in SUBSET Ids : Holds(mem, T) /\ x \in T /\ d \notin T
    BY DEF NotAbove
  <2>2. \A e \in Arcs(mem) : e[1] \in T => e[2] \in T
    <3> SUFFICES ASSUME NEW e \in Arcs(mem), e[1] \in T PROVE e[2] \in T
      OBVIOUS
    <3>1. PICK n \in Names : Slot(mem, e[1], n) # None /\ Slot(mem, e[1], n).id = e[2]
      BY DEF Arcs
    <3>2. QED BY <2>1, <3>1 DEF Holds
  <2>3. QED BY <1>1, <2>1, <2>2, OneArcMore
<1>5. Acyclic(Arcs(mem'))
  BY <1>3, <1>4, FewerArcs
<1>6. ASSUME NoOpenDirs' PROVE Acyclic(Arcs(mem') \cup Arcs(disk'))
  <2>1. Arcs(disk) \subseteq Arcs(mem)
    BY <1>6, IdleArcs
  <2>2. Arcs(mem') \cup Arcs(disk') \subseteq A
    BY <1>3, <2>1, DiskArcs
  <2>3. QED BY <1>4, <2>2, FewerArcs
<1>7. QED BY <1>2, <1>5, <1>6, MountEstablished

(* No handle on a directory goes. *)
HandlesKept ==
    \A x \in Ids : IsDir(mem, x) => handles[x] = 0 \/ (IsDir(mem', x) /\ handles'[x] # 0)

(* A step that takes no directory its last handle leaves none open that was closed. *)
LEMMA OpenDirsKept ==
    ASSUME HandlesKept
    PROVE  NoOpenDirs' => NoOpenDirs
<1> SUFFICES ASSUME NoOpenDirs', NEW x \in Ids, IsDir(mem, x) PROVE handles[x] = 0
  BY DEF NoOpenDirs
<1>1. IsDir(mem', x) => handles'[x] = 0
  BY DEF NoOpenDirs, IsDir, Exists
<1>2. QED BY <1>1 DEF HandlesKept

(* Files go, and some are written. *)
LEMMA FilesGo ==
    ASSUME MountInv, \A x \in Ids : mem'[x] = mem[x] \/ mem'[x] = NoFile,
           \A x \in Ids : disk'[x] = disk[x] \/ disk'[x] = mem'[x]
    PROVE  MountFrame /\ NoNewEntry
<1>1. \A x \in Ids : Exists(mem', x) => Exists(mem, x) /\ mem'[x].type = mem[x].type
  BY DEF Exists
<1>2. \A d \in Ids, n \in Names : Slot(mem', d, n) # None => Slot(mem', d, n) = Slot(mem, d, n)
  BY DEF Slot, Exists
<1>3. QED BY <1>1, <1>2 DEF MountFrame, NoNewEntry

(* The guards of an operation close, and what they hold is written or goes. *)
LEMMA SettleMount ==
    ASSUME MountInv, Settle
    PROVE  MountInv'
<1>1. IInv /\ IInv'
  BY SettleStep DEF MountInv
<1>2. todo # <<>> /\ todo \in Seq(Ids)
  BY <1>1 DEF Settle, CloseGuard, IInv, TypeOK
<1>3. PICK id \in Ids : id = Head(todo)
  BY <1>2
<1> DEFINE last == LastReference(id)
           final == IF last /\ mem[id].nlink = 0 THEN NoFile ELSE mem[id]
<1>4. /\ handles' = handles /\ mem' = [mem EXCEPT ![id] = final]
      /\ disk' = IF last THEN [disk EXCEPT ![id] = final] ELSE disk
  BY <1>3 DEF Settle, CloseGuard
<1>5. mem \in [Ids -> {NoFile} \cup Node] /\ disk \in [Ids -> {NoFile} \cup Node]
  BY <1>1 DEF IInv, TypeOK
<1>6. final = mem[id] \/ (final = NoFile /\ last)
  OBVIOUS
<1>7. last => handles[id] = 0
  BY DEF LastReference
<1> HIDE DEF last, final
<1>8. mem'[id] = final /\ \A x \in Ids : x # id => mem'[x] = mem[x]
  BY <1>4, <1>5
<1>9. \A x \in Ids : disk'[x] = disk[x] \/ disk'[x] = mem'[x]
  BY <1>4, <1>5, <1>8
<1>10. MountFrame /\ NoNewEntry
  BY <1>6, <1>8, <1>9, FilesGo
<1>11. HandlesKept
  BY <1>4, <1>6, <1>7, <1>8 DEF HandlesKept, IsDir, Exists
<1>12. QED BY <1>1, <1>10, <1>11, OpenDirsKept, MountShrinks

(* The file system is unmounted in order and mounted again. *)
LEMMA RemountMount ==
    ASSUME MountInv, Idle, remount
    PROVE  MountInv'
<1>1. IInv'
  BY RemountStep DEF MountInv
<1>2. /\ mem' = [id \in Ids |-> IF Exists(mem, id) /\ mem[id].nlink = 0 THEN NoFile ELSE mem[id]]
      /\ disk' = mem'
  BY DEF remount
<1>3. \A x \in Ids : mem'[x] = mem[x] \/ mem'[x] = NoFile
  BY <1>2
<1>4. MountFrame /\ NoNewEntry
  BY <1>2, <1>3, FilesGo
<1>5. Arcs(disk') \subseteq Arcs(mem')
  BY <1>2
<1>6. QED BY <1>1, <1>4, <1>5, MountShrinks

(* A directory gets a handle. *)
LEMMA OpendirMount ==
    ASSUME MountInv, Idle, NEW id \in OpenAll, opendir(id)
    PROVE  MountInv'
<1>1. IInv /\ IInv' /\ id \in Ids
  BY OpendirStep, Opened DEF MountInv
<1>2. mem' = mem /\ disk' = disk /\ handles' = [handles EXCEPT ![id] = @ + 1]
  BY DEF opendir
<1>3. MountFrame /\ NoNewEntry
  BY <1>2, FilesGo
<1>4. HandlesKept
  BY <1>1, <1>2, HandleFacts DEF HandlesKept
<1>5. QED BY <1>1, <1>3, <1>4, OpenDirsKept, MountShrinks

(* A file with a handle is written. *)
LEMMA FsyncMount ==
    ASSUME MountInv, Idle, NEW id \in Ids, fsync(id)
    PROVE  MountInv'
<1>1. IInv /\ IInv'
  BY FsyncStep DEF MountInv
<1>2. mem' = mem /\ disk' = [disk EXCEPT ![id] = mem[id]] /\ handles' = handles
  BY DEF fsync
<1>3. \A x \in Ids : disk'[x] = disk[x] \/ disk'[x] = mem'[x]
  BY <1>1, <1>2 DEF IInv, TypeOK
<1>4. MountFrame /\ NoNewEntry
  BY <1>2, <1>3, FilesGo
<1>5. HandlesKept
  BY <1>2 DEF HandlesKept
<1>6. QED BY <1>1, <1>4, <1>5, OpenDirsKept, MountShrinks

(* The last handle on a directory goes, and the directory is written. *)
LEMMA ReleaseMount ==
    ASSUME MountInv, Idle, NEW id \in Ids, release(id)
    PROVE  MountInv'
<1>1. IInv /\ IInv'
  BY ReleaseStep DEF MountInv
<1>2. mem' = mem /\ disk' = [disk EXCEPT ![id] = mem[id]] /\ handles' = [handles EXCEPT ![id] = @ - 1]
  BY DEF release
<1>3. disk'[id] = mem[id] /\ \A x \in Ids : x # id => disk'[x] = disk[x]
  BY <1>1, <1>2 DEF IInv, TypeOK
<1>4. MountFrame /\ NoNewEntry
  BY <1>2, <1>3, FilesGo
<1>5. ASSUME NoOpenDirs' PROVE Arcs(disk') \subseteq Arcs(mem')
  <2> SUFFICES ASSUME NEW e \in Arcs(disk') PROVE e \in Arcs(mem')
    OBVIOUS
  <2>1. e \in Ids \X Ids /\ e[1] \in Ids
    BY DEF Arcs
  <2>2. PICK n \in Names : Slot(disk', e[1], n) # None /\ Slot(disk', e[1], n).id = e[2]
    BY DEF Arcs
  <2>3. disk'[e[1]] = mem'[e[1]]
    <3>1. CASE e[1] = id
      BY <1>2, <1>3, <3>1
    <3>2. CASE e[1] # id
      <4>1. disk'[e[1]] = disk[e[1]] /\ handles'[e[1]] = handles[e[1]]
        BY <1>1, <1>2, <1>3, <2>1, <3>2 DEF IInv, TypeOK
      <4>2. Exists(disk, e[1]) /\ disk[e[1]].ents[n] # None
        BY <2>2, <4>1 DEF Slot, Exists
      <4>3. disk[e[1]].type = "DIR"
        BY <2>1, <4>2 DEF MountInv, OnlyDirsHold, NoEntries
      <4>4. Exists(mem, e[1]) /\ disk[e[1]].type \in {mem[e[1]].type, "UNKNOWN"}
        BY <1>1, <2>1, <4>2, SameFiles DEF MountInv, DiskTypes, Typed
      <4>5. handles'[e[1]] = 0
        BY <1>2, <1>5, <2>1, <4>3, <4>4 DEF NoOpenDirs, IsDir, Exists
      <4>6. handles[e[1]] = 0 /\ ~InTodo(e[1])
        BY <4>1, <4>5 DEF InTodo, Idle
      <4>7. QED BY <1>1, <1>2, <2>1, <4>1, <4>6 DEF IInv, Stored, StoredAt
    <3>3. QED BY <3>1, <3>2
  <2>4. Slot(mem', e[1], n) = Slot(disk', e[1], n)
    BY <2>3 DEF Slot, Exists
  <2>5. QED BY <2>1, <2>2, <2>4, ArcSlot
<1>6. QED BY <1>1, <1>4, <1>5, MountShrinks

(* The header of a file changes. *)
LEMMA AttrMount ==
    ASSUME MountInv, IInv', NEW id \in Ids, Exists(mem, id), NEW a \in Attrs, NEW f \in BOOLEAN,
           SetAttr(id, a, f), \A x \in Ids : handles[x] # 0 => handles'[x] # 0
    PROVE  MountInv'
<1> DEFINE new == [mem[id] EXCEPT !.attr = a]
<1>1. IInv /\ mem \in [Ids -> {NoFile} \cup Node] /\ disk \in [Ids -> {NoFile} \cup Node]
  BY DEF MountInv, IInv, TypeOK
<1>2. mem' = [mem EXCEPT ![id] = new] /\ disk' = IF f THEN [disk EXCEPT ![id] = new] ELSE disk
  BY DEF SetAttr
<1>3. new \in Node /\ new # NoFile /\ new.type = mem[id].type /\ new.ents = mem[id].ents
  <2>1. mem[id] \in Node
    BY <1>1 DEF Exists
  <2>2. QED BY <2>1, NoSentinels DEF Node
<1> HIDE DEF new
<1>4. mem'[id] = new /\ \A x \in Ids : x # id => mem'[x] = mem[x]
  BY <1>1, <1>2
<1>5. \A x \in Ids : disk'[x] = disk[x] \/ disk'[x] = mem'[x]
  BY <1>1, <1>2, <1>4
<1>6. \A x \in Ids : Exists(mem', x) => Exists(mem, x) /\ mem'[x].type = mem[x].type
  BY <1>3, <1>4 DEF Exists
<1>7. \A d \in Ids, n \in Names : Slot(mem', d, n) = Slot(mem, d, n)
  BY <1>3, <1>4 DEF Slot, Exists
<1>8. MountFrame /\ NoNewEntry
  BY <1>5, <1>6, <1>7 DEF MountFrame, NoNewEntry
<1>9. HandlesKept
  BY <1>3, <1>4 DEF HandlesKept, IsDir, Exists
<1>10. QED BY <1>8, <1>9, OpenDirsKept, MountShrinks

(* A file gets a handle, and its header may change. *)
LEMMA OpenMount ==
    ASSUME MountInv, Idle, NEW id \in OpenAll, NEW a \in Attrs, open(id, a)
    PROVE  MountInv'
<1>1. IInv /\ IInv' /\ id \in Ids /\ Exists(mem, id)
  BY OpenStep, Opened DEF MountInv
<1>2. SetAttr(id, a, FALSE) /\ handles' = [handles EXCEPT ![id] = @ + 1]
  BY DEF open
<1>3. \A x \in Ids : handles[x] # 0 => handles'[x] # 0
  BY <1>1, <1>2, HandleFacts
<1>4. QED BY <1>1, <1>2, <1>3, AttrMount

(* A file with a handle is read or written. *)
LEMMA ReadWriteMount ==
    ASSUME MountInv, Idle, NEW id \in Ids, NEW a \in Attrs, ReadWrite(id, a) \/ ftruncate(id, a)
    PROVE  MountInv'
<1>1. IInv /\ IInv'
  BY ReadWriteStep DEF MountInv
<1>2. handles[id] > 0 /\ handles' = handles /\ (SetAttr(id, a, FALSE) \/ SetAttr(id, a, TRUE))
  BY DEF ReadWrite, ftruncate
<1>3. Exists(mem, id)
  BY <1>1, <1>2, HandleFacts
<1>4. QED BY <1>1, <1>2, <1>3, AttrMount

(* An operation on a path changes the header of a file. *)
LEMMA HeaderMount ==
    ASSUME MountInv, Idle, NEW id \in OpenAll, NEW a \in Attrs,
           chmod(id, a) \/ truncate(id, a) \/ utimens(id, a) \/ readlink(id, a)
    PROVE  MountInv'
<1>1. IInv /\ IInv' /\ id \in Ids /\ Exists(mem, id)
  BY AttrStep, Opened DEF MountInv
<1>2. handles' = handles /\ (SetAttr(id, a, FALSE) \/ SetAttr(id, a, TRUE))
  BY DEF chmod, truncate, utimens, readlink
<1>3. QED BY <1>1, <1>2, AttrMount

(* The same files, of the same types. *)
SameKinds(fs, gs) ==
    \A x \in Ids : /\ Exists(gs, x) <=> Exists(fs, x)
                   /\ Exists(fs, x) => gs[x].type = fs[x].type

(* An entry is put: no other entry and no type changes. *)
LEMMA SlotsPut ==
    ASSUME NEW fs, NEW gs, NEW d \in Ids, NEW n \in Names, NEW e, Exists(fs, d), EntryPut(fs, gs, d, n, e)
    PROVE  /\ SameKinds(fs, gs)
           /\ \A c \in Ids, m \in Names : Slot(gs, c, m) = IF c = d /\ m = n THEN e ELSE Slot(fs, c, m)
<1>1. SameKinds(fs, gs)
  BY DEF SameKinds, EntryPut, Same
<1>2. QED BY <1>1 DEF SameKinds, EntryPut, Slot

(* A link goes: no entry and no type changes. *)
LEMMA SlotsLess ==
    ASSUME NEW fs, NEW gs, NEW id \in Ids, Exists(fs, id), LinkLess(fs, gs, id)
    PROVE  /\ SameKinds(fs, gs)
           /\ \A c \in Ids, m \in Names : Slot(gs, c, m) = Slot(fs, c, m)
<1>1. SameKinds(fs, gs)
  BY DEF SameKinds, LinkLess, Exists
<1>2. QED BY <1>1 DEF SameKinds, LinkLess, Slot

(* Entries change in memory only. *)
LEMMA OnlyMemory ==
    ASSUME SameKinds(mem, mem'), disk' = disk, handles' = handles,
           \A c \in Ids, m \in Names : Slot(mem', c, m) # None =>
               Slot(mem', c, m) = Slot(mem, c, m) \/ (m \in UserNames /\ Slot(mem', c, m).id # Root)
    PROVE  MountFrame /\ (NoOpenDirs' => NoOpenDirs)
<1>1. MountFrame
  BY DEF MountFrame, SameKinds
<1>2. HandlesKept
  BY DEF HandlesKept, SameKinds, IsDir
<1>3. QED BY <1>1, <1>2, OpenDirsKept

(* No entry on disk names a file that is created. *)
LEMMA CreatedUnnamed ==
    ASSUME NEW id, LinksTo(disk, id) = {}
    PROVE  Unnamed(id)
<1> SUFFICES ASSUME NEW d \in Ids, NEW n \in Names, Slot(disk, d, n) # None, Slot(disk, d, n).id = id
             PROVE  FALSE
  BY DEF Unnamed
<1>1. <<d, n>> \in EntriesOf(disk) /\ Target(disk, <<d, n>>) = Slot(disk, d, n)
  BY EntrySlots
<1>2. QED BY <1>1 DEF LinksTo

(* A new file gets its first entry. *)
LEMMA CreatedMount ==
    ASSUME MountInv, IInv', Idle, NEW d \in BaseDirs, NEW n \in UserNames, NEW id \in Ids, NEW a \in Attrs,
           NEW t \in RealTypes, CreateFile(id),
           mem' = [mem EXCEPT ![id] = EmptyNode(t, a),
                              ![d] = WithEntry(@, n, [id |-> id, type |-> t])],
           \A x \in Ids : handles[x] # 0 => handles'[x] # 0
    PROVE  MountInv'
<1>0. IInv
  BY DEF MountInv
<1>1. d \in Ids /\ Exists(mem, d) /\ mem[d] \in Node
  BY <1>0, BaseDirFacts
<1>2. /\ ~Exists(mem, id) /\ ~Exists(disk, id) /\ disk' = [disk EXCEPT ![id] = BlankNode] /\ d # id
      /\ LinksTo(disk, id) = {}
  BY <1>1 DEF CreateFile
<1>3. n \in Names /\ [id |-> id, type |-> t] \in Entry /\ [id |-> id, type |-> t] # None
  BY FSAssumption, NoSentinels DEF Entry, EntryTypes
<1> DEFINE e == [id |-> id, type |-> t]
           new == EmptyNode(t, a)
           dir == WithEntry(mem[d], n, e)
<1>4. mem \in [Ids -> {NoFile} \cup Node] /\ disk \in [Ids -> {NoFile} \cup Node]
  BY <1>0 DEF IInv, TypeOK
<1>5. e.id = id /\ e \in Entry \cup {None} /\ e # None
  BY <1>3
<1>6. mem' = [mem EXCEPT ![id] = new, ![d] = dir]
  BY <1>1, <1>2, <1>4
<1> HIDE DEF e
<1>7. /\ new # NoFile /\ new.ents = NoEntries
      /\ dir # NoFile /\ dir.type = mem[d].type
      /\ dir.ents[n] = e /\ \A m \in Names : m # n => dir.ents[m] = mem[d].ents[m]
  BY <1>1, <1>3, <1>5, EmptyNodeFacts, WithEntryFacts, SMTT(30)
<1> HIDE DEF new, dir
<1>8. /\ mem'[id] = new /\ mem'[d] = dir
      /\ \A x \in Ids : x # id /\ x # d => mem'[x] = mem[x]
  BY <1>1, <1>2, <1>4, <1>6
<1>9. disk'[id] = BlankNode /\ \A x \in Ids : x # id => disk'[x] = disk[x]
  BY <1>2, <1>4
<1>10. Unnamed(id)
  BY <1>2, CreatedUnnamed
<1>11. \A c \in Ids, m \in Names : Slot(mem', c, m) # None =>
         Slot(mem', c, m) = Slot(mem, c, m) \/ (c = d /\ m = n /\ Slot(mem', c, m) = e)
  <2> SUFFICES ASSUME NEW c \in Ids, NEW m \in Names, Slot(mem', c, m) # None
               PROVE  Slot(mem', c, m) = Slot(mem, c, m) \/ (c = d /\ m = n /\ Slot(mem', c, m) = e)
    OBVIOUS
  <2>1. CASE c = id
    <3>1. mem'[c] = new
      BY <1>8, <2>1
    <3>2. Exists(mem', c) /\ mem'[c].ents = NoEntries
      BY <1>7, <3>1 DEF Exists
    <3>3. Slot(mem', c, m) = None
      BY <3>2, NoSlots
    <3>4. QED BY <3>3
  <2>2. CASE c = d
    <3>1. Slot(mem', c, m) = dir.ents[m] /\ Slot(mem, c, m) = mem[d].ents[m]
      BY <1>1, <1>7, <1>8, <2>2 DEF Slot, Exists
    <3>2. QED BY <1>7, <2>2, <3>1
  <2>3. CASE c # id /\ c # d
    <3>1. mem'[c] = mem[c]
      BY <1>8, <2>3
    <3>2. Slot(mem', c, m) = Slot(mem, c, m)
      BY ONLY <3>1 DEF Slot, Exists
    <3>3. QED BY <3>2
  <2>4. QED BY <2>1, <2>2, <2>3
<1>12. id # Root
  BY <1>2 DEF MountInv, IsDir
<1>13. MountFrame
  <2>1. \A x \in Ids : disk'[x] = disk[x] \/ (disk'[x] = BlankNode /\ ~Exists(mem, x))
    BY <1>2, <1>9
  <2>2. \A x \in Ids : Exists(mem', x) =>
          \/ Exists(mem, x) /\ mem'[x].type = mem[x].type
          \/ ~Exists(mem, x) /\ mem'[x].ents = NoEntries /\ Unnamed(x)
    BY <1>1, <1>2, <1>7, <1>8, <1>10 DEF Exists
  <2>3. \A c \in Ids, m \in Names : Slot(mem', c, m) # None =>
          Slot(mem', c, m) = Slot(mem, c, m) \/ (m \in UserNames /\ Slot(mem', c, m).id # Root)
    BY <1>5, <1>11, <1>12
  <2>4. QED BY <2>1, <2>2, <2>3 DEF MountFrame
<1>14. HandlesKept
  <2> SUFFICES ASSUME NEW x \in Ids, IsDir(mem, x) PROVE IsDir(mem', x)
    BY DEF HandlesKept
  <2>1. x # id
    BY <1>2 DEF IsDir
  <2>2. QED BY <1>7, <1>8, <2>1 DEF IsDir, Exists
<1>15. NotAbove(mem, id, d)
  <2>1. Holds(mem, {id})
    BY <1>2 DEF Holds, Slot
  <2>2. QED BY <1>2, <2>1 DEF NotAbove
<1>16. NoOpenDirs' => NoOpenDirs
  BY <1>14, OpenDirsKept
<1>17. \A c \in Ids, m \in Names : Slot(mem', c, m) # None =>
         Slot(mem', c, m) = Slot(mem, c, m) \/ (c = d /\ Slot(mem', c, m).id = id)
  BY <1>5, <1>11
<1>18. QED BY <1>1, <1>13, <1>15, <1>16, <1>17, MountGrows

(* create makes a file and keeps a handle on it. *)
LEMMA CreateMount ==
    ASSUME MountInv, Idle, NEW d \in BaseDirs, NEW n \in UserNames, NEW id \in Ids, NEW a \in Attrs,
           create(d, n, id, a)
    PROVE  MountInv'
<1>1. IInv /\ IInv'
  BY CreateStep DEF MountInv
<1>2. /\ CreateFile(id) /\ handles' = [handles EXCEPT ![id] = 1]
      /\ mem' = [mem EXCEPT ![id] = EmptyNode("REG", a),
                            ![d] = WithEntry(@, n, [id |-> id, type |-> "REG"])]
  BY DEF create
<1>3. \A x \in Ids : handles[x] # 0 => handles'[x] # 0
  BY <1>1, <1>2 DEF IInv, TypeOK
<1>4. "REG" \in RealTypes
  BY DEF RealTypes
<1>5. QED BY <1>1, <1>2, <1>3, <1>4, CreatedMount

(* mkdir and symlink make a file. *)
LEMMA MknodeMount ==
    ASSUME MountInv, Idle, NEW d \in BaseDirs, NEW n \in UserNames, NEW id \in Ids, NEW a \in Attrs,
           NEW t \in RealTypes, mknode(d, n, t, id, a)
    PROVE  MountInv'
<1>1. IInv'
  BY MknodeStep DEF MountInv
<1>2. /\ CreateFile(id) /\ handles' = handles
      /\ mem' = [mem EXCEPT ![id] = EmptyNode(t, a),
                            ![d] = WithEntry(@, n, [id |-> id, type |-> t])]
  BY DEF mknode
<1>3. QED BY <1>1, <1>2, CreatedMount

(* The name is taken: the new file is left without an entry and goes. *)
LEMMA CreateExistsMount ==
    ASSUME MountInv, Idle, NEW d \in BaseDirs, NEW n \in UserNames, NEW id \in Ids, NEW a \in Attrs,
           NEW t \in RealTypes, createExists(d, n, t, id, a)
    PROVE  MountInv'
<1>1. IInv /\ IInv'
  BY CreateExistsStep DEF MountInv
<1> DEFINE new == Unlinked(EmptyNode(t, a))
<1>2. /\ CreateFile(id) /\ handles' = handles /\ mem' = [mem EXCEPT ![id] = new]
  BY DEF createExists
<1>3. new.ents = NoEntries
  BY EmptyNodeFacts, UnlinkedFacts
<1> HIDE DEF new
<1>4. mem \in [Ids -> {NoFile} \cup Node] /\ disk \in [Ids -> {NoFile} \cup Node]
  BY <1>1 DEF IInv, TypeOK
<1>5. ~Exists(mem, id) /\ disk' = [disk EXCEPT ![id] = BlankNode] /\ LinksTo(disk, id) = {}
  BY <1>2 DEF CreateFile
<1>6. mem'[id] = new /\ \A x \in Ids : x # id => mem'[x] = mem[x]
  BY <1>2, <1>4
<1>7. disk'[id] = BlankNode /\ \A x \in Ids : x # id => disk'[x] = disk[x]
  BY <1>4, <1>5
<1>8. Unnamed(id)
  BY <1>5, CreatedUnnamed
<1>9. NoNewEntry
  BY <1>3, <1>6 DEF NoNewEntry, Slot, Exists, NoEntries
<1>10. MountFrame
  BY <1>3, <1>5, <1>6, <1>7, <1>8, <1>9 DEF MountFrame, NoNewEntry, Exists
<1>11. HandlesKept
  BY <1>2, <1>5, <1>6 DEF HandlesKept, IsDir, Exists
<1>12. QED BY <1>1, <1>9, <1>10, <1>11, OpenDirsKept, MountShrinks

(* unlink and rmdir remove an entry and a link. *)
LEMMA UnlinkMount ==
    ASSUME MountInv, Idle, NEW d \in BaseDirs, NEW n \in UserNames, unlink(d, n)
    PROVE  MountInv'
<1>0. IInv /\ IInv'
  BY UnlinkStep DEF MountInv
<1>1. mem[d].ents[n] # None
  BY DEF unlink, Resolves
<1>2. PICK id \in Ids : id = mem[d].ents[n].id
  BY <1>0, <1>1, EntryFacts
<1>3. /\ mem[d].ents[n].type = "DIR" => mem[id].ents = NoEntries
      /\ mem' = [mem EXCEPT ![d] = WithEntry(@, n, None), ![id] = Unlinked(@)]
      /\ disk' = disk /\ handles' = handles
  BY <1>2 DEF unlink
<1>4. n \in Names /\ Exists(mem, id) /\ mem[id].type = mem[d].ents[n].type
  BY <1>0, <1>1, <1>2, EntryFacts
<1>5. d \in Ids /\ Exists(mem, d)
  BY <1>0, BaseDirFacts
<1>6. mem \in [Ids -> {NoFile} \cup Node] /\ Tree(mem)
  BY <1>0 DEF IInv, TypeOK
<1>7. id # d
  BY <1>1, <1>3, <1>4, <1>6 DEF Tree, OnlyDirsHold, NoEntries
<1> DEFINE hs == [mem EXCEPT ![d] = WithEntry(@, n, None)]
<1>8. EntryPut(mem, hs, d, n, None)
  BY <1>4, <1>5, <1>6, PutEntry
<1>9. mem' = [hs EXCEPT ![id] = Unlinked(@)]
  <2>1. hs[id] = mem[id]
    BY <1>6, <1>7
  <2>2. QED BY <1>3, <1>5, <1>6, <1>7, <2>1
<1> HIDE DEF hs
<1>10. /\ SameKinds(mem, hs) /\ hs \in [Ids -> {NoFile} \cup Node]
       /\ \A c \in Ids, m \in Names : Slot(hs, c, m) = IF c = d /\ m = n THEN None ELSE Slot(mem, c, m)
  <2>1. hs \in [Ids -> {NoFile} \cup Node]
    BY <1>8 DEF EntryPut
  <2>2. QED BY <1>4, <1>5, <1>8, <2>1, SlotsPut
<1>11. Exists(hs, id)
  BY <1>4, <1>10 DEF SameKinds
<1>12. SameKinds(hs, mem') /\ \A c \in Ids, m \in Names : Slot(mem', c, m) = Slot(hs, c, m)
  <2>1. LinkLess(hs, mem', id)
    BY <1>9, <1>10, <1>11, LoseLink
  <2>2. QED BY <1>11, <2>1, SlotsLess
<1>13. SameKinds(mem, mem')
  BY <1>10, <1>12 DEF SameKinds
<1>14. NoNewEntry
  BY <1>10, <1>12 DEF NoNewEntry
<1>15. MountFrame /\ (NoOpenDirs' => NoOpenDirs)
  BY <1>3, <1>13, <1>14, OnlyMemory DEF NoNewEntry
<1>16. QED BY <1>0, <1>14, <1>15, MountShrinks

(* link adds an entry for a regular file. *)
LEMMA LinkMount ==
    ASSUME MountInv, Idle, NEW d1 \in BaseDirs, NEW n1 \in UserNames, NEW d2 \in BaseDirs,
           NEW n2 \in UserNames, link(d1, n1, d2, n2)
    PROVE  MountInv'
<1>0. IInv /\ IInv'
  BY LinkStep DEF MountInv
<1>1. mem[d1].ents[n1] # None
  BY DEF link, Resolves
<1>2. PICK id \in Ids : id = mem[d1].ents[n1].id
  BY <1>0, <1>1, EntryFacts
<1> DEFINE e  == mem[d1].ents[n1]
           new == [mem[id] EXCEPT !.nlink = @ + 1]
           dir == WithEntry(mem[d2], n2, e)
<1>3. /\ e.type = "REG"
      /\ mem' = [mem EXCEPT ![id].nlink = @ + 1, ![d2] = WithEntry(@, n2, e)]
      /\ disk' = disk /\ handles' = handles
  BY <1>2 DEF link
<1>4. /\ e \in Entry /\ Exists(mem, id) /\ mem[id] \in Node /\ mem[id].type = "REG"
      /\ Slot(mem, d1, n1) = e /\ n1 \in Names
  BY <1>0, <1>1, <1>2, <1>3, EntryFacts
<1>5. /\ d2 \in Ids /\ Exists(mem, d2) /\ mem[d2] \in Node /\ mem[d2].type = "DIR" /\ n2 \in Names
      /\ d1 \in Ids
  BY <1>0, BaseDirFacts, FSAssumption
<1>6. mem \in [Ids -> {NoFile} \cup Node]
  BY <1>0 DEF IInv, TypeOK
<1>7. id # d2
  BY <1>4, <1>5
<1>8. new # NoFile /\ new.type = mem[id].type /\ new.ents = mem[id].ents
  BY <1>4, NoSentinels DEF Node
<1>9. /\ dir # NoFile /\ dir.type = mem[d2].type
      /\ dir.ents[n2] = e /\ \A m \in Names : m # n2 => dir.ents[m] = mem[d2].ents[m]
  BY <1>4, <1>5, WithEntryFacts
<1>10. mem' = [mem EXCEPT ![id] = new, ![d2] = dir]
  BY <1>3, <1>5, <1>6, <1>7
<1>11. e.id = id /\ id # Root
  <2>1. e.id = id
    BY <1>2
  <2>2. QED BY <1>1, <1>4, <1>5, <2>1 DEF MountInv, RootUnnamed
<1>12. mem[id].ents = NoEntries
  BY <1>0, <1>4 DEF IInv, Tree, OnlyDirsHold
<1> HIDE DEF new, dir, e
<1>13. /\ mem'[id] = new /\ mem'[d2] = dir
       /\ \A x \in Ids : x # id /\ x # d2 => mem'[x] = mem[x]
  BY <1>5, <1>6, <1>7, <1>10
<1>14. SameKinds(mem, mem')
  BY <1>4, <1>5, <1>8, <1>9, <1>13 DEF SameKinds, Exists
<1>15. \A c \in Ids, m \in Names : Slot(mem', c, m) = IF c = d2 /\ m = n2 THEN e ELSE Slot(mem, c, m)
  BY <1>4, <1>5, <1>8, <1>9, <1>13, <1>14 DEF SameKinds, Slot
<1>16. MountFrame /\ (NoOpenDirs' => NoOpenDirs)
  BY <1>3, <1>11, <1>14, <1>15, OnlyMemory
<1>17. NotAbove(mem, id, d2)
  <2>1. Holds(mem, {id})
    BY <1>12 DEF Holds, Slot, NoEntries
  <2>2. QED BY <1>7, <2>1 DEF NotAbove
<1>18. QED BY <1>0, <1>5, <1>11, <1>15, <1>16, <1>17, MountGrows

(* rename to a free name moves an entry, and not below its own file. *)
LEMMA RenameFreeMount ==
    ASSUME MountInv, Idle, NEW d1 \in BaseDirs, NEW n1 \in UserNames, NEW d2 \in BaseDirs,
           NEW n2 \in UserNames, renameFree(d1, n1, d2, n2)
    PROVE  MountInv'
<1>0. IInv /\ IInv'
  BY RenameFreeStep DEF MountInv
<1> DEFINE src == mem[d1].ents[n1]
           hs  == [mem EXCEPT ![d1] = WithEntry(@, n1, None)]
<1>1. /\ src # None /\ KernelAllowsRename(d1, n1, d2, n2)
      /\ mem' = [hs EXCEPT ![d2] = WithEntry(@, n2, src)]
      /\ disk' = disk /\ handles' = handles
  BY DEF renameFree
<1>2. n1 \in Names /\ Slot(mem, d1, n1) = src /\ src \in Entry /\ src.id \in Ids
  BY <1>0, <1>1, EntryFacts
<1>3. d1 \in Ids /\ Exists(mem, d1) /\ d2 \in Ids /\ Exists(mem, d2) /\ n2 \in Names
  BY <1>0, BaseDirFacts, FSAssumption
<1>4. mem \in [Ids -> {NoFile} \cup Node]
  BY <1>0 DEF IInv, TypeOK
<1>5. NotAbove(mem, src.id, d2)
  BY <1>1, <1>2, <1>3, KernelCheck
<1>6. src.id # Root
  BY <1>1, <1>2, <1>3 DEF MountInv, RootUnnamed
<1> HIDE DEF src
<1>7. EntryPut(mem, hs, d1, n1, None)
  BY <1>2, <1>3, <1>4, PutEntry
<1> HIDE DEF hs
<1>8. /\ SameKinds(mem, hs) /\ hs \in [Ids -> {NoFile} \cup Node]
      /\ \A c \in Ids, m \in Names : Slot(hs, c, m) = IF c = d1 /\ m = n1 THEN None ELSE Slot(mem, c, m)
  BY <1>2, <1>3, <1>7, SlotsPut DEF EntryPut
<1>9. Exists(hs, d2)
  BY <1>3, <1>8 DEF SameKinds
<1>10. EntryPut(hs, mem', d2, n2, src)
  BY <1>1, <1>2, <1>3, <1>8, <1>9, PutEntry
<1>11. /\ SameKinds(hs, mem')
       /\ \A c \in Ids, m \in Names : Slot(mem', c, m) = IF c = d2 /\ m = n2 THEN src ELSE Slot(hs, c, m)
  BY <1>3, <1>9, <1>10, SlotsPut
<1>12. SameKinds(mem, mem')
  BY <1>8, <1>11 DEF SameKinds
<1>13. \A c \in Ids, m \in Names : Slot(mem', c, m) # None =>
          Slot(mem', c, m) = Slot(mem, c, m) \/ (c = d2 /\ m = n2 /\ Slot(mem', c, m) = src)
  BY <1>8, <1>11
<1>14. MountFrame /\ (NoOpenDirs' => NoOpenDirs)
  BY <1>1, <1>6, <1>12, <1>13, OnlyMemory
<1>15. QED BY <1>0, <1>2, <1>3, <1>5, <1>13, <1>14, MountGrows

(* rename onto a name replaces its entry. *)
LEMMA RenameOverMount ==
    ASSUME MountInv, Idle, NEW d1 \in BaseDirs, NEW n1 \in UserNames, NEW d2 \in BaseDirs,
           NEW n2 \in UserNames, renameOver(d1, n1, d2, n2)
    PROVE  MountInv'
<1>0. IInv /\ IInv'
  BY RenameOverStep DEF MountInv
<1> DEFINE src == mem[d1].ents[n1]
           dst == mem[d2].ents[n2]
           hs  == [mem EXCEPT ![d1] = WithEntry(@, n1, None)]
           ms  == [hs EXCEPT ![d2] = WithEntry(@, n2, src)]
<1>1. /\ src # None /\ dst # None /\ KernelAllowsRename(d1, n1, d2, n2)
      /\ mem' = IF Exists(mem, dst.id) THEN [ms EXCEPT ![dst.id] = Unlinked(@)] ELSE ms
      /\ disk' = disk /\ handles' = handles
  BY DEF renameOver
<1>2. /\ n1 \in Names /\ Slot(mem, d1, n1) = src /\ src \in Entry /\ src.id \in Ids
      /\ n2 \in Names /\ dst.id \in Ids /\ Exists(mem, dst.id)
  BY <1>0, <1>1, EntryFacts
<1>3. d1 \in Ids /\ Exists(mem, d1) /\ d2 \in Ids /\ Exists(mem, d2)
  BY <1>0, BaseDirFacts
<1>4. mem \in [Ids -> {NoFile} \cup Node]
  BY <1>0 DEF IInv, TypeOK
<1>5. NotAbove(mem, src.id, d2)
  BY <1>1, <1>2, <1>3, KernelCheck
<1>6. src.id # Root
  BY <1>1, <1>2, <1>3 DEF MountInv, RootUnnamed
<1>16. PICK id \in Ids : id = dst.id
  BY <1>2
<1>17. mem' = [ms EXCEPT ![id] = Unlinked(@)] /\ Exists(mem, id)
  BY <1>1, <1>2, <1>16
<1> HIDE DEF src, dst
<1>7. EntryPut(mem, hs, d1, n1, None)
  BY <1>2, <1>3, <1>4, PutEntry
<1> HIDE DEF hs
<1>8. /\ SameKinds(mem, hs) /\ hs \in [Ids -> {NoFile} \cup Node]
      /\ \A c \in Ids, m \in Names : Slot(hs, c, m) = IF c = d1 /\ m = n1 THEN None ELSE Slot(mem, c, m)
  BY <1>2, <1>3, <1>7, SlotsPut DEF EntryPut
<1>9. Exists(hs, d2)
  BY <1>3, <1>8 DEF SameKinds
<1>10. EntryPut(hs, ms, d2, n2, src)
  BY <1>2, <1>3, <1>8, <1>9, PutEntry
<1> HIDE DEF ms
<1>11. /\ SameKinds(hs, ms) /\ ms \in [Ids -> {NoFile} \cup Node]
       /\ \A c \in Ids, m \in Names : Slot(ms, c, m) = IF c = d2 /\ m = n2 THEN src ELSE Slot(hs, c, m)
  <2>1. ms \in [Ids -> {NoFile} \cup Node]
    BY <1>10 DEF EntryPut
  <2>2. QED BY <1>2, <1>3, <1>9, <1>10, <2>1, SlotsPut
<1>18. Exists(ms, id)
  BY <1>8, <1>11, <1>17 DEF SameKinds
<1>19. SameKinds(ms, mem') /\ \A c \in Ids, m \in Names : Slot(mem', c, m) = Slot(ms, c, m)
  <2>1. LinkLess(ms, mem', id)
    BY <1>11, <1>17, <1>18, LoseLink
  <2>2. QED BY <1>18, <2>1, SlotsLess
<1>12. SameKinds(mem, mem')
  BY <1>8, <1>11, <1>19 DEF SameKinds
<1>13. \A c \in Ids, m \in Names : Slot(mem', c, m) # None =>
          Slot(mem', c, m) = Slot(mem, c, m) \/ (c = d2 /\ m = n2 /\ Slot(mem', c, m) = src)
  BY <1>8, <1>11, <1>19
<1>14. MountFrame /\ (NoOpenDirs' => NoOpenDirs)
  BY <1>1, <1>6, <1>12, <1>13, OnlyMemory
<1>15. QED BY <1>0, <1>2, <1>3, <1>5, <1>13, <1>14, MountGrows

(* Every step of the mount. *)
LEMMA NextMount ==
    ASSUME MountInv, Next
    PROVE  MountInv'
<1>1. CASE Settle
  BY <1>1, SettleMount
<1>2. CASE Idle /\ Operation
  <2> USE <1>2
  <2>1. ASSUME NEW d \in BaseDirs, NEW n \in UserNames, NEW id \in Ids, NEW a \in Attrs,
               \/ create(d, n, id, a)
               \/ \E t \in RealTypes : mknode(d, n, t, id, a) \/ createExists(d, n, t, id, a)
        PROVE  MountInv'
    BY <2>1, CreateMount, MknodeMount, CreateExistsMount
  <2>2. ASSUME NEW d \in BaseDirs, NEW n \in UserNames, unlink(d, n)
        PROVE  MountInv'
    BY <2>2, UnlinkMount
  <2>3. ASSUME NEW id \in Ids, release(id) \/ fsync(id)
        PROVE  MountInv'
    BY <2>3, ReleaseMount, FsyncMount
  <2>4. ASSUME NEW id \in Ids, NEW a \in Attrs, ReadWrite(id, a) \/ ftruncate(id, a)
        PROVE  MountInv'
    BY <2>4, ReadWriteMount
  <2>5. ASSUME NEW id \in OpenAll, opendir(id)
        PROVE  MountInv'
    BY <2>5, OpendirMount
  <2>6. ASSUME NEW id \in OpenAll, NEW a \in Attrs,
               \/ open(id, a) \/ chmod(id, a) \/ truncate(id, a)
               \/ utimens(id, a) \/ readlink(id, a)
        PROVE  MountInv'
    BY <2>6, OpenMount, HeaderMount
  <2>7. ASSUME NEW d1 \in BaseDirs, NEW d2 \in BaseDirs, NEW n1 \in UserNames, NEW n2 \in UserNames,
               renameFree(d1, n1, d2, n2) \/ renameOver(d1, n1, d2, n2) \/ link(d1, n1, d2, n2)
        PROVE  MountInv'
    BY <2>7, RenameFreeMount, RenameOverMount, LinkMount
  <2>8. CASE remount
    BY <2>8, RemountMount
  <2>9. QED BY <2>1, <2>2, <2>3, <2>4, <2>5, <2>6, <2>7, <2>8 DEF Operation
<1>3. QED BY <1>1, <1>2 DEF Next

(* An empty volume. *)
LEMMA InitMount ==
    ASSUME Init
    PROVE  MountInv
<1>1. IInv
  BY InitIInv
<1>2. PICK a \in Attrs : mem = [id \in Ids |-> IF id = Root THEN EmptyNode("DIR", a) ELSE NoFile]
  BY DEF Init
<1>3. disk = mem /\ Root \in Ids
  BY FSAssumption DEF Init
<1> DEFINE new == EmptyNode("DIR", a)
<1>4. new \in Node /\ new # NoFile /\ new.type = "DIR" /\ new.ents = NoEntries
  BY EmptyNodeFacts DEF RealTypes
<1>5. mem[Root] = new /\ \A x \in Ids : x # Root => mem[x] = NoFile
  BY <1>2, <1>3
<1> HIDE DEF new
<1>6. \A d \in Ids, n \in Names : Slot(mem, d, n) = None
  BY <1>4, <1>5 DEF Slot, Exists, NoEntries
<1>7. Arcs(mem) = {}
  BY <1>6 DEF Arcs
<1>8. Acyclic(Arcs(mem)) /\ Acyclic(Arcs(mem) \cup Arcs(disk))
  BY <1>3, <1>7 DEF Acyclic
<1>9. IsDir(mem, Root) /\ OnlyDirsHold(disk)
  BY <1>3, <1>4, <1>5 DEF IsDir, OnlyDirsHold, Exists
<1>10. UserEntries(mem) /\ RootUnnamed(mem) /\ DiskTypes
  BY <1>3, <1>6 DEF UserEntries, RootUnnamed, DiskTypes, Typed
<1>11. QED BY <1>1, <1>3, <1>8, <1>9, <1>10 DEF MountInv

(* What a mount that is killed leaves. *)
LEMMA MountLeaves ==
    ASSUME MountInv
    PROVE  Volume(disk)
<1>1. IInv /\ mem \in [Ids -> {NoFile} \cup Node] /\ disk \in [Ids -> {NoFile} \cup Node]
  BY DEF MountInv, IInv, TypeOK
<1>2. disk \in Files
  BY <1>1, WideTypes DEF Files
<1>3. HexNamed(disk)
  BY FixAssumption, FSAssumption DEF MountInv, UserEntries, HexNamed
<1>4. TypesAgree(disk)
  <2> SUFFICES ASSUME NEW d \in Ids, NEW n \in Names, Leads(disk, d, n)
               PROVE  disk[Slot(disk, d, n).id].type \in {Slot(disk, d, n).type, "UNKNOWN"}
    BY DEF TypesAgree
  <2> DEFINE t == Slot(disk, d, n)
  <2>1. t # None /\ Exists(disk, t.id) /\ t.id \in Ids
    BY <1>2, SlotWide DEF Leads
  <2>2. Exists(mem, t.id)
    BY <1>1, <2>1, SameFiles
  <2>3. QED BY <2>1, <2>2 DEF MountInv, DiskTypes, Typed
<1>5. QED BY <1>2, <1>3, <1>4 DEF Volume, MountInv

-----------------------------------------------------------------------------
(* The recursion *)

(* What the frames of the recursion are. *)
LEMMA FrameFacts ==
    ASSUME NEW s \in Seq(Frames)
    PROVE  /\ Len(s) \in Nat
           /\ \A i \in 1..Len(s) : s[i] \in Frames /\ s[i].dir \in Ids /\ s[i].rest \in SUBSET Names
           /\ s # <<>> <=> Len(s) > 0
<1>1. Len(s) \in Nat /\ \A i \in 1..Len(s) : s[i] \in Frames
  OBVIOUS
<1>2. \A f \in Frames : f.dir \in Ids /\ f.rest \in SUBSET Names
  BY DEF Frames
<1>3. s # <<>> => Len(s) > 0
  OBVIOUS
<1>4. Len(s) > 0 => s # <<>>
  OBVIOUS
<1>5. QED BY <1>1, <1>2, <1>3, <1>4

(* A frame has looked at the entry n. *)
Ahead(s, n) == <<[Head(s) EXCEPT !.rest = @ \ {n}]>> \o Tail(s)

(* Looking at the entry n changes the innermost frame only. *)
LEMMA AheadFacts ==
    ASSUME NEW s \in Seq(Frames), s # <<>>, NEW n
    PROVE  /\ Ahead(s, n) \in Seq(Frames) /\ Len(Ahead(s, n)) = Len(s)
           /\ \A i \in 1..Len(s) : /\ Ahead(s, n)[i].dir = s[i].dir
                                   /\ Ahead(s, n)[i].rest = IF i = 1 THEN s[i].rest \ {n} ELSE s[i].rest
<1> DEFINE f == [Head(s) EXCEPT !.rest = @ \ {n}]
<1>1. Len(s) \in Nat /\ Len(s) > 0 /\ Head(s) = s[1] /\ s[1] \in Frames
  OBVIOUS
<1>2. f \in Frames /\ f.dir = s[1].dir /\ f.rest = s[1].rest \ {n}
  BY <1>1 DEF Frames
<1> HIDE DEF f
<1>3. /\ Tail(s) \in Seq(Frames) /\ Len(Tail(s)) = Len(s) - 1
      /\ \A i \in 1..(Len(s) - 1) : Tail(s)[i] = s[i + 1]
  BY <1>1
<1>4. /\ <<f>> \o Tail(s) \in Seq(Frames) /\ Len(<<f>> \o Tail(s)) = Len(s)
      /\ (<<f>> \o Tail(s))[1] = f
      /\ \A i \in 2..Len(s) : (<<f>> \o Tail(s))[i] = Tail(s)[i - 1]
  BY <1>1, <1>2, <1>3
<1>5. \A i \in 2..Len(s) : (<<f>> \o Tail(s))[i] = s[i]
  BY <1>1, <1>3, <1>4
<1>6. Ahead(s, n) = <<f>> \o Tail(s)
  BY DEF Ahead, f
<1>7. \A i \in 1..Len(s) : i = 1 \/ i \in 2..Len(s)
  BY <1>1
<1>8. QED BY <1>1, <1>2, <1>4, <1>5, <1>6, <1>7

(* It is at the same directories. *)
LEMMA AheadDirs ==
    ASSUME NEW s \in Seq(Frames), s # <<>>, NEW n
    PROVE  Len(Ahead(s, n)) = Len(s) /\ \A i \in 1..Len(s) : Ahead(s, n)[i].dir = s[i].dir
<1> DEFINE t == Ahead(s, n)
<1>1. /\ t \in Seq(Frames) /\ Len(t) = Len(s)
      /\ \A i \in 1..Len(s) : /\ t[i].dir = s[i].dir
                              /\ t[i].rest = IF i = 1 THEN s[i].rest \ {n} ELSE s[i].rest
  BY AheadFacts
<1> HIDE DEF t
<1>2. Len(t) = Len(s) /\ \A i \in 1..Len(s) : t[i].dir = s[i].dir
  BY <1>1
<1>3. QED BY <1>2 DEF t

(* The frames after a directory was entered. *)
LEMMA PushFacts ==
    ASSUME NEW s \in Seq(Frames), NEW f \in Frames
    PROVE  /\ <<f>> \o s \in Seq(Frames) /\ Len(<<f>> \o s) = Len(s) + 1
           /\ (<<f>> \o s)[1] = f
           /\ \A i \in 2..(Len(s) + 1) : (<<f>> \o s)[i] = s[i - 1]
           /\ \A i \in 1..Len(s) : (<<f>> \o s)[i + 1] = s[i]
OBVIOUS

(* The frames after a call returned. *)
LEMMA PopFacts ==
    ASSUME NEW s \in Seq(Frames), s # <<>>
    PROVE  /\ Tail(s) \in Seq(Frames) /\ Len(Tail(s)) = Len(s) - 1
           /\ \A i \in 1..(Len(s) - 1) : Tail(s)[i] = s[i + 1]
           /\ Len(s) \in Nat /\ Len(s) > 0 /\ Head(s) = s[1] /\ s[1] \in Frames
OBVIOUS

(* What is pending when an entry was looked at. *)
LEMMA AheadPending ==
    ASSUME NEW s, NEW fs, StackOn(s, fs), s # <<>>, NEW n \in Names, NEW d, NEW m
    PROVE  Pending(Ahead(s, n), d, m) <=> Pending(s, d, m) /\ (d # s[1].dir \/ m # n)
<1>1. s \in Seq(Frames) /\ \A i, j \in 1..Len(s) : s[i].dir = s[j].dir => i = j
  BY DEF StackOn
<1>2. /\ Len(Ahead(s, n)) = Len(s) /\ Len(s) \in Nat /\ 1 \in 1..Len(s)
      /\ \A i \in 1..Len(s) : /\ Ahead(s, n)[i].dir = s[i].dir
                              /\ Ahead(s, n)[i].rest = IF i = 1 THEN s[i].rest \ {n} ELSE s[i].rest
  <2>1. Len(s) \in Nat /\ Len(s) > 0
    BY <1>1, FrameFacts
  <2>2. 1 \in 1..Len(s)
    BY <2>1
  <2>3. QED BY <1>1, <2>1, <2>2, AheadFacts
<1>3. ASSUME Pending(Ahead(s, n), d, m) PROVE Pending(s, d, m) /\ (d # s[1].dir \/ m # n)
  <2>1. PICK i \in 1..Len(s) : Ahead(s, n)[i].dir = d /\ m \in Ahead(s, n)[i].rest
    BY <1>2, <1>3 DEF Pending
  <2>2. s[i].dir = d /\ m \in s[i].rest /\ (i # 1 \/ m # n)
    BY <1>2, <2>1
  <2>3. d = s[1].dir => i = 1
    BY <1>1, <1>2, <2>2
  <2>4. QED BY <2>2, <2>3 DEF Pending
<1>4. ASSUME Pending(s, d, m), d # s[1].dir \/ m # n PROVE Pending(Ahead(s, n), d, m)
  <2>1. PICK i \in 1..Len(s) : s[i].dir = d /\ m \in s[i].rest
    BY <1>4 DEF Pending
  <2>2. Ahead(s, n)[i].dir = d /\ m \in Ahead(s, n)[i].rest
    BY <1>2, <1>4, <2>1
  <2>3. QED BY <1>2, <2>2 DEF Pending
<1>5. QED BY <1>3, <1>4

(* Entering a directory makes its entries pending. *)
LEMMA PushPending ==
    ASSUME NEW s \in Seq(Frames), NEW f \in Frames, NEW d, NEW m
    PROVE  Pending(<<f>> \o s, d, m) <=> Pending(s, d, m) \/ (f.dir = d /\ m \in f.rest)
<1>1. /\ Len(<<f>> \o s) = Len(s) + 1 /\ (<<f>> \o s)[1] = f /\ Len(s) \in Nat
      /\ \A i \in 2..(Len(s) + 1) : (<<f>> \o s)[i] = s[i - 1]
      /\ \A i \in 1..Len(s) : (<<f>> \o s)[i + 1] = s[i]
  BY PushFacts
<1>2. \A i \in 1..(Len(s) + 1) : i = 1 \/ (i \in 2..(Len(s) + 1) /\ i - 1 \in 1..Len(s))
  BY <1>1
<1>3. 1 \in 1..(Len(s) + 1) /\ \A i \in 1..Len(s) : i + 1 \in 1..(Len(s) + 1)
  BY <1>1
<1>4. ASSUME Pending(<<f>> \o s, d, m) PROVE Pending(s, d, m) \/ (f.dir = d /\ m \in f.rest)
  <2>1. PICK i \in 1..(Len(s) + 1) : (<<f>> \o s)[i].dir = d /\ m \in (<<f>> \o s)[i].rest
    BY <1>1, <1>4 DEF Pending
  <2>2. QED BY <1>1, <1>2, <2>1 DEF Pending
<1>5. ASSUME Pending(s, d, m) PROVE Pending(<<f>> \o s, d, m)
  <2>1. PICK i \in 1..Len(s) : s[i].dir = d /\ m \in s[i].rest
    BY <1>5 DEF Pending
  <2>2. i + 1 \in 1..(Len(s) + 1) /\ (<<f>> \o s)[i + 1] = s[i]
    BY <1>1, <1>3
  <2>3. QED BY <1>1, <2>1, <2>2 DEF Pending
<1>6. ASSUME f.dir = d, m \in f.rest PROVE Pending(<<f>> \o s, d, m)
  BY <1>1, <1>3, <1>6 DEF Pending
<1>7. QED BY <1>4, <1>5, <1>6

(* A call returns when nothing of its directory is pending. *)
LEMMA PopPending ==
    ASSUME NEW s \in Seq(Frames), s # <<>>, s[1].rest = {}, NEW d, NEW m
    PROVE  Pending(Tail(s), d, m) <=> Pending(s, d, m)
<1>1. /\ Len(Tail(s)) = Len(s) - 1 /\ Len(s) \in Nat /\ Len(s) > 0
      /\ \A i \in 1..(Len(s) - 1) : Tail(s)[i] = s[i + 1]
  BY PopFacts
<1>2. \A i \in 1..Len(s) : i = 1 \/ (i - 1 \in 1..(Len(s) - 1) /\ Tail(s)[i - 1] = s[i])
  BY <1>1
<1>3. \A i \in 1..(Len(s) - 1) : i + 1 \in 1..Len(s)
  BY <1>1
<1>4. QED BY <1>1, <1>2, <1>3 DEF Pending

(* The directory of the current frame. *)
LEMMA TopFacts ==
    ASSUME NEW s, NEW fs, StackOn(s, fs), s # <<>>
    PROVE  /\ s \in Seq(Frames) /\ Head(s) = s[1] /\ s[1] \in Frames /\ 1 \in 1..Len(s)
           /\ s[1].dir \in Ids /\ s[1].rest \in SUBSET Names
           /\ IsDir(fs, s[1].dir) /\ \A n \in s[1].rest : Slot(fs, s[1].dir, n) # None
<1>1. s \in Seq(Frames) /\ Len(s) \in Nat /\ Len(s) > 0 /\ Head(s) = s[1]
  BY PopFacts DEF StackOn
<1>2. 1 \in 1..Len(s)
  BY <1>1
<1>3. QED BY <1>1, <1>2, FrameFacts DEF StackOn, FrameOn

(* The recursion stays along entries when one was looked at. *)
LEMMA AheadStack ==
    ASSUME NEW s, NEW fs, StackOn(s, fs), s # <<>>, NEW n
    PROVE  StackOn(Ahead(s, n), fs) /\ Ahead(s, n) # <<>> /\ Ahead(s, n)[1].dir = s[1].dir
           /\ n \notin Ahead(s, n)[1].rest
<1>1. s \in Seq(Frames) /\ Len(s) \in Nat /\ Len(s) > 0 /\ 1 \in 1..Len(s) /\ Len(s) \in 1..Len(s)
  BY FrameFacts DEF StackOn
<1>2. /\ Ahead(s, n) \in Seq(Frames) /\ Len(Ahead(s, n)) = Len(s)
      /\ \A i \in 1..Len(s) : /\ Ahead(s, n)[i].dir = s[i].dir
                              /\ Ahead(s, n)[i].rest = IF i = 1 THEN s[i].rest \ {n} ELSE s[i].rest
  BY <1>1, AheadFacts
<1>3. ASSUME NEW i \in 1..Len(s) PROVE FrameOn(Ahead(s, n)[i], fs)
  <2>1. FrameOn(s[i], fs)
    BY DEF StackOn
  <2>2. Ahead(s, n)[i].dir = s[i].dir /\ Ahead(s, n)[i].rest \subseteq s[i].rest
    BY <1>2
  <2>3. QED BY <2>1, <2>2 DEF FrameOn
<1>4. StackOn(Ahead(s, n), fs)
  BY <1>1, <1>2, <1>3 DEF StackOn
<1>5. QED BY <1>1, <1>2, <1>4, FrameFacts

(* The entry n of the current directory changes, and no frame waits for it. *)
LEMMA StackPut ==
    ASSUME NEW s, NEW fs, NEW gs, StackOn(s, fs), s # <<>>, NEW n, n \notin s[1].rest,
           \A x \in Ids : IsDir(fs, x) => IsDir(gs, x),
           \A d \in Ids, m \in Names : (d # s[1].dir \/ m # n) => Slot(gs, d, m) = Slot(fs, d, m)
    PROVE  StackOn(s, gs)
<1>1. s \in Seq(Frames) /\ Len(s) \in Nat /\ 1 \in 1..Len(s)
  BY TopFacts, FrameFacts
<1>2. \A i \in 1..Len(s) : s[i].dir \in Ids /\ s[i].rest \in SUBSET Names /\ (s[i].dir = s[1].dir => i = 1)
  BY <1>1, FrameFacts DEF StackOn
<1>3. ASSUME NEW i \in 1..Len(s) PROVE FrameOn(s[i], gs)
  BY <1>2 DEF StackOn, FrameOn
<1>4. ASSUME NEW i \in 1..Len(s), NEW j \in 1..Len(s), j = i + 1
      PROVE  <<s[j].dir, s[i].dir>> \in Arcs(gs)
  <2>1. <<s[j].dir, s[i].dir>> \in Arcs(fs) /\ j # 1
    BY <1>4 DEF StackOn
  <2>2. s[j].dir # s[1].dir /\ s[j].dir \in Ids
    BY <1>2, <2>1
  <2>3. PICK m \in Names : Slot(fs, s[j].dir, m) # None /\ Slot(fs, s[j].dir, m).id = s[i].dir
    BY <2>1 DEF Arcs
  <2>4. Slot(gs, s[j].dir, m) = Slot(fs, s[j].dir, m)
    BY <2>2
  <2>5. QED BY <1>2, <2>3, <2>4 DEF Arcs
<1>5. QED BY <1>3, <1>4 DEF StackOn

(* Nothing that the recursion holds changes. *)
LEMMA StackKept ==
    ASSUME NEW s, NEW fs, NEW gs, StackOn(s, fs), \A i \in 1..Len(s) : gs[s[i].dir] = fs[s[i].dir]
    PROVE  StackOn(s, gs)
<1>1. \A i \in 1..Len(s) : s[i].dir \in Ids
  BY FrameFacts DEF StackOn
<1>2. ASSUME NEW i \in 1..Len(s) PROVE FrameOn(s[i], gs)
  BY DEF StackOn, FrameOn, IsDir, Slot, Exists
<1>3. ASSUME NEW i \in 1..Len(s), NEW j \in 1..Len(s), j = i + 1
      PROVE  <<s[j].dir, s[i].dir>> \in Arcs(gs)
  <2>1. <<s[j].dir, s[i].dir>> \in Arcs(fs)
    BY <1>3 DEF StackOn
  <2>2. PICK m \in Names : Slot(fs, s[j].dir, m) # None /\ Slot(fs, s[j].dir, m).id = s[i].dir
    BY <2>1 DEF Arcs
  <2>3. Slot(gs, s[j].dir, m) = Slot(fs, s[j].dir, m)
    BY DEF Slot, Exists
  <2>4. QED BY <1>1, <2>2, <2>3 DEF Arcs
<1>4. QED BY <1>2, <1>3 DEF StackOn

(* The recursion enters a directory. *)
LEMMA StackPush ==
    ASSUME NEW s, NEW fs, StackOn(s, fs), s # <<>>, NEW f \in Frames, FrameOn(f, fs),
           \A i \in 1..Len(s) : s[i].dir # f.dir, <<s[1].dir, f.dir>> \in Arcs(fs)
    PROVE  StackOn(<<f>> \o s, fs) /\ <<f>> \o s # <<>>
<1> DEFINE t == <<f>> \o s
<1>1. s \in Seq(Frames) /\ Len(s) \in Nat /\ Len(s) > 0
  BY FrameFacts DEF StackOn
<1>2. /\ t \in Seq(Frames) /\ Len(t) = Len(s) + 1 /\ t[1] = f
      /\ \A i \in 2..(Len(s) + 1) : t[i] = s[i - 1]
  BY <1>1, PushFacts
<1> HIDE DEF t
<1>3. \A i \in 1..Len(t) : i = 1 \/ (i \in 2..(Len(s) + 1) /\ i - 1 \in 1..Len(s) /\ t[i] = s[i - 1])
  BY <1>1, <1>2
<1>4. ASSUME NEW i \in 1..Len(t) PROVE FrameOn(t[i], fs)
  BY <1>2, <1>3 DEF StackOn
<1>5. ASSUME NEW i \in 1..Len(t), NEW j \in 1..Len(t), t[i].dir = t[j].dir PROVE i = j
  <2>1. CASE i = 1 /\ j # 1
    BY <1>2, <1>3, <1>5, <2>1
  <2>2. CASE j = 1 /\ i # 1
    BY <1>2, <1>3, <1>5, <2>2
  <2>3. CASE i # 1 /\ j # 1
    <3>1. i - 1 \in 1..Len(s) /\ j - 1 \in 1..Len(s) /\ s[i - 1].dir = s[j - 1].dir
      BY <1>3, <1>5, <2>3
    <3>2. i - 1 = j - 1
      BY <3>1 DEF StackOn
    <3>3. QED BY <1>1, <1>2, <3>2
  <2>4. QED BY <2>1, <2>2, <2>3
<1>6. t[Len(t)].dir = Root
  <2>1. t[Len(t)] = s[Len(s)]
    BY <1>1, <1>2
  <2>2. QED BY <1>1, <2>1 DEF StackOn
<1>7. ASSUME NEW i \in 1..Len(t), NEW j \in 1..Len(t), j = i + 1
      PROVE  <<t[j].dir, t[i].dir>> \in Arcs(fs)
  <2>1. CASE i = 1
    <3>1. t[j] = s[1] /\ t[i] = f
      BY <1>1, <1>2, <1>7, <2>1
    <3>2. QED BY <3>1
  <2>2. CASE i # 1
    <3>1. /\ i - 1 \in 1..Len(s) /\ j - 1 \in 1..Len(s) /\ j - 1 = (i - 1) + 1
          /\ t[i] = s[i - 1] /\ t[j] = s[j - 1]
      BY <1>1, <1>2, <1>3, <1>7, <2>2
    <3>2. <<s[j - 1].dir, s[i - 1].dir>> \in Arcs(fs)
      BY <3>1 DEF StackOn
    <3>3. QED BY <3>1, <3>2
  <2>3. QED BY <2>1, <2>2
<1>8. StackOn(t, fs)
  BY <1>2, <1>4, <1>5, <1>6, <1>7 DEF StackOn
<1>9. QED BY <1>1, <1>2, <1>8, FrameFacts DEF t

(* A call returns. *)
LEMMA StackPop ==
    ASSUME NEW s, NEW fs, StackOn(s, fs), Len(s) > 1
    PROVE  StackOn(Tail(s), fs) /\ Tail(s) # <<>> /\ \A i \in 1..Len(Tail(s)) : Tail(s)[i].dir # s[1].dir
<1> DEFINE t == Tail(s)
<1>1. s \in Seq(Frames) /\ Len(s) \in Nat
  BY FrameFacts DEF StackOn
<1>2. s # <<>>
  BY <1>1
<1>3. t \in Seq(Frames) /\ Len(t) = Len(s) - 1 /\ \A i \in 1..(Len(s) - 1) : t[i] = s[i + 1]
  BY <1>1, <1>2, PopFacts
<1> HIDE DEF t
<1>4. \A i \in 1..Len(t) : i + 1 \in 1..Len(s) /\ t[i] = s[i + 1] /\ i + 1 # 1
  BY <1>1, <1>3
<1>5. \A i \in 1..Len(t) : FrameOn(t[i], fs)
  BY <1>4 DEF StackOn
<1>6. ASSUME NEW i \in 1..Len(t), NEW j \in 1..Len(t), t[i].dir = t[j].dir PROVE i = j
  <2>1. i + 1 = j + 1
    BY <1>4, <1>6 DEF StackOn
  <2>2. QED BY <1>1, <1>3, <2>1
<1>7. t[Len(t)].dir = Root
  <2>1. t[Len(t)] = s[Len(s)]
    BY <1>1, <1>3
  <2>2. QED BY <2>1 DEF StackOn
<1>8. ASSUME NEW i \in 1..Len(t), NEW j \in 1..Len(t), j = i + 1
      PROVE  <<t[j].dir, t[i].dir>> \in Arcs(fs)
  <2>1. i + 1 \in 1..Len(s) /\ j + 1 \in 1..Len(s) /\ j + 1 = (i + 1) + 1
    BY <1>4, <1>8
  <2>2. <<s[j + 1].dir, s[i + 1].dir>> \in Arcs(fs)
    BY <2>1 DEF StackOn
  <2>3. QED BY <1>4, <2>2
<1>9. StackOn(t, fs)
  BY <1>3, <1>5, <1>6, <1>7, <1>8 DEF StackOn
<1>10. \A i \in 1..Len(t) : t[i].dir # s[1].dir
  <2>1. \A i, j \in 1..Len(s) : s[i].dir = s[j].dir => i = j
    BY DEF StackOn
  <2>2. 1 \in 1..Len(s)
    BY <1>1
  <2>3. ASSUME NEW i \in 1..Len(t) PROVE t[i].dir # s[1].dir
    <3>1. i + 1 \in 1..Len(s) /\ t[i] = s[i + 1] /\ i + 1 # 1
      BY <1>4, <1>1
    <3>2. QED BY <2>1, <2>2, <3>1
  <2>4. QED BY <2>3
<1>11. t # <<>>
  BY <1>1, <1>3
<1>12. QED BY <1>9, <1>10, <1>11 DEF t

(* A walk begins at the root. *)
LEMMA StackRoot ==
    ASSUME NEW fs, Volume(fs), NEW f, f = [dir |-> Root, rest |-> {n \in Names : fs[Root].ents[n] # None}]
    PROVE  /\ StackOn(<<f>>, fs) /\ <<f>> # <<>> /\ f.dir = Root
           /\ \A d, m : Pending(<<f>>, d, m) <=> d = Root /\ m \in f.rest
           /\ \A n \in Names : n \in f.rest <=> Slot(fs, Root, n) # None
           /\ \A S : StackIn(<<f>>, S) <=> Root \in S
<1>1. IsDir(fs, Root) /\ Root \in Ids
  BY FSAssumption DEF Volume
<1>2. f \in Frames /\ f.dir = Root
  BY <1>1 DEF Frames
<1>3. \A n \in Names : n \in f.rest <=> Slot(fs, Root, n) # None
  BY <1>1 DEF Slot, IsDir
<1>4. f.rest \in SUBSET Names
  BY <1>2 DEF Frames
<1>5. FrameOn(f, fs)
  BY <1>1, <1>2, <1>3, <1>4 DEF FrameOn
<1> DEFINE s == <<f>>
<1>6. s \in Seq(Frames) /\ Len(s) = 1 /\ s[1] = f /\ \A i \in 1..Len(s) : i = 1
  BY <1>2
<1> HIDE DEF s
<1>7. StackOn(s, fs) /\ s # <<>>
  <2>1. \A i, j \in 1..Len(s) : i = j
    BY <1>6
  <2>2. \A i, j \in 1..Len(s) : j # i + 1
    BY <1>6
  <2>3. \A i \in 1..Len(s) : FrameOn(s[i], fs)
    BY <1>5, <1>6
  <2>4. QED BY <1>2, <1>6, <2>1, <2>2, <2>3, FrameFacts DEF StackOn
<1>8. 1 \in 1..Len(s)
  BY <1>6
<1>9. \A d, m : Pending(s, d, m) <=> d = Root /\ m \in f.rest
  BY <1>2, <1>6, <1>8 DEF Pending
<1>10. \A S : StackIn(s, S) <=> Root \in S
  BY <1>2, <1>6, <1>8 DEF StackIn
<1>11. QED BY <1>2, <1>3, <1>7, <1>9, <1>10 DEF s

-----------------------------------------------------------------------------
(* The steps of fix on the files *)

(* hs is fs with e as the entry n of d. *)
PutTo(fs, hs, d, n, e) ==
    /\ hs \in Files
    /\ \A x \in Ids : /\ Exists(hs, x) <=> Exists(fs, x)
                      /\ Exists(fs, x) => hs[x].type = fs[x].type /\ hs[x].nlink = fs[x].nlink
                      /\ x # d => hs[x] = fs[x]
    /\ Slot(hs, d, n) = e
    /\ OtherSlots(fs, hs, d, n)

(* hs is fs without x, or with another link count in it. *)
ClosedTo(fs, hs, x) ==
    /\ hs \in Files
    /\ \A y \in Ids : y # x => hs[y] = fs[y]
    /\ Exists(fs, x)
    /\ Exists(hs, x) => hs[x].type = fs[x].type /\ hs[x].ents = fs[x].ents

(* An entry is put or removed. *)
LEMMA PutFacts ==
    ASSUME NEW fs \in Files, NEW d \in Ids, Exists(fs, d), NEW n \in Names,
           NEW e \in FixEntry \cup {None}
    PROVE  PutTo(fs, [fs EXCEPT ![d] = WithEntry(@, n, e)], d, n, e)
<1> DEFINE node == WithEntry(fs[d], n, e)
           hs == [fs EXCEPT ![d] = WithEntry(@, n, e)]
<1>1. fs[d] \in FixNode /\ fs[d].ents \in [Names -> FixEntry \cup {None}]
  BY DEF Exists, Files, FixNode
<1>2. node \in FixNode
  BY <1>1 DEF WithEntry, FixNode
<1>3. /\ node # NoFile /\ node.type = fs[d].type /\ node.nlink = fs[d].nlink
      /\ node.ents[n] = e /\ \A m \in Names : m # n => node.ents[m] = fs[d].ents[m]
  BY <1>1, <1>2, FixAssumption DEF WithEntry, FixNode
<1>4. hs[d] = node /\ \A x \in Ids : x # d => hs[x] = fs[x]
  BY DEF Files
<1>5. hs \in Files
  BY <1>2 DEF Files
<1> HIDE DEF node, hs
<1>6. \A x \in Ids : /\ Exists(hs, x) <=> Exists(fs, x)
                     /\ Exists(fs, x) => hs[x].type = fs[x].type /\ hs[x].nlink = fs[x].nlink
  BY <1>3, <1>4 DEF Exists
<1>7. Slot(hs, d, n) = e /\ OtherSlots(fs, hs, d, n)
  BY <1>3, <1>4, <1>6 DEF Slot, OtherSlots, Exists
<1>8. PutTo(fs, hs, d, n, e)
  BY <1>4, <1>5, <1>6, <1>7 DEF PutTo
<1>9. QED BY <1>8 DEF hs

(* What closing leaves of the entries. *)
LEMMA ClosedSlot ==
    ASSUME NEW fs \in Files, NEW hs, NEW x \in Ids, ClosedTo(fs, hs, x)
    PROVE  /\ \A y \in Ids : Exists(hs, y) => Exists(fs, y) /\ hs[y].type = fs[y].type
           /\ \A y \in Ids, n \in Names : Slot(hs, y, n) = IF Exists(hs, y) THEN Slot(fs, y, n) ELSE None
           /\ \A y \in Ids, n \in Names : Leads(hs, y, n) => Leads(fs, y, n) /\ Slot(hs, y, n) = Slot(fs, y, n)
<1>1. \A y \in Ids : Exists(hs, y) => Exists(fs, y) /\ hs[y].type = fs[y].type /\ hs[y].ents = fs[y].ents
  BY DEF ClosedTo, Exists
<1>2. ASSUME NEW y \in Ids, NEW n \in Names
      PROVE  Slot(hs, y, n) = IF Exists(hs, y) THEN Slot(fs, y, n) ELSE None
  BY <1>1 DEF Slot
<1>3. ASSUME NEW y \in Ids, NEW n \in Names, Leads(hs, y, n)
      PROVE  Leads(fs, y, n) /\ Slot(hs, y, n) = Slot(fs, y, n)
  <2>1. hs \in Files /\ Slot(hs, y, n) # None
    BY <1>3 DEF Leads, ClosedTo
  <2>2. Slot(hs, y, n).id \in Ids
    BY <2>1, SlotWide
  <2>3. QED BY <1>1, <1>2, <1>3, <2>1, <2>2 DEF Leads
<1>4. QED BY <1>1, <1>2, <1>3

(* A directory or no directory: what has no type DIR has no entry. *)
LEMMA HolderIsDir ==
    ASSUME NEW fs, Volume(fs), NEW d \in Ids, NEW n \in Names, Slot(fs, d, n) # None
    PROVE  IsDir(fs, d)
BY SlotWide, NoSlots DEF Volume, OnlyDirsHold, IsDir

(* fix puts an entry of the right type, or removes one that leads nowhere, in a
   directory that it holds.                                                  *)
LEMMA PutCore ==
    ASSUME NEW fs, NEW gs, NEW H, Core(fs, gs, H), NEW d \in Ids, d \in H, IsDir(fs, d),
           NEW n \in Names, NEW e, NEW hs, PutTo(fs, hs, d, n, e),
           Leads(gs, d, n) => e # None /\ e.id = Slot(gs, d, n).id,
           e # None => /\ e.id \in Ids \ {Root}
                       /\ Exists(fs, e.id) => fs[e.id].type \in {e.type, "UNKNOWN"},
           (d = Root /\ e # None) => \A x \in Ids : n = hexify(x) => e.id = x
    PROVE  Core(hs, gs, H)
<1>1. Volume(fs) /\ Volume(gs) /\ fs \in Files /\ hs \in Files
  BY DEF Core, Volume, PutTo
<1>2. IsDir(hs, Root)
  BY <1>1, FSAssumption DEF Volume, IsDir, PutTo
<1>3. OnlyDirsHold(hs)
  BY <1>1 DEF Volume, IsDir, PutTo, OnlyDirsHold
<1>4. \A c \in Ids, m \in Names : (c = d /\ m = n /\ Slot(hs, c, m) = e) \/ Slot(hs, c, m) = Slot(fs, c, m)
  BY DEF PutTo, OtherSlots
<1>5. HexNamed(hs)
  BY <1>1, <1>4, FSAssumption, FixAssumption DEF HexNamed, Volume
<1>6. RootUnnamed(hs)
  BY <1>1, <1>4 DEF RootUnnamed, Volume
<1>7. TypesAgree(hs)
  <2> SUFFICES ASSUME NEW c \in Ids, NEW m \in Names, Leads(hs, c, m)
               PROVE  hs[Slot(hs, c, m).id].type \in {Slot(hs, c, m).type, "UNKNOWN"}
    BY DEF TypesAgree
  <2>1. Slot(hs, c, m) # None /\ Exists(hs, Slot(hs, c, m).id) /\ Slot(hs, c, m).id \in Ids
    BY <1>1, SlotWide DEF Leads
  <2>2. Exists(fs, Slot(hs, c, m).id) /\ hs[Slot(hs, c, m).id].type = fs[Slot(hs, c, m).id].type
    BY <2>1 DEF PutTo
  <2>3. CASE Slot(hs, c, m) = e
    BY <2>1, <2>2, <2>3
  <2>4. CASE Slot(hs, c, m) = Slot(fs, c, m)
    BY <1>1, <2>1, <2>2, <2>4 DEF Volume, TypesAgree, Leads
  <2>5. QED BY <1>4, <2>3, <2>4
<1>8. ASSUME NEW x \in Ids PROVE Mirrored(hs, gs, H, x)
  <2>1. Mirrored(fs, gs, H, x)
    BY DEF Core
  <2>2. ASSUME NEW m \in Names, Leads(gs, x, m)
        PROVE  Slot(hs, x, m) # None /\ Slot(hs, x, m).id = Slot(gs, x, m).id
    <3>1. CASE x = d /\ m = n
      BY <2>2, <3>1 DEF PutTo
    <3>2. CASE ~(x = d /\ m = n)
      BY <1>4, <2>1, <2>2, <3>2 DEF Mirrored
    <3>3. QED BY <3>1, <3>2
  <2>3. /\ Exists(hs, x) <=> Exists(fs, x)
        /\ Exists(fs, x) => hs[x].type = fs[x].type /\ hs[x].nlink = fs[x].nlink
        /\ x \notin H => hs[x] = fs[x]
    BY DEF PutTo
  <2>4. QED BY <2>1, <2>2, <2>3 DEF Mirrored
<1>9. QED BY <1>1, <1>2, <1>3, <1>5, <1>6, <1>7, <1>8 DEF Core, Volume

(* Closing keeps a volume a volume. *)
LEMMA CloseVolume ==
    ASSUME NEW fs, Volume(fs), NEW hs, NEW x \in Ids, x # Root, ClosedTo(fs, hs, x)
    PROVE  Volume(hs)
<1>1. fs \in Files /\ hs \in Files /\ Root \in Ids
  BY FSAssumption DEF Volume, ClosedTo
<1>2. IsDir(hs, Root)
  BY <1>1 DEF Volume, ClosedTo, IsDir, Exists
<1>3. OnlyDirsHold(hs)
  BY <1>1 DEF Volume, ClosedTo, OnlyDirsHold, Exists
<1>4. /\ \A y \in Ids, n \in Names : Slot(hs, y, n) # None => Slot(hs, y, n) = Slot(fs, y, n)
      /\ \A y \in Ids, n \in Names : Leads(hs, y, n) => Leads(fs, y, n) /\ Slot(hs, y, n) = Slot(fs, y, n)
      /\ \A y \in Ids : Exists(hs, y) => hs[y].type = fs[y].type
  BY <1>1, ClosedSlot
<1>5. HexNamed(hs) /\ RootUnnamed(hs)
  BY <1>1, <1>4, FixAssumption DEF HexNamed, RootUnnamed, Volume
<1>6. TypesAgree(hs)
  <2> SUFFICES ASSUME NEW c \in Ids, NEW m \in Names, Leads(hs, c, m)
               PROVE  hs[Slot(hs, c, m).id].type \in {Slot(hs, c, m).type, "UNKNOWN"}
    BY DEF TypesAgree
  <2>1. Exists(hs, Slot(hs, c, m).id) /\ Slot(hs, c, m).id \in Ids
    BY <1>1, SlotWide DEF Leads
  <2>2. QED BY <1>4, <2>1 DEF Volume, TypesAgree
<1>7. QED BY <1>1, <1>2, <1>3, <1>5, <1>6 DEF Volume

(* fix closes a file that it does not hold: what is left of it is on disk. *)
LEMMA CloseCore ==
    ASSUME NEW fs, NEW gs, NEW H, Core(fs, gs, H), NEW x \in Ids, x \notin H, x # Root,
           NEW hs, ClosedTo(fs, hs, x)
    PROVE  /\ Core(hs, [gs EXCEPT ![x] = hs[x]], H)
           /\ ClosedTo(gs, [gs EXCEPT ![x] = hs[x]], x)
<1> DEFINE ks == [gs EXCEPT ![x] = hs[x]]
<1>1. Volume(fs) /\ Volume(gs) /\ fs \in Files /\ gs \in Files /\ hs \in Files
  BY DEF Core, Volume, ClosedTo
<1>2. ks \in Files /\ ks[x] = hs[x] /\ \A y \in Ids : y # x => ks[y] = gs[y]
  BY <1>1 DEF Files
<1> HIDE DEF ks
<1>3. fs[x] = gs[x]
  BY DEF Core, Mirrored
<1>4. ClosedTo(gs, ks, x)
  BY <1>2, <1>3 DEF ClosedTo, Exists
<1>5. Volume(hs) /\ Volume(ks)
  BY <1>1, <1>4, CloseVolume
<1>6. ASSUME NEW y \in Ids PROVE Mirrored(hs, ks, H, y)
  <2>1. CASE y = x
    <3>1. hs[y] = ks[y]
      BY <1>2, <2>1
    <3>2. QED BY <3>1 DEF Mirrored, Leads, Slot, Exists
  <2>2. CASE y # x
    <3>1. hs[y] = fs[y] /\ ks[y] = gs[y] /\ Mirrored(fs, gs, H, y)
      BY <1>2, <2>2 DEF ClosedTo, Core
    <3>2. ASSUME NEW n \in Names, Leads(ks, y, n)
          PROVE  Slot(hs, y, n) # None /\ Slot(hs, y, n).id = Slot(ks, y, n).id
      <4>1. Leads(gs, y, n) /\ Slot(ks, y, n) = Slot(gs, y, n)
        BY <1>1, <1>4, <3>2, ClosedSlot
      <4>2. Slot(hs, y, n) = Slot(fs, y, n)
        BY <3>1 DEF Slot, Exists
      <4>3. QED BY <3>1, <4>1, <4>2 DEF Mirrored
    <3>3. QED BY <3>1, <3>2 DEF Mirrored, Exists
  <2>3. QED BY <2>1, <2>2
<1>7. Core(hs, ks, H)
  BY <1>5, <1>6 DEF Core
<1>8. QED BY <1>4, <1>7 DEF ks

(* The guard of a directory closes: it is written, and held no longer. *)
LEMMA WriteCore ==
    ASSUME NEW fs, NEW gs, NEW H, Core(fs, gs, H), NEW d \in Ids
    PROVE  Core(fs, [gs EXCEPT ![d] = fs[d]], H \ {d})
<1> DEFINE ks == [gs EXCEPT ![d] = fs[d]]
<1>1. Volume(fs) /\ Volume(gs) /\ fs \in Files /\ gs \in Files
  BY DEF Core, Volume
<1>2. ks \in Files /\ ks[d] = fs[d] /\ \A y \in Ids : y # d => ks[y] = gs[y]
  BY <1>1 DEF Files
<1> HIDE DEF ks
<1>3. \A x \in Ids : /\ Exists(ks, x) <=> Exists(fs, x)
                     /\ Exists(fs, x) => ks[x].nlink = fs[x].nlink /\ ks[x].type = fs[x].type
                     /\ Exists(ks, x) <=> Exists(gs, x)
                     /\ Exists(gs, x) => ks[x].type = gs[x].type
  BY <1>2 DEF Core, Mirrored, Exists
<1>4. \A y \in Ids, n \in Names : Slot(ks, y, n) = IF y = d THEN Slot(fs, y, n) ELSE Slot(gs, y, n)
  BY <1>2 DEF Slot, Exists
<1>5. IsDir(ks, Root) /\ OnlyDirsHold(ks)
  BY <1>1, <1>2, FSAssumption DEF Volume, IsDir, OnlyDirsHold, Exists
<1>6. HexNamed(ks) /\ RootUnnamed(ks)
  BY <1>1, <1>4, FSAssumption, FixAssumption DEF HexNamed, RootUnnamed, Volume
<1>7. TypesAgree(ks)
  <2> SUFFICES ASSUME NEW c \in Ids, NEW m \in Names, Leads(ks, c, m)
               PROVE  ks[Slot(ks, c, m).id].type \in {Slot(ks, c, m).type, "UNKNOWN"}
    BY DEF TypesAgree
  <2>1. Slot(ks, c, m) # None /\ Exists(ks, Slot(ks, c, m).id) /\ Slot(ks, c, m).id \in Ids
    BY <1>2, SlotWide DEF Leads
  <2>2. CASE c = d
    BY <1>1, <1>3, <1>4, <2>1, <2>2 DEF Volume, TypesAgree, Leads
  <2>3. CASE c # d
    BY <1>1, <1>3, <1>4, <2>1, <2>3 DEF Volume, TypesAgree, Leads
  <2>4. QED BY <2>2, <2>3
<1>8. ASSUME NEW x \in Ids PROVE Mirrored(fs, ks, H \ {d}, x)
  <2>1. Mirrored(fs, gs, H, x)
    BY DEF Core
  <2>2. x \notin H \ {d} => fs[x] = ks[x]
    BY <1>2, <2>1 DEF Mirrored
  <2>3. ASSUME NEW n \in Names, Leads(ks, x, n)
        PROVE  Slot(fs, x, n) # None /\ Slot(fs, x, n).id = Slot(ks, x, n).id
    <3>1. CASE x = d
      BY <1>4, <2>3, <3>1 DEF Leads
    <3>2. CASE x # d
      <4>1. Slot(ks, x, n) = Slot(gs, x, n) /\ Slot(ks, x, n).id \in Ids
        BY <1>2, <1>4, <2>3, <3>2, SlotWide DEF Leads
      <4>2. Leads(gs, x, n)
        BY <1>3, <2>3, <4>1 DEF Leads
      <4>3. QED BY <2>1, <4>1, <4>2 DEF Mirrored
    <3>3. QED BY <3>1, <3>2
  <2>4. QED BY <1>3, <2>2, <2>3 DEF Mirrored
<1>9. Core(fs, ks, H \ {d})
  BY <1>1, <1>2, <1>5, <1>6, <1>7, <1>8 DEF Core, Volume
<1>10. QED BY <1>9 DEF ks

(* fix holds one more directory. *)
LEMMA HoldCore ==
    ASSUME NEW fs, NEW gs, NEW H, NEW I, Core(fs, gs, H), H \subseteq I
    PROVE  Core(fs, gs, I)
BY DEF Core, Mirrored

(* When fix holds nothing, or only a directory that is as it was written, memory
   and disk agree.                                                           *)
LEMMA NothingHeld ==
    ASSUME NEW fs, NEW gs, Core(fs, gs, {})
    PROVE  gs = fs
<1>1. fs \in Files /\ gs \in Files /\ \A x \in Ids : fs[x] = gs[x]
  BY DEF Core, Volume, Mirrored
<1>2. QED BY <1>1 DEF Files

-----------------------------------------------------------------------------
(* What fix does to the arcs *)

(* A file system whose entries another has too has no arc that the other lacks. *)
LEMMA NoNewArcs ==
    ASSUME NEW fs, NEW hs,
           \A x \in Ids, n \in Names : Slot(hs, x, n) # None =>
              Slot(fs, x, n) # None /\ Slot(fs, x, n).id = Slot(hs, x, n).id
    PROVE  Arcs(hs) \subseteq Arcs(fs)
<1> SUFFICES ASSUME NEW a \in Arcs(hs) PROVE a \in Arcs(fs)
  OBVIOUS
<1>1. a \in Ids \X Ids /\ a[1] \in Ids
  BY DEF Arcs
<1>2. PICK n \in Names : Slot(hs, a[1], n) # None /\ Slot(hs, a[1], n).id = a[2]
  BY DEF Arcs
<1>3. Slot(fs, a[1], n) # None /\ Slot(fs, a[1], n).id = a[2]
  BY <1>1, <1>2
<1>4. QED BY <1>1, <1>3 DEF Arcs

(* Repairing the type of an entry, or removing it, adds no arc. *)
LEMMA PutArcs ==
    ASSUME NEW fs, NEW hs, NEW d, NEW n, NEW e, PutTo(fs, hs, d, n, e),
           e # None => Slot(fs, d, n) # None /\ Slot(fs, d, n).id = e.id
    PROVE  Arcs(hs) \subseteq Arcs(fs)
BY NoNewArcs DEF PutTo, OtherSlots

(* Closing a file adds no arc. *)
LEMMA CloseArcs ==
    ASSUME NEW fs \in Files, NEW hs, NEW x \in Ids, ClosedTo(fs, hs, x)
    PROVE  Arcs(hs) \subseteq Arcs(fs)
BY NoNewArcs, ClosedSlot

(* Writing a directory adds no arc but those that memory has. *)
LEMMA WriteArcs ==
    ASSUME NEW fs, NEW gs \in Files, NEW d \in Ids
    PROVE  Arcs([gs EXCEPT ![d] = fs[d]]) \subseteq Arcs(fs) \cup Arcs(gs)
<1> DEFINE ks == [gs EXCEPT ![d] = fs[d]]
<1>1. \A y \in Ids, n \in Names : Slot(ks, y, n) = IF y = d THEN Slot(fs, y, n) ELSE Slot(gs, y, n)
  BY DEF Slot, Exists, Files
<1> HIDE DEF ks
<1>2. ASSUME NEW a \in Arcs(ks) PROVE a \in Arcs(fs) \cup Arcs(gs)
  <2>1. a \in Ids \X Ids /\ a[1] \in Ids
    BY DEF Arcs
  <2>2. PICK n \in Names : Slot(ks, a[1], n) # None /\ Slot(ks, a[1], n).id = a[2]
    BY DEF Arcs
  <2>3. QED BY <1>1, <2>1, <2>2 DEF Arcs
<1>3. QED BY <1>2 DEF ks

(* No entry leads to the root, so that a new entry of the root closes no cycle. *)
LEMMA RecoverArcs ==
    ASSUME NEW fs, NEW gs, Volume(fs), Volume(gs), Acyclic(Arcs(fs) \cup Arcs(gs)),
           NEW hs, NEW n, NEW e, PutTo(fs, hs, Root, n, e), e # None, e.id \in Ids \ {Root}
    PROVE  Acyclic(Arcs(hs) \cup Arcs(gs))
<1> DEFINE A == Arcs(fs) \cup Arcs(gs)
           T == Ids \ {Root}
<1>1. \A a \in A : a[2] \in T
  BY DEF Volume, RootUnnamed, Arcs
<1>2. Acyclic(A \cup {<<Root, e.id>>})
  <2>1. T \in SUBSET Ids /\ e.id \in T /\ Root \notin T
    OBVIOUS
  <2>2. QED BY <1>1, <2>1, OneArcMore
<1>3. ASSUME NEW a \in Arcs(hs) PROVE a \in A \cup {<<Root, e.id>>}
  <2>1. a \in Ids \X Ids /\ a[1] \in Ids /\ a = <<a[1], a[2]>>
    BY DEF Arcs
  <2>2. PICK m \in Names : Slot(hs, a[1], m) # None /\ Slot(hs, a[1], m).id = a[2]
    BY DEF Arcs
  <2>3. CASE a[1] = Root /\ m = n
    BY <2>1, <2>2, <2>3 DEF PutTo
  <2>4. CASE ~(a[1] = Root /\ m = n)
    <3>1. Slot(hs, a[1], m) = Slot(fs, a[1], m)
      BY <2>1, <2>4 DEF PutTo, OtherSlots
    <3>2. a \in Arcs(fs)
      BY <2>1, <2>2, <3>1 DEF Arcs
    <3>3. QED BY <3>2
  <2>5. QED BY <2>3, <2>4
<1>4. Arcs(hs) \cup Arcs(gs) \subseteq A \cup {<<Root, e.id>>}
  BY <1>3
<1>5. QED BY <1>2, <1>4, FewerArcs

-----------------------------------------------------------------------------
(* What fix holds *)
HeldBy(s) == {Root} \cup {s[i].dir : i \in 1..Len(s)}

(* What the recursion holds, of any stack. *)
LEMMA HeldIs == Held = HeldBy(stack)
BY DEF Held, HeldBy

(* The directories of the recursion are held. *)
LEMMA HeldFacts ==
    ASSUME NEW s, NEW fs, StackOn(s, fs)
    PROVE  /\ HeldBy(s) \subseteq Ids
           /\ s # <<>> => s[1].dir \in HeldBy(s)
           /\ \A i \in 1..Len(s) : s[i].dir \in HeldBy(s)
<1>1. s \in Seq(Frames) /\ Len(s) \in Nat /\ \A i \in 1..Len(s) : s[i].dir \in Ids
  BY FrameFacts DEF StackOn
<1>2. \A i \in 1..Len(s) : s[i].dir \in HeldBy(s)
  BY DEF HeldBy
<1>3. s # <<>> => 1 \in 1..Len(s)
  BY TopFacts
<1>4. HeldBy(s) \subseteq Ids
  BY <1>1, FSAssumption DEF HeldBy
<1>5. QED BY <1>2, <1>3, <1>4

(* Looking at an entry changes nothing of what is held. *)
LEMMA HeldAhead ==
    ASSUME NEW s, NEW fs, StackOn(s, fs), s # <<>>, NEW n
    PROVE  HeldBy(Ahead(s, n)) = HeldBy(s)
<1>1. s \in Seq(Frames)
  BY DEF StackOn
<1>2. Len(Ahead(s, n)) = Len(s) /\ \A i \in 1..Len(s) : Ahead(s, n)[i].dir = s[i].dir
  BY <1>1, AheadDirs
<1>3. QED BY <1>2 DEF HeldBy

(* A directory that is entered is held. *)
LEMMA HeldPush ==
    ASSUME NEW s \in Seq(Frames), NEW f \in Frames
    PROVE  HeldBy(<<f>> \o s) = HeldBy(s) \cup {f.dir}
<1> DEFINE t == <<f>> \o s
<1>1. /\ Len(t) = Len(s) + 1 /\ t[1] = f /\ Len(s) \in Nat
      /\ \A i \in 2..(Len(s) + 1) : t[i] = s[i - 1]
      /\ \A i \in 1..Len(s) : t[i + 1] = s[i]
  BY PushFacts
<1> HIDE DEF t
<1>2. \A i \in 1..Len(t) : i = 1 \/ (i - 1 \in 1..Len(s) /\ t[i] = s[i - 1])
  BY <1>1
<1>3. 1 \in 1..Len(t) /\ \A i \in 1..Len(s) : i + 1 \in 1..Len(t)
  BY <1>1
<1>4. ASSUME NEW x \in HeldBy(t) PROVE x \in HeldBy(s) \cup {f.dir}
  <2>1. CASE x = Root
    BY <2>1 DEF HeldBy
  <2>2. CASE x # Root
    <3>1. PICK i \in 1..Len(t) : x = t[i].dir
      BY <2>2 DEF HeldBy
    <3>2. QED BY <1>1, <1>2, <3>1 DEF HeldBy
  <2>3. QED BY <2>1, <2>2
<1>5. ASSUME NEW x \in HeldBy(s) \cup {f.dir} PROVE x \in HeldBy(t)
  <2>1. CASE x = Root
    BY <2>1 DEF HeldBy
  <2>2. CASE x = f.dir
    BY <1>1, <1>3, <2>2 DEF HeldBy
  <2>3. CASE x # Root /\ x # f.dir
    <3>1. PICK i \in 1..Len(s) : x = s[i].dir
      BY <1>5, <2>3 DEF HeldBy
    <3>2. x = t[i + 1].dir /\ i + 1 \in 1..Len(t)
      BY <1>1, <1>3, <3>1
    <3>3. QED BY <3>2 DEF HeldBy
  <2>4. QED BY <2>1, <2>2, <2>3
<1>6. QED BY <1>4, <1>5 DEF t

(* A directory whose call returned is not held any more. *)
LEMMA HeldPop ==
    ASSUME NEW s, NEW fs, StackOn(s, fs), Len(s) > 1
    PROVE  HeldBy(Tail(s)) = HeldBy(s) \ {s[1].dir} /\ s[1].dir # Root /\ s # <<>>
<1> DEFINE t == Tail(s)
<1>1. s \in Seq(Frames) /\ Len(s) \in Nat
  BY FrameFacts DEF StackOn
<1>2. s # <<>>
  BY <1>1
<1>3. Len(t) = Len(s) - 1 /\ \A i \in 1..(Len(s) - 1) : t[i] = s[i + 1]
  BY <1>1, <1>2, PopFacts
<1>4. \A i \in 1..Len(t) : t[i].dir # s[1].dir
  BY StackPop
<1> HIDE DEF t
<1>5. \A i \in 1..Len(t) : i + 1 \in 1..Len(s) /\ t[i] = s[i + 1]
  BY <1>1, <1>3
<1>6. \A i \in 1..Len(s) : i = 1 \/ (i - 1 \in 1..Len(t) /\ t[i - 1] = s[i])
  BY <1>1, <1>3
<1>7. s[1].dir # Root
  <2> DEFINE k == Len(s)
  <2>1. k \in Nat /\ k > 1
    BY <1>1
  <2>2. s[k].dir = Root
    BY <2>1 DEF StackOn
  <2> HIDE DEF k
  <2>3. k \in 1..k /\ 1 \in 1..k /\ k # 1
    BY <2>1
  <2>4. QED BY <2>2, <2>3 DEF StackOn, k
<1>8. ASSUME NEW x \in HeldBy(t) PROVE x \in HeldBy(s) \ {s[1].dir}
  <2>1. CASE x = Root
    BY <1>7, <2>1 DEF HeldBy
  <2>2. CASE x # Root
    <3>1. PICK i \in 1..Len(t) : x = t[i].dir
      BY <2>2 DEF HeldBy
    <3>2. QED BY <1>4, <1>5, <3>1 DEF HeldBy
  <2>3. QED BY <2>1, <2>2
<1>9. ASSUME NEW x \in HeldBy(s) \ {s[1].dir} PROVE x \in HeldBy(t)
  <2>1. CASE x = Root
    BY <2>1 DEF HeldBy
  <2>2. CASE x # Root
    <3>1. PICK i \in 1..Len(s) : x = s[i].dir
      BY <1>9, <2>2 DEF HeldBy
    <3>2. i # 1
      BY <1>9, <3>1
    <3>3. i - 1 \in 1..Len(t) /\ t[i - 1].dir = x
      BY <1>6, <3>1, <3>2
    <3>4. QED BY <3>3 DEF HeldBy
  <2>3. QED BY <2>1, <2>2
<1>10. QED BY <1>2, <1>7, <1>8, <1>9 DEF t

(* In the outermost call the root alone is held, and at its end nothing is pending. *)
LEMMA HeldLast ==
    ASSUME NEW s, NEW fs, StackOn(s, fs), Len(s) = 1
    PROVE  HeldBy(s) = {Root} /\ s # <<>> /\ s[1].dir = Root
           /\ (s[1].rest = {} => \A d, m : ~Pending(s, d, m))
<1>1. \A i \in 1..Len(s) : i = 1 /\ s[i].dir = Root
  BY DEF StackOn
<1>2. s \in Seq(Frames) /\ 1 \in 1..Len(s)
  BY DEF StackOn
<1>3. Len(s) > 0
  OBVIOUS
<1>4. s # <<>>
  BY <1>2, <1>3, FrameFacts
<1>5. QED BY <1>1, <1>2, <1>4 DEF HeldBy, Pending

(* Between the walks the root alone is held. *)
LEMMA HeldNone == HeldBy(<<>>) = {Root} /\ \A fs : StackOn(<<>>, fs)
<1>1. \A i \in 1..Len(<<>>) : FALSE
  OBVIOUS
<1>2. HeldBy(<<>>) = {Root}
  BY <1>1 DEF HeldBy
<1>3. <<>> \in Seq(Frames) /\ ~(Len(<<>>) > 0)
  OBVIOUS
<1>4. QED BY <1>1, <1>2, <1>3 DEF StackOn

(* The recursion is at a directory that is not held already. *)
LEMMA NotHeld ==
    ASSUME NEW s, NEW x, x \notin HeldBy(s)
    PROVE  x # Root /\ \A i \in 1..Len(s) : s[i].dir # x
BY DEF HeldBy

-----------------------------------------------------------------------------
(* Paths of files with links *)

(* A step that writes directories as fix holds them, and leaves the links of
   what paths of such files lead to, keeps those paths.                      *)
LEMMA KeepsPaths ==
    ASSUME NEW fs, NEW gs, NEW H, Core(fs, gs, H), NEW hs \in Files,
           \A a \in LinkedPaths(gs) :
              \/ hs[a] = gs[a]
              \/ HasLinks(hs, a) /\ hs[a].ents = fs[a].ents
    PROVE  LinkedPaths(gs) \subseteq LinkedPaths(hs)
<1>1. gs \in Files /\ fs \in Files
  BY DEF Core, Volume
<1>2. ASSUME NEW a \in LinkedPaths(gs)
      PROVE  /\ HasLinks(hs, a)
             /\ \A n \in Names : Leads(gs, a, n) =>
                   Slot(hs, a, n) # None /\ Slot(hs, a, n).id = Slot(gs, a, n).id
  <2>1. a \in Ids /\ Exists(LinkedFiles(gs), a)
    BY DEF LinkedPaths, ReachableIn
  <2>2. HasLinks(gs, a)
    BY <1>1, <2>1, LinkedFacts DEF HasLinks
  <2>3. CASE hs[a] = gs[a]
    <3>1. HasLinks(hs, a) /\ \A n \in Names : Slot(hs, a, n) = Slot(gs, a, n)
      BY <2>2, <2>3 DEF HasLinks, Slot, Exists
    <3>2. QED BY <3>1 DEF Leads
  <2>4. CASE HasLinks(hs, a) /\ hs[a].ents = fs[a].ents
    <3>1. Mirrored(fs, gs, H, a)
      BY <2>1 DEF Core
    <3>2. Exists(fs, a) /\ Exists(hs, a)
      BY <2>2, <2>4, <3>1 DEF Mirrored, HasLinks
    <3>3. \A n \in Names : Slot(hs, a, n) = Slot(fs, a, n)
      BY <2>4, <3>2 DEF Slot
    <3>4. QED BY <2>4, <3>1, <3>3 DEF Mirrored
  <2>5. QED BY <2>3, <2>4
<1>3. QED BY <1>1, <1>2, KeepsLinked

(* A path of files with links leads to files with links. *)
LEMMA PathsHaveLinks ==
    ASSUME NEW gs \in Files, NEW a \in LinkedPaths(gs)
    PROVE  a \in Ids /\ HasLinks(gs, a)
<1>1. a \in Ids /\ Exists(LinkedFiles(gs), a)
  BY DEF LinkedPaths, ReachableIn
<1>2. QED BY <1>1, LinkedFacts DEF HasLinks

(* A file that is closed has its entries, and links unless it had none. *)
LEMMA CloseKeeps ==
    ASSUME NEW fs, NEW gs, NEW H, Core(fs, gs, H), NEW x \in Ids, x \notin H, x # Root,
           NEW hs, ClosedTo(fs, hs, x), x \in LinkedPaths(gs) => HasLinks(hs, x)
    PROVE  LinkedPaths(gs) \subseteq LinkedPaths([gs EXCEPT ![x] = hs[x]])
<1> DEFINE ks == [gs EXCEPT ![x] = hs[x]]
<1>1. gs \in Files /\ fs[x] = gs[x]
  BY DEF Core, Volume, Mirrored
<1>2. ClosedTo(gs, ks, x)
  BY CloseCore
<1>3. ks[x] = hs[x] /\ \A y \in Ids : y # x => ks[y] = gs[y]
  BY <1>1 DEF Files
<1>4. ks \in Files
  BY <1>2 DEF ClosedTo
<1> HIDE DEF ks
<1>5. ASSUME NEW a \in LinkedPaths(gs)
      PROVE  ks[a] = gs[a] \/ (HasLinks(ks, a) /\ ks[a].ents = fs[a].ents)
  <2>1. a \in Ids
    BY <1>1, PathsHaveLinks
  <2>2. CASE a = x
    BY <1>1, <1>2, <1>3, <2>2 DEF ClosedTo, HasLinks, Exists
  <2>3. CASE a # x
    BY <1>3, <2>1, <2>3
  <2>4. QED BY <2>2, <2>3
<1>6. LinkedPaths(gs) \subseteq LinkedPaths(ks)
  BY <1>4, <1>5, KeepsPaths
<1>7. QED BY <1>6 DEF ks

(* A directory that is written as fix holds it has the links it had. *)
LEMMA WriteKeeps ==
    ASSUME NEW fs, NEW gs, NEW H, Core(fs, gs, H), NEW d \in Ids
    PROVE  LinkedPaths(gs) \subseteq LinkedPaths([gs EXCEPT ![d] = fs[d]])
<1> DEFINE ks == [gs EXCEPT ![d] = fs[d]]
<1>1. gs \in Files /\ fs \in Files
  BY DEF Core, Volume
<1>2. ks[d] = fs[d] /\ ks \in Files /\ \A y \in Ids : y # d => ks[y] = gs[y]
  BY <1>1 DEF Files
<1> HIDE DEF ks
<1>3. ASSUME NEW a \in LinkedPaths(gs)
      PROVE  ks[a] = gs[a] \/ (HasLinks(ks, a) /\ ks[a].ents = fs[a].ents)
  <2>1. a \in Ids /\ HasLinks(gs, a)
    BY <1>1, PathsHaveLinks
  <2>2. Mirrored(fs, gs, H, a)
    BY <2>1 DEF Core
  <2>3. QED BY <1>2, <2>1, <2>2 DEF HasLinks, Mirrored, Exists
<1>4. LinkedPaths(gs) \subseteq LinkedPaths(ks)
  BY <1>2, <1>3, KeepsPaths
<1>5. QED BY <1>4 DEF ks

(* An exception leaves fix while it closes x: everything is written. *)
LEMMA AbortKeeps ==
    ASSUME NEW fs, NEW gs, NEW H, Core(fs, gs, H), NEW x \in Ids,
           NEW hs, ClosedTo(fs, hs, x), x \in LinkedPaths(gs) => HasLinks(hs, x)
    PROVE  LinkedPaths(gs) \subseteq LinkedPaths(hs)
<1>1. gs \in Files /\ fs \in Files /\ hs \in Files
  BY DEF Core, Volume, ClosedTo
<1>2. ASSUME NEW a \in LinkedPaths(gs)
      PROVE  HasLinks(hs, a) /\ hs[a].ents = fs[a].ents
  <2>1. a \in Ids /\ HasLinks(gs, a)
    BY <1>1, PathsHaveLinks
  <2>2. Mirrored(fs, gs, H, a)
    BY <2>1 DEF Core
  <2>3. CASE a = x
    BY <1>2, <2>3 DEF ClosedTo, HasLinks
  <2>4. CASE a # x
    BY <2>1, <2>2, <2>4 DEF ClosedTo, HasLinks, Mirrored, Exists
  <2>5. QED BY <2>3, <2>4
<1>3. QED BY <1>1, <1>2, KeepsPaths

(* With fewer files there are fewer paths. *)
LEMMA FewerPaths ==
    ASSUME NEW fs \in Files, NEW gs \in Files, \A x \in Ids : fs[x] = gs[x] \/ fs[x] = NoFile
    PROVE  LinkedPaths(fs) \subseteq LinkedPaths(gs)
<1>1. ASSUME NEW a \in LinkedPaths(fs)
      PROVE  /\ HasLinks(gs, a)
             /\ \A n \in Names : Leads(fs, a, n) =>
                   Slot(gs, a, n) # None /\ Slot(gs, a, n).id = Slot(fs, a, n).id
  <2>1. a \in Ids /\ HasLinks(fs, a)
    BY PathsHaveLinks
  <2>2. gs[a] = fs[a]
    BY <2>1 DEF HasLinks, Exists
  <2>3. \A n \in Names : Slot(gs, a, n) = Slot(fs, a, n)
    BY <2>2 DEF Slot, Exists
  <2>4. QED BY <2>1, <2>2, <2>3 DEF HasLinks, Exists, Leads
<1>2. QED BY <1>1, KeepsLinked

(* Without the files of W. *)
LEMMA WithoutFacts ==
    ASSUME NEW fs \in Files, NEW W
    PROVE  /\ Without(fs, W) \in Files
           /\ \A x \in Ids : Without(fs, W)[x] = IF x \in W THEN NoFile ELSE fs[x]
           /\ \A x \in Ids : Exists(Without(fs, W), x) <=> x \notin W /\ Exists(fs, x)
<1>1. \A x \in Ids : Without(fs, W)[x] = IF x \in W THEN NoFile ELSE fs[x]
  BY DEF Without
<1>2. Without(fs, W) \in Files
  BY DEF Without, Files
<1>3. QED BY <1>1, <1>2 DEF Exists

(* What fix finds when a kill left the files of W refused, the root not among
   them: a volume with fewer entries.                                        *)
LEMMA WithoutVolume ==
    ASSUME NEW fs, Volume(fs), NEW W, Root \notin W
    PROVE  Volume(Without(fs, W)) /\ Arcs(Without(fs, W)) \subseteq Arcs(fs) /\ Without(fs, W)[Root] = fs[Root]
<1> DEFINE hs == Without(fs, W)
<1>1. fs \in Files /\ Root \in Ids
  BY FSAssumption DEF Volume
<1>2. /\ hs \in Files
      /\ \A x \in Ids : hs[x] = IF x \in W THEN NoFile ELSE fs[x]
      /\ \A x \in Ids : Exists(hs, x) <=> x \notin W /\ Exists(fs, x)
  BY <1>1, WithoutFacts
<1> HIDE DEF hs
<1>3. hs[Root] = fs[Root]
  BY <1>1, <1>2
<1>4. IsDir(hs, Root)
  BY <1>3 DEF Volume, IsDir, Exists
<1>5. OnlyDirsHold(hs)
  BY <1>2 DEF Volume, OnlyDirsHold
<1>6. ASSUME NEW d \in Ids, NEW n \in Names, Slot(hs, d, n) # None PROVE Slot(hs, d, n) = Slot(fs, d, n)
  BY <1>2, <1>6 DEF Slot
<1>7. HexNamed(hs) /\ RootUnnamed(hs)
  <2>1. HexNamed(hs)
    BY <1>1, <1>6, FixAssumption DEF Volume, HexNamed
  <2>2. RootUnnamed(hs)
    BY <1>6 DEF Volume, RootUnnamed
  <2>3. QED BY <2>1, <2>2
<1>8. TypesAgree(hs)
  <2> SUFFICES ASSUME NEW d \in Ids, NEW n \in Names, Leads(hs, d, n)
               PROVE  hs[Slot(hs, d, n).id].type \in {Slot(hs, d, n).type, "UNKNOWN"}
    BY DEF TypesAgree
  <2>1. Slot(hs, d, n) = Slot(fs, d, n) /\ Slot(hs, d, n).id \in Ids /\ Exists(hs, Slot(hs, d, n).id)
    BY <1>2, <1>6, SlotWide DEF Leads
  <2>2. Leads(fs, d, n) /\ hs[Slot(hs, d, n).id] = fs[Slot(fs, d, n).id]
    BY <1>2, <2>1 DEF Leads, Exists
  <2>3. QED BY <2>1, <2>2 DEF Volume, TypesAgree
<1>9. Arcs(hs) \subseteq Arcs(fs)
  BY <1>6 DEF Arcs
<1>10. QED BY <1>2, <1>3, <1>4, <1>5, <1>7, <1>8, <1>9 DEF Volume, hs

(* Paths around the files of V stay in a step that leaves those of W, among them,
   refused and otherwise keeps links and entries.                            *)
LEMMA KeepsAround ==
    ASSUME NEW gs \in Files, NEW hs \in Files, NEW V, NEW W \in SUBSET V,
           \A a \in LinkedPaths(gs) : HasLinks(hs, a) /\ hs[a].ents = gs[a].ents
    PROVE  LinkedPaths(Without(gs, V)) \subseteq LinkedPaths(Without(hs, W))
<1> DEFINE G == Without(gs, V)
           K == Without(hs, W)
<1>1. /\ G \in Files /\ K \in Files
      /\ \A x \in Ids : G[x] = IF x \in V THEN NoFile ELSE gs[x]
      /\ \A x \in Ids : K[x] = IF x \in W THEN NoFile ELSE hs[x]
  BY WithoutFacts
<1> HIDE DEF G, K
<1>2. LinkedPaths(G) \subseteq LinkedPaths(gs)
  BY <1>1, FewerPaths
<1>3. ASSUME NEW a \in LinkedPaths(G)
      PROVE  /\ HasLinks(K, a)
             /\ \A n \in Names : Leads(G, a, n) =>
                   Slot(K, a, n) # None /\ Slot(K, a, n).id = Slot(G, a, n).id
  <2>1. a \in Ids /\ HasLinks(G, a) /\ a \in LinkedPaths(gs)
    BY <1>1, <1>2, PathsHaveLinks
  <2>2. a \notin V /\ G[a] = gs[a] /\ K[a] = hs[a]
    BY <1>1, <2>1 DEF HasLinks, Exists
  <2>3. HasLinks(K, a) /\ K[a].ents = G[a].ents
    BY <2>1, <2>2 DEF HasLinks, Exists
  <2>4. \A n \in Names : Slot(K, a, n) = Slot(G, a, n)
    BY <2>1, <2>3 DEF Slot, HasLinks
  <2>5. QED BY <2>3, <2>4 DEF Leads
<1>4. QED BY <1>1, <1>3, KeepsLinked DEF G, K

-----------------------------------------------------------------------------
(* fix_helper *)

(* Looking at an entry leaves the directories of the recursion as they are. *)
LEMMA AheadIn ==
    ASSUME NEW s \in Seq(Frames), s # <<>>, NEW n, NEW S
    PROVE  StackIn(Ahead(s, n), S) <=> StackIn(s, S)
<1>1. Len(Ahead(s, n)) = Len(s) /\ \A i \in 1..Len(s) : Ahead(s, n)[i].dir = s[i].dir
  BY AheadDirs
<1>2. QED BY <1>1 DEF StackIn

(* The directories of the recursion after one was entered. *)
LEMMA PushIn ==
    ASSUME NEW s \in Seq(Frames), NEW f \in Frames, NEW S
    PROVE  StackIn(<<f>> \o s, S) <=> f.dir \in S /\ StackIn(s, S)
<1> DEFINE t == <<f>> \o s
<1>1. /\ Len(t) = Len(s) + 1 /\ t[1] = f /\ Len(s) \in Nat
      /\ \A i \in 2..(Len(s) + 1) : t[i] = s[i - 1]
      /\ \A i \in 1..Len(s) : t[i + 1] = s[i]
  BY PushFacts
<1> HIDE DEF t
<1>2. \A i \in 1..Len(t) : i = 1 \/ (i - 1 \in 1..Len(s) /\ t[i] = s[i - 1])
  BY <1>1
<1>3. 1 \in 1..Len(t) /\ \A i \in 1..Len(s) : i + 1 \in 1..Len(t) /\ t[i + 1] = s[i]
  BY <1>1
<1>4. ASSUME StackIn(t, S) PROVE f.dir \in S /\ StackIn(s, S)
  BY <1>1, <1>3, <1>4 DEF StackIn
<1>5. ASSUME f.dir \in S, StackIn(s, S) PROVE StackIn(t, S)
  BY <1>1, <1>2, <1>5 DEF StackIn
<1>6. QED BY <1>4, <1>5 DEF t

(* An entry that cannot be opened is removed, or the user declines. *)
LEMMA HelperUnopened ==
    ASSUME NEW fs \in Files, NEW s, StackOn(s, fs), s # <<>>, NEW n \in s[1].rest,
           NEW A \in SUBSET Ids, NEW g, NEW dec, NEW dec2, NEW hs,
           ~Exists(fs, Slot(fs, s[1].dir, n).id),
           HelperOn(fs, s, A, g, dec),
           \/ PutTo(fs, hs, s[1].dir, n, None) /\ dec2 = dec
           \/ hs = fs /\ dec2 = TRUE
    PROVE  HelperOn(hs, Ahead(s, n), A, g, dec2)
<1> DEFINE d == s[1].dir
           t == Ahead(s, n)
<1>1. d \in Ids /\ n \in Names /\ s \in Seq(Frames) /\ Slot(fs, d, n) # None /\ ~Leads(fs, d, n)
  BY TopFacts DEF Leads
<1>2. /\ \A x \in Ids : /\ Exists(hs, x) <=> Exists(fs, x)
                        /\ Exists(fs, x) => hs[x].type = fs[x].type /\ hs[x].nlink = fs[x].nlink
      /\ OtherSlots(fs, hs, d, n)
      /\ Slot(hs, d, n) = None \/ (Slot(hs, d, n) = Slot(fs, d, n) /\ dec2)
      /\ ~dec2 => ~dec
  BY DEF PutTo, OtherSlots
<1>3. StackIn(t, A)
  BY <1>1, AheadIn DEF HelperOn
<1>4. ASSUME NEW c \in A, NEW m \in Names, Slot(hs, c, m) # None
      PROVE  \/ Pending(t, c, m)
             \/ /\ Exists(hs, Slot(hs, c, m).id) => Slot(hs, c, m).id \in A
                /\ ~dec2 => Right(hs, g, Slot(hs, c, m))
  <2>1. CASE c = d /\ m = n
    <3>1. Slot(hs, c, m) = Slot(fs, d, n) /\ dec2
      BY <1>2, <1>4, <2>1
    <3>2. Slot(fs, d, n).id \in Ids
      BY <1>1, SlotWide
    <3>3. ~Exists(hs, Slot(hs, c, m).id)
      BY <1>2, <3>1, <3>2
    <3>4. QED BY <3>1, <3>3
  <2>2. CASE c # d \/ m # n
    <3>1. Slot(hs, c, m) = Slot(fs, c, m) /\ Slot(fs, c, m).id \in Ids
      BY <1>2, <1>4, <2>2, SlotWide DEF OtherSlots
    <3>2. CASE Pending(s, c, m)
      BY <1>1, <2>2, <3>2, AheadPending
    <3>3. CASE ~Pending(s, c, m)
      <4>1. /\ Exists(fs, Slot(fs, c, m).id) => Slot(fs, c, m).id \in A
            /\ ~dec => Right(fs, g, Slot(fs, c, m))
        BY <1>4, <3>1, <3>3 DEF HelperOn
      <4>2. ~dec2 => Right(hs, g, Slot(hs, c, m))
        BY <1>2, <3>1, <4>1 DEF Right
      <4>3. QED BY <1>2, <3>1, <4>1, <4>2
    <3>4. QED BY <3>2, <3>3
  <2>3. QED BY <2>1, <2>2
<1>5. LinkedWithin(hs, A)
  BY <1>2 DEF LinkedWithin, HelperOn
<1>6. ReachedWithin(hs, A)
  <2> SUFFICES ASSUME NEW S \in SUBSET Ids, Root \in S, Shut(hs, A, S), NEW x \in A, Exists(hs, x)
               PROVE  x \in S
    BY DEF ReachedWithin
  <2>1. Shut(fs, A, S)
    <3> SUFFICES ASSUME NEW c \in Ids, NEW m \in Names, c \in A, c \in S, Leads(fs, c, m)
                 PROVE  Slot(fs, c, m).id \in S
      BY DEF Shut
    <3>1. c # d \/ m # n
      BY <1>1
    <3>2. Slot(hs, c, m) = Slot(fs, c, m) /\ Slot(fs, c, m).id \in Ids
      BY <1>2, <3>1, SlotWide DEF OtherSlots, Leads
    <3>3. Leads(hs, c, m)
      BY <1>2, <3>2 DEF Leads
    <3>4. QED BY <3>2, <3>3 DEF Shut
  <2>2. QED BY <1>2, <2>1 DEF HelperOn, ReachedWithin
<1>7. QED BY <1>3, <1>4, <1>5, <1>6 DEF HelperOn

(* A walk opens the entry n of its directory; ms is what fix_type left, with the
   entry e2, and hs what closing the file left of that.                      *)
Looked(fs, s, n, e, ms, e2, hs) ==
    /\ StackOn(s, fs) /\ s # <<>> /\ n \in s[1].rest
    /\ e = Slot(fs, s[1].dir, n) /\ Exists(fs, e.id) /\ e.id \notin HeldBy(s)
    /\ PutTo(fs, ms, s[1].dir, n, e2) /\ e2 # None /\ e2.id = e.id
    /\ ClosedTo(ms, hs, e.id)

(* The frame of a directory that is entered, and the recursion t after it was. *)
FrameOf(fs, x) == [dir |-> x, rest |-> {k \in Names : fs[x].ents[k] # None}]

Entered(fs, s, n, x, dir, t) ==
    \/ dir /\ t = <<FrameOf(fs, x)>> \o Ahead(s, n)
    \/ ~dir /\ t = Ahead(s, n)

(* The frame of a directory lists its entries. *)
LEMMA FrameOfFacts ==
    ASSUME NEW fs, NEW x \in Ids, Exists(fs, x)
    PROVE  /\ FrameOf(fs, x) \in Frames /\ FrameOf(fs, x).dir = x
           /\ \A k \in Names : Slot(fs, x, k) # None <=> k \in FrameOf(fs, x).rest
BY DEF FrameOf, Frames, Slot

(* fix_helper on an entry that can be opened. *)
LEMMA HelperOpened ==
    ASSUME NEW fs, NEW ms, Volume(fs), Volume(ms), NEW s, NEW n, NEW e, NEW e2, NEW hs,
           Looked(fs, s, n, e, ms, e2, hs),
           NEW t, Entered(fs, s, n, e.id, fs[e.id].type = "DIR", t),
           fs[e.id].type = "DIR" => Exists(hs, e.id),
           Exists(hs, e.id) => hs[e.id].nlink > 0,
           NEW A \in SUBSET Ids, NEW g, NEW dec, HelperOn(fs, s, A, g, dec),
           NEW dec2, ~dec2 => ~dec /\ e2.type = fs[e.id].type,
           NEW g2, g \subseteq g2, ~Exists(hs, e.id) => e.id \in g2
    PROVE  HelperOn(hs, t, A \cup {e.id}, g2, dec2)
<1> USE DEF Looked
<1> DEFINE d == s[1].dir
           x == e.id
           B == A \cup {x}
           fr == FrameOf(fs, e.id)
<1>1. s[1].dir \in HeldBy(s) /\ e.id # s[1].dir /\ e.id # Root
  BY HeldFacts, NotHeld
<1>2. /\ fs \in Files /\ ms \in Files /\ hs \in Files
      /\ d \in Ids /\ n \in Names /\ s \in Seq(Frames) /\ Slot(fs, d, n) # None /\ e # None
  BY TopFacts DEF Volume, ClosedTo
<1>3. x \in Ids
  BY <1>2, SlotWide
<1>4. fr \in Frames /\ fr.dir = x /\ \A k \in Names : Slot(fs, x, k) # None <=> k \in fr.rest
  BY <1>3, FrameOfFacts
<1> HIDE DEF fr
<1>5. \/ fs[x].type = "DIR" /\ t = <<fr>> \o Ahead(s, n)
      \/ fs[x].type # "DIR" /\ t = Ahead(s, n)
  BY DEF Entered, fr
<1>6. Ahead(s, n) \in Seq(Frames) /\ StackIn(Ahead(s, n), A)
  BY <1>2, AheadFacts, AheadIn DEF HelperOn
<1>7. d \in A
  BY TopFacts DEF HelperOn, StackIn
<1>8. \A y \in Ids : /\ Exists(ms, y) <=> Exists(fs, y)
                     /\ Exists(fs, y) => ms[y].type = fs[y].type /\ ms[y].nlink = fs[y].nlink
  BY DEF PutTo
<1>9. /\ \A y \in Ids : Exists(hs, y) => Exists(fs, y) /\ hs[y].type = fs[y].type
      /\ \A y \in Ids : y # x /\ Exists(fs, y) => Exists(hs, y) /\ hs[y].nlink = fs[y].nlink
  <2>1. \A y \in Ids : Exists(hs, y) => Exists(ms, y) /\ hs[y].type = ms[y].type
    BY <1>2, <1>3, ClosedSlot
  <2>2. \A y \in Ids : y # x => hs[y] = ms[y]
    BY DEF ClosedTo
  <2>3. \A y \in Ids : y # x => (Exists(hs, y) <=> Exists(ms, y))
    BY <2>2 DEF Exists
  <2>4. QED BY <1>8, <2>1, <2>2, <2>3
<1>10. ~Exists(hs, x) => \A m \in Names : Slot(fs, x, m) = None
  <2>1. ~Exists(hs, x) => fs[x].type # "DIR"
    OBVIOUS
  <2>2. QED BY <1>2, <1>3, <2>1, HolderIsDir DEF IsDir
<1>11. \A c \in Ids, m \in Names : Slot(hs, c, m) # None =>
         \/ c = d /\ m = n /\ Slot(hs, c, m) = e2
         \/ (c # d \/ m # n) /\ Slot(hs, c, m) = Slot(fs, c, m)
  BY <1>2, <1>3, ClosedSlot DEF PutTo, OtherSlots
<1>12. ASSUME NEW c \in Ids, NEW m \in Names, Slot(fs, c, m) # None
      PROVE  Slot(hs, c, m) # None /\ Slot(hs, c, m).id = Slot(fs, c, m).id
  <2>1. Slot(ms, c, m) # None /\ Slot(ms, c, m).id = Slot(fs, c, m).id
    BY <1>12 DEF PutTo, OtherSlots
  <2>2. Exists(hs, c)
    <3>1. Exists(fs, c)
      BY <1>2, <1>12, SlotWide
    <3>2. QED BY <1>9, <1>10, <1>12, <3>1
  <2>3. Slot(hs, c, m) = Slot(ms, c, m)
    BY <1>2, <1>3, <2>2, ClosedSlot
  <2>4. QED BY <2>1, <2>3
<1>13. Slot(hs, d, n) = e2
  BY <1>2, <1>11, <1>12
<1>14. StackIn(t, B)
  <2>1. CASE t = Ahead(s, n)
    BY <1>6, <2>1 DEF StackIn
  <2>2. CASE t # Ahead(s, n)
    <3>1. t = <<fr>> \o Ahead(s, n)
      BY <1>5, <2>2
    <3>2. StackIn(Ahead(s, n), B)
      BY <1>6 DEF StackIn
    <3>3. QED BY <1>4, <1>6, <3>1, <3>2, PushIn
  <2>3. QED BY <2>1, <2>2
<1>15. ASSUME NEW c, NEW m, Pending(Ahead(s, n), c, m) PROVE Pending(t, c, m)
  <2>1. CASE t = Ahead(s, n)
    BY <1>15, <2>1
  <2>2. CASE t # Ahead(s, n)
    <3>1. t = <<fr>> \o Ahead(s, n)
      BY <1>5, <2>2
    <3>2. QED BY <1>4, <1>6, <1>15, <3>1, PushPending
  <2>3. QED BY <2>1, <2>2
<1>16. ASSUME NEW c \in B, NEW m \in Names, Slot(hs, c, m) # None
       PROVE  \/ Pending(t, c, m)
              \/ /\ Exists(hs, Slot(hs, c, m).id) => Slot(hs, c, m).id \in B
                 /\ ~dec2 => Right(hs, g2, Slot(hs, c, m))
  <2>0. c \in Ids
    BY <1>3
  <2>1. CASE c = x
    <3>1. Slot(fs, x, m) # None
      BY <1>1, <1>3, <1>11, <1>16, <2>1
    <3>2. fs[x].type = "DIR"
      BY <1>3, <3>1, HolderIsDir DEF IsDir
    <3>3. t = <<fr>> \o Ahead(s, n)
      BY <1>5, <3>2
    <3>4. QED BY <1>4, <1>6, <1>16, <2>1, <3>1, <3>3, PushPending
  <2>2. CASE c = d /\ m = n
    <3>1. Slot(hs, c, m) = e2
      BY <1>13, <2>2
    <3>2. ~dec2 => Right(hs, g2, e2)
      BY <1>3, <1>9 DEF Right
    <3>3. QED BY <3>1, <3>2
  <2>3. CASE c # x /\ (c # d \/ m # n)
    <3>1. c \in A /\ Slot(hs, c, m) = Slot(fs, c, m) /\ Slot(fs, c, m).id \in Ids
      BY <1>2, <1>11, <1>16, <2>0, <2>3, SlotWide
    <3>2. CASE Pending(s, c, m)
      BY <1>2, <1>15, <2>3, <3>2, AheadPending
    <3>3. CASE ~Pending(s, c, m)
      <4>1. /\ Exists(fs, Slot(fs, c, m).id) => Slot(fs, c, m).id \in A
            /\ ~dec => Right(fs, g, Slot(fs, c, m))
        BY <1>16, <3>1, <3>3 DEF HelperOn
      <4>2. ~dec2 => Right(hs, g2, Slot(hs, c, m))
        BY <1>9, <3>1, <4>1 DEF Right
      <4>3. QED BY <1>9, <3>1, <4>1, <4>2
    <3>4. QED BY <3>2, <3>3
  <2>4. QED BY <2>1, <2>2, <2>3
<1>17. LinkedWithin(hs, B)
  BY <1>9 DEF LinkedWithin, HelperOn
<1>18. ReachedWithin(hs, B)
  <2> SUFFICES ASSUME NEW S \in SUBSET Ids, Root \in S, Shut(hs, B, S), NEW y \in B, Exists(hs, y)
               PROVE  y \in S
    BY DEF ReachedWithin
  <2> DEFINE T == S \cup (IF Exists(hs, x) THEN {} ELSE {x})
  <2>1. Shut(fs, A, T)
    <3> SUFFICES ASSUME NEW c \in Ids, NEW m \in Names, c \in A, c \in T, Leads(fs, c, m)
                 PROVE  Slot(fs, c, m).id \in T
      BY DEF Shut
    <3>1. Slot(fs, c, m) # None /\ Slot(fs, c, m).id \in Ids /\ Exists(fs, Slot(fs, c, m).id)
      BY <1>2, SlotWide DEF Leads
    <3>2. c \in S
      BY <1>10, <3>1
    <3>3. Slot(hs, c, m) # None /\ Slot(hs, c, m).id = Slot(fs, c, m).id
      BY <1>12, <3>1
    <3>4. CASE Exists(hs, Slot(fs, c, m).id)
      BY <3>2, <3>3, <3>4 DEF Shut, Leads
    <3>5. CASE ~Exists(hs, Slot(fs, c, m).id)
      BY <1>9, <3>1, <3>5
    <3>6. QED BY <3>4, <3>5
  <2>2. T \in SUBSET Ids /\ Root \in T
    BY <1>3
  <2>3. \A z \in A : Exists(fs, z) => z \in T
    BY <2>1, <2>2 DEF HelperOn, ReachedWithin
  <2>4. CASE y # x
    BY <1>9, <2>3, <2>4
  <2>5. CASE y = x
    <3>1. d \in S
      BY <1>2, <1>7, <2>3, <2>5, SlotWide
    <3>2. Leads(hs, d, n)
      BY <1>13, <2>5 DEF Leads
    <3>3. QED BY <1>2, <1>7, <1>13, <2>5, <3>1, <3>2 DEF Shut
  <2>6. QED BY <2>4, <2>5
<1>19. QED BY <1>14, <1>16, <1>17, <1>18 DEF HelperOn

(* fix_helper returns from a directory. *)
LEMMA HelperReturned ==
    ASSUME NEW fs, NEW s, StackOn(s, fs), Len(s) > 1, s[1].rest = {},
           NEW A \in SUBSET Ids, NEW g, NEW dec, HelperOn(fs, s, A, g, dec)
    PROVE  HelperOn(fs, Tail(s), A, g, dec)
<1>1. s \in Seq(Frames) /\ s # <<>> /\ Len(s) \in Nat
  BY HeldPop, FrameFacts DEF StackOn
<1>2. \A c, m : Pending(Tail(s), c, m) <=> Pending(s, c, m)
  BY <1>1, PopPending
<1>3. StackIn(Tail(s), A)
  <2>1. Len(Tail(s)) = Len(s) - 1 /\ \A i \in 1..(Len(s) - 1) : Tail(s)[i] = s[i + 1]
    BY <1>1, PopFacts
  <2>2. \A i \in 1..Len(Tail(s)) : i + 1 \in 1..Len(s) /\ Tail(s)[i] = s[i + 1]
    BY <1>1, <2>1
  <2>3. QED BY <2>2 DEF StackIn, HelperOn
<1>4. QED BY <1>2, <1>3 DEF HelperOn

(* fix_helper returns from the root: what it met is all that paths on disk lead to. *)
LEMMA HelperDone ==
    ASSUME NEW fs, NEW gs, NEW H, Core(fs, gs, H), NEW s, NEW A \in SUBSET Ids, NEW g, NEW dec,
           HelperOn(fs, s, A, g, dec), \A c, m : ~Pending(s, c, m),
           NEW U, U = {x \in Ids : Exists(gs, x)}
    PROVE  OrphansOn(fs, gs, A, U, g, dec)
<1>1. \A x \in Ids : Exists(fs, x) <=> Exists(gs, x)
  BY DEF Core, Mirrored
<1>2. gs \in Files /\ fs \in Files
  BY DEF Core, Volume
<1>3. ASSUME NEW d \in A, NEW n \in Names, Leads(gs, d, n) PROVE Slot(gs, d, n).id \in A
  <2>1. Slot(gs, d, n).id \in Ids /\ Exists(gs, Slot(gs, d, n).id)
    BY <1>2, <1>3, SlotWide DEF Leads
  <2>2. Slot(fs, d, n) # None /\ Slot(fs, d, n).id = Slot(gs, d, n).id
    BY <1>3 DEF Core, Mirrored
  <2>3. QED BY <1>1, <2>1, <2>2 DEF HelperOn
<1>4. RightEntries(fs, A, g, dec)
  BY DEF RightEntries, HelperOn
<1>5. \A x \in Ids : Exists(fs, x) => x \in U
  BY <1>1
<1>6. \A x \in U : Exists(fs, x)
  BY <1>1
<1>7. QED BY <1>3, <1>4, <1>5, <1>6 DEF OrphansOn, HelperOn

-----------------------------------------------------------------------------
(* The orphans *)

(* What a path on disk leads to was met. *)
LEMMA PathsMet ==
    ASSUME NEW fs, NEW gs \in Files, NEW A \in SUBSET Ids, Root \in A, NEW U, NEW g, NEW dec,
           OrphansOn(fs, gs, A, U, g, dec)
    PROVE  LinkedPaths(gs) \subseteq A
<1> DEFINE G == LinkedFiles(gs)
<1>1. G \in Files
  BY LinkedFacts
<1>2. Shut(G, Ids, A)
  <2> SUFFICES ASSUME NEW d \in Ids, NEW n \in Names, d \in A, Leads(G, d, n)
               PROVE  Slot(G, d, n).id \in A
    BY DEF Shut
  <2>1. Slot(G, d, n) # None /\ Slot(G, d, n).id \in Ids /\ Exists(G, Slot(G, d, n).id)
    BY <1>1, SlotWide DEF Leads
  <2>2. Slot(G, d, n) = Slot(gs, d, n) /\ Exists(gs, Slot(G, d, n).id)
    BY <2>1, LinkedFacts
  <2>3. Leads(gs, d, n)
    BY <2>1, <2>2 DEF Leads
  <2>4. QED BY <2>2, <2>3 DEF OrphansOn
<1>3. ASSUME NEW a \in LinkedPaths(gs) PROVE a \in A
  <2>1. a \in Ids /\ a \in ReachableIn(G)
    BY DEF LinkedPaths, ReachableIn
  <2>2. QED BY <1>1, <1>2, <2>1, ReachedShut
<1>4. QED BY <1>3

(* A file that was met, or that the user tells fix to ignore. *)
LEMMA OrphanSkipped ==
    ASSUME NEW fs, NEW gs, NEW A, NEW U, NEW g, NEW dec, NEW dec2, NEW id,
           OrphansOn(fs, gs, A, U, g, dec), ~dec2 => ~dec /\ id \in A
    PROVE  OrphansOn(fs, gs, A, U \ {id}, g, dec2)
BY DEF OrphansOn, RightEntries

(* hs is fs with x, which was not met, closed; the root may have a new entry for
   it.                                                                       *)
Offered(fs, A, x, g, hs) ==
    /\ hs \in Files
    /\ \A y \in Ids : y # x => /\ Exists(hs, y) <=> Exists(fs, y)
                               /\ Exists(fs, y) => hs[y].type = fs[y].type /\ hs[y].nlink = fs[y].nlink
    /\ Exists(hs, x) => hs[x].type = fs[x].type
    /\ ~Exists(hs, x) => x \in g
    /\ \A d \in A, n \in Names :
          \/ Slot(hs, d, n) = Slot(fs, d, n)
          \/ /\ d = Root /\ n = hexify(x)
             /\ Slot(hs, d, n) # None /\ Slot(hs, d, n).id = x /\ Slot(hs, d, n).type = fs[x].type

(* x has an entry in the root, and links. *)
Adopted(hs, x) == Exists(hs, x) => Slot(hs, Root, hexify(x)) # None /\ hs[x].nlink > 0

(* What the entries of the met directories say then. *)
LEMMA OrphanClosed ==
    ASSUME NEW fs, Volume(fs), NEW gs \in Files, NEW A \in SUBSET Ids, Root \in A, NEW U \in SUBSET Ids,
           NEW g, NEW dec, NEW dec2, NEW g2, NEW x \in U, x \notin A, NEW hs, NEW ks,
           OrphansOn(fs, gs, A, U, g, dec), ClosedTo(gs, ks, x), g \subseteq g2,
           Offered(fs, A, x, g2, hs), ~dec2 => ~dec /\ Adopted(hs, x)
    PROVE  OrphansOn(hs, ks, A, U \ {x}, g2, dec2)
<1> USE DEF Offered, Adopted
<1>1. fs \in Files /\ x \in Ids /\ Root \in Ids
  BY FSAssumption DEF Volume
<1>2. \A y \in U \ {x} : Exists(hs, y)
  BY DEF OrphansOn
<1>3. ASSUME NEW d \in A, NEW n \in Names, Leads(ks, d, n) PROVE Slot(ks, d, n).id \in A
  BY <1>1, <1>3, ClosedSlot DEF OrphansOn
<1>4. RightEntries(hs, A, g2, dec2)
  <2> SUFFICES ASSUME ~dec2, NEW d \in A, NEW n \in Names, Slot(hs, d, n) # None
               PROVE  Right(hs, g2, Slot(hs, d, n))
    BY DEF RightEntries
  <2>1. CASE Slot(hs, d, n) = Slot(fs, d, n)
    <3>1. Right(fs, g, Slot(fs, d, n)) /\ Slot(fs, d, n).id \in Ids
      BY <1>1, <2>1, SlotWide DEF OrphansOn, RightEntries
    <3>2. QED BY <2>1, <3>1 DEF Right
  <2>2. CASE Slot(hs, d, n).id = x /\ Slot(hs, d, n).type = fs[x].type
    BY <2>2 DEF Right
  <2>3. QED BY <2>1, <2>2
<1>5. LinkedWithin(hs, A)
  BY DEF LinkedWithin, OrphansOn
<1>6. ReachedWithin(hs, A)
  <2> SUFFICES ASSUME NEW S \in SUBSET Ids, Root \in S, Shut(hs, A, S), NEW y \in A, Exists(hs, y)
               PROVE  y \in S
    BY DEF ReachedWithin
  <2> DEFINE T == S \cup {x}
  <2>1. Shut(fs, A, T)
    <3> SUFFICES ASSUME NEW c \in Ids, NEW m \in Names, c \in A, c \in T, Leads(fs, c, m)
                 PROVE  Slot(fs, c, m).id \in T
      BY DEF Shut
    <3>1. Slot(fs, c, m) # None /\ Slot(fs, c, m).id \in Ids /\ Exists(fs, Slot(fs, c, m).id) /\ c \in S
      BY <1>1, SlotWide DEF Leads
    <3>2. CASE Slot(hs, c, m) = Slot(fs, c, m)
      <4>1. CASE Slot(fs, c, m).id = x
        BY <4>1
      <4>2. CASE Slot(fs, c, m).id # x
        <5>1. Leads(hs, c, m)
          BY <3>1, <3>2, <4>2 DEF Leads
        <5>2. QED BY <3>1, <3>2, <5>1 DEF Shut
      <4>3. QED BY <4>1, <4>2
    <3>3. CASE c = Root /\ m = hexify(x)
      BY <1>1, <3>1, <3>3 DEF Volume, HexNamed
    <3>4. QED BY <3>2, <3>3
  <2>2. T \in SUBSET Ids /\ Root \in T /\ y # x /\ Exists(fs, y)
    BY <1>1
  <2>3. y \in T
    BY <2>1, <2>2 DEF OrphansOn, ReachedWithin
  <2>4. QED BY <2>2, <2>3
<1>7. ASSUME ~dec2, NEW y \in Ids, Exists(hs, y), y \notin A, y \notin U \ {x}
      PROVE  Slot(hs, Root, hexify(y)) # None /\ hs[y].nlink > 0
  <2>1. CASE y = x
    BY <1>7, <2>1
  <2>2. CASE y # x
    <3>1. Slot(fs, Root, hexify(y)) # None /\ fs[y].nlink > 0
      BY <1>7, <2>2 DEF OrphansOn
    <3>2. hexify(y) # hexify(x) /\ hexify(y) \in Names
      BY <1>1, <2>2, FixAssumption DEF hexify
    <3>3. Slot(hs, Root, hexify(y)) = Slot(fs, Root, hexify(y))
      BY <3>2
    <3>4. QED BY <1>7, <2>2, <3>1, <3>3
  <2>3. QED BY <2>1, <2>2
<1>8. QED BY <1>2, <1>3, <1>4, <1>5, <1>6, <1>7 DEF OrphansOn

(* The counting begins: every file can be reached and has links, unless the user
   declined.                                                                 *)
LEMMA OrphansDone ==
    ASSUME NEW fs, Volume(fs), NEW gs, NEW A \in SUBSET Ids, NEW g, NEW dec,
           OrphansOn(fs, gs, A, {}, g, dec)
    PROVE  CountOn(fs, A, g, dec)
<1>1. fs \in Files /\ Root \in Ids /\ Exists(fs, Root)
  BY FSAssumption DEF Volume, IsDir
<1>2. ASSUME ~dec, NEW x \in Ids, Exists(fs, x)
      PROVE  x \in ReachableIn(fs) /\ (x # Root => fs[x].nlink > 0)
  <2>1. CASE x \in A
    <3>1. \A S \in SUBSET Ids : Shut(fs, Ids, S) => Shut(fs, A, S)
      BY DEF Shut
    <3>2. \A S \in SUBSET Ids : (Root \in S /\ Shut(fs, Ids, S)) => x \in S
      BY <1>2, <2>1, <3>1 DEF OrphansOn, ReachedWithin
    <3>3. x \in ReachableIn(fs)
      BY <1>1, <1>2, <3>2, ReachedShut
    <3>4. QED BY <1>2, <2>1, <3>3 DEF OrphansOn, LinkedWithin
  <2>2. CASE x \notin A
    <3>1. Slot(fs, Root, hexify(x)) # None /\ fs[x].nlink > 0
      BY <1>2, <2>2 DEF OrphansOn
    <3>2. Slot(fs, Root, hexify(x)).id = x /\ hexify(x) \in Names
      BY <3>1, FixAssumption DEF Volume, HexNamed
    <3>3. Leads(fs, Root, hexify(x))
      BY <1>2, <3>1, <3>2 DEF Leads
    <3>4. Root \in ReachableIn(fs)
      BY <1>1, RootReached
    <3>5. QED BY <1>1, <3>1, <3>2, <3>3, <3>4, ReachedNext
  <2>3. QED BY <2>1, <2>2
<1>3. QED BY <1>2 DEF CountOn, OrphansOn

-----------------------------------------------------------------------------
(* The first walk of fix_hardlink_count *)
LEMMA CountedFinite ==
    ASSUME NEW fs, NEW C \in SUBSET (Ids \X Names), NEW x
    PROVE  IsFiniteSet(CountedLinks(fs, C, x)) /\ Cardinality(CountedLinks(fs, C, x)) \in Nat
<1>1. IsFiniteSet(Ids \X Names)
  BY FSAssumption, FS_Product
<1>2. CountedLinks(fs, C, x) \subseteq Ids \X Names
  BY DEF CountedLinks
<1>3. IsFiniteSet(CountedLinks(fs, C, x))
  BY <1>1, <1>2, FS_Subset
<1>4. QED BY <1>3, FS_CardinalityType

(* The collecting walk begins at the root with nothing counted. *)
LEMMA CollectingBegins ==
    ASSUME NEW fs, Volume(fs), NEW m, m = [x \in Ids |-> 0],
           NEW f, f = [dir |-> Root, rest |-> {n \in Names : fs[Root].ents[n] # None}]
    PROVE  CollectingOn(fs, <<f>>, m, {Root}, {})
<1>1. fs \in Files /\ Root \in Ids /\ IsDir(fs, Root) /\ Exists(fs, Root)
  BY FSAssumption DEF Volume, IsDir
<1>2. Root \in ReachableIn(fs)
  BY <1>1, RootReached
<1>3. \A x : CountedLinks(fs, {}, x) = {}
  BY DEF CountedLinks
<1>4. \A x \in Ids : m[x] = Cardinality(CountedLinks(fs, {}, x)) /\ m[x] = 0
  BY <1>3, FS_EmptySet
<1>5. Walked(fs, m, {Root}, {})
  BY <1>1, <1>2, <1>4 DEF Walked
<1>6. /\ \A d, k : Pending(<<f>>, d, k) <=> d = Root /\ k \in f.rest
      /\ \A n \in Names : n \in f.rest <=> Slot(fs, Root, n) # None
      /\ StackIn(<<f>>, {Root})
  BY StackRoot
<1>7. QED BY <1>5, <1>6 DEF CollectingOn, Leads

(* The second walk begins with what the first one counted. *)
LEMMA SettingBegins ==
    ASSUME NEW fs, Volume(fs), NEW m, NEW s, NEW S, NEW C, CollectingOn(fs, s, m, S, C),
           \A d, k : ~Pending(s, d, k),
           NEW f, f = [dir |-> Root, rest |-> {n \in Names : fs[Root].ents[n] # None}]
    PROVE  SettingOn(fs, <<f>>, m, S, C, {Root})
<1>1. Walked(fs, m, S, C) /\ Root \in S
  BY DEF CollectingOn, Walked
<1>2. \A d \in S, n \in Names : Leads(fs, d, n) => CollectedAt(fs, S, C, d, n)
  BY DEF CollectingOn
<1>3. /\ \A d, k : Pending(<<f>>, d, k) <=> d = Root /\ k \in f.rest
      /\ \A n \in Names : n \in f.rest <=> Slot(fs, Root, n) # None
      /\ StackIn(<<f>>, {Root})
  BY StackRoot
<1>4. QED BY <1>1, <1>2, <1>3 DEF SettingOn, Leads

-----------------------------------------------------------------------------
(* What fix_hardlink_count closes is no directory or stays, so that no entry
   goes.                                                                     *)
LEMMA SlotsKept ==
    ASSUME NEW fs, Volume(fs), NEW hs, NEW x \in Ids, ClosedTo(fs, hs, x),
           Exists(hs, x) \/ fs[x].type # "DIR"
    PROVE  /\ \A y \in Ids, n \in Names : Slot(hs, y, n) = Slot(fs, y, n)
           /\ \A y \in Ids : IsDir(hs, y) <=> IsDir(fs, y)
<1>1. fs \in Files /\ hs \in Files
  BY DEF Volume, ClosedTo
<1>2. /\ \A y \in Ids : Exists(hs, y) => Exists(fs, y) /\ hs[y].type = fs[y].type
      /\ \A y \in Ids : y # x /\ Exists(fs, y) => Exists(hs, y)
  BY <1>1, ClosedSlot DEF ClosedTo, Exists
<1>3. ASSUME NEW y \in Ids, NEW n \in Names PROVE Slot(hs, y, n) = Slot(fs, y, n)
  <2>1. CASE Exists(hs, y)
    BY <1>1, <2>1, ClosedSlot
  <2>2. CASE ~Exists(hs, y)
    <3>1. ~Exists(fs, y) \/ ~IsDir(fs, y)
      BY <1>2, <2>2 DEF IsDir
    <3>2. Slot(fs, y, n) = None
      BY <3>1, HolderIsDir DEF Slot
    <3>3. QED BY <2>2, <3>2 DEF Slot
  <2>3. QED BY <2>1, <2>2
<1>4. \A y \in Ids : IsDir(hs, y) <=> IsDir(fs, y)
  BY <1>2 DEF IsDir
<1>5. QED BY <1>3, <1>4

(* Closing a file that is no directory, or stays, takes no other file its path. *)
LEMMA ReachKept ==
    ASSUME NEW fs, Volume(fs), NEW hs, NEW x \in Ids, ClosedTo(fs, hs, x),
           Exists(hs, x) \/ fs[x].type # "DIR",
           NEW y \in ReachableIn(fs), Exists(hs, y)
    PROVE  y \in ReachableIn(hs)
<1>1. fs \in Files /\ hs \in Files /\ y \in Ids
  BY DEF Volume, ClosedTo, ReachableIn
<1>2. \A c \in Ids, n \in Names : Slot(hs, c, n) = Slot(fs, c, n)
  BY SlotsKept
<1>3. \A c \in Ids : c # x => (Exists(hs, c) <=> Exists(fs, c))
  BY DEF ClosedTo, Exists
<1> SUFFICES ASSUME NEW S \in SUBSET Ids, Root \in S, Shut(hs, Ids, S) PROVE y \in S
  BY <1>1, ReachedShut
<1> DEFINE T == S \cup (IF Exists(hs, x) THEN {} ELSE {x})
<1>4. Shut(fs, Ids, T)
  <2> SUFFICES ASSUME NEW c \in Ids, NEW m \in Names, c \in T, Leads(fs, c, m)
               PROVE  Slot(fs, c, m).id \in T
    BY DEF Shut
  <2>1. Slot(fs, c, m) # None /\ Slot(fs, c, m).id \in Ids /\ Exists(fs, Slot(fs, c, m).id)
    BY <1>1, SlotWide DEF Leads
  <2>2. c \in S
    BY <2>1, HolderIsDir DEF IsDir
  <2>3. CASE Exists(hs, Slot(fs, c, m).id)
    BY <1>2, <2>1, <2>2, <2>3 DEF Shut, Leads
  <2>4. CASE ~Exists(hs, Slot(fs, c, m).id)
    BY <1>3, <2>1, <2>4
  <2>5. QED BY <2>3, <2>4
<1>5. T \in SUBSET Ids /\ Root \in T
  OBVIOUS
<1>6. y \in T
  BY <1>1, <1>4, <1>5, ReachedShut
<1>7. QED BY <1>6

(* An entry that cannot be opened is not counted. *)
LEMMA CountSkipped ==
    ASSUME NEW fs, NEW s, StackOn(s, fs), s # <<>>, NEW n \in s[1].rest, ~Leads(fs, s[1].dir, n),
           NEW m, NEW S \in SUBSET Ids, NEW C, NEW D \in SUBSET Ids
    PROVE  /\ CollectingOn(fs, s, m, S, C) => CollectingOn(fs, Ahead(s, n), m, S, C)
           /\ SettingOn(fs, s, m, S, C, D) => SettingOn(fs, Ahead(s, n), m, S, C, D)
<1>1. s \in Seq(Frames) /\ n \in Names
  BY TopFacts
<1>2. \A c, k : Pending(Ahead(s, n), c, k) <=> Pending(s, c, k) /\ (c # s[1].dir \/ k # n)
  BY <1>1, AheadPending
<1>3. \A Q : StackIn(Ahead(s, n), Q) <=> StackIn(s, Q)
  BY <1>1, AheadIn
<1>4. ASSUME CollectingOn(fs, s, m, S, C) PROVE CollectingOn(fs, Ahead(s, n), m, S, C)
  <2>1. ASSUME NEW c \in S, NEW k \in Names, Leads(fs, c, k)
        PROVE  Pending(Ahead(s, n), c, k) \/ CollectedAt(fs, S, C, c, k)
    <3>1. Pending(s, c, k) \/ CollectedAt(fs, S, C, c, k)
      BY <1>4, <2>1 DEF CollectingOn
    <3>2. c # s[1].dir \/ k # n
      BY <2>1
    <3>3. QED BY <1>2, <3>1, <3>2
  <2>2. QED BY <1>2, <1>3, <1>4, <2>1 DEF CollectingOn
<1>5. ASSUME SettingOn(fs, s, m, S, C, D) PROVE SettingOn(fs, Ahead(s, n), m, S, C, D)
  <2>1. ASSUME NEW c \in D, NEW k \in Names, Leads(fs, c, k)
        PROVE  Pending(Ahead(s, n), c, k) \/ SetAt(fs, m, D, Slot(fs, c, k))
    <3>1. Pending(s, c, k) \/ SetAt(fs, m, D, Slot(fs, c, k))
      BY <1>5, <2>1 DEF SettingOn
    <3>2. c # s[1].dir \/ k # n
      BY <2>1
    <3>3. QED BY <1>2, <3>1, <3>2
  <2>2. QED BY <1>3, <1>5, <2>1 DEF SettingOn
<1>6. QED BY <1>4, <1>5

(* fix_hardlink_count returns from a directory. *)
LEMMA CountReturned ==
    ASSUME NEW fs, NEW s, StackOn(s, fs), Len(s) > 1, s[1].rest = {},
           NEW m, NEW S, NEW C, NEW D
    PROVE  /\ CollectingOn(fs, s, m, S, C) => CollectingOn(fs, Tail(s), m, S, C)
           /\ SettingOn(fs, s, m, S, C, D) => SettingOn(fs, Tail(s), m, S, C, D)
<1>1. s \in Seq(Frames) /\ s # <<>> /\ Len(s) \in Nat
  BY HeldPop, FrameFacts DEF StackOn
<1>2. \A c, k : Pending(Tail(s), c, k) <=> Pending(s, c, k)
  BY <1>1, PopPending
<1>3. \A Q : StackIn(s, Q) => StackIn(Tail(s), Q)
  <2>1. Len(Tail(s)) = Len(s) - 1 /\ \A i \in 1..(Len(s) - 1) : Tail(s)[i] = s[i + 1]
    BY <1>1, PopFacts
  <2>2. \A i \in 1..Len(Tail(s)) : i + 1 \in 1..Len(s) /\ Tail(s)[i] = s[i + 1]
    BY <1>1, <2>1
  <2>3. QED BY <2>2 DEF StackIn
<1>4. QED BY <1>2, <1>3 DEF CollectingOn, SettingOn

(* A set with one more element. *)
LEMMA OneMore ==
    ASSUME NEW P, NEW Q, NEW a, IsFiniteSet(P), Q = P \cup {a}
    PROVE  /\ a \in P => Cardinality(Q) = Cardinality(P)
           /\ a \notin P => Cardinality(Q) = Cardinality(P) + 1
BY FS_AddElement

(* The recursion t after fix_hardlink_count looked at the entry e. *)
Stepped(fs, s, n, e, hs, t) ==
    Looked(fs, s, n, e, fs, e, hs) /\ Entered(fs, s, n, e.id, e.type = "DIR", t)

(* The collecting walk counts an entry, closes its file and enters it if the
   entry says it is a directory.                                             *)
LEMMA CollectedOne ==
    ASSUME NEW fs, Volume(fs), NEW s, NEW n, NEW e, NEW hs, NEW t, Stepped(fs, s, n, e, hs, t),
           e.type = "DIR" => IsDir(hs, e.id),
           NEW m \in [Ids -> Nat], NEW S \in SUBSET Ids, NEW C \in SUBSET (Ids \X Names),
           CollectingOn(fs, s, m, S, C)
    PROVE  \E S2 \in SUBSET Ids, C2 \in SUBSET (Ids \X Names) :
              CollectingOn(hs, t, [m EXCEPT ![e.id] = @ + 1], S2, C2)
<1> USE DEF Looked, Stepped
<1> DEFINE d == s[1].dir
           x == e.id
           m2 == [m EXCEPT ![e.id] = @ + 1]
           S2 == S \cup (IF e.type = "DIR" THEN {x} ELSE {})
           C2 == C \cup {<<d, n>>}
           fr == FrameOf(fs, e.id)
<1>1. s[1].dir \in HeldBy(s) /\ e.id # s[1].dir /\ e.id # Root
  BY HeldFacts, NotHeld
<1>2. /\ fs \in Files /\ hs \in Files
      /\ d \in Ids /\ n \in Names /\ s \in Seq(Frames) /\ Slot(fs, d, n) # None /\ e # None
  BY TopFacts DEF Volume, ClosedTo
<1>3. x \in Ids /\ Leads(fs, d, n)
  BY <1>2, SlotWide DEF Leads
<1>4. fr \in Frames /\ fr.dir = x /\ \A k \in Names : Slot(fs, x, k) # None <=> k \in fr.rest
  BY <1>3, FrameOfFacts
<1> HIDE DEF fr
<1>5. \/ e.type = "DIR" /\ t = <<fr>> \o Ahead(s, n)
      \/ e.type # "DIR" /\ t = Ahead(s, n)
  BY DEF Entered, fr
<1>6. fs[x].type \in {e.type, "UNKNOWN"}
  BY <1>2, <1>3 DEF Volume, TypesAgree
<1>7. Exists(hs, x) \/ fs[x].type # "DIR"
  BY <1>6 DEF IsDir
<1>8. /\ \A y \in Ids, k \in Names : Slot(hs, y, k) = Slot(fs, y, k)
      /\ \A y \in Ids : IsDir(hs, y) <=> IsDir(fs, y)
  BY <1>3, <1>7, SlotsKept
<1>9. Walked(fs, m, S, C) /\ StackIn(s, S)
  BY DEF CollectingOn
<1>10. d \in S
  BY <1>9, TopFacts DEF StackIn
<1>11. S2 \in SUBSET Ids /\ C2 \in SUBSET (Ids \X Names) /\ Root \in S2
  BY <1>2, <1>3, <1>9 DEF Walked
<1>12. e.type = "DIR" => IsDir(fs, x)
  BY <1>3, <1>8
<1>13. ASSUME NEW y \in S2 PROVE IsDir(hs, y) /\ y \in ReachableIn(hs)
  <2>1. IsDir(fs, y) /\ y \in ReachableIn(fs) /\ y \in Ids
    <3>1. CASE y \in S
      BY <1>9, <3>1 DEF Walked
    <3>2. CASE y \notin S
      <4>1. y = x /\ e.type = "DIR"
        BY <3>2
      <4>2. d \in ReachableIn(fs)
        BY <1>9, <1>10 DEF Walked
      <4>3. QED BY <1>2, <1>3, <1>12, <4>1, <4>2, ReachedNext
    <3>3. QED BY <3>1, <3>2
  <2>2. IsDir(hs, y) /\ Exists(hs, y)
    BY <1>8, <2>1 DEF IsDir
  <2>3. QED BY <1>3, <1>7, <2>1, <2>2, ReachKept
<1>14. \A c \in C2 : c[1] \in Ids /\ c[2] \in Names /\ Slot(hs, c[1], c[2]) = Slot(fs, c[1], c[2])
  <2>1. \A c \in C2 : c[1] \in Ids /\ c[2] \in Names
    BY <1>11
  <2>2. QED BY <1>8, <2>1
<1>15. ASSUME NEW y \in S2, y # Root PROVE \E c \in C2 : Slot(hs, c[1], c[2]).id = y
  <2>1. CASE y \in S
    BY <1>9, <1>14, <1>15, <2>1 DEF Walked
  <2>2. CASE y \notin S
    <3>1. y = x /\ <<d, n>> \in C2 /\ Slot(hs, d, n).id = x
      BY <1>2, <1>8, <2>2
    <3>2. QED BY <3>1
  <2>3. QED BY <2>1, <2>2
<1>16. ASSUME NEW c \in C2 PROVE c[1] \in S2 /\ Slot(hs, c[1], c[2]) # None
  BY <1>2, <1>9, <1>10, <1>14 DEF Walked
<1>17. \A y \in Ids : CountedLinks(hs, C2, y) = IF y = x THEN CountedLinks(fs, C, y) \cup {<<d, n>>}
                                                ELSE CountedLinks(fs, C, y)
  BY <1>2, <1>14 DEF CountedLinks
<1>18. m2[x] = m[x] + 1 /\ m[x] \in Nat /\ \A y \in Ids : y # x => m2[y] = m[y]
  BY <1>3
<1>19. \A y \in Ids : m2[y] >= Cardinality(CountedLinks(hs, C2, y))
  <2> SUFFICES ASSUME NEW y \in Ids PROVE m2[y] >= Cardinality(CountedLinks(hs, C2, y))
    OBVIOUS
  <2>1. m[y] >= Cardinality(CountedLinks(fs, C, y))
    BY <1>9 DEF Walked
  <2>2. IsFiniteSet(CountedLinks(fs, C, y)) /\ Cardinality(CountedLinks(fs, C, y)) \in Nat
    BY CountedFinite
  <2>3. CASE y = x
    <3>0. CountedLinks(hs, C2, y) = CountedLinks(fs, C, y) \cup {<<d, n>>}
      BY <1>17, <2>3
    <3>1. \/ Cardinality(CountedLinks(hs, C2, y)) = Cardinality(CountedLinks(fs, C, y))
          \/ Cardinality(CountedLinks(hs, C2, y)) = Cardinality(CountedLinks(fs, C, y)) + 1
      BY <2>2, <3>0, OneMore
    <3>2. QED BY <1>18, <2>1, <2>2, <2>3, <3>1
  <2>4. CASE y # x
    BY <1>17, <1>18, <2>1, <2>4
  <2>5. QED BY <2>3, <2>4
<1>20. OneEntry(hs) => OneEntry(fs)
  <2> SUFFICES ASSUME OneEntry(hs), NEW d1 \in Ids, NEW d2 \in Ids, NEW n1 \in Names, NEW n2 \in Names,
                      Slot(fs, d1, n1) # None, Slot(fs, d2, n2) # None,
                      Slot(fs, d1, n1).id = Slot(fs, d2, n2).id, IsDir(fs, Slot(fs, d1, n1).id)
               PROVE  d1 = d2 /\ n1 = n2
    BY DEF OneEntry
  <2>1. Slot(fs, d1, n1).id \in Ids
    BY <1>2, SlotWide
  <2>2. QED BY <1>8, <2>1 DEF OneEntry
<1>21. Pending(s, d, n)
  BY TopFacts DEF Pending
<1>22. OneEntry(hs) => <<d, n>> \notin C
  BY <1>2, <1>20, <1>21 DEF CollectingOn
<1>23. ASSUME OneEntry(hs), NEW y \in Ids PROVE m2[y] = Cardinality(CountedLinks(hs, C2, y))
  <2>1. m[y] = Cardinality(CountedLinks(fs, C, y))
    BY <1>9, <1>20, <1>23 DEF Walked
  <2>2. IsFiniteSet(CountedLinks(fs, C, y))
    BY CountedFinite
  <2>3. CASE y = x
    <3>1. <<d, n>> \notin CountedLinks(fs, C, y)
      BY <1>22, <1>23 DEF CountedLinks
    <3>0. CountedLinks(hs, C2, y) = CountedLinks(fs, C, y) \cup {<<d, n>>}
      BY <1>17, <2>3
    <3>2. Cardinality(CountedLinks(hs, C2, y)) = Cardinality(CountedLinks(fs, C, y)) + 1
      BY <2>2, <3>0, <3>1, OneMore
    <3>3. QED BY <1>18, <2>1, <2>3, <3>2
  <2>4. CASE y # x
    BY <1>17, <1>18, <2>1, <2>4
  <2>5. QED BY <2>3, <2>4
<1>24. Walked(hs, m2, S2, C2)
  BY <1>11, <1>13, <1>15, <1>16, <1>19, <1>23 DEF Walked
<1>25. Ahead(s, n) \in Seq(Frames) /\ StackIn(Ahead(s, n), S2)
  <2>1. StackIn(s, S2)
    BY <1>9 DEF StackIn
  <2>2. QED BY <1>2, <2>1, AheadFacts, AheadIn
<1>26. StackIn(t, S2)
  <2>1. CASE e.type # "DIR"
    BY <1>5, <1>25, <2>1
  <2>2. CASE e.type = "DIR"
    <3>1. t = <<fr>> \o Ahead(s, n)
      BY <1>5, <2>2
    <3>2. x \in S2
      BY <2>2
    <3>3. QED BY <1>4, <1>25, <3>1, <3>2, PushIn
  <2>3. QED BY <2>1, <2>2
<1>27. ASSUME NEW c, NEW k, Pending(Ahead(s, n), c, k) PROVE Pending(t, c, k)
  <2>1. CASE e.type # "DIR"
    BY <1>5, <1>27, <2>1
  <2>2. CASE e.type = "DIR"
    <3>1. t = <<fr>> \o Ahead(s, n)
      BY <1>5, <2>2
    <3>2. QED BY <1>4, <1>25, <1>27, <3>1, PushPending
  <2>3. QED BY <2>1, <2>2
<1>28. ASSUME NEW c \in S2, NEW k \in Names, Leads(hs, c, k)
       PROVE  Pending(t, c, k) \/ CollectedAt(hs, S2, C2, c, k)
  <2>0. c \in Ids /\ Slot(hs, c, k) = Slot(fs, c, k) /\ Slot(hs, c, k) # None
    BY <1>8, <1>11, <1>28 DEF Leads
  <2>1. CASE c = x /\ e.type = "DIR"
    <3>1. t = <<fr>> \o Ahead(s, n) /\ k \in fr.rest
      BY <1>4, <1>5, <2>0, <2>1
    <3>2. QED BY <1>4, <1>25, <2>1, <3>1, PushPending
  <2>2. CASE c = d /\ k = n
    BY <2>0, <2>2 DEF CollectedAt
  <2>3. CASE ~(c = x /\ e.type = "DIR") /\ (c # d \/ k # n)
    <3>1. c \in S /\ Leads(fs, c, k)
      BY <1>2, <1>3, <1>28, <2>0, <2>3, ClosedSlot
    <3>2. Pending(s, c, k) \/ CollectedAt(fs, S, C, c, k)
      BY <3>1 DEF CollectingOn
    <3>3. CASE Pending(s, c, k)
      BY <1>2, <1>27, <2>3, <3>3, AheadPending
    <3>4. CASE CollectedAt(fs, S, C, c, k)
      BY <2>0, <3>4 DEF CollectedAt
    <3>5. QED BY <3>2, <3>3, <3>4
  <2>4. QED BY <2>1, <2>2, <2>3
<1>29. ASSUME OneEntry(hs), NEW c \in Ids, NEW k \in Names, Pending(t, c, k) PROVE <<c, k>> \notin C2
  <2>1. CASE Pending(Ahead(s, n), c, k)
    <3>1. Pending(s, c, k) /\ (c # d \/ k # n)
      BY <1>2, <2>1, AheadPending
    <3>2. QED BY <1>20, <1>29, <3>1 DEF CollectingOn
  <2>2. CASE ~Pending(Ahead(s, n), c, k)
    <3>1. e.type = "DIR" /\ c = x
      <4>1. e.type = "DIR"
        BY <1>5, <1>29, <2>2
      <4>2. t = <<fr>> \o Ahead(s, n)
        BY <1>5, <4>1
      <4>3. QED BY <1>4, <1>25, <1>29, <2>2, <4>1, <4>2, PushPending
    <3>2. ASSUME <<c, k>> \in C PROVE FALSE
      <4>1. x \in S
        BY <1>9, <3>1, <3>2 DEF Walked
      <4>2. PICK z \in C : Slot(fs, z[1], z[2]).id = x
        BY <1>1, <1>9, <4>1 DEF Walked
      <4>3. Slot(fs, z[1], z[2]) # None /\ z[1] \in Ids /\ z[2] \in Names /\ z = <<z[1], z[2]>>
        BY <1>9, <4>2 DEF Walked
      <4>4. z[1] = d /\ z[2] = n
        BY <1>2, <1>12, <1>20, <1>29, <3>1, <4>2, <4>3 DEF OneEntry
      <4>5. QED BY <1>22, <1>29, <4>2, <4>3, <4>4
    <3>3. QED BY <1>1, <3>1, <3>2
  <2>3. QED BY <2>1, <2>2
<1>30. CollectingOn(hs, t, m2, S2, C2)
  BY <1>24, <1>26, <1>28, <1>29 DEF CollectingOn
<1>31. QED BY <1>11, <1>30

-----------------------------------------------------------------------------
(* The second walk of fix_hardlink_count *)

(* It meets only entries that were counted. *)
LEMMA SetsCounted ==
    ASSUME NEW fs, Volume(fs), NEW s, StackOn(s, fs), s # <<>>, NEW n \in s[1].rest,
           NEW m \in [Ids -> Nat], NEW S \in SUBSET Ids, NEW C \in SUBSET (Ids \X Names),
           NEW D \in SUBSET Ids, SettingOn(fs, s, m, S, C, D),
           NEW e, e = Slot(fs, s[1].dir, n), Exists(fs, e.id)
    PROVE  e.id \in Ids /\ m[e.id] \in Nat /\ m[e.id] > 0 /\ (e.type = "DIR" => e.id \in S) /\ s[1].dir \in D
<1> DEFINE d == s[1].dir
           L == CountedLinks(fs, C, e.id)
<1>1. d \in Ids /\ n \in Names /\ e # None /\ fs \in Files
  BY TopFacts DEF Volume
<1>2. Leads(fs, d, n) /\ e.id \in Ids
  BY <1>1, SlotWide DEF Leads
<1>3. d \in D /\ d \in S
  BY TopFacts DEF SettingOn, StackIn
<1>4. <<d, n>> \in C /\ (e.type = "DIR" => e.id \in S)
  BY <1>1, <1>2, <1>3 DEF SettingOn, CollectedAt
<1>5. <<d, n>> \in L
  BY <1>4 DEF CountedLinks
<1>6. IsFiniteSet(L) /\ Cardinality(L) \in Nat
  BY CountedFinite
<1>7. m[e.id] >= Cardinality(L)
  BY <1>2 DEF SettingOn, Walked
<1> HIDE DEF L
<1>8. Cardinality(L) # 0
  BY <1>5, <1>6, FS_EmptySet
<1>9. m[e.id] \in Nat
  BY <1>2
<1>10. QED BY <1>2, <1>3, <1>4, <1>6, <1>7, <1>8, <1>9

(* x has the count that the collecting walk found. *)
SetTo(hs, x, m) == Exists(hs, x) /\ hs[x].nlink = m[x]

(* The second walk sets the count of a file, closes it and enters it if the
   entry says it is a directory.                                             *)
LEMMA SetOne ==
    ASSUME NEW fs, Volume(fs), NEW s, NEW n, NEW e, NEW hs, NEW t, Stepped(fs, s, n, e, hs, t),
           NEW m \in [Ids -> Nat], NEW S \in SUBSET Ids, NEW C \in SUBSET (Ids \X Names),
           NEW D \in SUBSET Ids, SettingOn(fs, s, m, S, C, D),
           SetTo(hs, e.id, m)
    PROVE  \E D2 \in SUBSET Ids : SettingOn(hs, t, m, S, C, D2)
<1> USE DEF Looked, Stepped, SetTo
<1> DEFINE d == s[1].dir
           x == e.id
           D2 == D \cup (IF e.type = "DIR" THEN {x} ELSE {})
           fr == FrameOf(fs, e.id)
<1>1. s[1].dir \in HeldBy(s) /\ e.id # s[1].dir /\ e.id # Root
  BY HeldFacts, NotHeld
<1>2. /\ fs \in Files /\ hs \in Files
      /\ d \in Ids /\ n \in Names /\ s \in Seq(Frames) /\ Slot(fs, d, n) # None /\ e # None
  BY TopFacts DEF Volume, ClosedTo
<1>3. x \in Ids /\ (e.type = "DIR" => x \in S) /\ d \in D
  BY SetsCounted
<1>4. fr \in Frames /\ fr.dir = x /\ \A k \in Names : Slot(fs, x, k) # None <=> k \in fr.rest
  BY <1>3, FrameOfFacts
<1> HIDE DEF fr
<1>5. \/ e.type = "DIR" /\ t = <<fr>> \o Ahead(s, n)
      \/ e.type # "DIR" /\ t = Ahead(s, n)
  BY DEF Entered, fr
<1>6. /\ \A y \in Ids, k \in Names : Slot(hs, y, k) = Slot(fs, y, k)
      /\ \A y \in Ids : IsDir(hs, y) <=> IsDir(fs, y)
  BY <1>3, SlotsKept
<1>7. \A y \in Ids : Exists(hs, y) <=> Exists(fs, y)
  BY DEF ClosedTo, Exists
<1>8. \A y \in Ids, k \in Names : Leads(hs, y, k) <=> Leads(fs, y, k)
  BY <1>2, <1>6, <1>7, SlotWide DEF Leads
<1>9. Walked(fs, m, S, C) /\ StackIn(s, D) /\ D \subseteq S /\ Root \in D
  BY DEF SettingOn
<1>10. \A c \in C : c[1] \in Ids /\ c[2] \in Names /\ Slot(hs, c[1], c[2]) = Slot(fs, c[1], c[2])
  <2>1. \A c \in C : c[1] \in Ids /\ c[2] \in Names
    OBVIOUS
  <2>2. QED BY <1>6, <2>1
<1>11. \A y \in Ids : CountedLinks(hs, C, y) = CountedLinks(fs, C, y)
  BY <1>10 DEF CountedLinks
<1>12. OneEntry(hs) => OneEntry(fs)
  <2> SUFFICES ASSUME OneEntry(hs), NEW d1 \in Ids, NEW d2 \in Ids, NEW n1 \in Names, NEW n2 \in Names,
                      Slot(fs, d1, n1) # None, Slot(fs, d2, n2) # None,
                      Slot(fs, d1, n1).id = Slot(fs, d2, n2).id, IsDir(fs, Slot(fs, d1, n1).id)
               PROVE  d1 = d2 /\ n1 = n2
    BY DEF OneEntry
  <2>1. Slot(fs, d1, n1).id \in Ids
    BY <1>2, SlotWide
  <2>2. QED BY <1>6, <2>1 DEF OneEntry
<1>13. \A y \in S : IsDir(hs, y) /\ y \in ReachableIn(hs)
  BY <1>3, <1>6, <1>9, ReachKept DEF Walked, IsDir
<1>14. Walked(hs, m, S, C)
  BY <1>9, <1>10, <1>11, <1>12, <1>13 DEF Walked
<1>15. \A c \in S, k \in Names : Leads(hs, c, k) => CollectedAt(hs, S, C, c, k)
  BY <1>6, <1>8 DEF SettingOn, CollectedAt
<1>16. D2 \in SUBSET S /\ Root \in D2 /\ D2 \in SUBSET Ids
  BY <1>3, <1>9
<1>17. Ahead(s, n) \in Seq(Frames) /\ StackIn(Ahead(s, n), D2)
  <2>1. StackIn(s, D2)
    BY <1>9 DEF StackIn
  <2>2. QED BY <1>2, <2>1, AheadFacts, AheadIn
<1>18. StackIn(t, D2)
  <2>1. CASE e.type # "DIR"
    BY <1>5, <1>17, <2>1
  <2>2. CASE e.type = "DIR"
    <3>1. t = <<fr>> \o Ahead(s, n)
      BY <1>5, <2>2
    <3>2. x \in D2
      BY <2>2
    <3>3. QED BY <1>4, <1>17, <3>1, <3>2, PushIn
  <2>3. QED BY <2>1, <2>2
<1>19. ASSUME NEW c, NEW k, Pending(Ahead(s, n), c, k) PROVE Pending(t, c, k)
  <2>1. CASE e.type # "DIR"
    BY <1>5, <1>19, <2>1
  <2>2. CASE e.type = "DIR"
    <3>1. t = <<fr>> \o Ahead(s, n)
      BY <1>5, <2>2
    <3>2. QED BY <1>4, <1>17, <1>19, <3>1, PushPending
  <2>3. QED BY <2>1, <2>2
<1>20. ASSUME NEW c \in D2, NEW k \in Names, Leads(hs, c, k)
       PROVE  Pending(t, c, k) \/ SetAt(hs, m, D2, Slot(hs, c, k))
  <2>0. c \in Ids /\ Slot(hs, c, k) = Slot(fs, c, k) /\ Slot(fs, c, k) # None
    BY <1>6, <1>16, <1>20 DEF Leads
  <2>1. CASE c = x /\ e.type = "DIR"
    <3>1. t = <<fr>> \o Ahead(s, n) /\ k \in fr.rest
      BY <1>4, <1>5, <2>0, <2>1
    <3>2. QED BY <1>4, <1>17, <2>1, <3>1, PushPending
  <2>2. CASE c = d /\ k = n
    BY <2>0, <2>2 DEF SetAt
  <2>3. CASE ~(c = x /\ e.type = "DIR") /\ (c # d \/ k # n)
    <3>1. c \in D /\ Leads(fs, c, k) /\ Slot(fs, c, k).id \in Ids
      BY <1>2, <1>8, <1>20, <2>0, <2>3, SlotWide
    <3>2. Pending(s, c, k) \/ SetAt(fs, m, D, Slot(fs, c, k))
      BY <3>1 DEF SettingOn
    <3>3. CASE Pending(s, c, k)
      BY <1>2, <1>19, <2>3, <3>3, AheadPending
    <3>4. CASE SetAt(fs, m, D, Slot(fs, c, k))
      <4>1. Slot(fs, c, k).id # x => hs[Slot(fs, c, k).id] = fs[Slot(fs, c, k).id]
        BY <3>1 DEF ClosedTo
      <4>2. QED BY <2>0, <3>4, <4>1 DEF SetAt
    <3>5. QED BY <3>2, <3>3, <3>4
  <2>4. QED BY <2>1, <2>2, <2>3
<1>21. SettingOn(hs, t, m, S, C, D2)
  BY <1>14, <1>15, <1>16, <1>18, <1>20 DEF SettingOn
<1>22. QED BY <1>16, <1>21

(* What the counting may rely on: no file without links goes, unless the user
   declined.                                                                 *)
LEMMA CountKept ==
    ASSUME NEW fs, Volume(fs), NEW A \in SUBSET Ids, NEW g, NEW g2, NEW dec, CountOn(fs, A, g, dec), g \subseteq g2,
           NEW hs, NEW x \in Ids, x # Root, ClosedTo(fs, hs, x),
           fs[x].nlink > 0 => Exists(hs, x), Exists(hs, x) => hs[x].nlink > 0
    PROVE  CountOn(hs, A, g2, dec)
<1>1. CASE dec
  BY <1>1 DEF CountOn, RightEntries
<1>2. CASE ~dec
  <2>1. Exists(hs, x)
    BY <1>2 DEF CountOn, ClosedTo
  <2>2. \A y \in Ids, k \in Names : Slot(hs, y, k) = Slot(fs, y, k)
    BY <2>1, SlotsKept
  <2>3. \A y \in Ids : (Exists(hs, y) <=> Exists(fs, y)) /\ (Exists(fs, y) => hs[y].type = fs[y].type)
    BY <2>1 DEF ClosedTo, Exists
  <2>4. RightEntries(hs, A, g2, dec)
    <3> SUFFICES ASSUME NEW c \in A, NEW k \in Names, Slot(hs, c, k) # None
                 PROVE  Right(hs, g2, Slot(hs, c, k))
      BY DEF RightEntries
    <3>1. Slot(hs, c, k) = Slot(fs, c, k) /\ Slot(fs, c, k).id \in Ids
      BY <2>2, SlotWide DEF Volume
    <3>2. Right(fs, g, Slot(fs, c, k))
      BY <1>2, <3>1 DEF CountOn, RightEntries
    <3>3. QED BY <2>3, <3>1, <3>2 DEF Right
  <2>5. ASSUME NEW y \in Ids, Exists(hs, y) PROVE y \in ReachableIn(hs) /\ (y # Root => hs[y].nlink > 0)
    <3>1. y \in ReachableIn(fs) /\ (y # Root => fs[y].nlink > 0)
      BY <1>2, <2>3, <2>5 DEF CountOn
    <3>2. y \in ReachableIn(hs)
      BY <2>1, <2>5, <3>1, ReachKept
    <3>3. y # x => hs[y] = fs[y]
      BY DEF ClosedTo
    <3>4. QED BY <2>1, <3>1, <3>2, <3>3
  <2>6. QED BY <2>4, <2>5 DEF CountOn
<1>3. QED BY <1>1, <1>2

-----------------------------------------------------------------------------
(* The end of fix *)

(* The second walk entered every directory that a path leads to and set the
   count of every file that a path leads to.                                 *)
LEMMA AllSet ==
    ASSUME NEW fs, Volume(fs), NEW m, NEW s, NEW S \in SUBSET Ids, NEW C, NEW D \in SUBSET Ids,
           SettingOn(fs, s, m, S, C, D), \A d, k : ~Pending(s, d, k), NEW x \in ReachableIn(fs)
    PROVE  /\ x # Root => fs[x].nlink = m[x]
           /\ IsDir(fs, x) => x \in D
<1> DEFINE T == {y \in Ids : \/ y = Root
                             \/ /\ fs[y].nlink = m[y]
                                /\ IsDir(fs, y) => y \in D}
<1>1. fs \in Files /\ Root \in Ids /\ Root \in D /\ x \in Ids
  BY FSAssumption DEF Volume, SettingOn, ReachableIn
<1>2. Shut(fs, Ids, T)
  <2> SUFFICES ASSUME NEW c \in Ids, NEW k \in Names, c \in T, Leads(fs, c, k)
               PROVE  Slot(fs, c, k).id \in T
    BY DEF Shut
  <2>1. Slot(fs, c, k) # None /\ Slot(fs, c, k).id \in Ids
    BY <1>1, SlotWide DEF Leads
  <2>2. c \in D
    BY <1>1, <2>1, HolderIsDir
  <2>3. SetAt(fs, m, D, Slot(fs, c, k))
    BY <2>2 DEF SettingOn
  <2>4. fs[Slot(fs, c, k).id].type \in {Slot(fs, c, k).type, "UNKNOWN"}
    BY DEF Volume, TypesAgree
  <2>5. QED BY <2>1, <2>3, <2>4 DEF SetAt, IsDir
<1>3. x \in T
  BY <1>1, <1>2, ReachedShut
<1>4. QED BY <1>1, <1>3

(* At the end of the second walk the link count of a file is at least the number of
   its names, and that number when no directory has two. *)
LEMMA CountsSet ==
    ASSUME NEW fs, Volume(fs), NEW m \in [Ids -> Nat], NEW s, NEW S \in SUBSET Ids,
           NEW C \in SUBSET (Ids \X Names), NEW D \in SUBSET Ids,
           SettingOn(fs, s, m, S, C, D), \A d, k : ~Pending(s, d, k),
           NEW x \in ReachableIn(fs), x # Root,
           NEW N, N = {e \in LinksTo(fs, x) : e[1] \in ReachableIn(fs)}
    PROVE  /\ fs[x].nlink >= Cardinality(N)
           /\ (\A y \in Ids : IsDir(fs, y) => Cardinality(LinksTo(fs, y)) <= 1)
                 => fs[x].nlink = Cardinality(N)
<1> DEFINE L == CountedLinks(fs, C, x)
<1>1. fs[x].nlink = m[x] /\ x \in Ids /\ Exists(fs, x) /\ fs \in Files
  BY AllSet DEF ReachableIn, Volume
<1>2. IsFiniteSet(L) /\ Cardinality(L) \in Nat /\ m[x] >= Cardinality(L) /\ m[x] \in Nat
  BY <1>1, CountedFinite DEF SettingOn, Walked
<1>3. N \subseteq L
  <2> SUFFICES ASSUME NEW e \in N PROVE e \in L
    OBVIOUS
  <2>1. /\ e \in Ids \X Names /\ Slot(fs, e[1], e[2]) # None /\ Slot(fs, e[1], e[2]).id = x
        /\ e[1] \in ReachableIn(fs)
    BY LinksAreSlots
  <2>2. e[1] \in Ids /\ e[2] \in Names /\ e = <<e[1], e[2]>>
    BY <2>1
  <2>3. e[1] \in S
    BY <2>1, <2>2, HolderIsDir, AllSet DEF SettingOn
  <2>4. Leads(fs, e[1], e[2])
    BY <1>1, <2>1 DEF Leads
  <2>5. e \in C
    BY <2>2, <2>3, <2>4 DEF SettingOn, CollectedAt
  <2>6. QED BY <2>1, <2>5 DEF CountedLinks
<1>4. L \subseteq N
  <2> SUFFICES ASSUME NEW e \in L PROVE e \in N
    OBVIOUS
  <2>1. e \in C /\ Slot(fs, e[1], e[2]).id = x /\ e \in Ids \X Names
    BY DEF CountedLinks
  <2>2. e[1] \in ReachableIn(fs) /\ Slot(fs, e[1], e[2]) # None
    BY <2>1 DEF SettingOn, Walked
  <2>3. QED BY <2>1, <2>2, LinksAreSlots
<1> HIDE DEF L
<1>5. Cardinality(N) = Cardinality(L)
  BY <1>3, <1>4
<1>6. ASSUME \A y \in Ids : IsDir(fs, y) => Cardinality(LinksTo(fs, y)) <= 1
      PROVE  OneEntry(fs)
  <2> SUFFICES ASSUME NEW d1 \in Ids, NEW d2 \in Ids, NEW n1 \in Names, NEW n2 \in Names,
                      Slot(fs, d1, n1) # None, Slot(fs, d2, n2) # None,
                      Slot(fs, d1, n1).id = Slot(fs, d2, n2).id, IsDir(fs, Slot(fs, d1, n1).id)
               PROVE  d1 = d2 /\ n1 = n2
    BY DEF OneEntry
  <2> DEFINE y == Slot(fs, d1, n1).id
             P == LinksTo(fs, y)
  <2>1. y \in Ids
    BY <1>1, SlotWide
  <2>2. <<d1, n1>> \in P /\ <<d2, n2>> \in P
    BY LinksAreSlots
  <2>3. IsFiniteSet(P) /\ Cardinality(P) <= 1 /\ Cardinality(P) \in Nat
    BY <1>6, <2>1, LinksFinite DEF Links
  <2> HIDE DEF P
  <2>4. <<d1, n1>> = <<d2, n2>>
    <3>1. {<<d1, n1>>, <<d2, n2>>} \subseteq P
      BY <2>2
    <3>2. Cardinality({<<d1, n1>>, <<d2, n2>>}) <= Cardinality(P)
      BY <2>3, <3>1, FS_Subset
    <3>3. IsFiniteSet({<<d1, n1>>}) /\ Cardinality({<<d1, n1>>}) = 1
      BY FS_Singleton
    <3>4. {<<d1, n1>>} \cup {<<d2, n2>>} = {<<d1, n1>>, <<d2, n2>>}
      OBVIOUS
    <3>5. <<d2, n2>> \notin {<<d1, n1>>} => Cardinality({<<d1, n1>>, <<d2, n2>>}) = 2
      <4>1. Cardinality({<<d1, n1>>} \cup {<<d2, n2>>})
              = IF <<d2, n2>> \in {<<d1, n1>>} THEN Cardinality({<<d1, n1>>}) ELSE Cardinality({<<d1, n1>>}) + 1
        BY <3>3, FS_AddElement
      <4>2. QED BY <3>3, <3>4, <4>1
    <3>6. <<d2, n2>> \in {<<d1, n1>>}
      <4>1. ASSUME NEW a \in Nat, a <= 1, NEW b, b <= a PROVE b # 2
        BY <4>1
      <4>2. Cardinality({<<d1, n1>>, <<d2, n2>>}) # 2
        BY <2>3, <3>2, <4>1
      <4>3. QED BY <3>5, <4>2
    <3>7. QED BY <3>6
  <2>5. QED BY <2>4
<1>7. OneEntry(fs) => m[x] = Cardinality(L)
  BY <1>1 DEF SettingOn, Walked, L
<1>8. QED BY <1>1, <1>2, <1>5, <1>6, <1>7

-----------------------------------------------------------------------------
(* The steps of fix *)

(* What the invariant says in a phase of fix. *)
LEMMA FixParts ==
    ASSUME FixInv, Fixing
    PROVE  /\ Core(mem, disk, HeldBy(stack)) /\ StackOn(stack, mem)
           /\ Volume(mem) /\ Volume(disk) /\ mem \in Files /\ disk \in Files
           /\ handles = [id \in Ids |-> 0]
           /\ all_ids \in SUBSET Ids /\ Root \in all_ids
           /\ unseen \in SUBSET Ids
           /\ nlink_map \in [Ids -> Nat]
           /\ phase \in {"helper", "orphans"} => nlink_map = [id \in Ids |-> 0]
           /\ ~dirsOpen => Acyclic(Arcs(mem) \cup Arcs(disk))
           /\ PhaseInv
           /\ phase \in Walks <=> stack # <<>>
<1>1. FixingInv /\ PhaseInv /\ (phase \in Walks <=> stack # <<>>)
  BY DEF FixInv
<1>2. Core(mem, disk, HeldBy(stack))
  BY <1>1, HeldIs DEF FixingInv
<1>3. Volume(mem) /\ Volume(disk) /\ mem \in Files /\ disk \in Files
  BY <1>2 DEF Core, Volume
<1>4. QED BY <1>1, <1>2, <1>3 DEF FixingInv

(* What has to be shown of a step to a phase of fix. *)
LEMMA FixGoesOn ==
    ASSUME phase' \in Walks \cup {"orphans"}, phase' \in Walks <=> stack' # <<>>,
           Core(mem', disk', HeldBy(stack')), StackOn(stack', mem'),
           handles' = [id \in Ids |-> 0],
           all_ids' \in SUBSET Ids, Root \in all_ids',
           unseen' \in SUBSET Ids,
           nlink_map' \in [Ids -> Nat],
           phase' \in {"helper", "orphans"} => nlink_map' = [id \in Ids |-> 0],
           ~dirsOpen' => Acyclic(Arcs(mem') \cup Arcs(disk')),
           phase' = "helper" => HelperOn(mem', stack', all_ids', gone', declined'),
           phase' = "orphans" => OrphansOn(mem', disk', all_ids', unseen' \ refused', gone', declined'),
           phase' \in {"CollectingNLink", "FixingNLink"} => CountOn(mem', all_ids', gone', declined'),
           phase' = "CollectingNLink" =>
              \E S \in SUBSET Ids, C \in SUBSET (Ids \X Names) : CollectingOn(mem', stack', nlink_map', S, C),
           phase' = "FixingNLink" =>
              \E S \in SUBSET Ids, C \in SUBSET (Ids \X Names) :
                 \E D \in SUBSET Ids : SettingOn(mem', stack', nlink_map', S, C, D)
    PROVE  FixInv'
<1>1. Held' = HeldBy(stack')
  BY DEF Held, HeldBy
<1>2. FixingInv'
  BY <1>1 DEF FixingInv
<1>3. CollectingInv' <=> \E S \in SUBSET Ids, C \in SUBSET (Ids \X Names) : CollectingOn(mem', stack', nlink_map', S, C)
  BY DEF CollectingInv
<1>4. SettingInv' <=> \E S \in SUBSET Ids, C \in SUBSET (Ids \X Names) :
                         \E D \in SUBSET Ids : SettingOn(mem', stack', nlink_map', S, C, D)
  BY DEF SettingInv
<1>5. PhaseInv'
  BY <1>3, <1>4 DEF PhaseInv
<1>6. phase' # "complete" /\ phase' # "undefined" /\ phase' # "mounted"
  BY DEF Walks
<1>7. FixRepairs' /\ FixedCounts' /\ NeverReopensHeld'
  BY <1>6 DEF FixRepairs, FixedCounts, NeverReopensHeld
<1>8. QED BY <1>2, <1>5, <1>6, <1>7 DEF FixInv

(* Every guard closes. *)
LEMMA FixAborts ==
    ASSUME phase' = "aborted", stack' = <<>>
    PROVE  FixInv'
<1>1. FixRepairs' /\ FixedCounts' /\ NeverReopensHeld'
  BY DEF FixRepairs, FixedCounts, NeverReopensHeld
<1>2. ~Fixing'
  BY DEF Fixing, Walks
<1>3. QED BY <1>1, <1>2 DEF FixInv, Walks

(* What has to be shown for FixKeepsFiles. *)
LEMMA PathsKept ==
    ASSUME FixInv, Fixing => LinkedPaths(disk) \subseteq LinkedPaths(disk')
    PROVE  KeepsLinkedPaths
<1> SUFFICES ASSUME Fixing PROVE LinkedPaths(Without(disk, refused')) \subseteq LinkedPaths(disk')
  BY DEF KeepsLinkedPaths, LinkedPaths
<1>1. disk \in Files
  BY FixParts
<1>2. /\ Without(disk, refused') \in Files
      /\ \A x \in Ids : Without(disk, refused')[x] = IF x \in refused' THEN NoFile ELSE disk[x]
  BY <1>1, WithoutFacts
<1>3. LinkedPaths(Without(disk, refused')) \subseteq LinkedPaths(disk)
  BY <1>1, <1>2, FewerPaths
<1>4. QED BY <1>3

(* fix starts with memory as disk is. *)
LEMMA SelfCore ==
    ASSUME NEW fs, Volume(fs), NEW H
    PROVE  Core(fs, fs, H)
BY DEF Core, Mirrored, Leads

(* An entry is left as it is. *)
LEMMA SelfPut ==
    ASSUME NEW fs \in Files, NEW d, NEW n
    PROVE  PutTo(fs, fs, d, n, Slot(fs, d, n))
BY DEF PutTo, OtherSlots

(* FileTable::close of the last reference. *)
LEMMA ClosedIs ==
    ASSUME NEW fs \in Files, NEW x \in Ids, Exists(fs, x)
    PROVE  /\ ClosedTo(fs, Closed(fs, x), x)
           /\ Exists(Closed(fs, x), x) <=> fs[x].nlink > 0
           /\ Exists(Closed(fs, x), x) => Closed(fs, x)[x] = fs[x]
<1>1. fs[x] \in FixNode /\ fs[x].nlink \in Nat
  BY DEF Exists, Files, FixNode
<1>2. CASE fs[x].nlink = 0
  <2> DEFINE hs == [fs EXCEPT ![x] = NoFile]
  <2>1. hs \in Files /\ hs[x] = NoFile /\ \A y \in Ids : y # x => hs[y] = fs[y]
    BY DEF Files
  <2>2. Closed(fs, x) = hs
    BY <1>2 DEF Closed
  <2> HIDE DEF hs
  <2>3. ~Exists(hs, x)
    BY <2>1 DEF Exists
  <2>4. QED BY <1>2, <2>1, <2>2, <2>3 DEF ClosedTo
<1>3. CASE fs[x].nlink # 0
  <2>1. Closed(fs, x) = fs
    BY <1>3 DEF Closed
  <2>2. QED BY <1>1, <1>3, <2>1 DEF ClosedTo
<1>4. QED BY <1>2, <1>3

(* fix is killed, or what a mount left is given to it. *)
LEMMA CrashThenFixStep ==
    ASSUME FixInv, CrashThenFix
    PROVE  FixInv' /\ KeepsLinkedPaths
<1> DEFINE f == [dir |-> Root, rest |-> {n \in Names : disk[Root].ents[n] # None}]
<1>1. PICK W \in KillRefuses :
        /\ refused' = refused \cup W /\ disk' = Without(disk, W) /\ mem' = disk'
        /\ IF Root \in W THEN phase' = "aborted" /\ stack' = <<>> ELSE phase' = "helper" /\ stack' = <<f>>
  BY DEF CrashThenFix
<1>2. /\ all_ids' = {Root} /\ unseen' = {} /\ nlink_map' = [id \in Ids |-> 0]
      /\ handles' = [id \in Ids |-> 0] /\ declined' = FALSE /\ gone' = {}
      /\ dirsOpen' = (dirsOpen \/ \E id \in Ids : IsDir(mem, id) /\ handles[id] > 0)
  BY DEF CrashThenFix, StartIds
<1>3. Volume(disk) /\ (~dirsOpen' => Acyclic(Arcs(disk)))
  <2>1. CASE phase = "mounted"
    <3>1. MountInv
      BY <2>1 DEF FixInv
    <3>2. Volume(disk)
      BY <3>1, MountLeaves
    <3>3. ASSUME ~dirsOpen' PROVE NoOpenDirs
      <4>1. handles \in [Ids -> 0..MaxHandles] /\ MaxHandles \in Nat
        BY <3>1, FSAssumption DEF MountInv, IInv, TypeOK
      <4>2. \A x \in Ids : handles[x] \in Nat
        BY <4>1
      <4>3. ASSUME NEW x \in Ids, IsDir(mem, x) PROVE handles[x] = 0
        <5>1. ~(handles[x] > 0)
          BY <1>2, <3>3, <4>3
        <5>2. QED BY <4>2, <5>1
      <4>4. QED BY <4>3 DEF NoOpenDirs
    <3>4. ~dirsOpen' => Acyclic(Arcs(disk))
      BY <3>1, <3>3, FewerArcs DEF MountInv
    <3>5. QED BY <3>2, <3>4
  <2>2. CASE Fixing
    <3>1. Volume(disk) /\ (~dirsOpen => Acyclic(Arcs(mem) \cup Arcs(disk)))
      BY <2>2, FixParts
    <3>2. ~dirsOpen => Acyclic(Arcs(disk))
      BY <3>1, FewerArcs
    <3>3. QED BY <1>2, <3>1, <3>2
  <2>3. QED BY <2>1, <2>2 DEF CrashThenFix
<1>4. KeepsLinkedPaths
  <2>1. disk \in Files
    BY <1>3 DEF Volume
  <2>2. /\ Without(disk, refused') \in Files /\ disk' \in Files
        /\ \A x \in Ids : Without(disk, refused')[x] = IF x \in refused' THEN NoFile ELSE disk[x]
        /\ \A x \in Ids : disk'[x] = IF x \in W THEN NoFile ELSE disk[x]
    BY <1>1, <2>1, WithoutFacts
  <2>3. \A x \in Ids : Without(disk, refused')[x] = disk'[x] \/ Without(disk, refused')[x] = NoFile
    BY <1>1, <2>2
  <2>4. LinkedPaths(Without(disk, refused')) \subseteq LinkedPaths(disk')
    BY <2>2, <2>3, FewerPaths
  <2>5. QED BY <2>4 DEF KeepsLinkedPaths, LinkedPaths
<1>5. CASE Root \in W
  BY <1>1, <1>4, <1>5, FixAborts
<1>6. CASE Root \notin W
  <2>1. /\ Volume(disk') /\ Arcs(disk') \subseteq Arcs(disk) /\ disk'[Root] = disk[Root]
        /\ mem' = disk' /\ phase' = "helper" /\ stack' = <<f>>
    BY <1>1, <1>3, <1>6, WithoutVolume
  <2>2. f = [dir |-> Root, rest |-> {n \in Names : disk'[Root].ents[n] # None}]
    BY <2>1
  <2> HIDE DEF f
  <2>3. /\ StackOn(<<f>>, disk') /\ <<f>> # <<>> /\ f.dir = Root
        /\ \A d, m : Pending(<<f>>, d, m) <=> d = Root /\ m \in f.rest
        /\ \A n \in Names : n \in f.rest <=> Slot(disk', Root, n) # None
        /\ \A S : StackIn(<<f>>, S) <=> Root \in S
    BY <2>1, <2>2, StackRoot
  <2>4. Core(disk', disk', HeldBy(<<f>>))
    BY <2>1, SelfCore
  <2>5. HelperOn(disk', <<f>>, {Root}, {}, FALSE)
    BY <2>3 DEF HelperOn, LinkedWithin, ReachedWithin
  <2>6. ~dirsOpen' => Acyclic(Arcs(mem') \cup Arcs(disk'))
    BY <1>3, <2>1, FewerArcs
  <2>7. Root \in Ids /\ {Root} \in SUBSET Ids /\ [id \in Ids |-> 0] \in [Ids -> Nat]
    BY FSAssumption
  <2>8. phase' \in Walks /\ stack' # <<>> /\ phase' # "orphans" /\ phase' \notin {"CollectingNLink", "FixingNLink"}
    BY <2>1, <2>3 DEF Walks
  <2>9. /\ Core(mem', disk', HeldBy(stack')) /\ StackOn(stack', mem')
        /\ HelperOn(mem', stack', all_ids', gone', declined')
    BY <1>2, <2>1, <2>3, <2>4, <2>5
  <2>10. FixInv'
    BY <1>2, <2>6, <2>7, <2>8, <2>9, FixGoesOn
  <2>11. QED BY <1>4, <2>10
<1>7. QED BY <1>5, <1>6

(* Where a walk is: an entry n of the current directory. *)
LEMMA WalkAt ==
    ASSUME FixInv, Fixing, stack # <<>>, NEW n \in Top.rest
    PROVE  /\ Top = stack[1] /\ n \in stack[1].rest /\ n \in Names /\ Top.dir = stack[1].dir
           /\ stack[1].dir \in Ids /\ stack[1].dir \in HeldBy(stack) /\ IsDir(mem, stack[1].dir)
           /\ Slot(mem, stack[1].dir, n) # None
           /\ mem[Top.dir].ents[n] = Slot(mem, stack[1].dir, n)
           /\ Slot(mem, stack[1].dir, n).id \in Ids
           /\ Slot(mem, stack[1].dir, n).id # Root
           /\ Slot(mem, stack[1].dir, n) \in FixEntry
           /\ Advanced(n) = Ahead(stack, n)
<1>1. StackOn(stack, mem) /\ mem \in Files /\ Volume(mem)
  BY FixParts
<1>2. Top = stack[1]
  BY <1>1, TopFacts DEF Top
<1>3. /\ stack[1].dir \in Ids /\ n \in stack[1].rest /\ n \in Names /\ IsDir(mem, stack[1].dir)
      /\ Slot(mem, stack[1].dir, n) # None
  BY <1>1, <1>2, TopFacts
<1>4. stack[1].dir \in HeldBy(stack)
  BY <1>1, HeldFacts
<1>5. /\ Slot(mem, stack[1].dir, n) = mem[stack[1].dir].ents[n] /\ Slot(mem, stack[1].dir, n).id \in Ids
      /\ Slot(mem, stack[1].dir, n) \in FixEntry
  BY <1>1, <1>3, SlotWide
<1>6. Slot(mem, stack[1].dir, n).id # Root
  BY <1>1, <1>3 DEF Volume, RootUnnamed
<1>7. Advanced(n) = Ahead(stack, n)
  BY DEF Advanced, Ahead, Top
<1>8. QED BY <1>2, <1>3, <1>4, <1>5, <1>6, <1>7

(* fix_helper on an entry that cannot be opened keeps the invariant and the paths. *)
LEMMA HelperUnopenableStep ==
    ASSUME FixInv, phase = "helper", stack # <<>>, NEW n \in Top.rest, HelperUnopenable(n)
    PROVE  FixInv' /\ KeepsLinkedPaths
<1> DEFINE d == stack[1].dir
           e == Slot(mem, d, n)
           H == HeldBy(stack)
           put == [mem EXCEPT ![d] = WithEntry(@, n, None)]
<1>1. Fixing
  BY DEF Fixing, Walks
<1>2. /\ n \in stack[1].rest /\ n \in Names /\ d \in Ids /\ d \in H /\ IsDir(mem, d)
      /\ e # None /\ e.id \in Ids /\ Top.dir = d /\ mem[d].ents[n] = e /\ Advanced(n) = Ahead(stack, n)
  BY <1>1, WalkAt
<1>3. /\ Core(mem, disk, H) /\ StackOn(stack, mem) /\ mem \in Files
      /\ all_ids \in SUBSET Ids /\ Root \in all_ids /\ unseen \in SUBSET Ids
      /\ handles = [id \in Ids |-> 0] /\ nlink_map = [id \in Ids |-> 0] /\ nlink_map \in [Ids -> Nat]
      /\ ~dirsOpen => Acyclic(Arcs(mem) \cup Arcs(disk))
      /\ HelperOn(mem, stack, all_ids, gone, declined)
  BY <1>1, FixParts DEF PhaseInv
<1>4. /\ ~Exists(mem, e.id) /\ stack' = Ahead(stack, n)
      /\ (mem' = put /\ declined' = declined) \/ (declined' = TRUE /\ mem' = mem)
      /\ UNCHANGED <<disk, handles, todo, phase, all_ids, unseen, nlink_map, dirsOpen, gone>>
  BY <1>2 DEF HelperUnopenable
<1>5. PutTo(mem, put, d, n, None)
  BY <1>2, <1>3, PutFacts DEF IsDir
<1> HIDE DEF put
<1>6. ~Leads(disk, d, n)
  <2> SUFFICES ASSUME Leads(disk, d, n) PROVE FALSE
    OBVIOUS
  <2>1. e.id = Slot(disk, d, n).id /\ Exists(disk, e.id)
    BY <1>2, <1>3 DEF Core, Mirrored, Leads
  <2>2. QED BY <1>2, <1>3, <1>4, <2>1 DEF Core, Mirrored
<1>7. Core(put, disk, H)
  BY <1>2, <1>3, <1>5, <1>6, PutCore
<1>8. Core(mem', disk, H) /\ Arcs(mem') \subseteq Arcs(mem)
  BY <1>3, <1>4, <1>5, <1>7, PutArcs
<1>9. HeldBy(stack') = H
  BY <1>3, <1>4, HeldAhead
<1>10. StackOn(stack', mem) /\ stack' # <<>> /\ stack'[1].dir = d /\ n \notin stack'[1].rest
  BY <1>3, <1>4, AheadStack
<1>11. StackOn(stack', put)
  <2>1. \A x \in Ids : IsDir(mem, x) => IsDir(put, x)
    BY <1>5 DEF PutTo, IsDir
  <2>2. \A c \in Ids, m \in Names : (c # d \/ m # n) => Slot(put, c, m) = Slot(mem, c, m)
    BY <1>5 DEF PutTo, OtherSlots
  <2>3. QED BY <1>10, <2>1, <2>2, StackPut
<1>12. StackOn(stack', mem')
  BY <1>4, <1>10, <1>11
<1>13. HelperOn(mem', stack', all_ids, gone, declined')
  <2>1. (PutTo(mem, mem', d, n, None) /\ declined' = declined) \/ (mem' = mem /\ declined' = TRUE)
    BY <1>4, <1>5
  <2>2. QED BY <1>2, <1>3, <1>4, <2>1, HelperUnopened
<1>14. Acyclic(Arcs(mem) \cup Arcs(disk)) => Acyclic(Arcs(mem') \cup Arcs(disk))
  BY <1>8, FewerArcs
<1>15. FixInv'
  <2>1. phase' = "helper" /\ phase' \in Walks
    BY <1>4 DEF Walks
  <2>2. QED BY <1>3, <1>4, <1>8, <1>9, <1>10, <1>12, <1>13, <1>14, <2>1, FixGoesOn
<1>16. KeepsLinkedPaths
  BY <1>4, PathsKept
<1>17. QED BY <1>15, <1>16

(* The file x is written as hs has it. *)
WroteTo(gs, x, hs) == [gs EXCEPT ![x] = hs[x]]

(* A walk looked at an entry: it put e2 in its place, closed the file and may
   have entered it.                                                          *)
LEMMA WalkOn ==
    ASSUME NEW fs, NEW gs, NEW s, Core(fs, gs, HeldBy(s)), NEW n, NEW e, NEW ms, NEW e2, NEW hs,
           Looked(fs, s, n, e, ms, e2, hs), Core(ms, gs, HeldBy(s)),
           NEW t, t = Ahead(s, n) \/ (IsDir(hs, e.id) /\ t = <<FrameOf(fs, e.id)>> \o Ahead(s, n))
    PROVE  /\ Core(hs, WroteTo(gs, e.id, hs), HeldBy(t)) /\ StackOn(t, hs) /\ t # <<>>
           /\ Arcs(hs) \cup Arcs(WroteTo(gs, e.id, hs)) \subseteq Arcs(fs) \cup Arcs(gs)
<1> USE DEF Looked
<1> DEFINE d == s[1].dir
           x == e.id
           H == HeldBy(s)
           ks == WroteTo(gs, e.id, hs)
           f == FrameOf(fs, e.id)
           a == Ahead(s, n)
<1>1. fs \in Files /\ ms \in Files /\ gs \in Files /\ hs \in Files /\ Volume(fs) /\ Volume(ms) /\ Volume(gs)
  BY DEF Core, Volume, PutTo, ClosedTo
<1>2. d \in Ids /\ n \in Names /\ Slot(fs, d, n) # None /\ e # None /\ IsDir(fs, d) /\ d \in H
  BY TopFacts, HeldFacts
<1>3. x \in Ids /\ x # Root /\ x # d /\ \A i \in 1..Len(s) : s[i].dir # x
  BY <1>1, <1>2, SlotWide, NotHeld
<1>4. Core(hs, ks, H) /\ ClosedTo(gs, ks, x)
  BY <1>3, CloseCore DEF WroteTo
<1>5. Arcs(hs) \subseteq Arcs(ms) /\ Arcs(ks) \subseteq Arcs(gs)
  BY <1>1, <1>3, <1>4, CloseArcs
<1>6. Arcs(ms) \subseteq Arcs(fs)
  BY <1>2, PutArcs
<1> HIDE DEF ks
<1>7. StackOn(a, fs) /\ a # <<>> /\ a[1].dir = d /\ n \notin a[1].rest /\ a \in Seq(Frames)
  BY AheadStack DEF StackOn
<1>8. HeldBy(a) = H
  BY HeldAhead
<1> HIDE DEF a
<1>9. StackOn(a, ms)
  <2>1. \A y \in Ids : IsDir(fs, y) => IsDir(ms, y)
    BY DEF PutTo, IsDir
  <2>2. \A c \in Ids, m \in Names : (c # d \/ m # n) => Slot(ms, c, m) = Slot(fs, c, m)
    BY DEF PutTo, OtherSlots
  <2>3. QED BY <1>7, <2>1, <2>2, StackPut
<1>10. \A i \in 1..Len(a) : a[i].dir \in Ids /\ a[i].dir # x
  BY <1>7, <1>8, HeldFacts
<1>11. StackOn(a, hs)
  BY <1>9, <1>10, StackKept DEF ClosedTo
<1>12. CASE t = a
  BY <1>4, <1>5, <1>6, <1>7, <1>8, <1>11, <1>12 DEF ks
<1>13. CASE IsDir(hs, x) /\ t = <<f>> \o a
  <2>1. /\ f \in Frames /\ f.dir = x /\ \A k \in Names : Slot(fs, x, k) # None <=> k \in f.rest
        /\ f.rest \subseteq Names
    BY <1>3, FrameOfFacts DEF Frames
  <2> HIDE DEF f
  <2>2. Exists(hs, x) /\ hs[x].ents = fs[x].ents
    BY <1>3, <1>13 DEF PutTo, ClosedTo, IsDir
  <2>3. FrameOn(f, hs)
    <3>1. \A k \in Names : Slot(hs, x, k) = Slot(fs, x, k)
      BY <2>2 DEF Slot
    <3>2. QED BY <1>13, <2>1, <3>1 DEF FrameOn
  <2>4. Slot(hs, d, n) = e2
    <3>1. hs[d] = ms[d]
      BY <1>2, <1>3 DEF ClosedTo
    <3>2. QED BY <3>1 DEF PutTo, Slot, Exists
  <2>5. <<d, x>> \in Arcs(hs)
    BY <1>2, <1>3, <2>4 DEF Arcs
  <2>6. StackOn(<<f>> \o a, hs) /\ <<f>> \o a # <<>>
    BY <1>7, <1>10, <1>11, <2>1, <2>3, <2>5, StackPush
  <2>7. HeldBy(<<f>> \o a) = H \cup {x}
    BY <1>7, <1>8, <2>1, HeldPush
  <2>8. Core(hs, ks, HeldBy(t))
    BY <1>4, <1>13, <2>7, HoldCore
  <2>9. QED BY <1>5, <1>6, <1>13, <2>6, <2>8 DEF ks
<1>14. QED BY <1>12, <1>13 DEF a

(* fix_helper on an entry that can be opened keeps the invariant and the paths: what
   it closes has links if a path of files with links leads to it. *)
LEMMA HelperOpenableStep ==
    ASSUME FixInv, phase = "helper", stack # <<>>, NEW n \in Top.rest, HelperOpenable(n)
    PROVE  FixInv' /\ KeepsLinkedPaths
<1> DEFINE d == stack[1].dir
           e == Slot(mem, d, n)
           x == e.id
           H == HeldBy(stack)
           new == [id |-> x, type |-> mem[x].type]
<1>1. Fixing
  BY DEF Fixing, Walks
<1>2. /\ n \in stack[1].rest /\ n \in Names /\ d \in Ids /\ d \in H /\ IsDir(mem, d) /\ Exists(mem, d)
      /\ e # None /\ e \in FixEntry /\ x \in Ids /\ x # Root
      /\ Top.dir = d /\ mem[d].ents[n] = e /\ Advanced(n) = Ahead(stack, n)
  BY <1>1, WalkAt DEF IsDir
<1>3. /\ Core(mem, disk, H) /\ StackOn(stack, mem) /\ mem \in Files /\ Volume(mem) /\ disk \in Files
      /\ all_ids \in SUBSET Ids /\ Root \in all_ids /\ unseen \in SUBSET Ids
      /\ handles = [id \in Ids |-> 0] /\ nlink_map = [id \in Ids |-> 0] /\ nlink_map \in [Ids -> Nat]
      /\ ~dirsOpen => Acyclic(Arcs(mem) \cup Arcs(disk))
      /\ HelperOn(mem, stack, all_ids, gone, declined)
  BY <1>1, FixParts DEF PhaseInv
<1>4. Retyped(d, n) = [mem EXCEPT ![d] = WithEntry(@, n, new)]
  BY <1>2 DEF Retyped
<1>5. Exists(mem, x) /\ x \notin Held
  BY <1>2 DEF HelperOpenable
<1>6. x \notin H /\ x # d
  BY <1>2, <1>5, HeldIs
<1>7. PICK ms \in {mem} \cup (IF e.type = mem[x].type THEN {} ELSE {Retyped(d, n)}) :
        LET after == Closed(ms, x) IN
        IF mem[x].type = "DIR" /\ ~Exists(after, x)
        THEN Abort(after)
        ELSE /\ mem' = after
             /\ disk' = WrittenBack(after, x)
             /\ declined' = (declined \/ (e.type # mem[x].type /\ ms = mem))
             /\ all_ids' = all_ids \cup {x}
             /\ gone' = gone \cup RemovedBy(after)
             /\ stack' = IF mem[x].type = "DIR" THEN <<Frame(x)>> \o Advanced(n) ELSE Advanced(n)
             /\ UNCHANGED <<handles, todo, phase, unseen, nlink_map, dirsOpen>>
  BY <1>2 DEF HelperOpenable
<1> DEFINE hs == Closed(ms, x)
           e2 == Slot(ms, d, n)
<1>8. new \in FixEntry
  <2>1. mem[x] \in FixNode
    BY <1>2, <1>3, <1>5 DEF Files, Exists
  <2>2. QED BY <1>2, <2>1 DEF FixEntry, FixNode
<1>9. /\ PutTo(mem, ms, d, n, e2) /\ e2 # None /\ e2.id = x
      /\ \/ ms = mem /\ e2 = e
         \/ e2.type = mem[x].type
      /\ e2.type = mem[x].type \/ (ms = mem /\ e2.type = e.type)
  <2>1. CASE ms = mem
    BY <1>2, <1>3, <2>1, SelfPut
  <2>2. CASE ms # mem
    <3>1. ms = [mem EXCEPT ![d] = WithEntry(@, n, new)]
      BY <1>4, <1>7, <2>2
    <3>2. PutTo(mem, ms, d, n, new)
      BY <1>2, <1>3, <1>8, <3>1, PutFacts
    <3>3. e2 = new /\ new # None /\ new.id = x /\ new.type = mem[x].type
      BY <1>8, <3>2, FixAssumption DEF PutTo
    <3> HIDE DEF new
    <3>4. QED BY <3>2, <3>3
  <2>3. QED BY <2>1, <2>2
<1>10. Core(ms, disk, H)
  <2>1. CASE ms = mem
    BY <1>3, <2>1
  <2>2. CASE e2.type = mem[x].type
    <3>1. Leads(disk, d, n) => e2.id = Slot(disk, d, n).id
      BY <1>2, <1>3, <1>9 DEF Core, Mirrored
    <3>2. d = Root => \A y \in Ids : n = hexify(y) => e2.id = y
      BY <1>2, <1>3, <1>9 DEF Volume, HexNamed
    <3>3. e2.id \in Ids \ {Root} /\ (Exists(mem, e2.id) => mem[e2.id].type \in {e2.type, "UNKNOWN"})
      BY <1>2, <1>9, <2>2
    <3> HIDE DEF e2
    <3>4. QED BY <1>2, <1>3, <1>9, <3>1, <3>2, <3>3, PutCore
  <2>3. QED BY <1>9, <2>1, <2>2
<1>11. ms \in Files /\ Volume(ms) /\ Exists(ms, x) /\ ms[x] = mem[x]
  BY <1>2, <1>5, <1>6, <1>9, <1>10 DEF PutTo, Core, Volume
<1>12. /\ ClosedTo(ms, hs, x)
       /\ Exists(hs, x) <=> mem[x].nlink > 0
       /\ Exists(hs, x) => hs[x] = mem[x]
  BY <1>2, <1>11, ClosedIs
<1>13. x \in LinkedPaths(disk) => HasLinks(hs, x)
  <2>1. ASSUME x \in LinkedPaths(disk) PROVE HasLinks(disk, x)
    BY <1>3, <2>1, PathsHaveLinks
  <2>2. mem[x] = disk[x]
    BY <1>2, <1>3, <1>6 DEF Core, Mirrored
  <2>3. QED BY <1>12, <2>1, <2>2 DEF HasLinks
<1>14. RemovedBy(hs) = IF Exists(hs, x) THEN {} ELSE {x}
  <2>1. \A y \in Ids : y # x => (Exists(hs, y) <=> Exists(mem, y))
    BY <1>9, <1>12 DEF PutTo, ClosedTo, Exists
  <2>2. QED BY <1>2, <1>5, <2>1 DEF RemovedBy
<1> HIDE DEF hs, e2
<1>18. Looked(mem, stack, n, e, ms, e2, hs)
  BY <1>2, <1>3, <1>5, <1>6, <1>9, <1>12 DEF Looked
<1>15. CASE mem[x].type = "DIR" /\ ~Exists(hs, x)
  <2>1. Abort(hs)
    BY <1>7, <1>15 DEF hs
  <2>2. FixInv'
    BY <2>1, FixAborts DEF Abort
  <2>3. LinkedPaths(disk) \subseteq LinkedPaths(hs)
    BY <1>2, <1>10, <1>12, <1>13, AbortKeeps
  <2>4. KeepsLinkedPaths
    BY <2>1, <2>3, PathsKept DEF Abort
  <2>5. QED BY <2>2, <2>4
<1>16. CASE ~(mem[x].type = "DIR" /\ ~Exists(hs, x))
  <2>1. /\ mem' = hs
        /\ disk' = WroteTo(disk, x, hs)
        /\ declined' = (declined \/ (e.type # mem[x].type /\ ms = mem))
        /\ all_ids' = all_ids \cup {x}
        /\ gone' = gone \cup RemovedBy(hs)
        /\ stack' = IF mem[x].type = "DIR" THEN <<FrameOf(mem, x)>> \o Ahead(stack, n) ELSE Ahead(stack, n)
        /\ UNCHANGED <<handles, todo, phase, unseen, nlink_map, dirsOpen>>
    BY <1>2, <1>7, <1>16 DEF hs, WrittenBack, Frame, Listing, FrameOf, WroteTo
  <2>2. Entered(mem, stack, n, x, mem[x].type = "DIR", stack')
    BY <2>1 DEF Entered
  <2>3. mem[x].type = "DIR" => IsDir(hs, x)
    BY <1>12, <1>16 DEF IsDir
  <2>4. /\ Core(hs, WroteTo(disk, x, hs), HeldBy(stack')) /\ StackOn(stack', hs) /\ stack' # <<>>
        /\ Arcs(hs) \cup Arcs(WroteTo(disk, x, hs)) \subseteq Arcs(mem) \cup Arcs(disk)
    <3>1. stack' = Ahead(stack, n) \/ (IsDir(hs, x) /\ stack' = <<FrameOf(mem, x)>> \o Ahead(stack, n))
      BY <2>1, <2>3
    <3>2. QED BY <1>3, <1>10, <1>18, <3>1, WalkOn
  <2>5. HelperOn(hs, stack', all_ids', gone', declined')
    <3>1. ~declined' => ~declined /\ e2.type = mem[x].type
      BY <1>9, <2>1
    <3>2. gone \subseteq gone' /\ (~Exists(hs, x) => x \in gone')
      BY <1>14, <2>1
    <3>3. Exists(hs, x) => hs[x].nlink > 0
      BY <1>12
    <3>4. mem[x].type = "DIR" => Exists(hs, x)
      BY <1>16
    <3>5. HelperOn(hs, stack', all_ids \cup {x}, gone', declined')
      BY <1>3, <1>11, <1>18, <2>2, <3>1, <3>2, <3>3, <3>4, HelperOpened
    <3>6. QED BY <2>1, <3>5
  <2>6. Acyclic(Arcs(mem) \cup Arcs(disk)) => Acyclic(Arcs(mem') \cup Arcs(disk'))
    BY <2>1, <2>4, FewerArcs
  <2>7. FixInv'
    <3>1. phase' = "helper" /\ phase' \in Walks
      BY <2>1 DEF Walks
    <3>2. all_ids' \in SUBSET Ids /\ Root \in all_ids'
      BY <1>2, <1>3, <2>1
    <3>3. Core(mem', disk', HeldBy(stack')) /\ StackOn(stack', mem') /\ stack' # <<>>
          /\ HelperOn(mem', stack', all_ids', gone', declined')
      BY <2>1, <2>4, <2>5
    <3>4. QED BY <1>3, <2>1, <2>6, <3>1, <3>2, <3>3, FixGoesOn
  <2>8. LinkedPaths(disk) \subseteq LinkedPaths(disk')
    BY <1>2, <1>6, <1>10, <1>12, <1>13, <2>1, CloseKeeps DEF WroteTo
  <2>9. KeepsLinkedPaths
    BY <2>8, PathsKept
  <2>10. QED BY <2>7, <2>9
<1>17. QED BY <1>15, <1>16

(* Directories without a cycle: what the recursion holds is not met again. *)
LEMMA HeldNotMet ==
    ASSUME NEW fs, Volume(fs), NEW s, StackOn(s, fs), s # <<>>, NEW n \in s[1].rest,
           Acyclic(Arcs(fs))
    PROVE  Slot(fs, s[1].dir, n).id \notin HeldBy(s)
<1> DEFINE x == Slot(fs, s[1].dir, n).id
<1>1. fs \in Files /\ s[1].dir \in Ids /\ n \in Names /\ Slot(fs, s[1].dir, n) # None /\ s \in Seq(Frames)
  BY TopFacts DEF Volume
<1>2. x # Root /\ x \in Ids
  BY <1>1, SlotWide DEF Volume, RootUnnamed
<1> SUFFICES ASSUME x \in HeldBy(s) PROVE FALSE
  OBVIOUS
<1>3. PICK i \in 1..Len(s) : x = s[i].dir
  BY <1>2 DEF HeldBy
<1>4. Len(s) \in Nat /\ i \in Nat /\ 1 <= i /\ i <= Len(s)
  BY <1>1, FrameFacts
<1> DEFINE S == {s[j].dir : j \in 1..i}
<1>5. \A j \in 1..i : j \in 1..Len(s) /\ s[j].dir \in Ids
  <2>1. \A j \in 1..i : j \in 1..Len(s)
    BY <1>4
  <2>2. QED BY <1>1, <2>1, FrameFacts
<1>6. S \in SUBSET Ids /\ x \in S
  <2>1. i \in 1..i
    BY <1>4
  <2>2. QED BY <1>3, <1>5, <2>1
<1>7. PICK y \in S : \A z \in S : <<z, y>> \notin Arcs(fs)
  BY <1>6 DEF Acyclic
<1>8. PICK j \in 1..i : y = s[j].dir
  BY <1>7
<1>9. CASE j = i
  <2>1. s[1].dir \in S
    <3>1. 1 \in 1..i
      BY <1>4
    <3>2. QED BY <3>1
  <2>2. <<s[1].dir, x>> \in Arcs(fs)
    BY <1>1, <1>2 DEF Arcs
  <2>3. QED BY <1>3, <1>7, <1>8, <1>9, <2>1, <2>2
<1>10. CASE j # i
  <2>1. j \in 1..Len(s) /\ j + 1 \in 1..i /\ j + 1 \in 1..Len(s)
    BY <1>4, <1>8, <1>10
  <2>2. <<s[j + 1].dir, s[j].dir>> \in Arcs(fs)
    BY <2>1 DEF StackOn
  <2>3. s[j + 1].dir \in S
    BY <2>1
  <2>4. QED BY <1>7, <1>8, <2>2, <2>3
<1>11. QED BY <1>9, <1>10

(* fix opens a directory that it holds: directories were open in the mount. *)
LEMMA ReopenHeldStep ==
    ASSUME FixInv, Fixing, stack # <<>>, NEW n \in Top.rest, ReopenHeld(n)
    PROVE  FixInv' /\ KeepsLinkedPaths
<1>1. /\ n \in stack[1].rest /\ mem[Top.dir].ents[n] = Slot(mem, stack[1].dir, n)
  BY WalkAt
<1>2. Volume(mem) /\ StackOn(stack, mem) /\ (~dirsOpen => Acyclic(Arcs(mem) \cup Arcs(disk)))
  BY FixParts
<1>3. Slot(mem, stack[1].dir, n).id \in HeldBy(stack)
  BY <1>1, HeldIs DEF ReopenHeld
<1>4. dirsOpen
  <2> SUFFICES ASSUME ~dirsOpen PROVE FALSE
    OBVIOUS
  <2>1. Acyclic(Arcs(mem))
    BY <1>2, FewerArcs
  <2>2. QED BY <1>1, <1>2, <1>3, <2>1, HeldNotMet
<1>5. phase' = "undefined" /\ stack' = <<>> /\ dirsOpen' = dirsOpen /\ disk' = disk
  BY DEF ReopenHeld, vars
<1>6. FixRepairs' /\ FixedCounts' /\ NeverReopensHeld'
  BY <1>4, <1>5 DEF FixRepairs, FixedCounts, NeverReopensHeld
<1>7. FixInv'
  BY <1>5, <1>6 DEF FixInv, Fixing, Walks
<1>8. QED BY <1>5, <1>7, PathsKept

(* CloseCore and CloseKeeps of what is written. *)
LEMMA CloseWrote ==
    ASSUME NEW fs, NEW gs, NEW H, Core(fs, gs, H), NEW x \in Ids, x \notin H, x # Root,
           NEW hs, ClosedTo(fs, hs, x), NEW ks, ks = WroteTo(gs, x, hs)
    PROVE  /\ Core(hs, ks, H) /\ ClosedTo(gs, ks, x)
           /\ (x \in LinkedPaths(gs) => HasLinks(hs, x)) => LinkedPaths(gs) \subseteq LinkedPaths(ks)
<1> DEFINE ws == [gs EXCEPT ![x] = hs[x]]
<1>1. Core(hs, ws, H) /\ ClosedTo(gs, ws, x)
  BY CloseCore
<1>2. (x \in LinkedPaths(gs) => HasLinks(hs, x)) => LinkedPaths(gs) \subseteq LinkedPaths(ws)
  BY CloseKeeps
<1>3. ks = ws
  BY DEF WroteTo
<1> HIDE DEF ws
<1>4. QED BY <1>1, <1>2, <1>3

(* A recursive call returns, in any of the three walks. *)
LEMMA ReturnStep ==
    ASSUME FixInv, Return
    PROVE  FixInv' /\ KeepsLinkedPaths
<1> DEFINE d == stack[1].dir
           H == HeldBy(stack)
<1>1. phase \in Walks /\ Fixing /\ stack # <<>>
  BY DEF Return, FixInv, Fixing
<1>2. /\ Core(mem, disk, H) /\ StackOn(stack, mem)
      /\ all_ids \in SUBSET Ids /\ Root \in all_ids /\ unseen \in SUBSET Ids
      /\ handles = [id \in Ids |-> 0] /\ nlink_map \in [Ids -> Nat] /\ mem \in Files /\ disk \in Files
      /\ phase \in {"helper", "orphans"} => nlink_map = [id \in Ids |-> 0]
      /\ ~dirsOpen => Acyclic(Arcs(mem) \cup Arcs(disk))
      /\ PhaseInv
  BY <1>1, FixParts
<1>3. Top = stack[1] /\ d \in Ids
  BY <1>1, <1>2, TopFacts DEF Top
<1>4. /\ stack[1].rest = {} /\ Len(stack) > 1 /\ stack' = Tail(stack)
      /\ disk' = [disk EXCEPT ![d] = mem[d]]
      /\ UNCHANGED <<mem, handles, todo, phase, all_ids, unseen, nlink_map, declined, dirsOpen, gone>>
  BY <1>3 DEF Return, WrittenBack
<1>5. HeldBy(stack') = H \ {d}
  BY <1>2, <1>4, HeldPop
<1>6. Core(mem, disk', H \ {d})
  BY <1>2, <1>3, <1>4, WriteCore
<1>7. StackOn(stack', mem) /\ stack' # <<>>
  BY <1>2, <1>4, StackPop
<1>8. Arcs(disk') \subseteq Arcs(mem) \cup Arcs(disk)
  BY <1>2, <1>3, <1>4, WriteArcs
<1>9. ~dirsOpen' => Acyclic(Arcs(mem') \cup Arcs(disk'))
  BY <1>2, <1>4, <1>8, FewerArcs
<1>10. phase = "helper" => HelperOn(mem, stack', all_ids, gone, declined)
  BY <1>2, <1>4, HelperReturned DEF PhaseInv
<1>11. ASSUME phase = "CollectingNLink"
       PROVE  \E S \in SUBSET Ids, C \in SUBSET (Ids \X Names) : CollectingOn(mem, stack', nlink_map, S, C)
  <2>1. PICK S \in SUBSET Ids, C \in SUBSET (Ids \X Names) : CollectingOn(mem, stack, nlink_map, S, C)
    BY <1>2, <1>11 DEF PhaseInv, CollectingInv
  <2>2. CollectingOn(mem, stack', nlink_map, S, C)
    BY <1>2, <1>4, <2>1, CountReturned
  <2>3. QED BY <2>2
<1>12. ASSUME phase = "FixingNLink"
       PROVE  \E S \in SUBSET Ids, C \in SUBSET (Ids \X Names) :
                 \E D \in SUBSET Ids : SettingOn(mem, stack', nlink_map, S, C, D)
  <2>1. PICK S \in SUBSET Ids, C \in SUBSET (Ids \X Names) :
           \E D \in SUBSET Ids : SettingOn(mem, stack, nlink_map, S, C, D)
    BY <1>2, <1>12 DEF PhaseInv, SettingInv
  <2>2. PICK D \in SUBSET Ids : SettingOn(mem, stack, nlink_map, S, C, D)
    BY <2>1
  <2>3. SettingOn(mem, stack', nlink_map, S, C, D)
    BY <1>2, <1>4, <2>2, CountReturned
  <2>4. QED BY <2>3
<1>13. phase' # "orphans" /\ phase' \in Walks
  BY <1>1, <1>4 DEF Walks
<1>14. phase \in {"CollectingNLink", "FixingNLink"} => CountOn(mem, all_ids, gone, declined)
  BY <1>2 DEF PhaseInv
<1>15. FixInv'
  BY <1>2, <1>4, <1>5, <1>6, <1>7, <1>9, <1>10, <1>11, <1>12, <1>13, <1>14, FixGoesOn
<1>16. LinkedPaths(disk) \subseteq LinkedPaths(disk')
  BY <1>2, <1>3, <1>4, WriteKeeps
<1>17. QED BY <1>15, <1>16, PathsKept

(* fix_helper returns to fix, which lists the underlying files. *)
LEMMA FindAllIdsStep ==
    ASSUME FixInv, RefusedInv, find_all_ids
    PROVE  FixInv' /\ KeepsLinkedPaths
<1>1. phase = "helper" /\ Fixing
  BY DEF find_all_ids, Fixing, Walks
<1>2. /\ Core(mem, disk, HeldBy(stack)) /\ StackOn(stack, mem)
      /\ all_ids \in SUBSET Ids /\ Root \in all_ids
      /\ handles = [id \in Ids |-> 0] /\ nlink_map = [id \in Ids |-> 0] /\ nlink_map \in [Ids -> Nat]
      /\ ~dirsOpen => Acyclic(Arcs(mem) \cup Arcs(disk))
      /\ HelperOn(mem, stack, all_ids, gone, declined)
  BY <1>1, FixParts DEF PhaseInv
<1>3. /\ Len(stack) = 1 /\ Top.rest = {} /\ phase' = "orphans" /\ stack' = <<>>
      /\ unseen' = {id \in Ids : Exists(disk, id)} \cup refused
      /\ UNCHANGED <<mem, disk, handles, todo, all_ids, nlink_map, declined, dirsOpen, gone, refused>>
  BY DEF find_all_ids
<1>4. HeldBy(stack) = {Root} /\ stack # <<>>
  BY <1>2, <1>3, HeldLast
<1>5. Top = stack[1]
  BY <1>2, <1>4, TopFacts DEF Top
<1>6. \A d, m : ~Pending(stack, d, m)
  BY <1>2, <1>3, <1>5, HeldLast
<1>7. OrphansOn(mem, disk, all_ids, unseen' \ refused', gone, declined)
  <2>1. unseen' \ refused' = {id \in Ids : Exists(disk, id)}
    BY <1>1, <1>3 DEF RefusedInv
  <2>2. QED BY <1>2, <1>6, <2>1, HelperDone
<1>8. HeldBy(stack') = {Root} /\ StackOn(stack', mem)
  BY <1>3, HeldNone
<1>9. phase' \notin Walks /\ phase' # "helper" /\ phase' \notin {"CollectingNLink", "FixingNLink"}
  BY <1>3 DEF Walks
<1>10. unseen' \in SUBSET Ids
  BY <1>3 DEF RefusedInv
<1>11. FixInv'
  BY <1>2, <1>3, <1>4, <1>7, <1>8, <1>9, <1>10, FixGoesOn
<1>12. QED BY <1>3, <1>11, PathsKept

(* Where the loop over the underlying files is. *)
LEMMA OrphanAt ==
    ASSUME FixInv, phase = "orphans"
    PROVE  /\ Core(mem, disk, {Root}) /\ stack = <<>> /\ Held = {Root} /\ Fixing
           /\ mem \in Files /\ disk \in Files /\ Volume(mem) /\ Volume(disk)
           /\ all_ids \in SUBSET Ids /\ Root \in all_ids /\ unseen \in SUBSET Ids
           /\ handles = [id \in Ids |-> 0] /\ nlink_map = [id \in Ids |-> 0] /\ nlink_map \in [Ids -> Nat]
           /\ ~dirsOpen => Acyclic(Arcs(mem) \cup Arcs(disk))
           /\ OrphansOn(mem, disk, all_ids, unseen \ refused, gone, declined)
<1>1. Fixing /\ phase \notin Walks
  BY DEF Fixing, Walks
<1>2. stack = <<>>
  BY <1>1, FixParts
<1>3. HeldBy(stack) = {Root} /\ Held = {Root}
  BY <1>2, HeldNone, HeldIs
<1>4. QED BY <1>1, <1>2, <1>3, FixParts DEF PhaseInv

(* The loop goes on. *)
LEMMA OrphanGoesOn ==
    ASSUME FixInv, phase = "orphans", phase' = "orphans", stack' = <<>>,
           UNCHANGED <<handles, todo, all_ids, nlink_map, dirsOpen, refused>>,
           unseen' \in SUBSET Ids, Core(mem', disk', {Root}),
           ~dirsOpen => Acyclic(Arcs(mem') \cup Arcs(disk')),
           OrphansOn(mem', disk', all_ids, unseen' \ refused', gone', declined')
    PROVE  FixInv'
<1>1. /\ all_ids \in SUBSET Ids /\ Root \in all_ids
      /\ handles = [id \in Ids |-> 0] /\ nlink_map = [id \in Ids |-> 0] /\ nlink_map \in [Ids -> Nat]
  BY OrphanAt
<1>2. HeldBy(stack') = {Root} /\ StackOn(stack', mem')
  BY HeldNone
<1>3. phase' \notin Walks /\ phase' # "helper" /\ phase' \notin {"CollectingNLink", "FixingNLink"}
  BY DEF Walks
<1>4. QED BY <1>1, <1>2, <1>3, FixGoesOn

(* recover: the root gets an entry, and the file, which no path leads to, is closed. *)
LEMMA RecoverStep ==
    ASSUME FixInv, phase = "orphans", NEW x \in unseen \ refused, unseen' = unseen \ {x}, Recover(x),
           UNCHANGED <<handles, todo, all_ids, nlink_map, dirsOpen, refused>>
    PROVE  FixInv' /\ KeepsLinkedPaths
<1> DEFINE e == [id |-> x, type |-> mem[x].type]
           n == hexify(x)
           ms == [mem EXCEPT ![Root] = WithEntry(@, n, e)]
           hs == Closed(ms, x)
<1>1. /\ Core(mem, disk, {Root}) /\ stack = <<>> /\ Fixing /\ mem \in Files /\ disk \in Files
      /\ Volume(mem) /\ Volume(disk) /\ all_ids \in SUBSET Ids /\ Root \in all_ids /\ unseen \in SUBSET Ids
      /\ ~dirsOpen => Acyclic(Arcs(mem) \cup Arcs(disk))
      /\ OrphansOn(mem, disk, all_ids, unseen \ refused, gone, declined)
  BY OrphanAt
<1>2. /\ x \notin all_ids /\ mem' = hs /\ disk' = WroteTo(disk, x, hs) /\ gone' = gone \cup RemovedBy(hs)
      /\ UNCHANGED <<declined, phase, stack>>
  BY DEF Recover, WrittenBack, WroteTo
<1>3. x \in Ids /\ x # Root /\ Exists(mem, x) /\ n \in Names /\ Root \in Ids /\ IsDir(mem, Root) /\ Exists(mem, Root)
  BY <1>1, <1>2, FixAssumption, FSAssumption DEF OrphansOn, Volume, IsDir
<1>4. e \in FixEntry /\ e # None /\ e.id = x /\ e.type = mem[x].type
  <2>1. mem[x] \in FixNode
    BY <1>1, <1>3 DEF Files, Exists
  <2>2. e \in FixEntry
    BY <1>3, <2>1 DEF FixEntry, FixNode
  <2>3. QED BY <2>2, FixAssumption
<1>5. PutTo(mem, ms, Root, n, e)
  BY <1>1, <1>3, <1>4, PutFacts
<1> HIDE DEF ms, e
<1>6. Core(ms, disk, {Root})
  <2>1. Leads(disk, Root, n) => e.id = Slot(disk, Root, n).id
    BY <1>1, <1>3, <1>4 DEF Volume, HexNamed, Leads
  <2>2. \A y \in Ids : n = hexify(y) => e.id = y
    BY <1>4 DEF hexify
  <2> HIDE DEF n
  <2>3. QED BY <1>1, <1>3, <1>4, <1>5, <2>1, <2>2, PutCore
<1>7. ms \in Files /\ Exists(ms, x) /\ ms[x] = mem[x]
  BY <1>3, <1>5 DEF PutTo
<1>8. ClosedTo(ms, hs, x) /\ (Exists(hs, x) <=> mem[x].nlink > 0) /\ (Exists(hs, x) => hs[x] = mem[x])
  BY <1>3, <1>7, ClosedIs
<1> HIDE DEF hs
<1> DEFINE H == {Root}
<1>18. x \notin LinkedPaths(disk)
  BY <1>1, <1>2, PathsMet
<1>9. Core(hs, disk', H) /\ ClosedTo(disk, disk', x) /\ LinkedPaths(disk) \subseteq LinkedPaths(disk')
  <2>1. Core(ms, disk, H) /\ x \notin H
    BY <1>3, <1>6
  <2> HIDE DEF H
  <2>2. QED BY <1>2, <1>3, <1>8, <1>18, <2>1, CloseWrote
<1>10. ~dirsOpen => Acyclic(Arcs(hs) \cup Arcs(disk'))
  <2>1. ~dirsOpen => Acyclic(Arcs(ms) \cup Arcs(disk))
    BY <1>1, <1>3, <1>4, <1>5, RecoverArcs
  <2>2. Arcs(hs) \subseteq Arcs(ms) /\ Arcs(disk') \subseteq Arcs(disk)
    BY <1>1, <1>3, <1>7, <1>8, <1>9, CloseArcs
  <2>3. QED BY <2>1, <2>2, FewerArcs
<1>11. hs \in Files
  BY <1>8 DEF ClosedTo
<1>12. \A y \in Ids : y # x => /\ Exists(hs, y) <=> Exists(mem, y)
                               /\ Exists(mem, y) => hs[y].type = mem[y].type /\ hs[y].nlink = mem[y].nlink
  <2>1. \A y \in Ids : y # x => hs[y] = ms[y]
    BY <1>8 DEF ClosedTo
  <2>2. QED BY <1>5, <2>1 DEF PutTo, Exists
<1>13. gone \subseteq gone' /\ (~Exists(hs, x) => x \in gone')
  BY <1>2, <1>3 DEF RemovedBy
<1>14. ASSUME NEW d \in all_ids, NEW m \in Names
       PROVE  \/ Slot(hs, d, m) = Slot(mem, d, m)
              \/ /\ d = Root /\ m = hexify(x)
                 /\ Slot(hs, d, m) # None /\ Slot(hs, d, m).id = x /\ Slot(hs, d, m).type = mem[x].type
  <2>1. d \in Ids /\ d # x
    BY <1>1, <1>2
  <2>2. hs[d] = ms[d]
    BY <1>8, <2>1 DEF ClosedTo
  <2>3. Slot(hs, d, m) = Slot(ms, d, m)
    BY <2>2 DEF Slot, Exists
  <2>4. CASE d = Root /\ m = n
    BY <1>4, <1>5, <2>3, <2>4 DEF PutTo
  <2>5. CASE ~(d = Root /\ m = n)
    BY <1>5, <2>1, <2>3, <2>5 DEF PutTo, OtherSlots
  <2>6. QED BY <2>4, <2>5
<1>15. Exists(hs, x) => Slot(hs, Root, hexify(x)) # None /\ hs[x].nlink > 0
  <2>1. hs[Root] = ms[Root]
    BY <1>3, <1>8 DEF ClosedTo
  <2>2. Slot(hs, Root, n) = e
    BY <1>5, <2>1 DEF PutTo, Slot, Exists
  <2>3. QED BY <1>4, <1>8, <2>2
<1>16. OrphansOn(hs, disk', all_ids, (unseen \ refused) \ {x}, gone', declined)
  <2>1. Exists(hs, x) => hs[x].type = mem[x].type
    BY <1>8
  <2>2. Offered(mem, all_ids, x, gone', hs)
    <3>1. \A d \in all_ids, m \in Names :
            \/ Slot(hs, d, m) = Slot(mem, d, m)
            \/ /\ d = Root /\ m = hexify(x)
               /\ Slot(hs, d, m) # None /\ Slot(hs, d, m).id = x /\ Slot(hs, d, m).type = mem[x].type
      BY <1>14
    <3>2. ~Exists(hs, x) => x \in gone'
      BY <1>13
    <3>3. QED BY <1>11, <1>12, <2>1, <3>1, <3>2 DEF Offered
  <2>3. Adopted(hs, x)
    BY <1>15 DEF Adopted
  <2>4. QED BY <1>1, <1>2, <1>9, <1>13, <2>2, <2>3, OrphanClosed
<1>20. unseen' \ refused' = (unseen \ refused) \ {x}
  OBVIOUS
<1>17. FixInv'
  BY <1>1, <1>2, <1>9, <1>10, <1>16, <1>20, OrphanGoesOn
<1>19. QED BY <1>9, <1>17, PathsKept

(* delete: the file loses a link, and no path leads to it. *)
LEMMA DeleteStep ==
    ASSUME FixInv, phase = "orphans", NEW x \in unseen \ refused, unseen' = unseen \ {x}, Delete(x),
           UNCHANGED <<handles, todo, all_ids, nlink_map, dirsOpen, refused>>
    PROVE  FixInv' /\ KeepsLinkedPaths
<1> DEFINE new == Unlinked(mem[x])
           ms == [mem EXCEPT ![x] = Unlinked(@)]
           hs == Closed(ms, x)
<1>1. /\ Core(mem, disk, {Root}) /\ stack = <<>> /\ Fixing /\ mem \in Files /\ disk \in Files
      /\ Volume(mem) /\ all_ids \in SUBSET Ids /\ Root \in all_ids /\ unseen \in SUBSET Ids
      /\ ~dirsOpen => Acyclic(Arcs(mem) \cup Arcs(disk))
      /\ OrphansOn(mem, disk, all_ids, unseen \ refused, gone, declined)
  BY OrphanAt
<1>2. /\ x \notin all_ids /\ mem' = hs /\ disk' = WroteTo(disk, x, hs) /\ gone' = gone \cup RemovedBy(hs)
      /\ declined' = TRUE /\ UNCHANGED <<phase, stack>>
  BY DEF Delete, WrittenBack, WroteTo
<1>3. x \in Ids /\ x # Root /\ Exists(mem, x)
  BY <1>1, <1>2 DEF OrphansOn
<1>4. new \in FixNode /\ new # NoFile /\ new.type = mem[x].type /\ new.ents = mem[x].ents
  <2>1. mem[x] \in FixNode /\ mem[x].nlink \in Nat
    BY <1>1, <1>3 DEF Files, Exists, FixNode
  <2>2. new \in FixNode
    BY <2>1, FSAssumption DEF Unlinked, FixNode
  <2>3. QED BY <2>1, <2>2, FixAssumption DEF Unlinked, FixNode
<1> HIDE DEF new
<1>5. ms \in Files /\ ms[x] = new /\ \A y \in Ids : y # x => ms[y] = mem[y]
  BY <1>1, <1>3, <1>4 DEF Files, new
<1> HIDE DEF ms
<1>6. ClosedTo(ms, hs, x) /\ (Exists(hs, x) => hs[x] = ms[x])
  BY <1>3, <1>4, <1>5, ClosedIs DEF Exists
<1> HIDE DEF hs
<1>7. ClosedTo(mem, hs, x)
  BY <1>3, <1>4, <1>5, <1>6 DEF ClosedTo
<1> DEFINE H == {Root}
<1>15. x \notin LinkedPaths(disk)
  BY <1>1, <1>2, PathsMet
<1>8. Core(hs, disk', H) /\ ClosedTo(disk, disk', x) /\ LinkedPaths(disk) \subseteq LinkedPaths(disk')
  <2>1. Core(mem, disk, H) /\ x \notin H
    BY <1>1, <1>3
  <2> HIDE DEF H
  <2>2. QED BY <1>2, <1>3, <1>7, <1>15, <2>1, CloseWrote
<1>9. ~dirsOpen => Acyclic(Arcs(hs) \cup Arcs(disk'))
  <2>1. Arcs(hs) \subseteq Arcs(mem) /\ Arcs(disk') \subseteq Arcs(disk)
    BY <1>1, <1>3, <1>7, <1>8, CloseArcs
  <2>2. QED BY <1>1, <2>1, FewerArcs
<1>10. hs \in Files /\ \A y \in Ids : y # x => hs[y] = mem[y]
  BY <1>7 DEF ClosedTo
<1>11. \A y \in Ids : y # x => /\ Exists(hs, y) <=> Exists(mem, y)
                               /\ Exists(mem, y) => hs[y].type = mem[y].type /\ hs[y].nlink = mem[y].nlink
  BY <1>10 DEF Exists
<1>12. \A d \in all_ids, m \in Names : Slot(hs, d, m) = Slot(mem, d, m)
  BY <1>1, <1>2, <1>10 DEF Slot, Exists
<1>13. OrphansOn(hs, disk', all_ids, (unseen \ refused) \ {x}, gone', declined')
  <2>1. Exists(hs, x) => hs[x].type = mem[x].type
    BY <1>7 DEF ClosedTo
  <2>2. gone \subseteq gone' /\ (~Exists(hs, x) => x \in gone')
    BY <1>2, <1>3 DEF RemovedBy
  <2>3. Offered(mem, all_ids, x, gone', hs)
    <3>1. \A d \in all_ids, m \in Names :
            \/ Slot(hs, d, m) = Slot(mem, d, m)
            \/ /\ d = Root /\ m = hexify(x)
               /\ Slot(hs, d, m) # None /\ Slot(hs, d, m).id = x /\ Slot(hs, d, m).type = mem[x].type
      BY <1>12
    <3>2. QED BY <1>10, <1>11, <2>1, <2>2, <3>1 DEF Offered
  <2>4. QED BY <1>1, <1>2, <1>8, <2>2, <2>3, OrphanClosed
<1>17. unseen' \ refused' = (unseen \ refused) \ {x}
  OBVIOUS
<1>14. FixInv'
  BY <1>1, <1>2, <1>8, <1>9, <1>13, <1>17, OrphanGoesOn
<1>16. QED BY <1>8, <1>14, PathsKept

(* Whatever the user answers, the loop keeps the invariant and the paths. *)
LEMMA OfferOrphanStep ==
    ASSUME FixInv, NEW x \in Ids, OfferOrphan(x)
    PROVE  FixInv' /\ KeepsLinkedPaths
<1>1. /\ phase = "orphans" /\ x \in unseen \ refused /\ unseen' = unseen \ {x}
      /\ UNCHANGED <<handles, todo, all_ids, nlink_map, dirsOpen, refused>>
  BY DEF OfferOrphan
<1>2. /\ Core(mem, disk, {Root}) /\ stack = <<>> /\ Held = {Root} /\ Root \in all_ids /\ unseen \in SUBSET Ids
      /\ ~dirsOpen => Acyclic(Arcs(mem) \cup Arcs(disk))
      /\ OrphansOn(mem, disk, all_ids, unseen \ refused, gone, declined)
  BY <1>1, OrphanAt
<1>3. Referenced(x) \/ Recover(x) \/ Delete(x) \/ Ignore(x)
  BY <1>2 DEF OfferOrphan
<1>4. CASE Recover(x)
  BY <1>1, <1>4, RecoverStep
<1>5. CASE Delete(x)
  BY <1>1, <1>5, DeleteStep
<1>6. CASE Referenced(x) \/ Ignore(x)
  <2>1. UNCHANGED <<mem, disk, gone, phase, stack>> /\ (~declined' => ~declined /\ x \in all_ids)
    BY <1>6 DEF Referenced, Ignore
  <2>2. OrphansOn(mem, disk, all_ids, (unseen \ refused) \ {x}, gone, declined')
    BY <1>2, <2>1, OrphanSkipped
  <2>5. unseen' \ refused' = (unseen \ refused) \ {x}
    BY <1>1
  <2>3. FixInv'
    BY <1>1, <1>2, <2>1, <2>2, <2>5, OrphanGoesOn
  <2>4. QED BY <2>1, <2>3, PathsKept
<1>7. QED BY <1>3, <1>4, <1>5, <1>6

(* delete throws, every guard closes, and the paths are kept. *)
LEMMA DeleteFailsStep ==
    ASSUME FixInv, NEW x \in Ids, DeleteFails(x)
    PROVE  FixInv' /\ KeepsLinkedPaths
<1> DEFINE hs == Closed(mem, x)
<1>1. phase = "orphans" /\ x \in unseen \ refused /\ Abort(hs)
  BY DEF DeleteFails
<1>2. /\ Core(mem, disk, {Root}) /\ mem \in Files /\ disk \in Files
      /\ OrphansOn(mem, disk, all_ids, unseen \ refused, gone, declined)
  BY <1>1, OrphanAt
<1>3. Exists(mem, x)
  BY <1>1, <1>2 DEF OrphansOn
<1>4. ClosedTo(mem, hs, x) /\ (Exists(hs, x) <=> mem[x].nlink > 0) /\ (Exists(hs, x) => hs[x] = mem[x])
  BY <1>2, <1>3, ClosedIs
<1> HIDE DEF hs
<1>5. x \in LinkedPaths(disk) => HasLinks(hs, x)
  <2>1. ASSUME x \in LinkedPaths(disk) PROVE HasLinks(disk, x)
    BY <1>2, <2>1, PathsHaveLinks
  <2>2. Mirrored(mem, disk, {Root}, x)
    BY <1>2 DEF Core
  <2>3. QED BY <1>4, <2>1, <2>2 DEF HasLinks, Mirrored
<1>6. LinkedPaths(disk) \subseteq LinkedPaths(hs)
  BY <1>2, <1>4, <1>5, AbortKeeps
<1>7. phase' = "aborted" /\ stack' = <<>> /\ disk' = hs
  BY <1>1 DEF Abort
<1>8. QED BY <1>6, <1>7, FixAborts, PathsKept

(* A refused file: the user ignores it, or an exception ends fix. *)
LEMMA OfferRefusedStep ==
    ASSUME FixInv, NEW x \in Ids, OfferRefused(x)
    PROVE  FixInv' /\ KeepsLinkedPaths
<1>1. phase = "orphans" /\ x \in unseen \cap refused
  BY DEF OfferRefused
<1>2. /\ Core(mem, disk, {Root}) /\ stack = <<>> /\ mem \in Files /\ disk \in Files /\ Volume(mem)
      /\ all_ids \in SUBSET Ids /\ Root \in all_ids /\ unseen \in SUBSET Ids
      /\ ~dirsOpen => Acyclic(Arcs(mem) \cup Arcs(disk))
      /\ OrphansOn(mem, disk, all_ids, unseen \ refused, gone, declined)
  BY <1>1, OrphanAt
<1>3. CASE Abort(mem)
  <2>1. Root \in Ids /\ Exists(mem, Root) /\ ClosedTo(mem, mem, Root)
    BY <1>2, FSAssumption DEF Volume, IsDir, ClosedTo
  <2>2. Root \in LinkedPaths(disk) => HasLinks(mem, Root)
    <3>1. ASSUME Root \in LinkedPaths(disk) PROVE HasLinks(disk, Root)
      BY <1>2, <3>1, PathsHaveLinks
    <3>2. Mirrored(mem, disk, {Root}, Root)
      BY <1>2, <2>1 DEF Core
    <3>3. QED BY <3>1, <3>2 DEF HasLinks, Mirrored
  <2>3. LinkedPaths(disk) \subseteq LinkedPaths(mem)
    BY <1>2, <2>1, <2>2, AbortKeeps
  <2>4. phase' = "aborted" /\ stack' = <<>> /\ disk' = mem
    BY <1>3 DEF Abort
  <2>5. QED BY <2>3, <2>4, FixAborts, PathsKept
<1>4. CASE ~Abort(mem)
  <2>1. /\ unseen' = unseen \ {x} /\ declined' = TRUE
        /\ UNCHANGED <<mem, disk, handles, todo, phase, stack, all_ids, nlink_map, dirsOpen, gone, refused>>
    BY <1>4 DEF OfferRefused, vars
  <2>2. unseen' \ refused' = unseen \ refused
    BY <1>1, <2>1
  <2>3. OrphansOn(mem, disk, all_ids, unseen \ refused, gone, TRUE)
    BY <1>2 DEF OrphansOn, RightEntries
  <2>4. FixInv'
    BY <1>1, <1>2, <2>1, <2>2, <2>3, OrphanGoesOn
  <2>5. QED BY <2>1, <2>4, PathsKept
<1>5. QED BY <1>3, <1>4

-----------------------------------------------------------------------------
(* The steps of fix_hardlink_count *)

(* A walk begins at the root, which alone is held. *)
LEMMA CountBegins ==
    ASSUME Volume(mem)
    PROVE  /\ StackOn(<<Frame(Root)>>, mem) /\ <<Frame(Root)>> # <<>> /\ HeldBy(<<Frame(Root)>>) = {Root}
           /\ Frame(Root) = [dir |-> Root, rest |-> {n \in Names : mem[Root].ents[n] # None}]
<1> DEFINE f == Frame(Root)
<1>1. f = [dir |-> Root, rest |-> {n \in Names : mem[Root].ents[n] # None}]
  BY DEF Frame, Listing
<1> HIDE DEF f
<1>2. StackOn(<<f>>, mem) /\ <<f>> # <<>>
  BY <1>1, StackRoot
<1>3. Len(<<f>>) = 1
  OBVIOUS
<1>4. HeldBy(<<f>>) = {Root}
  BY <1>2, <1>3, HeldLast
<1>5. QED BY <1>1, <1>2, <1>4 DEF f

(* The first call of fix_hardlink_count. *)
LEMMA StartCollectingStep ==
    ASSUME FixInv, StartCount("orphans", "CollectingNLink")
    PROVE  FixInv' /\ KeepsLinkedPaths
<1> DEFINE f == Frame(Root)
<1>1. /\ phase = "orphans" /\ unseen = {} /\ phase' = "CollectingNLink" /\ stack' = <<f>>
      /\ UNCHANGED <<mem, disk, handles, all_ids, unseen, nlink_map, declined, dirsOpen, gone>>
  BY DEF StartCount, vars
<1>2. /\ Core(mem, disk, {Root}) /\ Volume(mem)
      /\ all_ids \in SUBSET Ids /\ Root \in all_ids
      /\ handles = [id \in Ids |-> 0] /\ nlink_map = [id \in Ids |-> 0] /\ nlink_map \in [Ids -> Nat]
      /\ ~dirsOpen => Acyclic(Arcs(mem) \cup Arcs(disk))
      /\ OrphansOn(mem, disk, all_ids, {}, gone, declined)
  <2>1. unseen \ refused = {}
    BY <1>1
  <2>2. QED BY <1>1, <2>1, OrphanAt
<1>3. /\ StackOn(<<f>>, mem) /\ <<f>> # <<>> /\ HeldBy(<<f>>) = {Root}
      /\ f = [dir |-> Root, rest |-> {n \in Names : mem[Root].ents[n] # None}]
  BY <1>2, CountBegins
<1> HIDE DEF f
<1>4. CountOn(mem, all_ids, gone, declined)
  BY <1>2, OrphansDone
<1>5. CollectingOn(mem, <<f>>, nlink_map, {Root}, {})
  BY <1>2, <1>3, CollectingBegins
<1>6. \E S \in SUBSET Ids, C \in SUBSET (Ids \X Names) : CollectingOn(mem, stack', nlink_map, S, C)
  <2>1. {Root} \in SUBSET Ids /\ {} \in SUBSET (Ids \X Names)
    BY FSAssumption
  <2>2. QED BY <1>1, <1>5, <2>1
<1>7. Core(mem, disk, HeldBy(stack')) /\ StackOn(stack', mem) /\ stack' # <<>>
  BY <1>1, <1>2, <1>3
<1>8. phase' \in Walks /\ phase' \notin {"helper", "orphans", "FixingNLink"}
  BY <1>1 DEF Walks
<1>9. FixInv'
  BY <1>1, <1>2, <1>4, <1>6, <1>7, <1>8, FixGoesOn
<1>10. QED BY <1>1, <1>9, PathsKept

(* The second call. *)
LEMMA StartSettingStep ==
    ASSUME FixInv, StartCount("CollectingNLink", "FixingNLink")
    PROVE  FixInv' /\ KeepsLinkedPaths
<1> DEFINE f == Frame(Root)
<1>1. /\ phase = "CollectingNLink" /\ Len(stack) = 1 /\ Top.rest = {} /\ phase' = "FixingNLink" /\ stack' = <<f>>
      /\ UNCHANGED <<mem, disk, handles, all_ids, unseen, nlink_map, declined, dirsOpen, gone>>
  BY DEF StartCount, vars
<1>2. Fixing /\ phase \in {"CollectingNLink", "FixingNLink"}
  BY <1>1 DEF Fixing, Walks
<1>3. /\ Core(mem, disk, HeldBy(stack)) /\ Volume(mem) /\ StackOn(stack, mem)
      /\ all_ids \in SUBSET Ids /\ Root \in all_ids /\ unseen \in SUBSET Ids
      /\ handles = [id \in Ids |-> 0] /\ nlink_map \in [Ids -> Nat]
      /\ ~dirsOpen => Acyclic(Arcs(mem) \cup Arcs(disk))
      /\ CountOn(mem, all_ids, gone, declined) /\ CollectingInv
  BY <1>1, <1>2, FixParts DEF PhaseInv
<1>4. HeldBy(stack) = {Root} /\ stack # <<>>
  BY <1>1, <1>3, HeldLast
<1>5. Top = stack[1]
  BY <1>3, <1>4, TopFacts DEF Top
<1>6. \A d, k : ~Pending(stack, d, k)
  BY <1>1, <1>3, <1>5, HeldLast
<1>7. /\ StackOn(<<f>>, mem) /\ <<f>> # <<>> /\ HeldBy(<<f>>) = {Root}
      /\ f = [dir |-> Root, rest |-> {n \in Names : mem[Root].ents[n] # None}]
  BY <1>3, CountBegins
<1> HIDE DEF f
<1>8. PICK S \in SUBSET Ids, C \in SUBSET (Ids \X Names) : CollectingOn(mem, stack, nlink_map, S, C)
  BY <1>3 DEF CollectingInv
<1>9. SettingOn(mem, <<f>>, nlink_map, S, C, {Root})
  BY <1>3, <1>6, <1>7, <1>8, SettingBegins
<1>10. {Root} \in SUBSET Ids
  BY FSAssumption
<1>11. \E D \in SUBSET Ids : SettingOn(mem, stack', nlink_map, S, C, D)
  BY <1>1, <1>9, <1>10
<1>12. \E S1 \in SUBSET Ids, C1 \in SUBSET (Ids \X Names) :
          \E D \in SUBSET Ids : SettingOn(mem, stack', nlink_map, S1, C1, D)
  BY <1>11
<1>13. Core(mem, disk, HeldBy(stack')) /\ StackOn(stack', mem) /\ stack' # <<>>
  BY <1>1, <1>3, <1>4, <1>7
<1>14. phase' \in Walks /\ phase' \notin {"helper", "orphans", "CollectingNLink"}
  BY <1>1 DEF Walks
<1>15. FixInv'
  BY <1>1, <1>3, <1>12, <1>13, <1>14, FixGoesOn
<1>16. QED BY <1>1, <1>15, PathsKept

(* Where a walk of fix_hardlink_count is. *)
LEMMA CountAt ==
    ASSUME FixInv, phase \in {"CollectingNLink", "FixingNLink"}
    PROVE  /\ Fixing /\ phase \in Walks /\ phase \notin {"helper", "orphans"}
           /\ Core(mem, disk, HeldBy(stack)) /\ Volume(mem) /\ StackOn(stack, mem)
           /\ mem \in Files /\ disk \in Files
           /\ all_ids \in SUBSET Ids /\ Root \in all_ids /\ unseen \in SUBSET Ids
           /\ handles = [id \in Ids |-> 0] /\ nlink_map \in [Ids -> Nat]
           /\ ~dirsOpen => Acyclic(Arcs(mem) \cup Arcs(disk))
           /\ CountOn(mem, all_ids, gone, declined)
           /\ phase = "CollectingNLink" =>
                 \E S \in SUBSET Ids, C \in SUBSET (Ids \X Names) : CollectingOn(mem, stack, nlink_map, S, C)
           /\ phase = "FixingNLink" =>
                 \E S \in SUBSET Ids, C \in SUBSET (Ids \X Names) :
                    \E D \in SUBSET Ids : SettingOn(mem, stack, nlink_map, S, C, D)
<1>1. Fixing /\ phase \in Walks /\ phase \notin {"helper", "orphans"}
  BY DEF Fixing, Walks
<1>2. QED BY <1>1, FixParts DEF PhaseInv, CollectingInv, SettingInv

(* An entry that cannot be opened is skipped. *)
LEMMA CountUnopenableStep ==
    ASSUME FixInv, phase \in {"CollectingNLink", "FixingNLink"}, stack # <<>>, NEW n \in Top.rest,
           CountUnopenable(n)
    PROVE  FixInv' /\ KeepsLinkedPaths
<1>1. /\ Fixing /\ phase \in Walks /\ phase \notin {"helper", "orphans"}
      /\ Core(mem, disk, HeldBy(stack)) /\ StackOn(stack, mem)
      /\ all_ids \in SUBSET Ids /\ Root \in all_ids /\ unseen \in SUBSET Ids
      /\ handles = [id \in Ids |-> 0] /\ nlink_map \in [Ids -> Nat]
      /\ ~dirsOpen => Acyclic(Arcs(mem) \cup Arcs(disk))
      /\ CountOn(mem, all_ids, gone, declined)
  BY CountAt
<1>2. /\ n \in stack[1].rest /\ mem[Top.dir].ents[n] = Slot(mem, stack[1].dir, n)
      /\ Advanced(n) = Ahead(stack, n)
  BY <1>1, WalkAt
<1>3. /\ ~Leads(mem, stack[1].dir, n) /\ stack' = Ahead(stack, n)
      /\ UNCHANGED <<mem, disk, handles, phase, all_ids, unseen, nlink_map, declined, dirsOpen, gone>>
  BY <1>2 DEF CountUnopenable, vars, Leads
<1>4. HeldBy(stack') = HeldBy(stack) /\ StackOn(stack', mem) /\ stack' # <<>>
  BY <1>1, <1>3, HeldAhead, AheadStack
<1>5. ASSUME phase = "CollectingNLink"
      PROVE  \E S \in SUBSET Ids, C \in SUBSET (Ids \X Names) : CollectingOn(mem, stack', nlink_map, S, C)
  <2>1. PICK S \in SUBSET Ids, C \in SUBSET (Ids \X Names) : CollectingOn(mem, stack, nlink_map, S, C)
    BY <1>5, CountAt
  <2>2. CollectingOn(mem, stack', nlink_map, S, C)
    BY <1>1, <1>2, <1>3, <2>1, CountSkipped
  <2>3. QED BY <2>2
<1>6. ASSUME phase = "FixingNLink"
      PROVE  \E S \in SUBSET Ids, C \in SUBSET (Ids \X Names) :
                \E D \in SUBSET Ids : SettingOn(mem, stack', nlink_map, S, C, D)
  <2>1. PICK S \in SUBSET Ids, C \in SUBSET (Ids \X Names) :
           \E D \in SUBSET Ids : SettingOn(mem, stack, nlink_map, S, C, D)
    BY <1>6, CountAt
  <2>2. PICK D \in SUBSET Ids : SettingOn(mem, stack, nlink_map, S, C, D)
    BY <2>1
  <2>3. SettingOn(mem, stack', nlink_map, S, C, D)
    BY <1>1, <1>2, <1>3, <2>2, CountSkipped
  <2>4. QED BY <2>3
<1>7. Core(mem, disk, HeldBy(stack'))
  BY <1>1, <1>4
<1>8. FixInv'
  BY <1>1, <1>3, <1>4, <1>5, <1>6, <1>7, FixGoesOn
<1>9. QED BY <1>3, <1>8, PathsKept

(* What fix_hardlink_count closes: the collecting walk does not change it; the
   second sets its count, which is not zero.                                 *)
LEMMA CountedIs ==
    ASSUME NEW x \in Ids, mem \in Files, Exists(mem, x),
           phase = "FixingNLink" => nlink_map[x] \in Nat /\ nlink_map[x] > 0
    PROVE  LET hs == Closed(Counted(x), x) IN
           /\ ClosedTo(mem, hs, x)
           /\ mem[x].nlink > 0 => Exists(hs, x)
           /\ Exists(hs, x) => hs[x].nlink > 0
           /\ phase = "FixingNLink" => Exists(hs, x) /\ hs[x].nlink = nlink_map[x]
<1>1. CASE phase # "FixingNLink"
  <2>1. Counted(x) = mem
    BY <1>1 DEF Counted
  <2>2. QED BY <1>1, <2>1, ClosedIs
<1>2. CASE phase = "FixingNLink"
  <2> DEFINE ms == [mem EXCEPT ![x].nlink = nlink_map[x]]
             new == [mem[x] EXCEPT !.nlink = nlink_map[x]]
  <2>1. mem[x] \in FixNode
    BY DEF Files, Exists
  <2>2. /\ new \in FixNode /\ new.nlink = nlink_map[x]
        /\ new.type = mem[x].type /\ new.ents = mem[x].ents
    BY <1>2, <2>1 DEF FixNode
  <2>3. ms[x] = new /\ \A y \in Ids : y # x => ms[y] = mem[y]
    BY DEF Files
  <2>4. ms \in Files
    BY <2>2 DEF Files
  <2>5. Counted(x) = ms
    BY <1>2 DEF Counted
  <2> HIDE DEF ms, new
  <2>6. Exists(ms, x) /\ ms[x].nlink = nlink_map[x] /\ ms[x].nlink > 0
    BY <1>2, <2>2, <2>3, FixAssumption DEF Exists
  <2>7. ClosedTo(mem, ms, x)
    BY <2>2, <2>3, <2>4 DEF ClosedTo
  <2>8. Closed(ms, x) = ms
    BY <1>2, <2>6 DEF Closed
  <2>9. QED BY <2>5, <2>6, <2>7, <2>8
<1>3. QED BY <1>1, <1>2

(* fix_hardlink_count on an entry that can be opened. *)
LEMMA CountOpenableStep ==
    ASSUME FixInv, phase \in {"CollectingNLink", "FixingNLink"}, stack # <<>>, NEW n \in Top.rest,
           CountOpenable(n)
    PROVE  FixInv' /\ KeepsLinkedPaths
<1> DEFINE d == stack[1].dir
           e == Slot(mem, d, n)
           x == e.id
           H == HeldBy(stack)
           hs == Closed(Counted(x), x)
<1>1. /\ Fixing /\ phase \in Walks /\ phase \notin {"helper", "orphans"}
      /\ Core(mem, disk, H) /\ StackOn(stack, mem) /\ Volume(mem) /\ mem \in Files /\ disk \in Files
      /\ all_ids \in SUBSET Ids /\ Root \in all_ids /\ unseen \in SUBSET Ids
      /\ handles = [id \in Ids |-> 0] /\ nlink_map \in [Ids -> Nat]
      /\ ~dirsOpen => Acyclic(Arcs(mem) \cup Arcs(disk))
      /\ CountOn(mem, all_ids, gone, declined)
  BY CountAt
<1>2. /\ n \in stack[1].rest /\ n \in Names /\ d \in Ids /\ e # None /\ x \in Ids /\ x # Root
      /\ mem[Top.dir].ents[n] = e /\ Advanced(n) = Ahead(stack, n)
  BY <1>1, WalkAt
<1>3. Exists(mem, x) /\ x \notin H
  BY <1>2, HeldIs DEF CountOpenable
<1>4. phase = "FixingNLink" => nlink_map[x] \in Nat /\ nlink_map[x] > 0
  <2> SUFFICES ASSUME phase = "FixingNLink" PROVE nlink_map[x] \in Nat /\ nlink_map[x] > 0
    OBVIOUS
  <2>1. PICK S \in SUBSET Ids, C \in SUBSET (Ids \X Names) :
           \E D \in SUBSET Ids : SettingOn(mem, stack, nlink_map, S, C, D)
    BY CountAt
  <2>2. PICK D \in SUBSET Ids : SettingOn(mem, stack, nlink_map, S, C, D)
    BY <2>1
  <2>3. QED BY <1>1, <1>2, <1>3, <2>2, SetsCounted
<1>5. /\ ClosedTo(mem, hs, x)
      /\ mem[x].nlink > 0 => Exists(hs, x)
      /\ Exists(hs, x) => hs[x].nlink > 0
      /\ phase = "FixingNLink" => Exists(hs, x) /\ hs[x].nlink = nlink_map[x]
  BY <1>1, <1>2, <1>3, <1>4, CountedIs
<1>6. /\ (e.type = "DIR" /\ ~Exists(hs, x)) => Abort(hs)
      /\ (e.type = "DIR" /\ Exists(hs, x) /\ ~IsDir(hs, x)) => Terminate(hs, x)
      /\ ~(e.type = "DIR" /\ ~IsDir(hs, x)) =>
           /\ mem' = hs
           /\ disk' = WroteTo(disk, x, hs)
           /\ nlink_map' = IF phase = "CollectingNLink" THEN [nlink_map EXCEPT ![x] = @ + 1] ELSE nlink_map
           /\ gone' = gone \cup RemovedBy(hs)
           /\ stack' = IF e.type = "DIR" THEN <<FrameOf(mem, x)>> \o Ahead(stack, n) ELSE Ahead(stack, n)
           /\ UNCHANGED <<handles, todo, phase, all_ids, unseen, declined, dirsOpen>>
  <2>1. IsDir(hs, x) => Exists(hs, x)
    BY DEF IsDir
  <2>2. CASE e.type = "DIR" /\ ~Exists(hs, x)
    BY <1>2, <2>1, <2>2 DEF CountOpenable
  <2>3. CASE e.type = "DIR" /\ Exists(hs, x) /\ ~IsDir(hs, x)
    BY <1>2, <2>3 DEF CountOpenable
  <2>4. CASE ~(e.type = "DIR" /\ ~IsDir(hs, x))
    BY <1>2, <2>1, <2>4 DEF CountOpenable, WrittenBack, WroteTo, Frame, Listing, FrameOf
  <2>5. QED BY <2>2, <2>3, <2>4
<1> HIDE DEF hs
<1>7. x \in LinkedPaths(disk) => HasLinks(hs, x)
  <2>1. ASSUME x \in LinkedPaths(disk) PROVE HasLinks(disk, x)
    BY <1>1, <2>1, PathsHaveLinks
  <2>2. mem[x] = disk[x]
    BY <1>1, <1>2, <1>3 DEF Core, Mirrored
  <2>3. QED BY <1>5, <2>1, <2>2 DEF HasLinks
<1>8. PutTo(mem, mem, d, n, e)
  BY <1>1, SelfPut
<1>9. Looked(mem, stack, n, e, mem, e, hs)
  BY <1>1, <1>2, <1>3, <1>5, <1>8 DEF Looked
<1>10. CASE e.type = "DIR" /\ ~Exists(hs, x)
  <2>1. Abort(hs)
    BY <1>6, <1>10
  <2>2. FixInv'
    BY <2>1, FixAborts DEF Abort
  <2>3. LinkedPaths(disk) \subseteq LinkedPaths(hs)
    BY <1>1, <1>2, <1>5, <1>7, AbortKeeps
  <2>4. QED BY <2>1, <2>2, <2>3, PathsKept DEF Abort
<1>11. CASE ~(e.type = "DIR" /\ ~IsDir(hs, x))
  <2>1. /\ mem' = hs
        /\ disk' = WroteTo(disk, x, hs)
        /\ nlink_map' = IF phase = "CollectingNLink" THEN [nlink_map EXCEPT ![x] = @ + 1] ELSE nlink_map
        /\ gone' = gone \cup RemovedBy(hs)
        /\ stack' = IF e.type = "DIR" THEN <<FrameOf(mem, x)>> \o Ahead(stack, n) ELSE Ahead(stack, n)
        /\ UNCHANGED <<handles, todo, phase, all_ids, unseen, declined, dirsOpen>>
    BY <1>6, <1>11
  <2>2. Entered(mem, stack, n, x, e.type = "DIR", stack') /\ (e.type = "DIR" => IsDir(hs, x))
    BY <1>11, <2>1 DEF Entered
  <2>12. Stepped(mem, stack, n, e, hs, stack')
    BY <1>9, <2>2 DEF Stepped
  <2>3. /\ Core(hs, WroteTo(disk, x, hs), HeldBy(stack')) /\ StackOn(stack', hs) /\ stack' # <<>>
        /\ Arcs(hs) \cup Arcs(WroteTo(disk, x, hs)) \subseteq Arcs(mem) \cup Arcs(disk)
    <3>1. stack' = Ahead(stack, n) \/ (IsDir(hs, x) /\ stack' = <<FrameOf(mem, x)>> \o Ahead(stack, n))
      BY <2>1, <2>2
    <3>2. Core(mem, disk, HeldBy(stack))
      BY <1>1
    <3> HIDE DEF e
    <3>3. QED BY <1>9, <3>1, <3>2, WalkOn
  <2>4. CountOn(hs, all_ids, gone', declined)
    BY <1>1, <1>2, <1>5, <2>1, CountKept
  <2>5. ASSUME phase = "CollectingNLink"
        PROVE  \E S \in SUBSET Ids, C \in SUBSET (Ids \X Names) : CollectingOn(hs, stack', nlink_map', S, C)
    <3>1. PICK S \in SUBSET Ids, C \in SUBSET (Ids \X Names) : CollectingOn(mem, stack, nlink_map, S, C)
      BY <2>5, CountAt
    <3>2. \E S2 \in SUBSET Ids, C2 \in SUBSET (Ids \X Names) :
             CollectingOn(hs, stack', [nlink_map EXCEPT ![e.id] = @ + 1], S2, C2)
      <4> HIDE DEF e
      <4>1. QED BY <1>1, <2>2, <2>12, <3>1, CollectedOne
    <3>3. nlink_map' = [nlink_map EXCEPT ![e.id] = @ + 1]
      BY <2>1, <2>5
    <3>4. QED BY <3>2, <3>3
  <2>6. ASSUME phase = "FixingNLink"
        PROVE  \E S \in SUBSET Ids, C \in SUBSET (Ids \X Names) :
                  \E D \in SUBSET Ids : SettingOn(hs, stack', nlink_map', S, C, D)
    <3>1. PICK S \in SUBSET Ids, C \in SUBSET (Ids \X Names) :
             \E D \in SUBSET Ids : SettingOn(mem, stack, nlink_map, S, C, D)
      BY <2>6, CountAt
    <3>2. PICK D \in SUBSET Ids : SettingOn(mem, stack, nlink_map, S, C, D)
      BY <3>1
    <3>3. Exists(hs, x) /\ hs[x].nlink = nlink_map[x] /\ nlink_map' = nlink_map
      BY <1>5, <2>1, <2>6
    <3>4. \E D2 \in SUBSET Ids : SettingOn(hs, stack', nlink_map, S, C, D2)
      <4>1. Volume(mem) /\ nlink_map \in [Ids -> Nat] /\ SetTo(hs, e.id, nlink_map)
        BY <1>1, <3>3 DEF SetTo
      <4>2. QED BY <2>12, <3>2, <4>1, SetOne
    <3>5. QED BY <3>3, <3>4
  <2>7. Acyclic(Arcs(mem) \cup Arcs(disk)) => Acyclic(Arcs(mem') \cup Arcs(disk'))
    BY <2>1, <2>3, FewerArcs
  <2>8. nlink_map' \in [Ids -> Nat]
    BY <1>1, <1>2, <2>1
  <2>9. FixInv'
    <3>1. /\ Core(mem', disk', HeldBy(stack')) /\ StackOn(stack', mem') /\ stack' # <<>>
          /\ CountOn(mem', all_ids', gone', declined')
      BY <2>1, <2>3, <2>4
    <3>2. phase' = phase /\ phase' \in Walks /\ phase' \notin {"helper", "orphans"}
      BY <1>1, <2>1
    <3>3. /\ phase' = "CollectingNLink" =>
               \E S \in SUBSET Ids, C \in SUBSET (Ids \X Names) : CollectingOn(mem', stack', nlink_map', S, C)
          /\ phase' = "FixingNLink" =>
               \E S \in SUBSET Ids, C \in SUBSET (Ids \X Names) :
                  \E D \in SUBSET Ids : SettingOn(mem', stack', nlink_map', S, C, D)
      BY <2>1, <2>5, <2>6, <3>2
    <3>4. QED BY <1>1, <2>1, <2>7, <2>8, <3>1, <3>2, <3>3, FixGoesOn
  <2>10. LinkedPaths(disk) \subseteq LinkedPaths(disk')
    BY <1>1, <1>2, <1>3, <1>5, <1>7, <2>1, CloseWrote
  <2>11. QED BY <2>9, <2>10, PathsKept
<1>13. CASE e.type = "DIR" /\ Exists(hs, x) /\ ~IsDir(hs, x)
  <2>1. PICK W \in SUBSET Changed :
          refused' = refused \cup W /\ disk' = Without(WroteTo(disk, x, hs), W)
    BY <1>6, <1>13 DEF Terminate, WrittenBack, WroteTo
  <2>2. phase' = "aborted" /\ stack' = <<>>
    BY <1>6, <1>13 DEF Terminate
  <2>3. FixInv'
    BY <2>2, FixAborts
  <2> DEFINE ks == WroteTo(disk, x, hs)
  <2>4. ks \in Files /\ ks[x] = hs[x] /\ \A y \in Ids : y # x => ks[y] = disk[y]
    BY <1>1, <1>2, <1>5 DEF WroteTo, Files, ClosedTo
  <2> HIDE DEF ks
  <2>5. ASSUME NEW a \in LinkedPaths(disk) PROVE HasLinks(ks, a) /\ ks[a].ents = disk[a].ents
    <3>1. a \in Ids /\ HasLinks(disk, a)
      BY <1>1, PathsHaveLinks
    <3>2. CASE a # x
      BY <2>4, <3>1, <3>2 DEF HasLinks, Exists
    <3>3. CASE a = x
      <4>1. mem[x] = disk[x]
        BY <1>1, <1>2, <1>3 DEF Core, Mirrored
      <4>2. HasLinks(hs, x) /\ hs[x].ents = mem[x].ents
        BY <1>5, <1>7, <1>13, <2>5, <3>3 DEF ClosedTo
      <4>3. QED BY <2>4, <3>3, <4>1, <4>2 DEF HasLinks, Exists
    <3>4. QED BY <3>2, <3>3
  <2>6. W \in SUBSET refused'
    BY <2>1
  <2>7. LinkedPaths(Without(disk, refused')) \subseteq LinkedPaths(Without(ks, W))
    BY <1>1, <2>4, <2>5, <2>6, KeepsAround
  <2>8. KeepsLinkedPaths
    BY <2>1, <2>7 DEF KeepsLinkedPaths, LinkedPaths, ks
  <2>9. QED BY <2>3, <2>8
<1>12. QED
  <2>1. IsDir(hs, x) => Exists(hs, x)
    BY DEF IsDir
  <2>2. QED BY <1>10, <1>11, <1>13, <2>1

-----------------------------------------------------------------------------
(* The end of fix: the root is written, and disk is as memory. *)
LEMMA CompleteWrites ==
    ASSUME FixInv, FixComplete
    PROVE  /\ disk' = mem /\ LinkedPaths(disk) \subseteq LinkedPaths(disk')
           /\ \A d, k : ~Pending(stack, d, k)
<1>1. /\ phase = "FixingNLink" /\ Len(stack) = 1 /\ Top.rest = {}
      /\ disk' = [disk EXCEPT ![Root] = mem[Root]]
  BY DEF FixComplete, WrittenBack
<1>2. Core(mem, disk, HeldBy(stack)) /\ StackOn(stack, mem) /\ Root \in Ids
  BY <1>1, CountAt, FSAssumption
<1>3. HeldBy(stack) = {Root} /\ stack # <<>>
  BY <1>1, <1>2, HeldLast
<1>4. Top = stack[1]
  BY <1>2, <1>3, TopFacts DEF Top
<1>5. \A d, k : ~Pending(stack, d, k)
  BY <1>1, <1>2, <1>4, HeldLast
<1> DEFINE ks == [disk EXCEPT ![Root] = mem[Root]]
           H == HeldBy(stack)
<1>6. Core(mem, ks, H \ {Root}) /\ LinkedPaths(disk) \subseteq LinkedPaths(ks)
  BY <1>2, WriteCore, WriteKeeps
<1>7. H \ {Root} = {}
  BY <1>3
<1> HIDE DEF ks, H
<1>8. Core(mem, ks, {})
  BY <1>6, <1>7
<1>9. ks = mem
  BY <1>8, NothingHeld
<1>10. disk' = ks
  BY <1>1 DEF ks
<1>11. QED BY <1>5, <1>6, <1>9, <1>10

(* fix completes with what the invariant says of memory on disk. *)
LEMMA FixCompleteStep ==
    ASSUME FixInv, RefusedInv, FixComplete
    PROVE  FixInv' /\ KeepsLinkedPaths
<1>1. /\ phase = "FixingNLink" /\ phase' = "complete" /\ stack' = <<>>
      /\ UNCHANGED <<mem, all_ids, declined, gone, refused>>
  BY DEF FixComplete
<1>2. /\ disk' = mem /\ LinkedPaths(disk) \subseteq LinkedPaths(disk')
      /\ \A d, k : ~Pending(stack, d, k)
  BY CompleteWrites
<1>3. Volume(mem) /\ mem \in Files /\ nlink_map \in [Ids -> Nat] /\ CountOn(mem, all_ids, gone, declined)
      /\ all_ids \in SUBSET Ids
  BY <1>1, CountAt
<1>4. ASSUME ~declined
      PROVE  /\ \A e \in {y \in EntriesOf(mem) : y[1] \in all_ids} :
                   LET t == Target(mem, e) IN
                   t.id \in gone \/ (Exists(mem, t.id) /\ mem[t.id].type = t.type)
             /\ \A id \in Ids : Exists(mem, id) => id \in ReachableIn(mem)
             /\ refused = {}
  <2>1. ASSUME NEW e \in EntriesOf(mem), e[1] \in all_ids
        PROVE  Right(mem, gone, Target(mem, e))
    <3>1. /\ e = <<e[1], e[2]>> /\ e[1] \in Ids /\ e[2] \in Names
      BY DEF EntriesOf
    <3>2. Slot(mem, e[1], e[2]) # None /\ Target(mem, e) = Slot(mem, e[1], e[2])
      BY <3>1, EntrySlots
    <3>3. QED BY <1>3, <1>4, <2>1, <3>1, <3>2 DEF CountOn, RightEntries
  <2>2. refused = {}
    BY <1>1, <1>4 DEF RefusedInv
  <2>3. QED BY <1>3, <1>4, <2>1, <2>2 DEF Right, CountOn
<1>5. FixRepairs'
  BY <1>1, <1>2, <1>4 DEF FixRepairs
<1>6. PICK S \in SUBSET Ids, C \in SUBSET (Ids \X Names) :
         \E D \in SUBSET Ids : SettingOn(mem, stack, nlink_map, S, C, D)
  BY <1>1, CountAt
<1>7. PICK D \in SUBSET Ids : SettingOn(mem, stack, nlink_map, S, C, D)
  BY <1>6
<1>8. ASSUME NEW id \in ReachableIn(mem) \ {Root}
      PROVE  LET names == Cardinality({e \in LinksTo(mem, id) : e[1] \in ReachableIn(mem)}) IN
             /\ mem[id].nlink >= names
             /\ (\A y \in Ids : IsDir(mem, y) => Cardinality(LinksTo(mem, y)) <= 1) => mem[id].nlink = names
  <2> DEFINE N == {e \in LinksTo(mem, id) : e[1] \in ReachableIn(mem)}
  <2>1. N = {e \in LinksTo(mem, id) : e[1] \in ReachableIn(mem)}
    OBVIOUS
  <2> HIDE DEF N
  <2>2. /\ mem[id].nlink >= Cardinality(N)
        /\ (\A y \in Ids : IsDir(mem, y) => Cardinality(LinksTo(mem, y)) <= 1) => mem[id].nlink = Cardinality(N)
    BY <1>2, <1>3, <1>7, <1>8, <2>1, CountsSet
  <2>3. QED BY <2>1, <2>2
<1>9. FixedCounts'
  BY <1>1, <1>2, <1>8 DEF FixedCounts, OneParent
<1>10. NeverReopensHeld' /\ phase' \notin Walks /\ phase' # "mounted" /\ ~Fixing'
  BY <1>1 DEF NeverReopensHeld, Walks, Fixing
<1>11. FixInv'
  BY <1>1, <1>5, <1>9, <1>10 DEF FixInv
<1>12. QED BY <1>2, <1>11, PathsKept

-----------------------------------------------------------------------------
(* Every step *)

(* The invariant holds of a new volume that is mounted. *)
LEMMA FixInitInv ==
    ASSUME FixInit
    PROVE  FixInv
<1>1. MountInv
  BY InitMount DEF FixInit
<1>2. phase = "mounted" /\ stack = <<>> /\ ~dirsOpen /\ phase \notin Walks /\ ~Fixing
  BY DEF FixInit, Walks, Fixing
<1>3. QED BY <1>1, <1>2 DEF FixInv, FixRepairs, FixedCounts, NeverReopensHeld

(* A step that changes nothing keeps the invariant. *)
LEMMA FixStutters ==
    ASSUME FixInv, UNCHANGED allVars
    PROVE  FixInv'
<1>1. /\ UNCHANGED <<mem, disk, handles, todo>>
      /\ UNCHANGED <<phase, stack, all_ids, unseen, nlink_map, declined, dirsOpen, gone, refused>>
  BY DEF allVars, vars, fixVars
<1>2. FixRepairs' /\ FixedCounts' /\ NeverReopensHeld'
  BY <1>1 DEF FixInv, FixRepairs, FixedCounts, OneParent, NeverReopensHeld
<1>3. CASE phase = "mounted"
  <2>1. MountInv /\ ~dirsOpen /\ (phase \in Walks <=> stack # <<>>)
    BY <1>3 DEF FixInv
  <2>2. MountInv'
    <3>1. IInv /\ MountNodes /\ Acyclic(Arcs(mem)) /\ (NoOpenDirs => Acyclic(Arcs(mem) \cup Arcs(disk)))
      BY <2>1, MountParts
    <3>2. UNCHANGED vars
      BY <1>1 DEF vars
    <3>3. IInv'
      BY <3>1, <3>2, NextIInv
    <3>4. MountNodes' /\ (NoOpenDirs' => NoOpenDirs)
      BY <1>1, <3>1 DEF MountNodes, DiskTypes, Typed, NoOpenDirs
    <3>5. QED BY <1>1, <3>1, <3>3, <3>4, MountEstablished
  <2>3. phase' = "mounted" /\ ~dirsOpen' /\ ~Fixing' /\ (phase' \in Walks <=> stack' # <<>>)
    BY <1>1, <1>3, <2>1 DEF Fixing, Walks
  <2>4. QED BY <1>2, <2>2, <2>3 DEF FixInv
<1>4. CASE Fixing
  <2>1. phase \in Walks \cup {"orphans"}
    BY <1>4 DEF Fixing
  <2>2. FixingInv /\ PhaseInv /\ (phase \in Walks <=> stack # <<>>)
    BY <1>4 DEF FixInv
  <2>3. FixingInv'
    BY <1>1, <2>2 DEF FixingInv, Held
  <2>4. CollectingInv' <=> CollectingInv
    BY <1>1 DEF CollectingInv
  <2>5. SettingInv' <=> SettingInv
    BY <1>1 DEF SettingInv
  <2>6. PhaseInv'
    BY <1>1, <2>2, <2>4, <2>5 DEF PhaseInv
  <2>7. phase' # "mounted"
    BY <1>1, <2>1 DEF Walks
  <2>8. QED BY <1>1, <1>2, <2>1, <2>2, <2>3, <2>6, <2>7 DEF FixInv
<1>5. CASE phase # "mounted" /\ ~Fixing
  <2>1. phase' # "mounted" /\ ~Fixing'
    BY <1>1, <1>5 DEF Fixing
  <2>2. QED BY <1>1, <1>2, <2>1 DEF FixInv
<1>6. QED BY <1>3, <1>4, <1>5

(* A refused file is not in memory either, and a file that is in memory is not refused. *)
LEMMA RefusedAway ==
    ASSUME FixInv, RefusedInv, Fixing
    PROVE  /\ mem \in Files /\ disk \in Files /\ refused \in SUBSET Ids
           /\ \A x \in Ids : Exists(mem, x) => x \notin refused
<1>1. Core(mem, disk, HeldBy(stack)) /\ mem \in Files /\ disk \in Files
  BY FixParts
<1>2. refused \in SUBSET Ids /\ \A x \in refused : ~Exists(disk, x)
  BY DEF RefusedInv
<1>3. \A x \in Ids : Exists(mem, x) <=> Exists(disk, x)
  BY <1>1 DEF Core, Mirrored
<1>4. QED BY <1>1, <1>2, <1>3

(* Writing a file back touches no refused one. *)
LEMMA RefusedWrite ==
    ASSUME disk \in Files, refused \in SUBSET Ids, NEW fs, NEW x, x \notin refused,
           disk' = WrittenBack(fs, x)
    PROVE  \A y \in refused : disk'[y] = disk[y]
BY DEF WrittenBack, Files

(* What has to be shown of a step of fix that goes on. *)
LEMMA RefusedGoesOn ==
    ASSUME FixInv, RefusedInv, Fixing, phase' # "mounted", refused' = refused,
           \A x \in refused : disk'[x] = disk[x],
           (phase' = "orphans" /\ ~declined') => refused \subseteq unseen',
           (phase' \in {"CollectingNLink", "FixingNLink"} /\ ~declined') => refused = {}
    PROVE  RefusedInv'
BY DEF RefusedInv, Exists

(* Nothing is asked of a fix that ended. *)
LEMMA RefusedEnds ==
    ASSUME phase' \in {"complete", "aborted", "undefined"}, refused' \in SUBSET Ids
    PROVE  RefusedInv'
<1>1. ~Fixing' /\ phase' # "mounted" /\ phase' # "orphans" /\ phase' \notin {"CollectingNLink", "FixingNLink"}
  BY DEF Fixing, Walks
<1>2. QED BY <1>1 DEF RefusedInv

(* A kill adds to the refused files those it leaves without a fitting HMAC. *)
LEMMA CrashRefused ==
    ASSUME FixInv, RefusedInv, CrashThenFix
    PROVE  RefusedInv'
<1>1. PICK W \in KillRefuses :
        refused' = refused \cup W /\ disk' = Without(disk, W) /\ phase' \in {"aborted", "helper"}
  BY DEF CrashThenFix
<1>2. W \in SUBSET Ids
  <2>1. Unsealed \in SUBSET Ids /\ Changed \in SUBSET Ids /\ Closing \in SUBSET Ids
    BY DEF Unsealed, Changed, Closing
  <2>2. CASE phase = "mounted"
    BY <2>1, <2>2 DEF KillRefuses
  <2>3. CASE phase # "mounted"
    BY <2>1, <2>3 DEF KillRefuses
  <2>4. QED BY <2>2, <2>3
<1>3. \A x \in refused : ~Exists(disk, x)
  BY DEF RefusedInv, CrashThenFix
<1>4. \A x \in refused' : ~Exists(disk', x)
  BY <1>1, <1>2, <1>3 DEF Without, Exists, RefusedInv
<1>5. refused' \in SUBSET Ids
  BY <1>1, <1>2 DEF RefusedInv
<1>6. QED BY <1>1, <1>4, <1>5 DEF RefusedInv

(* Every step of the mount and of fix keeps what is said of the refused files. *)
LEMMA RefusedNext ==
    ASSUME FixInv, RefusedInv, [FixNext]_allVars
    PROVE  RefusedInv'
<1>1. CASE Mounted
  <2>1. phase = "mounted" /\ phase' = "mounted" /\ refused' = refused
    BY <1>1 DEF Mounted, fixVars
  <2>2. QED BY <2>1 DEF RefusedInv, Fixing, Walks
<1>2. CASE CrashThenFix
  BY <1>2, CrashRefused
<1>3. CASE fix_helper
  <2>1. phase = "helper" /\ stack # <<>> /\ Fixing /\ phase # "mounted" /\ phase # "orphans"
        /\ phase \notin {"CollectingNLink", "FixingNLink"}
    BY <1>3 DEF fix_helper, Fixing, Walks
  <2>2. PICK n \in Top.rest : HelperUnopenable(n) \/ HelperOpenable(n) \/ ReopenHeld(n)
    BY <1>3 DEF fix_helper
  <2>3. CASE HelperUnopenable(n)
    <3>1. UNCHANGED <<disk, phase, refused>>
      BY <2>3 DEF HelperUnopenable
    <3>2. QED BY <2>1, <3>1, RefusedGoesOn
  <2>4. CASE HelperOpenable(n)
    <3> DEFINE e == mem[Top.dir].ents[n]
    <3>1. Exists(mem, e.id) /\ e.id \in Ids
      <4>1. e.id \in Ids
        BY <2>1, WalkAt
      <4>2. Exists(mem, e.id)
        BY <2>4 DEF HelperOpenable
      <4>3. QED BY <4>1, <4>2
    <3>2. e.id \notin refused /\ disk \in Files /\ refused \in SUBSET Ids
      BY <2>1, <3>1, RefusedAway
    <3>3. PICK fs : \/ Abort(Closed(fs, e.id))
                    \/ disk' = WrittenBack(Closed(fs, e.id), e.id) /\ UNCHANGED <<phase, refused>>
      BY <2>4, Zenon DEF HelperOpenable
    <3>4. CASE Abort(Closed(fs, e.id))
      <4>1. phase' = "aborted" /\ refused' = refused
        BY <3>4 DEF Abort
      <4>2. QED BY <3>2, <4>1, RefusedEnds
    <3>5. CASE disk' = WrittenBack(Closed(fs, e.id), e.id) /\ UNCHANGED <<phase, refused>>
      <4>1. \A y \in refused : disk'[y] = disk[y]
        BY <3>2, <3>5, RefusedWrite
      <4>2. QED BY <2>1, <3>5, <4>1, RefusedGoesOn
    <3>6. QED BY <3>3, <3>4, <3>5
  <2>5. CASE ReopenHeld(n)
    <3>1. phase' = "undefined" /\ refused' = refused
      BY <2>5 DEF ReopenHeld
    <3>2. QED BY <3>1, RefusedEnds DEF RefusedInv
  <2>6. QED BY <2>2, <2>3, <2>4, <2>5
<1>4. CASE Return
  <2>1. stack # <<>> /\ disk' = WrittenBack(mem, Top.dir) /\ UNCHANGED <<phase, declined, unseen, refused>>
    BY <1>4 DEF Return
  <2>2. phase \in Walks /\ Fixing /\ phase # "mounted"
    BY <2>1 DEF FixInv, Fixing, Walks
  <2>3. Top.dir \in Ids /\ Exists(mem, Top.dir)
    <3>1. StackOn(stack, mem)
      BY <2>2, FixParts
    <3>2. Top = stack[1] /\ stack[1].dir \in Ids /\ IsDir(mem, stack[1].dir)
      BY <2>1, <3>1, TopFacts DEF Top
    <3>3. QED BY <3>2 DEF IsDir
  <2>4. Top.dir \notin refused /\ disk \in Files /\ refused \in SUBSET Ids
    BY <2>2, <2>3, RefusedAway
  <2>5. \A y \in refused : disk'[y] = disk[y]
    BY <2>1, <2>4, RefusedWrite
  <2>6. /\ (phase' = "orphans" /\ ~declined') => refused \subseteq unseen'
        /\ (phase' \in {"CollectingNLink", "FixingNLink"} /\ ~declined') => refused = {}
    BY <2>1 DEF RefusedInv
  <2>7. QED BY <2>1, <2>2, <2>5, <2>6, RefusedGoesOn
<1>5. CASE find_all_ids
  <2>1. /\ phase = "helper" /\ phase' = "orphans" /\ unseen' = {id \in Ids : Exists(disk, id)} \cup refused
        /\ UNCHANGED <<disk, refused>>
    BY <1>5 DEF find_all_ids
  <2>2. Fixing
    BY <2>1 DEF Fixing, Walks
  <2>3. refused \subseteq unseen'
    BY <2>1
  <2>4. QED BY <2>1, <2>2, <2>3, RefusedGoesOn
<1>6. ASSUME NEW x \in Ids, OfferOrphan(x) PROVE RefusedInv'
  <2>1. /\ phase = "orphans" /\ x \in unseen \ refused /\ unseen' = unseen \ {x} /\ refused' = refused
        /\ \/ phase' = "undefined"
           \/ Referenced(x) \/ Recover(x) \/ Delete(x) \/ Ignore(x)
    BY <1>6 DEF OfferOrphan
  <2>2. Fixing
    BY <2>1 DEF Fixing
  <2>3. disk \in Files /\ refused \in SUBSET Ids
    BY <2>2, RefusedAway
  <2>4. CASE phase' = "undefined"
    BY <2>1, <2>3, <2>4, RefusedEnds
  <2>5. CASE Referenced(x) \/ Recover(x) \/ Delete(x) \/ Ignore(x)
    <3>1. /\ disk' = disk \/ disk' = WrittenBack(mem', x)
          /\ declined' = declined \/ declined' = TRUE
          /\ phase' = phase
      BY <2>5 DEF Referenced, Recover, Delete, Ignore
    <3>2. \A y \in refused : disk'[y] = disk[y]
      BY <2>1, <2>3, <3>1, RefusedWrite
    <3>3. ~declined' => refused \subseteq unseen'
      BY <2>1, <3>1 DEF RefusedInv
    <3>4. QED BY <2>1, <2>2, <3>1, <3>2, <3>3, RefusedGoesOn
  <2>6. QED BY <2>1, <2>4, <2>5
<1>7. ASSUME NEW x \in Ids, DeleteFails(x) PROVE RefusedInv'
  <2>1. phase' = "aborted" /\ refused' = refused
    BY <1>7 DEF DeleteFails, Abort
  <2>2. QED BY <2>1, RefusedEnds DEF RefusedInv
<1>8. ASSUME NEW x \in Ids, OfferRefused(x) PROVE RefusedInv'
  <2>1. CASE Abort(mem)
    <3>1. phase' = "aborted" /\ refused' = refused
      BY <2>1 DEF Abort
    <3>2. QED BY <3>1, RefusedEnds DEF RefusedInv
  <2>2. CASE ~Abort(mem)
    <3>1. phase = "orphans" /\ declined' = TRUE /\ UNCHANGED <<disk, phase, refused>>
      BY <1>8, <2>2 DEF OfferRefused, vars
    <3>2. Fixing
      BY <3>1 DEF Fixing
    <3>3. QED BY <3>1, <3>2, RefusedGoesOn
  <2>3. QED BY <2>1, <2>2
<1>9. CASE StartCount("orphans", "CollectingNLink")
  <2>1. /\ phase = "orphans" /\ unseen = {} /\ phase' = "CollectingNLink"
        /\ UNCHANGED <<disk, declined, refused>>
    BY <1>9 DEF StartCount, vars
  <2>2. Fixing
    BY <2>1 DEF Fixing
  <2>3. ~declined' => refused = {}
    BY <2>1 DEF RefusedInv
  <2>4. QED BY <2>1, <2>2, <2>3, RefusedGoesOn
<1>10. CASE StartCount("CollectingNLink", "FixingNLink")
  <2>1. /\ phase = "CollectingNLink" /\ phase' = "FixingNLink" /\ UNCHANGED <<disk, declined, refused>>
    BY <1>10 DEF StartCount, vars
  <2>2. Fixing
    BY <2>1 DEF Fixing, Walks
  <2>3. ~declined' => refused = {}
    BY <2>1 DEF RefusedInv
  <2>4. QED BY <2>1, <2>2, <2>3, RefusedGoesOn
<1>11. CASE fix_hardlink_count
  <2>1. phase \in {"CollectingNLink", "FixingNLink"} /\ stack # <<>> /\ Fixing /\ phase # "mounted"
    BY <1>11 DEF fix_hardlink_count, Fixing, Walks
  <2>2. PICK n \in Top.rest : CountUnopenable(n) \/ CountOpenable(n) \/ ReopenHeld(n)
    BY <1>11 DEF fix_hardlink_count
  <2>3. phase # "orphans" /\ (~declined => refused = {})
    BY <2>1 DEF RefusedInv
  <2>4. CASE CountUnopenable(n)
    <3>1. UNCHANGED <<disk, phase, declined, refused>>
      BY <2>4 DEF CountUnopenable, vars
    <3>2. QED BY <2>1, <2>3, <3>1, RefusedGoesOn
  <2>5. CASE CountOpenable(n)
    <3> DEFINE e == mem[Top.dir].ents[n]
               after == Closed(Counted(e.id), e.id)
    <3>1. Exists(mem, e.id) /\ e.id \in Ids
      <4>1. e.id \in Ids
        BY <2>1, WalkAt
      <4>2. Exists(mem, e.id)
        BY <2>5 DEF CountOpenable
      <4>3. QED BY <4>1, <4>2
    <3>2. e.id \notin refused /\ disk \in Files /\ refused \in SUBSET Ids
      BY <2>1, <3>1, RefusedAway
    <3>3. \/ Abort(after)
          \/ Terminate(after, e.id)
          \/ disk' = WrittenBack(after, e.id) /\ UNCHANGED <<phase, declined, refused>>
      BY <2>5, Zenon DEF CountOpenable
    <3>4. CASE Abort(after)
      <4>1. phase' = "aborted" /\ refused' = refused
        BY <3>4 DEF Abort
      <4>2. QED BY <3>2, <4>1, RefusedEnds
    <3>5. CASE Terminate(after, e.id)
      <4>1. phase' = "aborted" /\ \E W \in SUBSET Changed : refused' = refused \cup W
        BY <3>5 DEF Terminate
      <4>2. refused' \in SUBSET Ids
        BY <3>2, <4>1 DEF Changed
      <4>3. QED BY <4>1, <4>2, RefusedEnds
    <3>6. CASE disk' = WrittenBack(after, e.id) /\ UNCHANGED <<phase, declined, refused>>
      <4>1. \A y \in refused : disk'[y] = disk[y]
        BY <3>2, <3>6, RefusedWrite
      <4>2. QED BY <2>1, <2>3, <3>6, <4>1, RefusedGoesOn
    <3>7. QED BY <3>3, <3>4, <3>5, <3>6
  <2>6. CASE ReopenHeld(n)
    <3>1. phase' = "undefined" /\ refused' = refused
      BY <2>6 DEF ReopenHeld
    <3>2. QED BY <3>1, RefusedEnds DEF RefusedInv
  <2>7. QED BY <2>2, <2>4, <2>5, <2>6
<1>12. CASE FixComplete
  <2>1. phase' = "complete" /\ refused' = refused
    BY <1>12 DEF FixComplete
  <2>2. QED BY <2>1, RefusedEnds DEF RefusedInv
<1>13. CASE UNCHANGED allVars
  <2>1. UNCHANGED <<disk, phase, unseen, declined, refused>>
    BY <1>13 DEF allVars, vars, fixVars
  <2>2. QED BY <2>1 DEF RefusedInv, Fixing
<1>14. QED
  BY <1>1, <1>2, <1>3, <1>4, <1>5, <1>6, <1>7, <1>8, <1>9, <1>10, <1>11, <1>12, <1>13 DEF FixNext, FixStep

(* Every step of the mount and of fix keeps the invariant, and fix keeps the paths. *)
LEMMA FixNextInv ==
    ASSUME FixInv, RefusedInv, [FixNext]_allVars
    PROVE  FixInv' /\ RefusedInv' /\ KeepsLinkedPaths
<1> SUFFICES FixInv' /\ KeepsLinkedPaths
  BY RefusedNext
<1>1. CASE Mounted
  <2>1. phase = "mounted" /\ Next /\ UNCHANGED fixVars
    BY <1>1 DEF Mounted
  <2>2. MountInv /\ ~dirsOpen /\ stack = <<>> /\ ~Fixing
    BY <2>1 DEF FixInv, Walks, Fixing
  <2>3. MountInv'
    BY <2>1, <2>2, NextMount
  <2>4. phase' = "mounted" /\ ~dirsOpen' /\ stack' = <<>> /\ phase' \notin Walks /\ ~Fixing'
    BY <2>1, <2>2 DEF fixVars, Walks, Fixing
  <2>5. FixInv'
    BY <2>3, <2>4 DEF FixInv, FixRepairs, FixedCounts, NeverReopensHeld
  <2>6. QED BY <2>2, <2>5 DEF KeepsLinkedPaths
<1>2. CASE CrashThenFix
  BY <1>2, CrashThenFixStep
<1>3. CASE fix_helper
  <2>1. phase = "helper" /\ stack # <<>> /\ Fixing
    BY <1>3 DEF fix_helper, Fixing, Walks
  <2>2. PICK n \in Top.rest : HelperUnopenable(n) \/ HelperOpenable(n) \/ ReopenHeld(n)
    BY <1>3 DEF fix_helper
  <2>3. QED BY <2>1, <2>2, HelperUnopenableStep, HelperOpenableStep, ReopenHeldStep
<1>4. CASE Return
  BY <1>4, ReturnStep
<1>5. CASE find_all_ids
  BY <1>5, FindAllIdsStep
<1>6. CASE \E id \in Ids : OfferOrphan(id) \/ DeleteFails(id) \/ OfferRefused(id)
  BY <1>6, OfferOrphanStep, DeleteFailsStep, OfferRefusedStep
<1>7. CASE StartCount("orphans", "CollectingNLink")
  BY <1>7, StartCollectingStep
<1>8. CASE StartCount("CollectingNLink", "FixingNLink")
  BY <1>8, StartSettingStep
<1>9. CASE fix_hardlink_count
  <2>1. phase \in {"CollectingNLink", "FixingNLink"} /\ stack # <<>> /\ Fixing
    BY <1>9 DEF fix_hardlink_count, Fixing, Walks
  <2>2. PICK n \in Top.rest : CountUnopenable(n) \/ CountOpenable(n) \/ ReopenHeld(n)
    BY <1>9 DEF fix_hardlink_count
  <2>3. QED BY <2>1, <2>2, CountUnopenableStep, CountOpenableStep, ReopenHeldStep
<1>10. CASE FixComplete
  BY <1>10, FixCompleteStep
<1>11. CASE UNCHANGED allVars
  <2>1. disk' = disk
    BY <1>11 DEF allVars, vars
  <2>2. QED BY <1>11, <2>1, FixStutters, PathsKept
<1>12. QED
  BY <1>1, <1>2, <1>3, <1>4, <1>5, <1>6, <1>7, <1>8, <1>9, <1>10, <1>11 DEF FixNext, FixStep

-----------------------------------------------------------------------------
(* The theorems *)

(* fix keeps the invariant above: what every step of the command may rely on,
   whatever the kill before it left refused.                                 *)
THEOREM FixInvariant == FixSpec => [](FixInv /\ RefusedInv)
<1>1. FixInit => FixInv /\ RefusedInv
  <2>1. FixInit => RefusedInv
    BY DEF FixInit, RefusedInv, Fixing, Walks
  <2>2. QED BY <2>1, FixInitInv
<1>2. FixInv /\ RefusedInv /\ [FixNext]_allVars => FixInv' /\ RefusedInv'
  BY FixNextInv
<1>3. QED BY <1>1, <1>2, PTL DEF FixSpec

(* When fix completes and the user declined nothing, the directories that it
   walked name files of the right type, every underlying file is reached, and no
   file is left that a kill made impossible to open.                         *)
THEOREM FixRepairsAll == FixSpec => []FixRepairs
<1>1. FixInv => FixRepairs
  BY DEF FixInv
<1>2. QED BY <1>1, FixInvariant, PTL

(* After fix a link count is at least the number of names, and that number
   unless a directory has two.                                               *)
THEOREM FixCountsNames == FixSpec => []FixedCounts
<1>1. FixInv => FixedCounts
  BY DEF FixInv
<1>2. QED BY <1>1, FixInvariant, PTL

(* fix opens a directory that it holds only after a mount was killed whose
   clients had directories open.                                             *)
THEOREM FixReopensNone == FixSpec => []NeverReopensHeld
<1>1. FixInv => NeverReopensHeld
  BY DEF FixInv
<1>2. QED BY <1>1, FixInvariant, PTL

(* No step of fix takes a file its path of files with links, and a kill of fix
   takes only paths through the files that the kill leaves refused: the held
   directories that changed, and one file that was being written or removed. *)
THEOREM FixKeepsLinkedFiles == FixSpec => FixKeepsFiles
<1>1. FixInv /\ RefusedInv /\ [FixNext]_allVars => [KeepsLinkedPaths]_allVars
  BY FixNextInv
<1>2. QED BY <1>1, FixInvariant, PTL DEF FixSpec, FixKeepsFiles
=============================================================================
