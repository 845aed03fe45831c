-------------------------------- MODULE FullFS --------------------------------
(***************************************************************************)
(* The FUSE operations of the full format (sources/operations.cpp, formats *)
(* 1 to 3) on the namespace: files, directories and their entries, link    *)
(* counts, open handles, and what has reached the underlying directory.    *)
(*                                                                         *)
(* The file system runs single threaded, so one operation at a time        *)
(* changes the files (mem). What it changed is written out when the        *)
(* FileGuards of the operation go out of scope: todo lists the files whose *)
(* guards are still to be closed, in the order the destructors run, and    *)
(* Settle closes one. The pages of a directory are written and its stream  *)
(* is resized while the operation runs, but the HMAC that covers them only *)
(* when it is flushed: a kill finds a file that was open as disk has it,   *)
(* or with an HMAC that does not fit, and then it cannot be opened         *)
(* (HMACStream). So disk is every file as its last HMAC covers it, and a   *)
(* kill leaves Without(disk, W) for some set W of unsealed files.          *)
(*                                                                         *)
(* FileTable shows that its cache is invisible (ImplementsOpenFiles), so a *)
(* file here is simply open or not. Directories are maps from names to     *)
(* entries. A path is resolved to a directory reachable from the root and  *)
(* a last component (open_base_dir).                                       *)
(***************************************************************************)
EXTENDS Naturals, Sequences, FiniteSets, SequencesExt

CONSTANTS
    Ids,                \* file identifiers
    Root,               \* root_id, all zero
    Names,              \* file names
    UserNames,          \* the names clients use
    Attrs,              \* mode, owner and times, as one value
    BlankAttr,          \* what a header that was never written reads as (all 0xFF)
    None,               \* no directory entry
    NoFile,             \* no underlying files
    UINT32_MAX,         \* the link count of a header that was never written
    MaxHandles,         \* bound: handles the kernel holds at once
    MaxNlink,           \* bound: links to one file
    RenameOntoNonEmpty  \* whether clients rename onto directories with entries

ASSUME FSAssumption ==
    /\ Root \in Ids
    /\ IsFiniteSet(Ids) /\ IsFiniteSet(Names)
    /\ UserNames \subseteq Names
    /\ UINT32_MAX \in Nat
    /\ MaxHandles \in Nat /\ MaxNlink \in Nat
    /\ RenameOntoNonEmpty \in BOOLEAN

VARIABLES
    mem,      \* every file as the mounted file system sees it
    disk,     \* every file as it was when its HMAC was last written
    handles,  \* fuse handles open on every file
    todo      \* files whose guards the current operation has yet to close

vars == <<mem, disk, handles, todo>>

RealTypes == {"DIR", "REG", "LNK"}
EntryTypes == RealTypes
Entry == [id : Ids, type : EntryTypes]
Node == [type : RealTypes \cup {"UNKNOWN"}, nlink : Nat, attr : Attrs \cup {BlankAttr},
         ents : [Names -> Entry \cup {None}]]

ASSUME NoSentinels == None \notin Entry /\ NoFile \notin Node

NoEntries == [n \in Names |-> None]

EmptyNode(t, a) == [type |-> t, nlink |-> 1, attr |-> a, ents |-> NoEntries]

(* Underlying files that exist and hold no header: every flag reads 0xFF. *)
BlankNode ==
    [type |-> "UNKNOWN", nlink |-> UINT32_MAX, attr |-> BlankAttr, ents |-> NoEntries]

Exists(fs, id) == fs[id] # NoFile

IsDir(fs, id) == Exists(fs, id) /\ fs[id].type = "DIR"

(* A directory entry of fs: <<directory, name>>. *)
EntriesOf(fs) == {e \in {d \in Ids : Exists(fs, d)} \X Names : fs[e[1]].ents[e[2]] # None}

Target(fs, e) == fs[e[1]].ents[e[2]]

LinksTo(fs, id) == {e \in EntriesOf(fs) : Target(fs, e).id = id}

(* fs with the files of W gone, or impossible to open. *)
Without(fs, W) == [id \in Ids |-> IF id \in W THEN NoFile ELSE fs[id]]

(* From a directory to what its entries name. *)
Edges(fs) == {<<e[1], Target(fs, e).id>> : e \in EntriesOf(fs)}

(* What S holds leads nowhere else. *)
ClosedUnder(S, edges) == \A e \in edges : e[1] \in S => e[2] \in S

(* The files that a path from the root leads to: those in every closed set
   that has the root.                                                       *)
ReachableIn(fs) ==
    LET edges == Edges(fs)
        trees == {S \in SUBSET Ids : Root \in S /\ ClosedUnder(S, edges)}
    IN  {id \in Ids : Exists(fs, id) /\ \A S \in trees : id \in S}

(* open_base_dir: the directories a path without its last component can
   lead to; get_as<Directory> checks the type of every one of them.         *)
BaseDirs == {d \in ReachableIn(mem) : mem[d].type = "DIR"}

(* The directories at or above d: those in no closed set without d. *)
AtOrAbove(d) ==
    LET edges == Edges(mem)
        others == {S \in SUBSET (Ids \ {d}) : ClosedUnder(S, edges)}
    IN  {id \in Ids : \A S \in others : id \notin S}

Idle == todo = <<>>

(* The files a kill may leave with an HMAC that does not fit, or half removed:
   those that are open.                                                     *)
Unsealed == {id \in Ids : handles[id] > 0 \/ Contains(todo, id)}

(* Bound: the handles that are open at once, and so those on one file. *)
HandleLeft(id) == SumFunction(handles) < MaxHandles /\ handles[id] < MaxHandles

WithEntry(node, n, e) == [node EXCEPT !.ents[n] = e]

(* FileBase::unlink: the link count is an unsigned 32-bit integer. *)
Unlinked(node) == [node EXCEPT !.nlink = IF @ = 0 THEN UINT32_MAX ELSE @ - 1]

Init ==
    /\ \E a \in Attrs : mem = [id \in Ids |-> IF id = Root THEN EmptyNode("DIR", a) ELSE NoFile]
    /\ disk = mem
    /\ handles = [id \in Ids |-> 0]
    /\ todo = <<>>

-----------------------------------------------------------------------------
(* FileTable::close on a guard: the last reference finalizes the file, which
   removes an unlinked one and flushes any other. Its HMAC is written, or its
   meta file removed, by this step: what was written of it before, or its
   missing data file, only shows to a kill that comes first (Unsealed).     *)
CloseGuard(last) ==
    /\ todo # <<>>
    /\ todo' = Tail(todo)
    /\ LET id == Head(todo)
           final == IF last /\ mem[id].nlink = 0 THEN NoFile ELSE mem[id]
       IN  /\ mem' = [mem EXCEPT ![id] = final]
           /\ disk' = IF last THEN [disk EXCEPT ![id] = final] ELSE disk
    /\ UNCHANGED handles

LastReference(id) ==
    /\ Exists(mem, id)
    /\ handles[id] = 0
    /\ \A i \in 2..Len(todo) : todo[i] # id

(* Mutant: close finalizes without looking at the reference count. *)
SettleAlwaysFinalizes == CloseGuard(Exists(mem, Head(todo)))

(* Mutant: finalize forgets the flush of a file that stays. *)
SettleWithoutFlush ==
    CloseGuard(LastReference(Head(todo)) /\ mem[Head(todo)].nlink = 0)

Settle == CloseGuard(LastReference(Head(todo)))

(* internal::create: create_as makes underlying files without a header, then
   add_entry; if the name is taken the new file is unlinked again. The guard
   of the directory closes before the caller's guard of the new file, except
   when the exception unwinds. Ids are drawn at random, so one that an entry
   on disk still names is not drawn again.                                  *)
CreateFile(id) ==
    /\ ~Exists(mem, id) /\ ~Exists(disk, id)
    /\ LinksTo(disk, id) = {}
    /\ disk' = [disk EXCEPT ![id] = BlankNode]

create(d, n, id, a) ==
    /\ CreateFile(id)
    /\ mem[d].ents[n] = None
    /\ mem' = [mem EXCEPT ![id] = EmptyNode("REG", a),
                          ![d] = WithEntry(@, n, [id |-> id, type |-> "REG"])]
    /\ HandleLeft(id)
    /\ handles' = [handles EXCEPT ![id] = 1]
    /\ todo' = <<d>>

(* mkdir and symlink: no handle remains. *)
mknode(d, n, t, id, a) ==
    /\ t \in {"DIR", "LNK"}
    /\ CreateFile(id)
    /\ mem[d].ents[n] = None
    /\ mem' = [mem EXCEPT ![id] = EmptyNode(t, a),
                          ![d] = WithEntry(@, n, [id |-> id, type |-> t])]
    /\ todo' = <<d, id>>
    /\ UNCHANGED handles

createExists(d, n, t, id, a) ==
    /\ CreateFile(id)
    /\ mem[d].ents[n] # None
    /\ mem' = [mem EXCEPT ![id] = Unlinked(EmptyNode(t, a))]
    /\ todo' = <<id, d>>
    /\ UNCHANGED handles

(* An entry whose file open_as can open. *)
Resolves(d, n) ==
    /\ mem[d].ents[n] # None
    /\ Exists(mem, mem[d].ents[n].id)

(* open_all: every file a path leads to, the root included. *)
OpenAll == ReachableIn(mem)

(* The header of an open file changes; it stays in memory unless the handler
   flushes. The stream below holds the contents, see CryptStream.           *)
SetAttr(id, a, flushes) ==
    LET new == [mem[id] EXCEPT !.attr = a] IN
    /\ mem' = [mem EXCEPT ![id] = new]
    /\ disk' = IF flushes THEN [disk EXCEPT ![id] = new] ELSE disk

(* open: O_TRUNC truncates the file, which changes its times. *)
open(id, a) ==
    /\ mem[id].type = "REG"
    /\ HandleLeft(id)
    /\ SetAttr(id, a, FALSE)
    /\ handles' = [handles EXCEPT ![id] = @ + 1]
    /\ UNCHANGED todo

opendir(id) ==
    /\ mem[id].type = "DIR"
    /\ HandleLeft(id)
    /\ handles' = [handles EXCEPT ![id] = @ + 1]
    /\ UNCHANGED <<mem, disk, todo>>

(* Mutant: release does not check the handle it is given. *)
ReleaseUnchecked(id) ==
    /\ handles' = [handles EXCEPT ![id] = @ - 1]
    /\ todo' = <<id>>
    /\ UNCHANGED <<mem, disk>>

(* release and releasedir: flush, then close. *)
release(id) ==
    /\ handles[id] > 0
    /\ disk' = [disk EXCEPT ![id] = mem[id]]
    /\ handles' = [handles EXCEPT ![id] = @ - 1]
    /\ todo' = <<id>>
    /\ UNCHANGED mem

(* flush, fsync, fsyncdir: the file is written while it is open. *)
fsync(id) ==
    /\ handles[id] > 0
    /\ disk[id] # mem[id]
    /\ disk' = [disk EXCEPT ![id] = mem[id]]
    /\ UNCHANGED <<mem, handles, todo>>

(* read and readdir change the access time, write the modification time. *)
ReadWrite(id, a) ==
    /\ handles[id] > 0
    /\ SetAttr(id, a, FALSE)
    /\ UNCHANGED <<handles, todo>>

ftruncate(id, a) ==
    /\ handles[id] > 0
    /\ mem[id].type = "REG"
    /\ SetAttr(id, a, TRUE)
    /\ UNCHANGED <<handles, todo>>

(* chmod and chown flush before they return. *)
chmod(id, a) ==
    /\ SetAttr(id, a, TRUE)
    /\ todo' = <<id>>
    /\ UNCHANGED handles

truncate(id, a) == mem[id].type = "REG" /\ chmod(id, a)

(* utimens leaves the write to the close of its guard. *)
utimens(id, a) ==
    /\ SetAttr(id, a, FALSE)
    /\ todo' = <<id>>
    /\ UNCHANGED handles

readlink(id, a) == mem[id].type = "LNK" /\ utimens(id, a)

(* Mutant: rmdir removes a directory that has entries. *)
UnlinkNonEmpty(d, n) ==
    LET id == mem[d].ents[n].id IN
    /\ Resolves(d, n)
    /\ mem' = [mem EXCEPT ![d] = WithEntry(@, n, None),
                          ![id] = Unlinked(@)]
    /\ todo' = <<id, d>>
    /\ UNCHANGED <<disk, handles>>

(* unlink and rmdir (internal::remove): the guard of the file closes before
   the guard of its directory.                                              *)
unlink(d, n) ==
    LET id == mem[d].ents[n].id IN
    /\ Resolves(d, n)
    /\ mem[d].ents[n].type = "DIR" => mem[id].ents = NoEntries
    /\ mem' = [mem EXCEPT ![d] = WithEntry(@, n, None),
                          ![id] = Unlinked(@)]
    /\ todo' = <<id, d>>
    /\ UNCHANGED <<disk, handles>>

(* What the kernel refuses before it calls rename: moving a directory below
   itself, and replacing an ancestor of the source.                         *)
KernelAllowsRename(d1, n1, d2, n2) ==
    /\ mem[d1].ents[n1].id \notin AtOrAbove(d2)
    /\ mem[d2].ents[n2] # None => mem[d2].ents[n2].id \notin AtOrAbove(d1)

(* Mutant: the guard of the source directory closes first. *)
RenameClosesSourceFirst(d1, n1, d2, n2) ==
    LET src == mem[d1].ents[n1] IN
    /\ src # None
    /\ mem[d2].ents[n2] = None
    /\ KernelAllowsRename(d1, n1, d2, n2)
    /\ LET taken == [mem EXCEPT ![d1] = WithEntry(@, n1, None)]
       IN  mem' = [taken EXCEPT ![d2] = WithEntry(@, n2, src)]
    /\ todo' = <<d1, d2>>
    /\ UNCHANGED <<disk, handles>>

(* rename to a free name: the destination's guard closes first. *)
renameFree(d1, n1, d2, n2) ==
    LET src == mem[d1].ents[n1] IN
    /\ src # None
    /\ mem[d2].ents[n2] = None
    /\ KernelAllowsRename(d1, n1, d2, n2)
    /\ LET taken == [mem EXCEPT ![d1] = WithEntry(@, n1, None)]
       IN  mem' = [taken EXCEPT ![d2] = WithEntry(@, n2, src)]
    /\ todo' = <<d2, d1>>
    /\ UNCHANGED <<disk, handles>>

(* Mutant: the replaced file is never unlinked. *)
RenameForgetsReplaced(d1, n1, d2, n2) ==
    LET src == mem[d1].ents[n1]
        dst == mem[d2].ents[n2]
    IN
    /\ src # None /\ dst # None
    /\ src.id # dst.id
    /\ src.type = dst.type
    /\ KernelAllowsRename(d1, n1, d2, n2)
    /\ LET taken == [mem EXCEPT ![d1] = WithEntry(@, n1, None)]
       IN  mem' = [taken EXCEPT ![d2] = WithEntry(@, n2, src)]
    /\ todo' = <<d2, d1>>
    /\ UNCHANGED <<disk, handles>>

(* rename over another file of the same type: internal::remove unlinks the
   replaced file, and closes it, before the guards of the directories.      *)
renameOver(d1, n1, d2, n2) ==
    LET src == mem[d1].ents[n1]
        dst == mem[d2].ents[n2]
    IN
    /\ src # None /\ dst # None
    /\ src.id # dst.id
    /\ src.type = dst.type
    /\ KernelAllowsRename(d1, n1, d2, n2)
    /\ (src.type = "DIR" /\ Exists(mem, dst.id) /\ mem[dst.id].ents # NoEntries)
          => RenameOntoNonEmpty
    /\ LET taken == [mem EXCEPT ![d1] = WithEntry(@, n1, None)]
           moved == [taken EXCEPT ![d2] = WithEntry(@, n2, src)]
       IN  mem' = IF Exists(mem, dst.id)
                  THEN [moved EXCEPT ![dst.id] = Unlinked(@)]
                  ELSE moved
    /\ todo' = <<dst.id, d2, d1>>
    /\ UNCHANGED <<disk, handles>>

(* Mutant: link adds the entry and leaves the link count alone. *)
LinkWithoutCount(d1, n1, d2, n2) ==
    /\ Resolves(d1, n1)
    /\ mem[d2].ents[n2] = None
    /\ mem[d1].ents[n1].type = "REG"
    /\ mem' = [mem EXCEPT ![d2] = WithEntry(@, n2, mem[d1].ents[n1])]
    /\ todo' = <<mem[d1].ents[n1].id, d2>>
    /\ UNCHANGED <<disk, handles>>

(* link: only regular files; the count is raised before the entry is added,
   and the guard of the file closes first.                                  *)
link(d1, n1, d2, n2) ==
    LET id == mem[d1].ents[n1].id IN
    /\ Resolves(d1, n1)
    /\ mem[d2].ents[n2] = None
    /\ mem[d1].ents[n1].type = "REG"
    /\ mem[id].nlink < MaxNlink
    /\ mem' = [mem EXCEPT ![id].nlink = @ + 1,
                          ![d2] = WithEntry(@, n2, mem[d1].ents[n1])]
    /\ todo' = <<id, d2>>
    /\ UNCHANGED <<disk, handles>>

(* destroy and mount again: the table's destructor finalizes every file, the
   ones with handles too.                                                   *)
remount ==
    /\ mem' = [id \in Ids |-> IF Exists(mem, id) /\ mem[id].nlink = 0 THEN NoFile ELSE mem[id]]
    /\ disk' = mem'
    /\ handles' = [id \in Ids |-> 0]
    /\ UNCHANGED todo

Operation ==
    \/ \E d \in BaseDirs, n \in UserNames, id \in Ids, a \in Attrs :
          \/ create(d, n, id, a)
          \/ \E t \in RealTypes : mknode(d, n, t, id, a) \/ createExists(d, n, t, id, a)
    \/ \E d \in BaseDirs, n \in UserNames : unlink(d, n)
    \/ \E id \in Ids : release(id) \/ fsync(id)
    \/ \E id \in Ids, a \in Attrs : ReadWrite(id, a) \/ ftruncate(id, a)
    \/ \E id \in OpenAll : opendir(id)
    \/ \E id \in OpenAll, a \in Attrs :
          \/ open(id, a) \/ chmod(id, a) \/ truncate(id, a)
          \/ utimens(id, a) \/ readlink(id, a)
    \/ \E d1, d2 \in BaseDirs, n1, n2 \in UserNames :
          renameFree(d1, n1, d2, n2) \/ renameOver(d1, n1, d2, n2) \/ link(d1, n1, d2, n2)
    \/ remount

Next == Settle \/ (Idle /\ Operation)

Spec == Init /\ [][Next]_vars

-----------------------------------------------------------------------------
(* The values every variable may take; no operation closes more than three
   guards, and no handle is closed twice.                                   *)
TypeOK ==
    /\ mem \in [Ids -> {NoFile} \cup Node]
    /\ disk \in [Ids -> {NoFile} \cup Node]
    /\ handles \in [Ids -> 0..MaxHandles]
    /\ todo \in Seq(Ids) /\ Len(todo) <= 3

(* The link count of every file is the number of its directory entries (the
   root has one link and no entry), whatever create, link, unlink and rename
   do to it, so that the file goes exactly with its last name.              *)
LinkCountExact ==
    \A id \in Ids :
        Exists(mem, id) =>
            mem[id].nlink = Cardinality(LinksTo(mem, id)) + (IF id = Root THEN 1 ELSE 0)

(* Every directory entry leads to a file of the type the entry names:
   open_as builds the object from the entry's type, not the file's.         *)
NoDanglingEntries ==
    \A e \in EntriesOf(mem) :
        /\ Exists(mem, Target(mem, e).id)
        /\ mem[Target(mem, e).id].type = Target(mem, e).type

(* A file that no path leads to is unlinked and about to go: some handle or
   the running operation still has it. Otherwise it would only waste space. *)
NoOrphans ==
    \A id \in Ids :
        Exists(mem, id) =>
            \/ id \in ReachableIn(mem)
            \/ mem[id].nlink = 0 /\ (handles[id] > 0 \/ Contains(todo, id))

(* A directory goes only when it has no entries left: internal::remove refuses
   any other ("Trying to remove a non-empty directory"). What is below a
   directory that goes cannot be reached again. rename does not ask.        *)
OnlyEmptyDirsGo ==
    \A id \in Ids : (IsDir(mem, id) /\ mem[id].nlink = 0) => mem[id].ents = NoEntries

(* A handle the kernel holds is on a file that still exists, also after the
   file was unlinked or replaced by rename.                                 *)
HandlesStayValid ==
    \A id \in Ids : handles[id] > 0 => Exists(mem, id) /\ Exists(disk, id)

(* Once an operation has returned, every file without an open handle is on
   disk as the file system shows it: closing the guards writes back every
   file an operation changed.                                               *)
DurableWhenIdle ==
    Idle => \A id \in Ids : handles[id] = 0 => disk[id] = mem[id]

(* A kill while an operation runs costs no file its last path but by the
   files it leaves impossible to open. Whatever set W of unsealed files that
   is: a step that takes the last path around W to a file on disk is one before
   or after which no path around W leads to the file in memory either.
   With W empty this is the order of the closes alone; with W the directory a
   rename takes from, it says that what was moved is safe once the directory
   it was moved to is closed. A directory with an open handle is not written
   when a guard closes, so the promise is made only while there is none.    *)
KeepsPathOnDisk ==
    (\A id \in Ids : IsDir(mem, id) => handles[id] = 0) =>
        \A W \in SUBSET Unsealed' :
            \A id \in ReachableIn(Without(disk, W)) \ ReachableIn(Without(disk', W)) :
                ~(id \in ReachableIn(Without(mem, W)) /\ id \in ReachableIn(Without(mem', W)))

CrashKeepsPaths == [][KeepsPathOnDisk]_vars
=============================================================================
