------------------------------ MODULE FileTable ------------------------------
(***************************************************************************)
(* The table of open files of the full format (sources/file_table.{h,cpp}) *)
(* together with the part of FileBase (sources/files.{h,cpp}) it relies    *)
(* on: the reference count, the cached header and its dirty flag.          *)
(*                                                                         *)
(* A file's header is abstracted to its link count and one attribute that  *)
(* stands for the other cached fields (mode, owner, times, B-tree root).   *)
(* The C++ objects live in a heap addressed by pointers, so that a table   *)
(* entry, a pointer a caller still holds and a freed object are different  *)
(* things, as they are in the code.                                        *)
(*                                                                         *)
(* Callers (operations.cpp, commands.cpp) are the environment. They close  *)
(* only what they opened, unlink only files that have a name, and open an  *)
(* id under another type than the cached one (fix opens BASE, then the     *)
(* real type) only after closing it.                                       *)
(***************************************************************************)
EXTENDS Naturals, Sequences, FiniteSets

CONSTANTS
    Ids,            \* file identifiers
    Ptrs,           \* addresses of FileBase objects
    Attrs,          \* values of the cached attributes
    BlankAttr,      \* the attributes of a header that was never written (all 0xFF)
    MAX_NUM_CLOSED, \* closed files kept in the cache before an eviction
    NUM_EJECT,      \* closed files evicted at once
    UINT32_MAX,     \* the link count of a header that was never written
    MaxRef,         \* bound: references callers hold to one object
    MaxNlink,       \* bound: links callers give one file
    Null,           \* no pointer
    Freed,          \* a heap cell without an object
    NoFile,         \* no underlying files for an id
    Blank           \* underlying files exist, their header was never written

ASSUME TableSizes ==
    /\ MAX_NUM_CLOSED \in Nat \ {0}
    /\ NUM_EJECT \in Nat \ {0}

ASSUME Bounds ==
    /\ UINT32_MAX \in Nat \ {0}
    /\ MaxRef \in Nat \ {0}
    /\ MaxNlink \in Nat \ {0}

ASSUME Sentinels ==
    /\ Null \notin Ptrs
    /\ BlankAttr \in Attrs
    /\ NoFile # Blank

Types == {"BASE", "REAL"}

Header == [nlink : Nat, attr : Attrs]

Object == [id : Ids, type : Types, ref : Nat, nlink : Nat,
           attr : Attrs, dirty : BOOLEAN]

ASSUME SentinelsAreNotData ==
    /\ Freed \notin Object
    /\ NoFile \notin Header
    /\ Blank \notin Header

VARIABLES
    disk,          \* what the underlying directory holds for every id
    heap,          \* the FileBase objects
    m_files,       \* the table: id -> pointer
    m_closed_ids,  \* ids of unreferenced cached files, oldest first
    held,          \* how many references to each object callers hold
    unsafe         \* ids whose last write-back on close raised an error

vars == <<disk, heap, m_files, m_closed_ids, held, unsafe>>

HeaderOf(o) == [nlink |-> o.nlink, attr |-> o.attr]

BlankHeader == [nlink |-> UINT32_MAX, attr |-> BlankAttr]

(* FileBase::read_header: a missing header leaves every flag 0xFF, and the
   set_num_free_page(0) of that branch is what marks the object dirty.      *)
ReadHeader(d) == IF d = Blank THEN BlankHeader ELSE d

NewObject(id, t, h, isDirty) ==
    [id |-> id, type |-> t, ref |-> 1, nlink |-> h.nlink, attr |-> h.attr,
     dirty |-> isDirty]

(* FileBase::flush: the header is written only when it is dirty. *)
Flushed(o) == [o EXCEPT !.dirty = FALSE]

DiskAfterFlush(o) == IF o.dirty THEN HeaderOf(o) ELSE disk[o.id]

IsUnlinked(o) == o.nlink = 0

(* The first occurrence of id leaves m_closed_ids. *)
Position(s, id) == CHOOSE i \in 1..Len(s) :
                      s[i] = id /\ \A j \in 1..Len(s) : s[j] = id => i <= j

IsQueued(s, id) == \E i \in 1..Len(s) : s[i] = id

RemoveClosed(s, id) ==
    IF IsQueued(s, id)
    THEN LET k == Position(s, id)
         IN  [j \in 1..(Len(s) - 1) |-> IF j < k THEN s[j] ELSE s[j + 1]]
    ELSE s

IsCached(id) == m_files[id] # Null

Init ==
    /\ disk \in [Ids -> {NoFile} \cup [nlink : 1..MaxNlink, attr : Attrs]]
    /\ heap = [p \in Ptrs |-> Freed]
    /\ m_files = [id \in Ids |-> Null]
    /\ m_closed_ids = <<>>
    /\ held = [p \in Ptrs |-> 0]
    /\ unsafe = {}

-----------------------------------------------------------------------------
(* Mutant: open_as leaves the id in m_closed_ids. *)
OpenCachedStaysQueued(id, t) ==
    LET p == m_files[id] IN
    /\ IsCached(id)
    /\ heap[p].type = t
    /\ held[p] < MaxRef
    /\ heap' = [heap EXCEPT ![p].ref = @ + 1]
    /\ held' = [held EXCEPT ![p] = @ + 1]
    /\ UNCHANGED <<disk, m_files, m_closed_ids, unsafe>>

(* open_as, found in the table with the right type. *)
OpenCached(id, t) ==
    LET p == m_files[id] IN
    /\ IsCached(id)
    /\ heap[p].type = t
    /\ held[p] < MaxRef
    /\ m_closed_ids' = RemoveClosed(m_closed_ids, id)
    /\ heap' = [heap EXCEPT ![p].ref = @ + 1]
    /\ held' = [held EXCEPT ![p] = @ + 1]
    /\ UNCHANGED <<disk, m_files, unsafe>>

(* The table holds nothing for id, or an object of another type, which
   open_as destroys without flushing it.                                    *)
MustLoad(id, t) ==
    IsCached(id) => /\ heap[m_files[id]].type # t
                    /\ heap[m_files[id]].ref = 0

HeapWithout(id) ==
    [p \in Ptrs |-> IF p = m_files[id] THEN Freed ELSE heap[p]]

(* open_as, loading the file from the underlying directory into address p,
   which may be the one just freed.                                         *)
OpenLoad(id, t, p) ==
    /\ MustLoad(id, t)
    /\ disk[id] # NoFile
    /\ HeapWithout(id)[p] = Freed
    /\ m_closed_ids' = RemoveClosed(m_closed_ids, id)
    /\ heap' = [HeapWithout(id) EXCEPT
                  ![p] = NewObject(id, t, ReadHeader(disk[id]), disk[id] = Blank)]
    /\ m_files' = [m_files EXCEPT ![id] = p]
    /\ held' = [held EXCEPT ![p] = 1]
    /\ UNCHANGED <<disk, unsafe>>

(* open_as when the underlying files are missing or cannot be opened. *)
OpenFails(id, t) ==
    /\ MustLoad(id, t)
    /\ m_closed_ids' = RemoveClosed(m_closed_ids, id)
    /\ heap' = HeapWithout(id)
    /\ m_files' = [m_files EXCEPT ![id] = Null]
    /\ UNCHANGED <<disk, held, unsafe>>

(* create_as followed by initialize_empty, as every caller does. *)
CreateAs(id, p, a) ==
    /\ ~IsCached(id)
    /\ disk[id] = NoFile
    /\ heap[p] = Freed
    /\ disk' = [disk EXCEPT ![id] = Blank]
    /\ heap' = [heap EXCEPT ![p] = NewObject(id, "REAL", [nlink |-> 1, attr |-> a], TRUE)]
    /\ m_files' = [m_files EXCEPT ![id] = p]
    /\ held' = [held EXCEPT ![p] = 1]
    /\ UNCHANGED <<m_closed_ids, unsafe>>

-----------------------------------------------------------------------------
(* close, when other references remain. *)
CloseShared(p) ==
    /\ held[p] > 0
    /\ heap[p].ref > 1
    /\ heap' = [heap EXCEPT ![p].ref = @ - 1]
    /\ held' = [held EXCEPT ![p] = @ - 1]
    /\ UNCHANGED <<disk, m_files, m_closed_ids, unsafe>>

(* Mutant: finalize drops the object and leaves the underlying files. *)
CloseUnlinkedKeepsFiles(p) ==
    /\ held[p] > 0
    /\ heap[p].ref = 1
    /\ IsUnlinked(heap[p])
    /\ m_files' = [m_files EXCEPT ![heap[p].id] = Null]
    /\ heap' = [heap EXCEPT ![p] = Freed]
    /\ held' = [held EXCEPT ![p] = 0]
    /\ unsafe' = unsafe \ {heap[p].id}
    /\ UNCHANGED <<disk, m_closed_ids>>

(* close of the last reference to an unlinked file: finalize frees the
   object and removes the underlying files, close erases the table entry.   *)
CloseUnlinked(p) ==
    /\ held[p] > 0
    /\ heap[p].ref = 1
    /\ IsUnlinked(heap[p])
    /\ disk' = [disk EXCEPT ![heap[p].id] = NoFile]
    /\ m_files' = [m_files EXCEPT ![heap[p].id] = Null]
    /\ heap' = [heap EXCEPT ![p] = Freed]
    /\ held' = [held EXCEPT ![p] = 0]
    /\ unsafe' = unsafe \ {heap[p].id}
    /\ UNCHANGED m_closed_ids

(* gc and eject: once MAX_NUM_CLOSED files are cached unreferenced, the
   oldest NUM_EJECT of them leave the cache.                                *)
NumEject(s) ==
    IF Len(s) < MAX_NUM_CLOSED THEN 0
    ELSE IF NUM_EJECT < Len(s) THEN NUM_EJECT ELSE Len(s)

Victims(s) == {s[i] : i \in 1..NumEject(s)}

(* Mutant: close does not queue the file for eviction. *)
CloseLinkedNotQueued(p) ==
    /\ held[p] > 0
    /\ heap[p].ref = 1
    /\ ~IsUnlinked(heap[p])
    /\ disk' = [disk EXCEPT ![heap[p].id] = DiskAfterFlush(heap[p])]
    /\ heap' = [heap EXCEPT ![p] = [Flushed(heap[p]) EXCEPT !.ref = 0]]
    /\ held' = [held EXCEPT ![p] = 0]
    /\ unsafe' = unsafe \ {heap[p].id}
    /\ UNCHANGED <<m_files, m_closed_ids>>

(* Mutant: the file is kept in the cache without a flush, so that an eviction
   loses what was not written.                                              *)
CloseLinkedUnflushed(p) ==
    LET queue == Append(m_closed_ids, heap[p].id)
        kept  == [heap EXCEPT ![p].ref = 0]
    IN
    /\ held[p] > 0
    /\ heap[p].ref = 1
    /\ ~IsUnlinked(heap[p])
    /\ m_closed_ids' = SubSeq(queue, NumEject(queue) + 1, Len(queue))
    /\ m_files' = [i \in Ids |-> IF i \in Victims(queue) THEN Null ELSE m_files[i]]
    /\ heap' = [q \in Ptrs |->
                  IF \E i \in Victims(queue) : m_files[i] = q THEN Freed ELSE kept[q]]
    /\ held' = [held EXCEPT ![p] = 0]
    /\ unsafe' = unsafe \ {heap[p].id}
    /\ UNCHANGED disk

(* close of the last reference to a linked file: finalize flushes it, the
   object stays in the cache and its id joins m_closed_ids.                 *)
CloseLinked(p) ==
    LET id    == heap[p].id
        queue == Append(m_closed_ids, id)
        kept  == [heap EXCEPT ![p] = [Flushed(heap[p]) EXCEPT !.ref = 0]]
    IN
    /\ held[p] > 0
    /\ heap[p].ref = 1
    /\ ~IsUnlinked(heap[p])
    /\ disk' = [disk EXCEPT ![id] = DiskAfterFlush(heap[p])]
    /\ m_closed_ids' = SubSeq(queue, NumEject(queue) + 1, Len(queue))
    /\ m_files' = [i \in Ids |-> IF i \in Victims(queue) THEN Null ELSE m_files[i]]
    /\ heap' = [q \in Ptrs |->
                  IF \E i \in Victims(queue) : m_files[i] = q THEN Freed ELSE kept[q]]
    /\ held' = [held EXCEPT ![p] = 0]
    /\ unsafe' = unsafe \ {id}

(* close of the last reference when the flush in finalize throws, before the
   header is written or after: the reference is gone, the object stays in
   the table and its id does not join m_closed_ids.                         *)
CloseFlushFails(p, wrote) ==
    LET id == heap[p].id IN
    /\ held[p] > 0
    /\ heap[p].ref = 1
    /\ ~IsUnlinked(heap[p])
    /\ disk' = IF wrote THEN [disk EXCEPT ![id] = DiskAfterFlush(heap[p])] ELSE disk
    /\ heap' = [heap EXCEPT ![p].ref = 0,
                            ![p].dirty = @ /\ ~wrote]
    /\ held' = [held EXCEPT ![p] = 0]
    /\ unsafe' = unsafe \cup {id}
    /\ UNCHANGED <<m_files, m_closed_ids>>

-----------------------------------------------------------------------------
(* Mutant: a setter that forgets m_dirty. *)
SetAttrClean(p, a) ==
    /\ held[p] > 0
    /\ heap[p].attr # a
    /\ heap' = [heap EXCEPT ![p].attr = a]
    /\ UNCHANGED <<disk, m_files, m_closed_ids, held, unsafe>>

(* The setters a holder of the object calls. Equal values are not stored. *)
SetAttr(p, a) ==
    /\ held[p] > 0
    /\ heap[p].attr # a
    /\ heap' = [heap EXCEPT ![p].attr = a, ![p].dirty = TRUE]
    /\ UNCHANGED <<disk, m_files, m_closed_ids, held, unsafe>>

(* link: set_nlink(get_nlink() + 1). *)
Link(p) ==
    /\ held[p] > 0
    /\ heap[p].nlink \in 1..(MaxNlink - 1)
    /\ heap' = [heap EXCEPT ![p].nlink = @ + 1, ![p].dirty = TRUE]
    /\ UNCHANGED <<disk, m_files, m_closed_ids, held, unsafe>>

(* Mutant: an error path unlinks a second time. *)
UnlinkTwice(p) ==
    /\ held[p] > 0
    /\ heap[p].nlink > 0
    /\ heap' = [heap EXCEPT ![p].nlink = @ - 2, ![p].dirty = TRUE]
    /\ UNCHANGED <<disk, m_files, m_closed_ids, held, unsafe>>

(* FileBase::unlink. *)
Unlink(p) ==
    /\ held[p] > 0
    /\ heap[p].nlink > 0
    /\ heap' = [heap EXCEPT ![p].nlink = @ - 1, ![p].dirty = TRUE]
    /\ UNCHANGED <<disk, m_files, m_closed_ids, held, unsafe>>

(* flush of a file in use (fuse flush, fsync, truncate, release). *)
Flush(p) ==
    /\ held[p] > 0
    /\ disk' = [disk EXCEPT ![heap[p].id] = DiskAfterFlush(heap[p])]
    /\ heap' = [heap EXCEPT ![p] = Flushed(@)]
    /\ UNCHANGED <<m_files, m_closed_ids, held, unsafe>>

(* ~FileTable: every object of the table is finalized, referenced or not;
   the next mount starts with an empty table.                               *)
Finalized(id) ==
    IF ~IsCached(id) THEN disk[id]
    ELSE IF IsUnlinked(heap[m_files[id]]) THEN NoFile
    ELSE DiskAfterFlush(heap[m_files[id]])

Destroy ==
    /\ disk' = [id \in Ids |-> Finalized(id)]
    /\ heap' = [p \in Ptrs |-> Freed]
    /\ m_files' = [id \in Ids |-> Null]
    /\ m_closed_ids' = <<>>
    /\ held' = [p \in Ptrs |-> 0]
    /\ unsafe' = {}

Next ==
    \/ \E id \in Ids, t \in Types : OpenCached(id, t) \/ OpenFails(id, t)
    \/ \E id \in Ids, t \in Types, p \in Ptrs : OpenLoad(id, t, p)
    \/ \E id \in Ids, p \in Ptrs, a \in Attrs : CreateAs(id, p, a)
    \/ \E p \in Ptrs : CloseShared(p) \/ CloseUnlinked(p) \/ CloseLinked(p)
    \/ \E p \in Ptrs, wrote \in BOOLEAN : CloseFlushFails(p, wrote)
    \/ \E p \in Ptrs, a \in Attrs : SetAttr(p, a)
    \/ \E p \in Ptrs : Link(p) \/ Unlink(p) \/ Flush(p)
    \/ Destroy

Spec == Init /\ [][Next]_vars

-----------------------------------------------------------------------------
(* Every object of the heap is in the table under its own id, with exactly
   the references callers hold: no caller keeps a pointer to a freed object
   (open_as, eject and finalize destroy objects), and no object is counted
   in use that nobody can close.                                            *)
RefCountExact ==
    \A p \in Ptrs :
        IF heap[p] = Freed
        THEN held[p] = 0
        ELSE m_files[heap[p].id] = p /\ heap[p].ref = held[p]

(* m_closed_ids names cached, unreferenced files, each once, and gc keeps it
   below MAX_NUM_CLOSED: eject, which erases by id, never destroys a file
   somebody reopened.                                                       *)
ClosedQueueSound ==
    /\ Len(m_closed_ids) < MAX_NUM_CLOSED
    /\ \A i \in 1..Len(m_closed_ids) :
          /\ IsCached(m_closed_ids[i])
          /\ heap[m_files[m_closed_ids[i]]].ref = 0
    /\ \A i, j \in 1..Len(m_closed_ids) :
          m_closed_ids[i] = m_closed_ids[j] => i = j

(* Every unreferenced cached file can be evicted, except one whose flush in
   finalize threw: that one is not in m_closed_ids and stays in the table.  *)
CacheIsBounded ==
    \A id \in Ids :
        (IsCached(id) /\ heap[m_files[id]].ref = 0 /\ id \notin unsafe)
            => IsQueued(m_closed_ids, id)

(* A cached header that is not dirty is the one on disk, so that skipping
   the write in FileBase::flush, or evicting the object, loses nothing; and
   whatever is cached has underlying files.                                 *)
CleanAgreesWithDisk ==
    \A p \in Ptrs :
        heap[p] # Freed =>
            /\ disk[heap[p].id] # NoFile
            /\ ~heap[p].dirty => disk[heap[p].id] = HeaderOf(heap[p])

(* A file whose last link is gone is on disk only as long as somebody has it
   open: finalize removes it with the last reference, even when a flush has
   written its link count 0 to disk in between.                             *)
UnlinkedFilesGo ==
    \A id \in Ids :
        /\ (IsCached(id) /\ IsUnlinked(heap[m_files[id]])) => heap[m_files[id]].ref > 0
        /\ (disk[id] \in Header /\ disk[id].nlink = 0)
               => (IsCached(id) /\ IsUnlinked(heap[m_files[id]]))

(* The values every variable may take; a link count never wraps below 0 as
   long as unlink is called once per name.                                  *)
TypeOK ==
    /\ disk \in [Ids -> {NoFile, Blank} \cup Header]
    /\ heap \in [Ptrs -> {Freed} \cup Object]
    /\ m_files \in [Ids -> Ptrs \cup {Null}]
    /\ m_closed_ids \in Seq(Ids)
    /\ held \in [Ptrs -> Nat]
    /\ unsafe \in SUBSET Ids

(* The table implements the abstract specification: caching, eviction, dirty
   flags and the order of flushes are invisible to callers.                 *)
Logical == INSTANCE OpenFiles WITH
    content <- [id \in Ids |-> IF IsCached(id) THEN HeaderOf(heap[m_files[id]])
                               ELSE ReadHeader(disk[id])],
    refs    <- [id \in Ids |-> IF IsCached(id) THEN heap[m_files[id]].ref ELSE 0],
    suspect <- unsafe

ImplementsOpenFiles == Logical!OSpec

=============================================================================
