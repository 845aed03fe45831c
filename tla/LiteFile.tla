------------------------------- MODULE LiteFile -------------------------------
(***************************************************************************)
(* Open files of the lite format (class File in sources/lite_fs.h, and the *)
(* handlers of sources/lite_operations.cpp that use one): several threads, *)
(* of one process or of several, work on files under one name.             *)
(*                                                                         *)
(* A File has a mutex and a descriptor; File::lock takes the mutex and     *)
(* then the advisory lock of the descriptor (flock). Its stream derives    *)
(* the session key from the file's header once, in the constructor.        *)
(*                                                                         *)
(* A write covers two blocks and a read asks for two, one after the other, *)
(* and every underlying read or write is a step of its own. Encryption is  *)
(* perfect: a block decrypts exactly with the key it was encrypted with.   *)
(***************************************************************************)
EXTENDS Integers, Sequences, FiniteSets

CONSTANTS
    Threads,
    Files,        \* File objects
    Inodes,       \* files of the underlying file system
    Keys,         \* session keys
    ZeroKey,      \* the key derived from a header of zeros
    Values,       \* what callers write into a block, 0 being a block of zeros
    None,
    LockEnabled,  \* is_lock_enabled: FALSE when mounted with --noflock
    TruncFlags    \* whether the kernel passes O_TRUNC to open: a subset of BOOLEAN

ASSUME LiteFileAssumption ==
    /\ None \notin Threads \cup Inodes \cup Keys
    /\ ZeroKey \notin Keys \cup {None}
    /\ 0 \notin Values
    /\ LockEnabled \in BOOLEAN
    /\ TruncFlags \subseteq BOOLEAN

VARIABLES
    dir,      \* the inode under the one name, or None
    inode,    \* header and blocks of the underlying files
    file,     \* the File objects: inode, session key, and whether open returned it
    mutex,    \* the thread that holds a File's m_lock
    flock,    \* the advisory lock of a File's descriptor
    thread,   \* what every thread is doing
    exposed   \* inodes truncated by an open while another File was on them

vars == <<dir, inode, file, mutex, flock, thread, exposed>>

Hole == [key |-> None, val |-> 0]
EmptyInode == [header |-> None, blocks |-> <<>>]
NoFile == [ino |-> None, key |-> None, ready |-> FALSE]
IdleThread == [pc |-> "idle", f |-> None, op |-> <<"none">>, at |-> 1, buf |-> <<>>, ok |-> TRUE]

-----------------------------------------------------------------------------
InodeOf(f) == file[f].ino

Users(f) == {t \in Threads : thread[t].pc # "idle" /\ thread[t].f = f}

OnInode(i) == {f \in Files : file[f].ino = i}

(* flock: descriptors share a lock for reading, or one has it alone. *)
Compatible(f, exclusive) ==
    \/ ~LockEnabled
    \/ \A g \in OnInode(InodeOf(f)) \ {f} :
          IF exclusive THEN flock[g] = "none" ELSE flock[g] # "exclusive"

(* Mutant: read and write of the handlers exchanged. *)
WantsExclusiveRead(op) == op[1] = "read"

(* The handlers lock a File exclusively for everything but read. *)
WantsExclusive(op) == op[1] # "read"

UsedKeys ==
    {inode[i].header : i \in Inodes} \cup {file[f].key : f \in Files}
    \cup UNION {{inode[i].blocks[b].key : b \in DOMAIN inode[i].blocks} : i \in Inodes}

Goto(t, pc) == thread' = [thread EXCEPT ![t].pc = pc]

(* The call of t ends; the File it has opened for itself only is deleted,
   which closes its descriptor and so gives up its lock.                     *)
Return(t, deletes) ==
    /\ thread' = [thread EXCEPT ![t] = IdleThread]
    /\ file' = IF deletes THEN [file EXCEPT ![thread[t].f] = NoFile]
               ELSE [file EXCEPT ![thread[t].f].ready = TRUE]

(* pwrite of a block: what lies before it in a shorter file becomes a hole,
   the header too.                                                           *)
PutBlock(node, b, block) ==
    [header |-> IF node.header = None THEN ZeroKey ELSE node.header,
     blocks |-> [i \in 1..(IF b > Len(node.blocks) THEN b ELSE Len(node.blocks)) |->
                    IF i = b THEN block
                    ELSE IF i <= Len(node.blocks) THEN node.blocks[i] ELSE Hole]]

Decrypts(block, key) == block = Hole \/ block.key = key

-----------------------------------------------------------------------------
Init ==
    /\ dir = None
    /\ inode = [i \in Inodes |-> EmptyInode]
    /\ file = [f \in Files |-> NoFile]
    /\ mutex = [f \in Files |-> None]
    /\ flock = [f \in Files |-> "none"]
    /\ thread = [t \in Threads |-> IdleThread]
    /\ exposed = {}

(* FileSystem::open up to the descriptor. O_TRUNC cuts the underlying file
   before any lock is taken.                                                 *)
Opens(t, f, i, op, trunc) ==
    /\ thread[t].pc = "idle"
    /\ file[f] = NoFile /\ Users(f) = {}
    /\ file' = [file EXCEPT ![f].ino = i]
    /\ inode' = IF trunc THEN [inode EXCEPT ![i] = EmptyInode] ELSE inode
    /\ exposed' = IF ~trunc THEN exposed
                  ELSE IF OnInode(i) = {} THEN exposed \ {i} ELSE exposed \cup {i}
    /\ thread' = [thread EXCEPT ![t] = [IdleThread EXCEPT !.pc = "construct", !.f = f, !.op = op]]
    /\ UNCHANGED <<mutex, flock>>

(* create: O_CREAT | O_EXCL, with a new inode. *)
create(t, f, i) ==
    /\ dir = None
    /\ OnInode(i) = {}
    /\ dir' = i
    /\ Opens(t, f, i, <<"open">>, TRUE)

(* Bound: one truncation of a file in use, of which there is nothing to say. *)
open(t, f, trunc) ==
    /\ dir # None
    /\ trunc => dir \notin exposed
    /\ Opens(t, f, dir, IF trunc THEN <<"opentrunc">> ELSE <<"open">>, trunc)
    /\ UNCHANGED dir

(* truncate opens a File of its own. *)
truncate(t, f, len) ==
    /\ dir # None
    /\ Opens(t, f, dir, <<"truncate", len>>, FALSE)
    /\ UNCHANGED dir

(* read, write, ftruncate, flush and fsync on a File the caller has. *)
Call(t, f, op) ==
    /\ thread[t].pc = "idle"
    /\ file[f].ready
    /\ thread' = [thread EXCEPT ![t] = [IdleThread EXCEPT !.pc = "lock", !.f = f, !.op = op]]
    /\ UNCHANGED <<dir, inode, file, mutex, flock, exposed>>

(* The kernel sends release when no other call on the handle is under way. *)
release(t, f) ==
    /\ thread[t].pc = "idle"
    /\ file[f].ready /\ Users(f) = {}
    /\ file' = [file EXCEPT ![f] = NoFile]
    /\ UNCHANGED <<dir, inode, mutex, flock, thread, exposed>>

unlink(t) ==
    /\ thread[t].pc = "idle"
    /\ dir # None
    /\ dir' = None
    /\ UNCHANGED <<inode, file, mutex, flock, thread, exposed>>

Begin(t) ==
    \/ \E f \in Files, i \in Inodes : create(t, f, i)
    \/ \E f \in Files, trunc \in TruncFlags : open(t, f, trunc)
    \/ \E f \in Files, len \in 0..1 : truncate(t, f, len)
    \/ \E f \in Files, len \in 0..1 : Call(t, f, <<"ftruncate", len>>)
    \/ \E f \in Files, v \in Values : Call(t, f, <<"write", v>>)
    \/ \E f \in Files : Call(t, f, <<"read">>) \/ Call(t, f, <<"sync">>) \/ release(t, f)
    \/ unlink(t)

-----------------------------------------------------------------------------
(* Mutant: the constructor of File does not lock the descriptor. *)
ConstructUnlocked(t) ==
    /\ thread[t].pc = "construct"
    /\ Goto(t, "readheader")
    /\ UNCHANGED <<dir, inode, file, mutex, flock, exposed>>

(* File::File: the descriptor is locked while the stream is made. *)
Construct(t) ==
    LET f == thread[t].f IN
    /\ thread[t].pc = "construct"
    /\ Compatible(f, TRUE)
    /\ flock' = [flock EXCEPT ![f] = "exclusive"]
    /\ Goto(t, "readheader")
    /\ UNCHANGED <<dir, inode, file, mutex, exposed>>

ConstructFails(t) ==
    /\ thread[t].pc = "construct"
    /\ Return(t, TRUE)
    /\ UNCHANGED <<dir, inode, mutex, flock, exposed>>

ReadHeader(t) ==
    LET f == thread[t].f
        header == inode[InodeOf(f)].header
    IN  /\ thread[t].pc = "readheader"
        /\ file' = [file EXCEPT ![f].key = header]
        /\ Goto(t, IF header = None THEN "writeheader" ELSE "constructed")
        /\ UNCHANGED <<dir, inode, mutex, flock, exposed>>

(* The header gets a random key, one that is not in use yet. Bound: Keys has
   such a key.                                                               *)
WriteHeader(t) ==
    LET f   == thread[t].f
        key == CHOOSE k \in Keys \ UsedKeys : TRUE
    IN  /\ thread[t].pc = "writeheader"
        /\ Keys \ UsedKeys # {}
        /\ inode' = [inode EXCEPT ![InodeOf(f)].header = key]
        /\ file' = [file EXCEPT ![f].key = key]
        /\ Goto(t, "constructed")
        /\ UNCHANGED <<dir, mutex, flock, exposed>>

(* The constructor's guard unlocks; O_TRUNC and truncate go on to resize. *)
Constructed(t) ==
    LET f == thread[t].f IN
    /\ thread[t].pc = "constructed"
    /\ flock' = [flock EXCEPT ![f] = "none"]
    /\ IF thread[t].op[1] = "open" THEN Return(t, FALSE)
       ELSE Goto(t, "lock") /\ UNCHANGED file
    /\ UNCHANGED <<dir, inode, mutex, exposed>>

(* File::lock: the mutex, then the descriptor. *)
Lock(t) ==
    LET f == thread[t].f IN
    /\ thread[t].pc = "lock"
    /\ mutex[f] = None
    /\ mutex' = [mutex EXCEPT ![f] = t]
    /\ Goto(t, "flock")
    /\ UNCHANGED <<dir, inode, file, flock, exposed>>

Flock(t) ==
    LET f == thread[t].f
        exclusive == WantsExclusive(thread[t].op)
    IN  /\ thread[t].pc = "flock"
        /\ Compatible(f, exclusive)
        /\ flock' = [flock EXCEPT ![f] = IF exclusive THEN "exclusive" ELSE "shared"]
        /\ Goto(t, "run")
        /\ UNCHANGED <<dir, inode, file, mutex, exposed>>

Deletes(t) == thread[t].op[1] = "truncate" \/ ~file[thread[t].f].ready

(* flock can fail; the mutex is given back. *)
FlockFails(t) ==
    /\ thread[t].pc = "flock"
    /\ mutex' = [mutex EXCEPT ![thread[t].f] = None]
    /\ Return(t, Deletes(t))
    /\ UNCHANGED <<dir, inode, flock, exposed>>

(* One block is read; one that does not decrypt makes the read fail. *)
ReadOne(t, ifMissing) ==
    LET me   == thread[t]
        node == inode[InodeOf(me.f)]
        here == me.at <= Len(node.blocks)
        good == here /\ Decrypts(node.blocks[me.at], file[me.f].key)
    IN  /\ me.pc = "run" /\ me.op[1] = "read"
        /\ thread' = [thread EXCEPT ![t] =
              [me EXCEPT !.buf = IF good THEN Append(@, node.blocks[me.at].val) ELSE @,
                         !.ok  = here => good,
                         !.at  = IF good THEN @ + 1 ELSE @,
                         !.pc  = IF ~here THEN ifMissing
                                 ELSE IF good /\ me.at < 2 THEN "run" ELSE "unlock"]]
        /\ UNCHANGED <<dir, inode, file, mutex, flock, exposed>>

(* Mutant: the loop goes on where no block is left. *)
ReadStepSpins(t) == ReadOne(t, "run")

(* BlockBasedStream::read: a block that is missing ends the read. *)
ReadStep(t) == ReadOne(t, "unlock")

(* One whole block is written. *)
WriteStep(t) ==
    LET me == thread[t] IN
    /\ me.pc = "run" /\ me.op[1] = "write"
    /\ inode' = [inode EXCEPT ![InodeOf(me.f)] =
                    PutBlock(@, me.at, [key |-> file[me.f].key, val |-> me.op[2]])]
    /\ thread' = [thread EXCEPT ![t].at = @ + 1, ![t].pc = IF me.at < 2 THEN "run" ELSE "unlock"]
    /\ UNCHANGED <<dir, file, mutex, flock, exposed>>

(* resize to whole blocks, one ftruncate; beyond the end lie holes. *)
ResizeStep(t) ==
    LET me  == thread[t]
        len == IF me.op[1] = "opentrunc" THEN 0 ELSE me.op[2]
    IN  /\ me.pc = "run" /\ me.op[1] \in {"ftruncate", "truncate", "opentrunc"}
        /\ inode' = [inode EXCEPT ![InodeOf(me.f)] =
              [header |-> IF @.header = None THEN ZeroKey ELSE @.header,
               blocks |-> [b \in 1..len |-> IF b <= Len(@.blocks) THEN @.blocks[b] ELSE Hole]]]
        /\ Goto(t, "unlock")
        /\ UNCHANGED <<dir, file, mutex, flock, exposed>>

(* flush does nothing on Unix, and fsync nothing that other calls can see. *)
SyncStep(t) ==
    /\ thread[t].pc = "run" /\ thread[t].op[1] = "sync"
    /\ Goto(t, "unlock")
    /\ UNCHANGED <<dir, inode, file, mutex, flock, exposed>>

(* File::unlock, also when the call has thrown, and the end of the call. *)
Unlock(t) ==
    LET f == thread[t].f IN
    /\ thread[t].pc = "unlock"
    /\ flock' = [flock EXCEPT ![f] = "none"]
    /\ mutex' = [mutex EXCEPT ![f] = None]
    /\ Return(t, thread[t].op[1] = "truncate")
    /\ UNCHANGED <<dir, inode, exposed>>

Step(t) ==
    \/ Construct(t) \/ ReadHeader(t) \/ WriteHeader(t) \/ Constructed(t)
    \/ Lock(t) \/ Flock(t)
    \/ ReadStep(t) \/ WriteStep(t) \/ ResizeStep(t) \/ SyncStep(t)
    \/ Unlock(t)

Next == \E t \in Threads : Begin(t) \/ Step(t) \/ ConstructFails(t) \/ FlockFails(t)

(* The scheduler runs every thread that can go on. Nothing makes a caller start
   a call, and flock need not fail.                                          *)
Fairness == \A t \in Threads : WF_vars(Step(t))

Spec == Init /\ [][Next]_vars /\ Fairness

-----------------------------------------------------------------------------
(* All that work on a file use the session key of its header: the Files that
   are open on it, however many opened the new file at the same time, and the
   encrypted blocks. Only an open with O_TRUNC while the file is open
   elsewhere breaks this: it makes a new header under the other Files.       *)
SessionKeysAgree ==
    \A i \in Inodes \ exposed :
        /\ \A f \in OnInode(i) : file[f].ready => file[f].key = inode[i].header
        /\ \A b \in DOMAIN inode[i].blocks : Decrypts(inode[i].blocks[b], inode[i].header)

(* A read fails authentication in no interleaving, and never sees a part of a
   write: the two blocks it returns are of the same call.                    *)
ReadsAtomic ==
    \A t \in Threads :
        LET me == thread[t] IN
        (me.pc = "unlock" /\ me.op[1] = "read" /\ InodeOf(me.f) \notin exposed) =>
            /\ me.ok
            /\ Len(me.buf) = 2 => me.buf[1] = me.buf[2]

(* When the callers start no more calls, every call returns: no call waits for
   a lock that is not given back, whatever failed before.                    *)
CallsReturn ==
    (<>[][\A t \in Threads : ~Begin(t)]_vars) =>
        \A t \in Threads : thread[t].pc # "idle" ~> thread[t].pc = "idle"

=============================================================================
