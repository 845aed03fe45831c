---------------------------- MODULE LiteFileProofs ----------------------------
(***************************************************************************)
(* Proofs about LiteFile: whatever the threads, Files and inodes are, the  *)
(* two locks of File::lock keep the session keys of a file together and    *)
(* make reads atomic. The advisory lock must be enabled (no --noflock).    *)
(***************************************************************************)
EXTENDS LiteFile, SequenceTheorems, TLAPS

Constructing == {"construct", "readheader", "writeheader", "constructed"}
Mutexed      == {"flock", "run", "unlock"}
Holding      == {"readheader", "writeheader", "constructed", "run", "unlock"}
PCs          == {"idle", "lock"} \cup Constructing \cup Mutexed

Ops == {<<"none">>, <<"open">>, <<"opentrunc">>, <<"read">>, <<"sync">>}
       \cup ({"truncate", "ftruncate"} \X (0..1)) \cup ({"write"} \X Values)

Key    == Keys \cup {ZeroKey, None}
Val    == Values \cup {0}
Block  == [key : Key, val : Val]
Inode  == [header : Key, blocks : Seq(Block)]
FileObject == [ino : Inodes \cup {None}, key : Key, ready : BOOLEAN]
ThreadState == [pc : PCs, f : Files \cup {None}, op : Ops, at : 1..3,
                buf : Seq(Val), ok : BOOLEAN]

(* The values the variables may take. *)
Types ==
    /\ dir \in Inodes \cup {None}
    /\ inode \in [Inodes -> Inode]
    /\ file \in [Files -> FileObject]
    /\ mutex \in [Files -> Threads \cup {None}]
    /\ flock \in [Files -> {"none", "shared", "exclusive"}]
    /\ thread \in [Threads -> ThreadState]
    /\ exposed \in SUBSET Inodes

Busy(t) == thread[t].pc # "idle"

(* Whoever works on a File works on one that exists; one that open has not
   returned yet, or that truncate made for itself, has one user.             *)
FilesInUse ==
    /\ \A f \in Files : file[f].ready => file[f].ino \in Inodes
    /\ \A t \in Threads : Busy(t) =>
          /\ thread[t].f \in Files /\ file[thread[t].f].ino \in Inodes
          /\ thread[t].pc \in Constructing => ~file[thread[t].f].ready
          /\ thread[t].op[1] = "truncate" => ~file[thread[t].f].ready
    /\ \A t, u \in Threads :
          (Busy(t) /\ Busy(u) /\ thread[t].f = thread[u].f /\ ~file[thread[t].f].ready) => t = u

(* m_lock of a File has an owner exactly while a call is between lock and
   unlock.                                                                   *)
MutexOwned ==
    /\ \A t \in Threads : thread[t].pc \in Mutexed => mutex[thread[t].f] = t
    /\ \A f \in Files : mutex[f] # None =>
          thread[mutex[f]].pc \in Mutexed /\ thread[mutex[f]].f = f

Mode(t) == IF thread[t].pc \in {"run", "unlock"} /\ thread[t].op[1] = "read"
           THEN "shared" ELSE "exclusive"

(* The descriptor is locked while a constructor or a call is at work, in the
   mode the call needs.                                                      *)
FlockOwned ==
    /\ \A t \in Threads : thread[t].pc \in Holding => flock[thread[t].f] = Mode(t)
    /\ \A f \in Files : flock[f] # "none" =>
          \E t \in Threads : thread[t].pc \in Holding /\ thread[t].f = f

(* Whoever has the exclusive lock has it alone, among all Files of an inode. *)
FlockExcludes ==
    \A f, g \in Files :
        (f # g /\ file[f].ino = file[g].ino /\ file[f].ino # None /\ flock[f] = "exclusive")
            => flock[g] = "none"

(* A File whose stream has its session key. *)
Keyed(f) ==
    \/ file[f].ready
    \/ \E t \in Threads : /\ thread[t].f = f
                          /\ thread[t].pc \in {"constructed", "lock"} \cup Mutexed

(* The session keys agree, also of the Files still under construction. *)
KeysAgree ==
    \A i \in Inodes \ exposed :
        /\ \A f \in OnInode(i) : Keyed(f) => file[f].key = inode[i].header /\ file[f].key # None
        /\ \A b \in 1..Len(inode[i].blocks) : Decrypts(inode[i].blocks[b], inode[i].header)
        /\ inode[i].header = None => inode[i].blocks = <<>>
        /\ \A t \in Threads : (thread[t].pc = "writeheader" /\ InodeOf(thread[t].f) = i)
                                  => inode[i].header = None

Runs(t, op) == thread[t].pc = "run" /\ thread[t].op[1] = op

HalfWritten(t) == Runs(t, "write") /\ thread[t].at = 2

(* The blocks of a file are of one write, but for a writer in the middle. *)
WholeAt(i) ==
    /\ Len(inode[i].blocks) <= 2
    /\ \/ Len(inode[i].blocks) = 2 => inode[i].blocks[1].val = inode[i].blocks[2].val
       \/ i \in exposed
       \/ \E t \in Threads : HalfWritten(t) /\ InodeOf(thread[t].f) = i

BlocksWhole == \A i \in Inodes : WholeAt(i)

(* What a call under way has done so far. *)
ProgressOf(t) ==
    LET me   == thread[t]
        i    == InodeOf(me.f)
        node == inode[i]
    IN  /\ me.pc \in {"lock", "flock"} \cup Constructing => me.at = 1 /\ me.buf = <<>> /\ me.ok
        /\ me.pc = "run" => me.at \in 1..2
        /\ (HalfWritten(t) /\ i \notin exposed) =>
              Len(node.blocks) >= 1 /\ node.blocks[1].val = me.op[2]
        /\ (Runs(t, "read") /\ i \notin exposed) =>
              /\ me.at = 1 => me.buf = <<>>
              /\ me.at = 2 => Len(node.blocks) >= 1 /\ me.buf = <<node.blocks[1].val>>

Progress == \A t \in Threads : ProgressOf(t)

ReadAtomicOf(t) ==
    LET me == thread[t] IN
    (me.pc = "unlock" /\ me.op[1] = "read" /\ InodeOf(me.f) \notin exposed) =>
        /\ me.ok
        /\ Len(me.buf) = 2 => me.buf[1] = me.buf[2]

IInv ==
    /\ Types
    /\ FilesInUse
    /\ MutexOwned
    /\ FlockOwned
    /\ FlockExcludes
    /\ KeysAgree
    /\ BlocksWhole
    /\ Progress
    /\ ReadsAtomic

-----------------------------------------------------------------------------
(* What a step of t on the File f and the inode i leaves alone. *)
Others(t) == \A u \in Threads : u # t => thread'[u] = thread[u]

OtherFiles(f) ==
    \A g \in Files : g # f => /\ file'[g] = file[g]
                              /\ mutex'[g] = mutex[g]
                              /\ flock'[g] = flock[g]

OtherInodes(i) == \A j \in Inodes : j # i => inode'[j] = inode[j]

(* t goes on to pc with its call. *)
Moves(t, pc) ==
    /\ Others(t)
    /\ thread'[t].pc = pc /\ thread'[t].f = thread[t].f /\ thread'[t].op = thread[t].op
    /\ thread'[t].at = thread[t].at /\ thread'[t].buf = thread[t].buf
    /\ thread'[t].ok = thread[t].ok

(* The arguments of the operations. *)
LEMMA Operations ==
    ASSUME NEW op \in Ops
    PROVE  /\ op[1] = "write" => op[2] \in Values
           /\ op[1] \in {"truncate", "ftruncate"} => op[2] \in 0..1
BY DEF Ops

(* Goto moves one thread on and leaves the others where they are. *)
LEMMA Moved ==
    ASSUME Types, NEW t \in Threads, NEW pc \in PCs, Goto(t, pc)
    PROVE  /\ thread' \in [Threads -> ThreadState]
           /\ Moves(t, pc)
BY DEF Types, Goto, Moves, Others, ThreadState

(* Return ends the call of one thread; its File is deleted, or open for all. *)
LEMMA Returned ==
    ASSUME Types, FilesInUse, NEW t \in Threads, Busy(t), NEW deletes \in BOOLEAN, Return(t, deletes)
    PROVE  /\ thread' \in [Threads -> ThreadState]
           /\ file' \in [Files -> FileObject]
           /\ Others(t) /\ thread'[t].pc = "idle"
           /\ \A g \in Files : g # thread[t].f => file'[g] = file[g]
           /\ deletes => file'[thread[t].f] = NoFile
           /\ ~deletes => /\ file'[thread[t].f].ready
                          /\ file'[thread[t].f].ino = file[thread[t].f].ino
                          /\ file'[thread[t].f].key = file[thread[t].f].key
<1>1. thread[t].f \in Files
  BY DEF FilesInUse
<1>2. IdleThread \in ThreadState /\ IdleThread.pc = "idle"
  BY DEF IdleThread, ThreadState, PCs, Ops
<1>3. NoFile \in FileObject
  BY DEF NoFile, FileObject, Key
<1>4. thread' \in [Threads -> ThreadState] /\ Others(t) /\ thread'[t].pc = "idle"
  BY <1>2 DEF Types, Return, Others
<1>5. CASE deletes
  BY <1>1, <1>3, <1>4, <1>5 DEF Types, Return
<1>6. CASE ~deletes
  BY <1>1, <1>4, <1>6 DEF Types, Return, FileObject
<1>7. QED BY <1>5, <1>6

(* What an open does, up to the descriptor. *)
OpensFacts(t, f, i, op) ==
    /\ thread' \in [Threads -> ThreadState] /\ file' \in [Files -> FileObject]
    /\ inode' \in [Inodes -> Inode] /\ exposed' \in SUBSET Inodes
    /\ UNCHANGED <<mutex, flock>>
    /\ Others(t) /\ OtherFiles(f) /\ OtherInodes(i)
    /\ thread[t].pc = "idle" /\ file[f] = NoFile
    /\ \A u \in Threads : thread[u].pc # "idle" => thread[u].f # f
    /\ thread'[t].pc = "construct" /\ thread'[t].f = f /\ thread'[t].op = op
    /\ thread'[t].at = 1 /\ thread'[t].buf = <<>> /\ thread'[t].ok = TRUE
    /\ file'[f].ino = i /\ file'[f].key = None /\ file'[f].ready = FALSE
    /\ \/ inode'[i] = inode[i] /\ exposed' = exposed
       \/ inode'[i] = EmptyInode /\ OnInode(i) = {} /\ exposed' = exposed \ {i}
       \/ inode'[i] = EmptyInode /\ exposed' = exposed \cup {i}

(* The step of Opens, taken apart. *)
LEMMA OpensEffect ==
    ASSUME Types, NEW t \in Threads, NEW f \in Files, NEW i \in Inodes, NEW op \in Ops,
           NEW trunc \in BOOLEAN, Opens(t, f, i, op, trunc)
    PROVE  OpensFacts(t, f, i, op)
<1>1. /\ IdleThread \in ThreadState
      /\ IdleThread.at = 1 /\ IdleThread.buf = <<>> /\ IdleThread.ok = TRUE
  BY DEF IdleThread, ThreadState, PCs, Ops
<1>12. /\ NoFile \in FileObject
       /\ NoFile.key = None /\ NoFile.ready = FALSE
  BY DEF NoFile, FileObject, Key
<1> DEFINE new == [IdleThread EXCEPT !.pc = "construct", !.f = f, !.op = op]
           opened == [NoFile EXCEPT !.ino = i]
<1>2. /\ new \in ThreadState /\ new.pc = "construct" /\ new.f = f /\ new.op = op
      /\ new.at = 1 /\ new.buf = <<>> /\ new.ok = TRUE
  BY <1>1 DEF ThreadState, PCs, Constructing
<1>14. opened \in FileObject /\ opened.ino = i /\ opened.key = None /\ opened.ready = FALSE
  BY <1>12 DEF FileObject
<1> HIDE DEF new, opened
<1>3. thread' = [thread EXCEPT ![t] = new] /\ thread[t].pc = "idle"
  BY DEF Opens, new
<1>13. file' = [file EXCEPT ![f] = opened] /\ file[f] = NoFile
  BY DEF Opens, opened
<1>4. /\ thread' \in [Threads -> ThreadState] /\ Others(t) /\ thread'[t] = new
  BY <1>2, <1>3 DEF Types, Others
<1>5. /\ file' \in [Files -> FileObject]
      /\ \A g \in Files : g # f => file'[g] = file[g]
      /\ file[f] = NoFile
      /\ file'[f].ino = i /\ file'[f].key = None /\ file'[f].ready = FALSE
  BY <1>13, <1>14 DEF Types
<1>6. EmptyInode \in Inode
  BY DEF EmptyInode, Inode, Key
<1>7. inode' \in [Inodes -> Inode] /\ exposed' \in SUBSET Inodes /\ OtherInodes(i)
  BY <1>6 DEF Opens, Types, OtherInodes
<1>8. \A u \in Threads : thread[u].pc # "idle" => thread[u].f # f
  BY DEF Opens, Users
<1>9. \/ inode'[i] = inode[i] /\ exposed' = exposed
      \/ inode'[i] = EmptyInode /\ OnInode(i) = {} /\ exposed' = exposed \ {i}
      \/ inode'[i] = EmptyInode /\ exposed' = exposed \cup {i}
  BY DEF Opens, Types
<1>10. UNCHANGED <<mutex, flock>> /\ OtherFiles(f)
  BY <1>5 DEF Opens, OtherFiles
<1>11. QED BY <1>2, <1>3, <1>4, <1>5, <1>7, <1>8, <1>9, <1>10 DEF OpensFacts

(* A call on an open File begins at the mutex. *)
LEMMA CallEffect ==
    ASSUME Types, NEW t \in Threads, NEW f \in Files, NEW op \in Ops, Call(t, f, op)
    PROVE  /\ Types'
           /\ UNCHANGED <<inode, file, mutex, flock, exposed>>
           /\ Others(t) /\ thread[t].pc = "idle" /\ file[f].ready
           /\ thread'[t].pc = "lock" /\ thread'[t].f = f /\ thread'[t].op = op
           /\ thread'[t].at = 1 /\ thread'[t].buf = <<>> /\ thread'[t].ok = TRUE
<1>1. /\ IdleThread \in ThreadState
      /\ IdleThread.at = 1 /\ IdleThread.buf = <<>> /\ IdleThread.ok = TRUE
  BY DEF IdleThread, ThreadState, PCs, Ops
<1> DEFINE new == [IdleThread EXCEPT !.pc = "lock", !.f = f, !.op = op]
<1>2. /\ new \in ThreadState /\ new.pc = "lock" /\ new.f = f /\ new.op = op
      /\ new.at = 1 /\ new.buf = <<>> /\ new.ok = TRUE
  BY <1>1 DEF ThreadState, PCs
<1> HIDE DEF new
<1>3. thread' = [thread EXCEPT ![t] = new] /\ thread[t].pc = "idle" /\ file[f].ready
  BY DEF Call, new
<1>4. thread' \in [Threads -> ThreadState] /\ Others(t) /\ thread'[t] = new
  BY <1>2, <1>3 DEF Types, Others
<1>5. UNCHANGED <<dir, inode, file, mutex, flock, exposed>>
  BY DEF Call
<1>6. Types'
  BY <1>4, <1>5 DEF Types
<1>7. QED BY <1>2, <1>3, <1>4, <1>5, <1>6

(* release deletes a File that no call uses. *)
LEMMA ReleaseEffect ==
    ASSUME Types, NEW t \in Threads, NEW f \in Files, release(t, f)
    PROVE  /\ Types'
           /\ UNCHANGED <<inode, mutex, flock, thread, exposed>>
           /\ \A u \in Threads : thread[u].pc # "idle" => thread[u].f # f
           /\ OtherFiles(f) /\ file'[f] = NoFile /\ thread[t].pc = "idle"
<1>1. NoFile \in FileObject
  BY DEF NoFile, FileObject, Key
<1>2. \A u \in Threads : thread[u].pc # "idle" => thread[u].f # f
  BY DEF release, Users
<1>3. QED
  BY <1>1, <1>2 DEF release, Types, OtherFiles

(* unlink takes the name away, and nothing else. *)
LEMMA UnlinkEffect ==
    ASSUME Types, NEW t \in Threads, unlink(t)
    PROVE  Types' /\ UNCHANGED <<inode, file, mutex, flock, thread, exposed>>
BY DEF unlink, Types

(* Taking the advisory lock: no other File of the inode has it in the way. *)
LEMMA LockedFacts ==
    ASSUME LockEnabled, NEW f \in Files, NEW exclusive \in BOOLEAN, Compatible(f, exclusive),
           NEW g \in Files, g # f, file[g].ino = file[f].ino
    PROVE  /\ exclusive => flock[g] = "none"
           /\ flock[g] # "exclusive"
<1>1. g \in OnInode(InodeOf(f)) \ {f}
  BY DEF OnInode, InodeOf
<1>2. IF exclusive THEN flock[g] = "none" ELSE flock[g] # "exclusive"
  BY <1>1 DEF Compatible
<1>3. QED BY <1>2

(* The constructor has the advisory lock of the inode for itself. *)
LEMMA ConstructEffect ==
    ASSUME LockEnabled, Types, NEW t \in Threads, NEW f \in Files, f = thread[t].f, Construct(t)
    PROVE  /\ Types'
           /\ UNCHANGED <<inode, file, mutex, exposed>>
           /\ thread[t].pc = "construct" /\ Moves(t, "readheader")
           /\ OtherFiles(f) /\ flock'[f] = "exclusive"
           /\ \A g \in Files : g # f /\ file[g].ino = file[f].ino => flock[g] = "none"
<1>1. thread' \in [Threads -> ThreadState] /\ Moves(t, "readheader") /\ thread[t].pc = "construct"
  BY Moved DEF Construct, PCs, Constructing
<1>2. /\ UNCHANGED <<dir, inode, file, mutex, exposed>>
      /\ flock' = [flock EXCEPT ![f] = "exclusive"]
  BY DEF Construct
<1>3. Types' /\ OtherFiles(f) /\ flock'[f] = "exclusive"
  BY <1>1, <1>2 DEF Types, OtherFiles
<1>4. \A g \in Files : g # f /\ file[g].ino = file[f].ino => flock[g] = "none"
  BY LockedFacts DEF Construct
<1>5. QED BY <1>1, <1>2, <1>3, <1>4

(* The constructor could not lock: the new File goes. *)
LEMMA ConstructFailsEffect ==
    ASSUME Types, FilesInUse, NEW t \in Threads, NEW f \in Files, f = thread[t].f, ConstructFails(t)
    PROVE  /\ Types'
           /\ UNCHANGED <<inode, mutex, flock, exposed>>
           /\ thread[t].pc = "construct" /\ Others(t) /\ thread'[t].pc = "idle"
           /\ OtherFiles(f) /\ file'[f] = NoFile
<1>1. thread[t].pc = "construct" /\ Return(t, TRUE) /\ UNCHANGED <<dir, inode, mutex, flock, exposed>>
  BY DEF ConstructFails
<1>2. /\ thread' \in [Threads -> ThreadState]
      /\ file' \in [Files -> FileObject]
      /\ Others(t) /\ thread'[t].pc = "idle"
      /\ \A g \in Files : g # f => file'[g] = file[g]
      /\ file'[f] = NoFile
  BY <1>1, Returned DEF Busy
<1>3. QED BY <1>1, <1>2 DEF Types, OtherFiles

(* The key of the File becomes that of the header, if there is one. *)
LEMMA ReadHeaderEffect ==
    ASSUME Types, FilesInUse, NEW t \in Threads, NEW f \in Files, f = thread[t].f, ReadHeader(t)
    PROVE  /\ Types'
           /\ UNCHANGED <<inode, mutex, flock, exposed>>
           /\ thread[t].pc = "readheader"
           /\ OtherFiles(f)
           /\ file'[f].key = inode[file[f].ino].header
           /\ file'[f].ino = file[f].ino /\ file'[f].ready = file[f].ready
           /\ \/ inode[file[f].ino].header = None /\ Moves(t, "writeheader")
              \/ inode[file[f].ino].header # None /\ Moves(t, "constructed")
<1> DEFINE header == inode[file[f].ino].header
<1>1. file[f].ino \in Inodes /\ thread[t].pc = "readheader"
  BY DEF FilesInUse, Busy, ReadHeader
<1>2. header \in Key
  BY <1>1 DEF Types, Inode
<1>3. /\ UNCHANGED <<dir, inode, mutex, flock, exposed>>
      /\ file' = [file EXCEPT ![f].key = header]
      /\ Goto(t, IF header = None THEN "writeheader" ELSE "constructed")
  BY DEF ReadHeader, InodeOf
<1> HIDE DEF header
<1>4. /\ thread' \in [Threads -> ThreadState]
      /\ Moves(t, IF header = None THEN "writeheader" ELSE "constructed")
  BY <1>3, Moved DEF PCs, Constructing
<1>5. /\ file' \in [Files -> FileObject] /\ OtherFiles(f)
      /\ file'[f].key = header
      /\ file'[f].ino = file[f].ino /\ file'[f].ready = file[f].ready
  BY <1>2, <1>3 DEF Types, FileObject, OtherFiles
<1>6. Types'
  BY <1>3, <1>4, <1>5 DEF Types
<1>7. \/ header = None /\ Moves(t, "writeheader")
      \/ header # None /\ Moves(t, "constructed")
  BY <1>4
<1>8. QED BY <1>1, <1>3, <1>5, <1>6, <1>7 DEF header

(* Header and File get one new key. *)
LEMMA WriteHeaderEffect ==
    ASSUME Types, FilesInUse, NEW t \in Threads, NEW f \in Files, f = thread[t].f, WriteHeader(t)
    PROVE  /\ Types'
           /\ UNCHANGED <<mutex, flock, exposed>>
           /\ thread[t].pc = "writeheader" /\ Moves(t, "constructed")
           /\ OtherFiles(f)
           /\ file'[f].ino = file[f].ino /\ file'[f].ready = file[f].ready
           /\ file'[f].key = inode'[file[f].ino].header /\ file'[f].key # None
           /\ inode'[file[f].ino].blocks = inode[file[f].ino].blocks
           /\ \A j \in Inodes : j # file[f].ino => inode'[j] = inode[j]
<1> DEFINE key == CHOOSE k \in Keys \ UsedKeys : TRUE
<1>1. file[f].ino \in Inodes /\ thread[t].pc = "writeheader"
  BY DEF FilesInUse, Busy, WriteHeader
<1>2. key \in Keys
  BY DEF WriteHeader
<1>3. /\ UNCHANGED <<dir, mutex, flock, exposed>>
      /\ inode' = [inode EXCEPT ![file[f].ino].header = key]
      /\ file' = [file EXCEPT ![f].key = key]
      /\ Goto(t, "constructed")
  BY DEF WriteHeader, InodeOf
<1> HIDE DEF key
<1>4. thread' \in [Threads -> ThreadState] /\ Moves(t, "constructed")
  BY <1>3, Moved DEF PCs, Constructing
<1>5. key \in Key /\ key # None
  BY <1>2, LiteFileAssumption DEF Key
<1>6. /\ file' \in [Files -> FileObject] /\ OtherFiles(f)
      /\ file'[f].key = key
      /\ file'[f].ino = file[f].ino /\ file'[f].ready = file[f].ready
  BY <1>3, <1>5 DEF Types, FileObject, OtherFiles
<1>7. /\ inode' \in [Inodes -> Inode]
      /\ inode'[file[f].ino].header = key
      /\ inode'[file[f].ino].blocks = inode[file[f].ino].blocks
      /\ \A j \in Inodes : j # file[f].ino => inode'[j] = inode[j]
  <2> DEFINE node == [inode[file[f].ino] EXCEPT !.header = key]
  <2>1. inode \in [Inodes -> Inode] /\ inode[file[f].ino] \in Inode
    BY <1>1 DEF Types
  <2>2. node \in Inode /\ node.header = key /\ node.blocks = inode[file[f].ino].blocks
    BY <1>5, <2>1 DEF Inode
  <2>3. inode' = [inode EXCEPT ![file[f].ino] = node]
    BY <1>3, <2>1
  <2> HIDE DEF node
  <2>4. QED BY <1>1, <2>1, <2>2, <2>3
<1>8. Types'
  BY <1>3, <1>4, <1>6, <1>7 DEF Types
<1>9. QED BY <1>1, <1>3, <1>4, <1>5, <1>6, <1>7, <1>8

(* The constructor ends, and gives up the advisory lock. *)
LEMMA ConstructedEffect ==
    ASSUME Types, FilesInUse, NEW t \in Threads, NEW f \in Files, f = thread[t].f, Constructed(t)
    PROVE  /\ Types'
           /\ UNCHANGED <<inode, mutex, exposed>>
           /\ thread[t].pc = "constructed" /\ flock'[f] = "none"
           /\ OtherFiles(f)
           /\ file'[f].ino = file[f].ino /\ file'[f].key = file[f].key
           /\ \/ Others(t) /\ thread'[t].pc = "idle" /\ file'[f].ready /\ thread[t].op[1] = "open"
              \/ Moves(t, "lock") /\ file'[f] = file[f]
<1>1. /\ UNCHANGED <<dir, inode, mutex, exposed>>
      /\ thread[t].pc = "constructed"
      /\ flock' = [flock EXCEPT ![f] = "none"]
  BY DEF Constructed
<1>2. flock' \in [Files -> {"none", "shared", "exclusive"}] /\ flock'[f] = "none"
      /\ \A g \in Files : g # f => flock'[g] = flock[g]
  BY <1>1 DEF Types
<1>3. CASE thread[t].op[1] = "open" /\ Return(t, FALSE)
  <2>1. /\ thread' \in [Threads -> ThreadState]
        /\ file' \in [Files -> FileObject]
        /\ Others(t) /\ thread'[t].pc = "idle"
        /\ \A g \in Files : g # f => file'[g] = file[g]
        /\ file'[f].ready /\ file'[f].ino = file[f].ino /\ file'[f].key = file[f].key
    BY <1>1, <1>3, Returned DEF Busy
  <2>2. QED BY <1>1, <1>2, <1>3, <2>1 DEF Types, OtherFiles
<1>4. CASE Goto(t, "lock") /\ UNCHANGED file
  <2>1. thread' \in [Threads -> ThreadState] /\ Moves(t, "lock")
    BY <1>4, Moved DEF PCs
  <2>2. QED BY <1>1, <1>2, <1>4, <2>1 DEF Types, OtherFiles
<1>5. QED BY <1>3, <1>4 DEF Constructed

(* The mutex was free and is now taken. *)
LEMMA LockEffect ==
    ASSUME Types, NEW t \in Threads, NEW f \in Files, f = thread[t].f, Lock(t)
    PROVE  /\ Types'
           /\ UNCHANGED <<inode, file, flock, exposed>>
           /\ thread[t].pc = "lock" /\ Moves(t, "flock")
           /\ OtherFiles(f) /\ mutex[f] = None /\ mutex'[f] = t
<1>1. thread' \in [Threads -> ThreadState] /\ Moves(t, "flock") /\ thread[t].pc = "lock"
  BY Moved DEF Lock, PCs, Mutexed
<1>2. QED BY <1>1 DEF Lock, Types, OtherFiles

(* The advisory lock is taken, in the mode of the call. *)
LEMMA FlockEffect ==
    ASSUME LockEnabled, Types, NEW t \in Threads, NEW f \in Files, f = thread[t].f, Flock(t)
    PROVE  /\ Types'
           /\ UNCHANGED <<inode, file, mutex, exposed>>
           /\ thread[t].pc = "flock" /\ Moves(t, "run")
           /\ OtherFiles(f)
           /\ flock'[f] = IF thread[t].op[1] # "read" THEN "exclusive" ELSE "shared"
           /\ \A g \in Files : g # f /\ file[g].ino = file[f].ino =>
                 /\ thread[t].op[1] # "read" => flock[g] = "none"
                 /\ flock[g] # "exclusive"
<1>1. thread' \in [Threads -> ThreadState] /\ Moves(t, "run") /\ thread[t].pc = "flock"
  BY Moved DEF Flock, PCs, Mutexed
<1>2. /\ UNCHANGED <<dir, inode, file, mutex, exposed>>
      /\ flock' = [flock EXCEPT ![f] = IF thread[t].op[1] # "read" THEN "exclusive" ELSE "shared"]
      /\ Compatible(f, thread[t].op[1] # "read")
  BY DEF Flock, WantsExclusive
<1>3. /\ Types' /\ OtherFiles(f)
      /\ flock'[f] = IF thread[t].op[1] # "read" THEN "exclusive" ELSE "shared"
  BY <1>1, <1>2 DEF Types, OtherFiles
<1>4. \A g \in Files : g # f /\ file[g].ino = file[f].ino =>
                 /\ thread[t].op[1] # "read" => flock[g] = "none"
                 /\ flock[g] # "exclusive"
  BY <1>2, LockedFacts
<1>5. QED BY <1>1, <1>2, <1>3, <1>4

(* flock fails: the call ends without the mutex. *)
LEMMA FlockFailsEffect ==
    ASSUME Types, FilesInUse, NEW t \in Threads, NEW f \in Files, f = thread[t].f, FlockFails(t)
    PROVE  /\ Types'
           /\ UNCHANGED <<inode, flock, exposed>>
           /\ thread[t].pc = "flock" /\ Others(t) /\ thread'[t].pc = "idle"
           /\ OtherFiles(f) /\ mutex'[f] = None
           /\ \/ file'[f] = NoFile /\ ~file[f].ready
              \/ file'[f].ready /\ file'[f].ino = file[f].ino /\ file'[f].key = file[f].key
<1>1. /\ thread[t].pc = "flock" /\ Return(t, Deletes(t)) /\ UNCHANGED <<dir, inode, flock, exposed>>
      /\ mutex' = [mutex EXCEPT ![f] = None]
  BY DEF FlockFails
<1>2. /\ Deletes(t) \in BOOLEAN
      /\ Deletes(t) => ~file[f].ready
  BY <1>1 DEF Deletes, FilesInUse, Busy
<1>3. /\ thread' \in [Threads -> ThreadState]
      /\ file' \in [Files -> FileObject]
      /\ Others(t) /\ thread'[t].pc = "idle"
      /\ \A g \in Files : g # f => file'[g] = file[g]
      /\ \/ file'[f] = NoFile /\ ~file[f].ready
         \/ file'[f].ready /\ file'[f].ino = file[f].ino /\ file'[f].key = file[f].key
  BY <1>1, <1>2, Returned DEF Busy
<1>4. QED BY <1>1, <1>3 DEF Types, OtherFiles

(* The call ends, and gives up both locks. *)
LEMMA UnlockEffect ==
    ASSUME Types, FilesInUse, NEW t \in Threads, NEW f \in Files, f = thread[t].f, Unlock(t)
    PROVE  /\ Types'
           /\ UNCHANGED <<inode, exposed>>
           /\ thread[t].pc = "unlock" /\ Others(t) /\ thread'[t].pc = "idle"
           /\ OtherFiles(f) /\ mutex'[f] = None /\ flock'[f] = "none"
           /\ \/ file'[f] = NoFile /\ ~file[f].ready
              \/ file'[f].ready /\ file'[f].ino = file[f].ino /\ file'[f].key = file[f].key
<1>1. /\ thread[t].pc = "unlock" /\ Return(t, thread[t].op[1] = "truncate")
      /\ UNCHANGED <<dir, inode, exposed>>
      /\ mutex' = [mutex EXCEPT ![f] = None] /\ flock' = [flock EXCEPT ![f] = "none"]
  BY DEF Unlock
<1>2. /\ (thread[t].op[1] = "truncate") \in BOOLEAN
      /\ thread[t].op[1] = "truncate" => ~file[f].ready
  BY <1>1 DEF FilesInUse, Busy
<1>3. /\ thread' \in [Threads -> ThreadState]
      /\ file' \in [Files -> FileObject]
      /\ Others(t) /\ thread'[t].pc = "idle"
      /\ \A g \in Files : g # f => file'[g] = file[g]
      /\ \/ file'[f] = NoFile /\ ~file[f].ready
         \/ file'[f].ready /\ file'[f].ino = file[f].ino /\ file'[f].key = file[f].key
  BY <1>1, <1>2, Returned DEF Busy
<1>4. QED BY <1>1, <1>3 DEF Types, OtherFiles

(* flush and fsync change nothing that others see. *)
LEMMA SyncEffect ==
    ASSUME Types, NEW t \in Threads, SyncStep(t)
    PROVE  /\ Types'
           /\ UNCHANGED <<inode, file, mutex, flock, exposed>>
           /\ thread[t].pc = "run" /\ thread[t].op[1] = "sync" /\ Moves(t, "unlock")
<1>1. thread' \in [Threads -> ThreadState] /\ Moves(t, "unlock")
  BY Moved DEF SyncStep, PCs, Mutexed
<1>2. QED BY <1>1 DEF SyncStep, Types

(* What the read of a block does. *)
ReadFacts(t, f, i) ==
    /\ Types'
    /\ UNCHANGED <<inode, file, mutex, flock, exposed>>
    /\ thread[t].pc = "run" /\ thread[t].op[1] = "read" /\ Others(t)
    /\ thread'[t].f = f /\ thread'[t].op = thread[t].op
    /\ \/ /\ thread[t].at > Len(inode[i].blocks)
          /\ thread'[t].pc = "unlock" /\ thread'[t].ok
          /\ thread'[t].buf = thread[t].buf
       \/ /\ thread[t].at <= Len(inode[i].blocks)
          /\ ~Decrypts(inode[i].blocks[thread[t].at], file[f].key)
          /\ thread'[t].pc = "unlock"
       \/ /\ thread[t].at <= Len(inode[i].blocks)
          /\ thread'[t].buf = Append(thread[t].buf, inode[i].blocks[thread[t].at].val)
          /\ thread'[t].at = thread[t].at + 1 /\ thread'[t].ok
          /\ thread'[t].pc = IF thread[t].at < 2 THEN "run" ELSE "unlock"

(* The step of ReadStep, taken apart. *)
LEMMA ReadEffect ==
    ASSUME Types, FilesInUse, Progress, NEW t \in Threads, NEW f \in Files, f = thread[t].f,
           NEW i \in Inodes, i = file[f].ino, ReadStep(t)
    PROVE  ReadFacts(t, f, i)
<1> DEFINE me   == thread[t]
           node == inode[i]
           here == me.at <= Len(node.blocks)
           good == here /\ Decrypts(node.blocks[me.at], file[f].key)
           buf  == IF good THEN Append(me.buf, node.blocks[me.at].val) ELSE me.buf
           at   == IF good THEN me.at + 1 ELSE me.at
           pc   == IF ~here THEN "unlock" ELSE IF good /\ me.at < 2 THEN "run" ELSE "unlock"
           ok   == here => good
           new  == [me EXCEPT !.buf = buf, !.ok = ok, !.at = at, !.pc = pc]
<1>1. /\ me.pc = "run" /\ me.op[1] = "read"
      /\ thread' = [thread EXCEPT ![t] = new]
      /\ UNCHANGED <<dir, inode, file, mutex, flock, exposed>>
  BY DEF ReadStep, ReadOne, InodeOf
<1>2. /\ me \in ThreadState /\ me.at \in 1..2 /\ me.buf \in Seq(Val)
      /\ node.blocks \in Seq(Block) /\ Len(node.blocks) \in Nat
  <2>1. me \in ThreadState /\ me.buf \in Seq(Val) /\ node.blocks \in Seq(Block)
    BY DEF Types, ThreadState, Inode
  <2>2. me.at \in 1..2
    BY <1>1 DEF Progress, ProgressOf
  <2>3. Len(node.blocks) \in Nat
    BY <2>1, LenProperties
  <2> HIDE DEF me, node
  <2>4. QED BY <2>1, <2>2, <2>3
<1>12. here \in BOOLEAN /\ good \in BOOLEAN /\ (here <=> me.at <= Len(node.blocks))
  BY DEF Decrypts
<1>13. good => here
  OBVIOUS
<1>14. here /\ ~good => ~Decrypts(node.blocks[me.at], file[f].key)
  OBVIOUS
<1> HIDE DEF good, here
<1>3. /\ at \in 1..3 /\ pc \in PCs /\ ok \in BOOLEAN
  BY <1>2, <1>12 DEF PCs, Mutexed
<1>4. buf \in Seq(Val)
  <2>1. here => node.blocks[me.at] \in Block
    BY <1>2, <1>12
  <2>2. good => node.blocks[me.at].val \in Val
    BY <2>1, <1>13 DEF Block
  <2>3. CASE good
    <3>1. PICK v \in Val : v = node.blocks[me.at].val
      BY <2>2, <2>3
    <3>2. PICK q \in Seq(Val) : q = me.buf
      BY <1>2
    <3>3. buf = Append(q, v)
      BY <2>3, <3>1, <3>2
    <3> HIDE DEF buf
    <3>4. QED BY <3>3
  <2>4. CASE ~good
    BY <1>2, <2>4
  <2>5. QED BY <2>3, <2>4
<1>5. /\ here \in BOOLEAN /\ good \in BOOLEAN
      /\ ~here => pc = "unlock" /\ ok /\ buf = me.buf
      /\ here /\ ~good => pc = "unlock" /\ ~Decrypts(node.blocks[me.at], file[f].key)
      /\ good => /\ here /\ ok /\ at = me.at + 1 /\ buf = Append(me.buf, node.blocks[me.at].val)
                 /\ pc = IF me.at < 2 THEN "run" ELSE "unlock"
  BY <1>12, <1>13, <1>14
<1> HIDE DEF buf, at, pc, ok
<1>7. /\ new \in ThreadState
      /\ new.buf = buf /\ new.ok = ok /\ new.at = at /\ new.pc = pc
      /\ new.f = me.f /\ new.op = me.op
  BY <1>2, <1>3, <1>4 DEF ThreadState
<1> HIDE DEF new
<1>8. thread' \in [Threads -> ThreadState] /\ Others(t) /\ thread'[t] = new
  BY <1>1, <1>7 DEF Types, Others
<1>9. Types'
  BY <1>1, <1>8 DEF Types
<1>10. ~here => me.at > Len(node.blocks)
  BY <1>2, <1>12, SMTT(30)
<1>11. QED BY <1>1, <1>5, <1>7, <1>8, <1>9, <1>10, <1>12 DEF ReadFacts

(* What the write of a block does. *)
WriteFacts(t, f, i) ==
    /\ Types'
    /\ UNCHANGED <<file, mutex, flock, exposed>>
    /\ thread[t].pc = "run" /\ thread[t].op[1] = "write"
    /\ Others(t) /\ OtherInodes(i)
    /\ thread'[t].f = f /\ thread'[t].op = thread[t].op
    /\ thread'[t].at = thread[t].at + 1 /\ thread[t].at \in 1..2
    /\ thread'[t].pc = IF thread[t].at < 2 THEN "run" ELSE "unlock"
    /\ inode'[i].header = IF inode[i].header = None THEN ZeroKey ELSE inode[i].header
    /\ Len(inode'[i].blocks) = IF thread[t].at > Len(inode[i].blocks)
                                THEN thread[t].at ELSE Len(inode[i].blocks)
    /\ inode'[i].blocks[thread[t].at] = [key |-> file[f].key, val |-> thread[t].op[2]]
    /\ \A b \in 1..Len(inode'[i].blocks) : b # thread[t].at =>
          inode'[i].blocks[b] = IF b <= Len(inode[i].blocks) THEN inode[i].blocks[b] ELSE Hole

(* The step of WriteStep, taken apart. *)
LEMMA WriteEffect ==
    ASSUME Types, FilesInUse, Progress, NEW t \in Threads, NEW f \in Files, f = thread[t].f,
           NEW i \in Inodes, i = file[f].ino, WriteStep(t)
    PROVE  WriteFacts(t, f, i)
<1> DEFINE me     == thread[t]
           blocks == inode[i].blocks
           block  == [key |-> file[f].key, val |-> me.op[2]]
           n      == IF me.at > Len(blocks) THEN me.at ELSE Len(blocks)
           header == IF inode[i].header = None THEN ZeroKey ELSE inode[i].header
           new    == [b \in 1..n |-> IF b = me.at THEN block
                                     ELSE IF b <= Len(blocks) THEN blocks[b] ELSE Hole]
           pc     == IF me.at < 2 THEN "run" ELSE "unlock"
<1>1. /\ me.pc = "run" /\ me.op[1] = "write"
      /\ inode' = [inode EXCEPT ![i] = [header |-> header, blocks |-> new]]
      /\ thread' = [thread EXCEPT ![t].at = @ + 1, ![t].pc = pc]
      /\ UNCHANGED <<dir, file, mutex, flock, exposed>>
  BY DEF WriteStep, PutBlock, InodeOf
<1>2. /\ me \in ThreadState /\ me.at \in 1..2 /\ me.op[2] \in Values
      /\ blocks \in Seq(Block) /\ Len(blocks) \in Nat
      /\ file[f].key \in Key /\ inode[i].header \in Key
  <2>1. me \in ThreadState /\ me.op \in Ops
    BY DEF Types, ThreadState
  <2>2. me.at \in 1..2
    BY <1>1 DEF Progress, ProgressOf
  <2>3. me.op[2] \in Values
    BY <1>1, <2>1, Operations
  <2>4. blocks \in Seq(Block) /\ inode[i].header \in Key
    BY DEF Types, Inode
  <2>5. Len(blocks) \in Nat
    BY <2>4, LenProperties
  <2>6. file[f].key \in Key
    BY DEF Types, FileObject
  <2>7. QED BY <2>1, <2>2, <2>3, <2>4, <2>5, <2>6
<1>3. block \in Block /\ Hole \in Block /\ header \in Key /\ pc \in PCs /\ n \in Nat
  BY <1>2 DEF Block, Hole, Key, Val, PCs, Mutexed
<1>11. me.at \in 1..n
  BY <1>2
<1> HIDE DEF block, header, pc, n
<1>4. new \in Seq(Block) /\ Len(new) = n
  <2>1. \A b \in 1..n : (IF b = me.at THEN block
                         ELSE IF b <= Len(blocks) THEN blocks[b] ELSE Hole) \in Block
    BY <1>2, <1>3
  <2>2. QED BY <1>3, <2>1
<1>5. /\ me.at \in 1..n /\ new[me.at] = block
      /\ \A b \in 1..n : b # me.at => new[b] = IF b <= Len(blocks) THEN blocks[b] ELSE Hole
  BY <1>11
<1> HIDE DEF new
<1>6. /\ inode' \in [Inodes -> Inode] /\ OtherInodes(i)
      /\ inode'[i].header = header /\ inode'[i].blocks = new
  BY <1>1, <1>3, <1>4 DEF Types, Inode, OtherInodes
<1>7. me.at + 1 \in 1..3
  BY <1>2
<1>8. /\ thread' \in [Threads -> ThreadState] /\ Others(t)
      /\ thread'[t].f = me.f /\ thread'[t].op = me.op
      /\ thread'[t].at = me.at + 1 /\ thread'[t].pc = pc
  BY <1>1, <1>2, <1>3, <1>7 DEF Types, ThreadState, Others
<1>9. Types'
  BY <1>1, <1>6, <1>8 DEF Types
<1>10. QED BY <1>1, <1>2, <1>4, <1>5, <1>6, <1>8, <1>9 DEF n, block, header, pc, WriteFacts

(* What a resize does. *)
ResizeFacts(t, f, i) ==
    /\ Types'
    /\ UNCHANGED <<file, mutex, flock, exposed>>
    /\ thread[t].pc = "run" /\ thread[t].op[1] \in {"ftruncate", "truncate", "opentrunc"}
    /\ Moves(t, "unlock") /\ OtherInodes(i)
    /\ inode'[i].header = IF inode[i].header = None THEN ZeroKey ELSE inode[i].header
    /\ Len(inode'[i].blocks) \in 0..1
    /\ \A b \in 1..Len(inode'[i].blocks) :
          inode'[i].blocks[b] = IF b <= Len(inode[i].blocks) THEN inode[i].blocks[b] ELSE Hole

(* The step of ResizeStep, taken apart. *)
LEMMA ResizeEffect ==
    ASSUME Types, FilesInUse, NEW t \in Threads, NEW f \in Files, f = thread[t].f,
           NEW i \in Inodes, i = file[f].ino, ResizeStep(t)
    PROVE  ResizeFacts(t, f, i)
<1> DEFINE me     == thread[t]
           blocks == inode[i].blocks
           len    == IF me.op[1] = "opentrunc" THEN 0 ELSE me.op[2]
           header == IF inode[i].header = None THEN ZeroKey ELSE inode[i].header
           new    == [b \in 1..len |-> IF b <= Len(blocks) THEN blocks[b] ELSE Hole]
<1>1. /\ me.pc = "run" /\ me.op[1] \in {"ftruncate", "truncate", "opentrunc"}
      /\ inode' = [inode EXCEPT ![i] = [header |-> header, blocks |-> new]]
      /\ Goto(t, "unlock")
      /\ UNCHANGED <<dir, file, mutex, flock, exposed>>
  BY DEF ResizeStep, InodeOf
<1>2. /\ me.op \in Ops
      /\ blocks \in Seq(Block) /\ Len(blocks) \in Nat /\ inode[i].header \in Key
  BY DEF Types, ThreadState, Inode
<1>3. len \in 0..1 /\ header \in Key /\ Hole \in Block
  <2>1. len \in 0..1
    <3>1. CASE me.op[1] = "opentrunc"
      BY <3>1
    <3>2. CASE me.op[1] # "opentrunc"
      <4>1. me.op[2] \in 0..1
        BY <1>1, <1>2, <3>2, Operations
      <4>2. QED BY <3>2, <4>1
    <3>3. QED BY <3>1, <3>2
  <2>2. header \in Key
    BY <1>2 DEF Key
  <2>3. Hole \in Block
    BY DEF Hole, Block, Val, Key
  <2>4. QED BY <2>1, <2>2, <2>3
<1> HIDE DEF len, header
<1>4. /\ new \in Seq(Block) /\ Len(new) = len
      /\ \A b \in 1..len : new[b] = IF b <= Len(blocks) THEN blocks[b] ELSE Hole
  BY <1>2, <1>3
<1> HIDE DEF new
<1>5. /\ inode' \in [Inodes -> Inode] /\ OtherInodes(i)
      /\ inode'[i].header = header /\ inode'[i].blocks = new
  BY <1>1, <1>3, <1>4 DEF Types, Inode, OtherInodes
<1>6. thread' \in [Threads -> ThreadState] /\ Moves(t, "unlock")
  BY <1>1, Moved DEF PCs, Mutexed
<1>7. Types'
  BY <1>1, <1>5, <1>6 DEF Types
<1>8. QED BY <1>1, <1>3, <1>4, <1>5, <1>6, <1>7 DEF header, ResizeFacts

-----------------------------------------------------------------------------
(* None is no inode and no thread. *)
LEMMA Absent ==
    /\ NoFile.ino = None /\ NoFile.ready = FALSE /\ NoFile.key = None
    /\ None \notin Inodes /\ None \notin Threads
BY LiteFileAssumption DEF NoFile

(* A step of t leaves the other calls where they are: their Files stay on
   their inodes, and the blocks under a call that runs do not change.        *)
LEMMA OthersData ==
    ASSUME IInv, NEW t \in Threads, Others(t),
           \A u \in Threads : u # t /\ Busy(u) =>
               /\ file'[thread[u].f].ino = file[thread[u].f].ino
               /\ file[thread[u].f].ino \in exposed => file[thread[u].f].ino \in exposed'
               /\ (thread[u].pc = "run" /\ file[thread[u].f].ino \notin exposed') =>
                     inode'[file[thread[u].f].ino].blocks = inode[file[thread[u].f].ino].blocks
    PROVE  \A u \in Threads : u # t => ProgressOf(u)' /\ ReadAtomicOf(u)'
<1> SUFFICES ASSUME NEW u \in Threads, u # t
             PROVE  ProgressOf(u)' /\ ReadAtomicOf(u)'
  OBVIOUS
<1>1. thread'[u] = thread[u]
  BY DEF Others
<1>2. ProgressOf(u) /\ ReadAtomicOf(u)
  BY DEF IInv, Progress, ReadsAtomic, ReadAtomicOf
<1>3. CASE ~Busy(u)
  BY <1>1, <1>3 DEF Busy, ProgressOf, ReadAtomicOf, HalfWritten, Runs, Constructing
<1>4. CASE Busy(u)
  <2> DEFINE i == file[thread[u].f].ino
  <2>1. /\ file'[thread[u].f].ino = i
        /\ i \in exposed => i \in exposed'
        /\ (thread[u].pc = "run" /\ i \notin exposed') => inode'[i].blocks = inode[i].blocks
    BY <1>4
  <2>2. (HalfWritten(u)' <=> HalfWritten(u)) /\ (Runs(u, "read")' <=> Runs(u, "read"))
    BY <1>1 DEF HalfWritten, Runs
  <2>3. InodeOf(thread[u].f) = i /\ InodeOf(thread[u].f)' = i
    BY <1>1, <2>1 DEF InodeOf
  <2> HIDE DEF i
  <2>4. ReadAtomicOf(u)'
    BY <1>1, <1>2, <2>1, <2>3 DEF ReadAtomicOf
  <2>5. HalfWritten(u) \/ Runs(u, "read") => thread[u].pc = "run"
    BY DEF HalfWritten, Runs
  <2>6. ProgressOf(u)'
    BY <1>1, <1>2, <2>1, <2>2, <2>3, <2>5 DEF ProgressOf
  <2>7. QED BY <2>4, <2>6
<1>5. QED BY <1>3, <1>4

(* An inode that t does not touch keeps its blocks whole. *)
LEMMA BlocksFrame ==
    ASSUME IInv, NEW t \in Threads, Others(t),
           \A u \in Threads : u # t /\ Busy(u) =>
               file'[thread[u].f].ino = file[thread[u].f].ino,
           \A j \in Inodes : \/ WholeAt(j)'
                             \/ /\ inode'[j].blocks = inode[j].blocks
                                /\ j \in exposed => j \in exposed'
                                /\ HalfWritten(t) => InodeOf(thread[t].f) # j
    PROVE  BlocksWhole'
<1> SUFFICES ASSUME NEW j \in Inodes,
                    inode'[j].blocks = inode[j].blocks,
                    j \in exposed => j \in exposed',
                    HalfWritten(t) => InodeOf(thread[t].f) # j
             PROVE  WholeAt(j)'
  BY DEF BlocksWhole
<1>1. WholeAt(j)
  BY DEF IInv, BlocksWhole
<1>2. ASSUME NEW u \in Threads, HalfWritten(u), InodeOf(thread[u].f) = j
      PROVE  HalfWritten(u)' /\ InodeOf(thread[u].f)' = j
  <2>1. u # t /\ Busy(u) /\ thread'[u] = thread[u]
    BY <1>2 DEF HalfWritten, Runs, Busy, Others
  <2>2. QED BY <1>2, <2>1 DEF HalfWritten, Runs, InodeOf
<1>3. QED BY <1>1, <1>2 DEF WholeAt

(* Steps that write no block: t has read and written nothing yet, or is done. *)
LEMMA DataFrame ==
    ASSUME IInv, NEW t \in Threads, Others(t),
           \A u \in Threads : u # t /\ Busy(u) =>
               file'[thread[u].f].ino = file[thread[u].f].ino,
           \A j \in Inodes : \/ /\ inode'[j].blocks = inode[j].blocks
                                /\ j \in exposed <=> j \in exposed'
                             \/ /\ inode'[j].blocks = <<>>
                                /\ j \in exposed' \/ OnInode(j) = {},
           ~HalfWritten(t), ~HalfWritten(t)',
           thread'[t].pc \notin {"idle", "unlock"} =>
               thread'[t].at = 1 /\ thread'[t].buf = <<>> /\ thread'[t].ok,
           thread'[t].pc = "unlock" => thread'[t].op[1] # "read"
    PROVE  BlocksWhole' /\ Progress' /\ ReadsAtomic'
<1>1. BlocksWhole'
  <2>1. ASSUME NEW j \in Inodes, inode'[j].blocks = <<>> PROVE WholeAt(j)'
    BY <2>1 DEF WholeAt
  <2>2. QED BY <2>1, BlocksFrame
<1>2. ASSUME NEW u \in Threads, u # t, Busy(u)
      PROVE  LET j == file[thread[u].f].ino IN
             /\ j \in exposed => j \in exposed'
             /\ (thread[u].pc = "run" /\ j \notin exposed') => inode'[j].blocks = inode[j].blocks
  <2>1. thread[u].f \in Files /\ file[thread[u].f].ino \in Inodes
    BY <1>2 DEF IInv, FilesInUse
  <2>2. OnInode(file[thread[u].f].ino) # {}
    BY <2>1 DEF OnInode
  <2>3. QED BY <2>1, <2>2
<1>3. \A u \in Threads : u # t => ProgressOf(u)' /\ ReadAtomicOf(u)'
  BY <1>2, OthersData
<1>4. ProgressOf(t)' /\ ReadAtomicOf(t)'
  BY DEF ProgressOf, ReadAtomicOf, Constructing, HalfWritten, Runs
<1>5. QED BY <1>1, <1>3, <1>4 DEF Progress, ReadsAtomic, ReadAtomicOf

(* Two calls at work on one inode share the advisory lock for reading. *)
LEMMA Alone ==
    ASSUME IInv, NEW t \in Threads, NEW u \in Threads,
           thread[t].pc \in Holding, thread[u].pc \in Holding,
           file[thread[t].f].ino = file[thread[u].f].ino, Mode(t) = "exclusive"
    PROVE  u = t
<1>1. Busy(t) /\ Busy(u)
  BY DEF Busy, Holding
<1>2. /\ thread[t].f \in Files /\ thread[u].f \in Files
      /\ file[thread[t].f].ino # None
  BY <1>1, Absent DEF IInv, FilesInUse
<1>3. flock[thread[t].f] = "exclusive" /\ flock[thread[u].f] = Mode(u)
  BY DEF IInv, FlockOwned
<1>4. flock[thread[u].f] # "none"
  BY <1>3 DEF Mode
<1>5. thread[u].f = thread[t].f
  BY <1>2, <1>3, <1>4 DEF IInv, FlockExcludes
<1>6. CASE thread[t].pc \in Constructing \/ thread[u].pc \in Constructing
  BY <1>1, <1>5, <1>6 DEF IInv, FilesInUse
<1>7. CASE thread[t].pc \notin Constructing /\ thread[u].pc \notin Constructing
  <2>1. thread[t].pc \in Mutexed /\ thread[u].pc \in Mutexed
    BY <1>7 DEF Holding, Constructing, Mutexed
  <2>2. QED BY <1>5, <2>1 DEF IInv, MutexOwned
<1>8. QED BY <1>6, <1>7

(* A call goes on under its locks. *)
LEMMA LockFrame ==
    ASSUME IInv, NEW t \in Threads, Others(t),
           thread[t].pc = "run", thread'[t].pc \in {"run", "unlock"},
           thread'[t].f = thread[t].f, thread'[t].op = thread[t].op,
           UNCHANGED <<file, mutex, flock>>
    PROVE  FilesInUse' /\ MutexOwned' /\ FlockOwned' /\ FlockExcludes'
<1>1. \A u \in Threads : /\ thread'[u].f = thread[u].f /\ thread'[u].op = thread[u].op
                         /\ thread'[u].pc = thread[u].pc \/ u = t
  BY DEF Others
<1>2. \A u \in Threads : /\ Busy(u)' <=> Busy(u)
                         /\ thread'[u].pc \in Constructing <=> thread[u].pc \in Constructing
                         /\ thread'[u].pc \in Mutexed <=> thread[u].pc \in Mutexed
                         /\ thread'[u].pc \in Holding <=> thread[u].pc \in Holding
                         /\ Mode(u)' = Mode(u)
  BY <1>1 DEF Busy, Constructing, Mutexed, Holding, Mode
<1>3. FilesInUse'
  BY <1>1, <1>2 DEF IInv, FilesInUse
<1>4. MutexOwned'
  BY <1>1, <1>2, Absent DEF IInv, MutexOwned, Types
<1>5. FlockOwned'
  BY <1>1, <1>2 DEF IInv, FlockOwned
<1>6. FlockExcludes'
  BY DEF IInv, FlockExcludes
<1>7. QED BY <1>3, <1>4, <1>5, <1>6

(* The constructor goes on under the flock of its descriptor. *)
LEMMA ConstructFrame ==
    ASSUME IInv, NEW t \in Threads, Others(t),
           thread[t].pc \in {"readheader", "writeheader"},
           thread'[t].pc \in {"writeheader", "constructed"},
           thread'[t].f = thread[t].f, thread'[t].op = thread[t].op,
           \A g \in Files : file'[g].ino = file[g].ino /\ file'[g].ready = file[g].ready,
           UNCHANGED <<mutex, flock>>
    PROVE  FilesInUse' /\ MutexOwned' /\ FlockOwned' /\ FlockExcludes'
<1>1. \A u \in Threads : /\ thread'[u].f = thread[u].f /\ thread'[u].op = thread[u].op
                         /\ thread'[u].pc = thread[u].pc \/ u = t
  BY DEF Others
<1>2. \A u \in Threads : /\ Busy(u)' <=> Busy(u)
                         /\ thread'[u].pc \in Constructing <=> thread[u].pc \in Constructing
                         /\ thread'[u].pc \in Mutexed <=> thread[u].pc \in Mutexed
                         /\ thread'[u].pc \in Holding <=> thread[u].pc \in Holding
                         /\ Mode(u)' = Mode(u)
  BY <1>1 DEF Busy, Constructing, Mutexed, Holding, Mode
<1>3. FilesInUse'
  BY <1>1, <1>2 DEF IInv, FilesInUse
<1>4. MutexOwned'
  BY <1>1, <1>2, Absent DEF IInv, MutexOwned, Types
<1>5. FlockOwned'
  BY <1>1, <1>2 DEF IInv, FlockOwned
<1>6. FlockExcludes'
  BY DEF IInv, FlockExcludes
<1>7. QED BY <1>3, <1>4, <1>5, <1>6

(* The same for the keys: a File that has its key had it before. *)
LEMMA KeysFrame ==
    ASSUME IInv, inode' = inode, exposed' = exposed,
           \A g \in Files : Keyed(g)' /\ file'[g].ino \in Inodes =>
               Keyed(g) /\ file'[g].ino = file[g].ino /\ file'[g].key = file[g].key,
           \A u \in Threads : thread'[u].pc = "writeheader" =>
               /\ thread[u].pc = "writeheader" /\ thread'[u].f = thread[u].f
               /\ file'[thread[u].f].ino = file[thread[u].f].ino
    PROVE  KeysAgree'
<1> SUFFICES ASSUME NEW i \in Inodes \ exposed
             PROVE  /\ \A f \in OnInode(i)' : Keyed(f)' =>
                          file'[f].key = inode[i].header /\ file'[f].key # None
                    /\ \A b \in 1..Len(inode[i].blocks) : Decrypts(inode[i].blocks[b], inode[i].header)
                    /\ inode[i].header = None => inode[i].blocks = <<>>
                    /\ \A t \in Threads : (thread'[t].pc = "writeheader" /\ InodeOf(thread[t].f)' = i)
                                              => inode[i].header = None
  BY DEF KeysAgree, Decrypts
<1>1. ASSUME NEW f \in OnInode(i)', Keyed(f)'
      PROVE  file'[f].key = inode[i].header /\ file'[f].key # None
  <2>1. f \in Files /\ file'[f].ino = i
    BY DEF OnInode
  <2>2. Keyed(f) /\ file[f].ino = i /\ file'[f].key = file[f].key
    BY <1>1, <2>1
  <2>3. f \in OnInode(i)
    BY <2>1, <2>2 DEF OnInode
  <2>4. QED BY <2>2, <2>3 DEF IInv, KeysAgree
<1>2. ASSUME NEW t \in Threads, thread'[t].pc = "writeheader", InodeOf(thread[t].f)' = i
      PROVE  inode[i].header = None
  <2>1. thread[t].pc = "writeheader" /\ InodeOf(thread[t].f) = i
    BY <1>2 DEF InodeOf
  <2>2. QED BY <2>1 DEF IInv, KeysAgree
<1>3. QED BY <1>1, <1>2 DEF IInv, KeysAgree

(* A writer or a resize keeps the keys together: every block it leaves is an
   old one, a hole, or encrypted with the key of its File.                   *)
LEMMA WriterKeys ==
    ASSUME IInv, NEW t \in Threads, NEW f \in Files, f = thread[t].f,
           NEW i \in Inodes, i = file[f].ino,
           thread[t].pc = "run", thread'[t].pc \in {"run", "unlock"}, thread'[t].f = f,
           UNCHANGED <<file, exposed>>, Others(t), OtherInodes(i),
           inode'[i].header = IF inode[i].header = None THEN ZeroKey ELSE inode[i].header,
           \A b \in 1..Len(inode'[i].blocks) :
               \/ b \in 1..Len(inode[i].blocks) /\ inode'[i].blocks[b] = inode[i].blocks[b]
               \/ inode'[i].blocks[b] = Hole
               \/ inode'[i].blocks[b].key = file[f].key
    PROVE  KeysAgree'
<1> SUFFICES ASSUME NEW j \in Inodes, j \notin exposed
             PROVE  /\ \A g \in OnInode(j)' : Keyed(g)' =>
                          file[g].key = inode'[j].header /\ file[g].key # None
                    /\ \A b \in 1..Len(inode'[j].blocks) : Decrypts(inode'[j].blocks[b], inode'[j].header)
                    /\ inode'[j].header = None => inode'[j].blocks = <<>>
                    /\ \A u \in Threads : (thread'[u].pc = "writeheader" /\ InodeOf(thread[u].f)' = j)
                                              => inode'[j].header = None
  BY DEF KeysAgree, Decrypts
<1>1. /\ \A g \in OnInode(j) : Keyed(g) => file[g].key = inode[j].header /\ file[g].key # None
      /\ \A b \in 1..Len(inode[j].blocks) : Decrypts(inode[j].blocks[b], inode[j].header)
      /\ inode[j].header = None => inode[j].blocks = <<>>
      /\ \A u \in Threads : (thread[u].pc = "writeheader" /\ InodeOf(thread[u].f) = j)
                                => inode[j].header = None
  BY DEF IInv, KeysAgree
<1>2. \A g \in Files : Keyed(g)' => Keyed(g)
  BY DEF Keyed, Others, Mutexed
<1>3. \A u \in Threads : thread'[u].pc = "writeheader" =>
         thread[u].pc = "writeheader" /\ InodeOf(thread[u].f)' = InodeOf(thread[u].f)
  BY DEF Others, InodeOf
<1>4. inode'[j].header = inode[j].header
  <2>1. CASE j = i
    <3>1. Keyed(f) /\ f \in OnInode(j)
      BY <2>1 DEF Keyed, Mutexed, OnInode
    <3>2. QED BY <1>1, <2>1, <3>1
  <2>2. CASE j # i
    BY <2>2 DEF OtherInodes
  <2>3. QED BY <2>1, <2>2
<1>5. \A g \in OnInode(j)' : Keyed(g)' => file[g].key = inode'[j].header /\ file[g].key # None
  BY <1>1, <1>2, <1>4 DEF OnInode
<1>6. \A u \in Threads : (thread'[u].pc = "writeheader" /\ InodeOf(thread[u].f)' = j)
                             => inode'[j].header = None
  BY <1>1, <1>3, <1>4
<1>7. CASE j = i
  <2>1. Keyed(f) /\ f \in OnInode(i)
    BY DEF Keyed, Mutexed, OnInode
  <2>2. file[f].key = inode[i].header /\ inode[i].header # None
    BY <1>1, <1>7, <2>1
  <2>3. \A b \in 1..Len(inode'[i].blocks) : Decrypts(inode'[i].blocks[b], inode'[i].header)
    <3> SUFFICES ASSUME NEW b \in 1..Len(inode'[i].blocks)
                 PROVE  Decrypts(inode'[i].blocks[b], inode'[i].header)
      OBVIOUS
    <3>1. inode'[i].header = inode[i].header
      BY <1>4, <1>7
    <3>2. b \in 1..Len(inode[i].blocks) => Decrypts(inode[i].blocks[b], inode[i].header)
      BY <1>1, <1>7
    <3>3. QED BY <1>1, <2>2, <3>1, <3>2 DEF Decrypts
  <2>4. QED BY <1>4, <1>5, <1>6, <1>7, <2>2, <2>3
<1>8. CASE j # i
  <2>1. inode'[j] = inode[j]
    BY <1>8 DEF OtherInodes
  <2>2. QED BY <1>1, <1>5, <1>6, <2>1
<1>9. QED BY <1>7, <1>8

(* A writer is alone on its inode, so nobody else sees what it has written. *)
LEMMA WriterData ==
    ASSUME IInv, NEW t \in Threads, NEW f \in Files, f = thread[t].f,
           NEW i \in Inodes, i = file[f].ino,
           thread[t].pc = "run", thread[t].op[1] # "read",
           UNCHANGED <<file, exposed>>, Others(t), OtherInodes(i),
           WholeAt(i)', ProgressOf(t)', ReadAtomicOf(t)'
    PROVE  BlocksWhole' /\ Progress' /\ ReadsAtomic'
<1>1. \A u \in Threads : u # t /\ Busy(u) => file'[thread[u].f].ino = file[thread[u].f].ino
  OBVIOUS
<1>2. BlocksWhole'
  <2>1. \A j \in Inodes : \/ WholeAt(j)'
                          \/ /\ inode'[j].blocks = inode[j].blocks
                             /\ j \in exposed => j \in exposed'
                             /\ HalfWritten(t) => InodeOf(thread[t].f) # j
    BY DEF OtherInodes, InodeOf
  <2>2. QED BY <1>1, <2>1, BlocksFrame
<1>3. ASSUME NEW u \in Threads, u # t, Busy(u)
      PROVE  /\ file'[thread[u].f].ino = file[thread[u].f].ino
             /\ file[thread[u].f].ino \in exposed => file[thread[u].f].ino \in exposed'
             /\ (thread[u].pc = "run" /\ file[thread[u].f].ino \notin exposed') =>
                   inode'[file[thread[u].f].ino].blocks = inode[file[thread[u].f].ino].blocks
  <2>1. file[thread[u].f].ino \in Inodes
    BY <1>3 DEF IInv, FilesInUse
  <2>2. thread[u].pc = "run" => file[thread[u].f].ino # i
    BY <1>3, Alone DEF Holding, Mode
  <2>3. QED BY <2>1, <2>2 DEF OtherInodes
<1>4. \A u \in Threads : u # t => ProgressOf(u)' /\ ReadAtomicOf(u)'
  BY <1>3, OthersData
<1>5. QED BY <1>2, <1>4 DEF Progress, ReadsAtomic, ReadAtomicOf

-----------------------------------------------------------------------------
(* Opening keeps the invariant: the new File is nobody else's yet. *)
LEMMA OpensIInv ==
    ASSUME LockEnabled, IInv, NEW t \in Threads, NEW f \in Files, NEW i \in Inodes, NEW op \in Ops,
           NEW trunc \in BOOLEAN, Opens(t, f, i, op, trunc), dir' \in Inodes \cup {None}
    PROVE  IInv'
<1>3. Types /\ FilesInUse /\ MutexOwned /\ FlockOwned /\ FlockExcludes /\ KeysAgree /\ Progress
  BY DEF IInv
<1>4. OpensFacts(t, f, i, op)
  BY <1>3, OpensEffect
<1> USE DEF OpensFacts
<1>5. Types'
  BY <1>3, <1>4 DEF Types
<1>6. FilesInUse'
  BY <1>3, <1>4, Absent DEF Others, OtherFiles, Moves,
     FilesInUse, Busy, Constructing
<1>7. MutexOwned'
  BY <1>3, <1>4, Absent DEF Types, Others, OtherFiles, Moves,
     MutexOwned, Mutexed, FilesInUse, Busy, Constructing
<1>8. FlockOwned'
  BY <1>3, <1>4, Absent DEF Types, Others, OtherFiles, Moves,
     FlockOwned, Holding, Mode, MutexOwned, Mutexed, FilesInUse, Busy, Constructing
<1>9. FlockExcludes'
  BY <1>3, <1>4, Absent DEF Others, OtherFiles, Moves,
     FlockExcludes, FlockOwned, FilesInUse, Busy, Holding, Constructing
<1>10. KeysAgree'
  <2> SUFFICES ASSUME NEW j \in Inodes, j \notin exposed'
               PROVE  /\ \A g \in OnInode(j)' : Keyed(g)' =>
                            file'[g].key = inode'[j].header /\ file'[g].key # None
                      /\ \A b \in 1..Len(inode'[j].blocks) :
                            Decrypts(inode'[j].blocks[b], inode'[j].header)
                      /\ inode'[j].header = None => inode'[j].blocks = <<>>
                      /\ \A u \in Threads : (thread'[u].pc = "writeheader" /\ InodeOf(thread[u].f)' = j)
                                                => inode'[j].header = None
    BY DEF KeysAgree, Decrypts
  <2>1. \A g \in Files : Keyed(g)' => Keyed(g) /\ file'[g] = file[g]
    BY <1>4 DEF Keyed, Others, OtherFiles, Mutexed
  <2>2. \A u \in Threads : thread'[u].pc = "writeheader" =>
           thread[u].pc = "writeheader" /\ InodeOf(thread[u].f)' = InodeOf(thread[u].f)
    BY <1>3, <1>4 DEF Others, OtherFiles, InodeOf, FilesInUse, Busy
  <2>3. CASE inode'[j] = inode[j] /\ j \notin exposed
    <3>1. \A g \in OnInode(j)' : Keyed(g)' => g \in OnInode(j) /\ Keyed(g) /\ file'[g] = file[g]
      BY <2>1 DEF OnInode
    <3>2. QED BY <2>2, <2>3, <3>1 DEF IInv, KeysAgree
  <2>4. CASE inode'[j] = EmptyInode /\ OnInode(j) = {}
    <3>1. \A g \in OnInode(j)' : ~Keyed(g)'
      BY <2>1, <2>4 DEF OnInode
    <3>2. inode'[j].blocks = <<>> /\ inode'[j].header = None /\ Len(inode'[j].blocks) = 0
      BY <2>4 DEF EmptyInode
    <3>3. QED BY <3>1, <3>2
  <2>5. QED BY <1>4, <2>3, <2>4 DEF OtherInodes
<1>11. BlocksWhole' /\ Progress' /\ ReadsAtomic'
  <2>1. \A u \in Threads : u # t /\ Busy(u) => file'[thread[u].f].ino = file[thread[u].f].ino
    BY <1>3, <1>4 DEF OtherFiles, FilesInUse, Busy
  <2>2. \A j \in Inodes : \/ /\ inode'[j].blocks = inode[j].blocks
                             /\ j \in exposed <=> j \in exposed'
                          \/ /\ inode'[j].blocks = <<>>
                             /\ j \in exposed' \/ OnInode(j) = {}
    BY <1>4 DEF OtherInodes, EmptyInode
  <2>3. ~HalfWritten(t) /\ ~HalfWritten(t)'
    BY <1>4 DEF HalfWritten, Runs
  <2>4. QED BY <1>4, <2>1, <2>2, <2>3, DataFrame
<1>12. QED
  BY <1>5, <1>6, <1>7, <1>8, <1>9, <1>10, <1>11 DEF IInv

(* A call on an open File. *)
LEMMA CallIInv ==
    ASSUME LockEnabled, IInv, NEW t \in Threads, NEW f \in Files, NEW op \in Ops, op[1] # "truncate",
           Call(t, f, op)
    PROVE  IInv'
<1>3. Types /\ FilesInUse /\ MutexOwned /\ FlockOwned /\ FlockExcludes /\ KeysAgree /\ Progress
  BY DEF IInv
<1>4. /\ Types'
      /\ UNCHANGED <<inode, file, mutex, flock, exposed>>
      /\ Others(t) /\ thread[t].pc = "idle" /\ file[f].ready
      /\ thread'[t].pc = "lock" /\ thread'[t].f = f /\ thread'[t].op = op
      /\ thread'[t].at = 1 /\ thread'[t].buf = <<>> /\ thread'[t].ok = TRUE
  BY <1>3, CallEffect
<1>5. Types'
  BY <1>4
<1>6. FilesInUse'
  BY <1>3, <1>4, Absent DEF Others, OtherFiles, Moves,
     FilesInUse, Busy, Constructing
<1>7. MutexOwned'
  BY <1>3, <1>4, Absent DEF Types, Others, OtherFiles, Moves,
     MutexOwned, Mutexed, FilesInUse, Busy, Constructing
<1>8. FlockOwned'
  BY <1>3, <1>4, Absent DEF Types, Others, OtherFiles, Moves,
     FlockOwned, Holding, Mode, MutexOwned, Mutexed, FilesInUse, Busy, Constructing
<1>9. FlockExcludes'
  BY <1>3, <1>4, Absent DEF Others, OtherFiles, Moves,
     FlockExcludes, FlockOwned, FilesInUse, Busy, Holding, Constructing
<1>10. KeysAgree'
  <2>1. \A g \in Files : Keyed(g)' /\ file'[g].ino \in Inodes =>
               Keyed(g) /\ file'[g].ino = file[g].ino /\ file'[g].key = file[g].key
    BY <1>3, <1>4, Absent DEF Keyed, Others, OtherFiles, Moves, Mutexed, Types
  <2>2. \A u \in Threads : thread'[u].pc = "writeheader" =>
               /\ thread[u].pc = "writeheader" /\ thread'[u].f = thread[u].f
               /\ file'[thread[u].f].ino = file[thread[u].f].ino
    BY <1>3, <1>4, Absent DEF Others, OtherFiles, Moves, FilesInUse, Busy, Constructing
  <2>3. QED BY <1>4, <2>1, <2>2, KeysFrame
<1>11. BlocksWhole' /\ Progress' /\ ReadsAtomic'
  <2>1. \A u \in Threads : u # t /\ Busy(u) => file'[thread[u].f].ino = file[thread[u].f].ino
    BY <1>3, <1>4, Absent DEF OtherFiles, FilesInUse, Busy, Constructing
  <2>2. ~HalfWritten(t) /\ ~HalfWritten(t)'
    BY <1>3, <1>4 DEF HalfWritten, Runs, Moves, Progress, ProgressOf
  <2>3. Others(t)
    BY <1>4 DEF Moves
  <2>4. /\ thread'[t].pc \notin {"idle", "unlock"} =>
               thread'[t].at = 1 /\ thread'[t].buf = <<>> /\ thread'[t].ok
        /\ thread'[t].pc = "unlock" => thread'[t].op[1] # "read"
    BY <1>3, <1>4 DEF Moves, Progress, ProgressOf, Constructing
  <2>5. \A j \in Inodes : inode'[j].blocks = inode[j].blocks /\ (j \in exposed <=> j \in exposed')
    BY <1>4
  <2>6. QED BY <2>1, <2>2, <2>3, <2>4, <2>5, DataFrame
<1>12. QED
  BY <1>5, <1>6, <1>7, <1>8, <1>9, <1>10, <1>11 DEF IInv

(* The last close of a handle. *)
LEMMA ReleaseIInv ==
    ASSUME LockEnabled, IInv, NEW t \in Threads, NEW f \in Files, release(t, f)
    PROVE  IInv'
<1>3. Types /\ FilesInUse /\ MutexOwned /\ FlockOwned /\ FlockExcludes /\ KeysAgree /\ Progress
  BY DEF IInv
<1>4. /\ Types'
      /\ UNCHANGED <<inode, mutex, flock, thread, exposed>>
      /\ \A u \in Threads : thread[u].pc # "idle" => thread[u].f # f
      /\ OtherFiles(f) /\ file'[f] = NoFile /\ thread[t].pc = "idle"
  BY <1>3, ReleaseEffect
<1>5. Types'
  BY <1>4
<1>6. FilesInUse'
  BY <1>3, <1>4, Absent DEF Others, OtherFiles, Moves,
     FilesInUse, Busy, Constructing
<1>7. MutexOwned'
  BY <1>3, <1>4, Absent DEF Types, Others, OtherFiles, Moves,
     MutexOwned, Mutexed, FilesInUse, Busy, Constructing
<1>8. FlockOwned'
  BY <1>3, <1>4, Absent DEF Types, Others, OtherFiles, Moves,
     FlockOwned, Holding, Mode, MutexOwned, Mutexed, FilesInUse, Busy, Constructing
<1>9. FlockExcludes'
  BY <1>3, <1>4, Absent DEF Others, OtherFiles, Moves,
     FlockExcludes, FlockOwned, FilesInUse, Busy, Holding, Constructing
<1>10. KeysAgree'
  <2>1. \A g \in Files : Keyed(g)' /\ file'[g].ino \in Inodes =>
               Keyed(g) /\ file'[g].ino = file[g].ino /\ file'[g].key = file[g].key
    BY <1>3, <1>4, Absent DEF Keyed, Others, OtherFiles, Moves, Mutexed, Types
  <2>2. \A u \in Threads : thread'[u].pc = "writeheader" =>
               /\ thread[u].pc = "writeheader" /\ thread'[u].f = thread[u].f
               /\ file'[thread[u].f].ino = file[thread[u].f].ino
    BY <1>3, <1>4, Absent DEF Others, OtherFiles, Moves, FilesInUse, Busy, Constructing
  <2>3. QED BY <1>4, <2>1, <2>2, KeysFrame
<1>11. BlocksWhole' /\ Progress' /\ ReadsAtomic'
  <2>1. \A u \in Threads : u # t /\ Busy(u) => file'[thread[u].f].ino = file[thread[u].f].ino
    BY <1>3, <1>4, Absent DEF OtherFiles, FilesInUse, Busy, Constructing
  <2>2. ~HalfWritten(t) /\ ~HalfWritten(t)'
    BY <1>3, <1>4 DEF HalfWritten, Runs, Moves, Progress, ProgressOf
  <2>3. Others(t)
    BY <1>4 DEF Moves, Others
  <2>4. /\ thread'[t].pc \notin {"idle", "unlock"} =>
               thread'[t].at = 1 /\ thread'[t].buf = <<>> /\ thread'[t].ok
        /\ thread'[t].pc = "unlock" => thread'[t].op[1] # "read"
    BY <1>3, <1>4 DEF Moves, Progress, ProgressOf, Constructing
  <2>5. \A j \in Inodes : inode'[j].blocks = inode[j].blocks /\ (j \in exposed <=> j \in exposed')
    BY <1>4
  <2>6. QED BY <2>1, <2>2, <2>3, <2>4, <2>5, DataFrame
<1>12. QED
  BY <1>5, <1>6, <1>7, <1>8, <1>9, <1>10, <1>11 DEF IInv

(* The constructor takes the advisory lock of its descriptor alone. *)
LEMMA ConstructIInv ==
    ASSUME LockEnabled, IInv, NEW t \in Threads, Construct(t)
    PROVE  IInv'
<1>1. PICK f \in Files : f = thread[t].f
  BY DEF IInv, FilesInUse, Busy, Construct
<1>3. Types /\ FilesInUse /\ MutexOwned /\ FlockOwned /\ FlockExcludes /\ KeysAgree /\ Progress
  BY DEF IInv
<1>4. /\ Types'
      /\ UNCHANGED <<inode, file, mutex, exposed>>
      /\ thread[t].pc = "construct" /\ Moves(t, "readheader")
      /\ OtherFiles(f) /\ flock'[f] = "exclusive"
      /\ \A g \in Files : g # f /\ file[g].ino = file[f].ino => flock[g] = "none"
  BY <1>1, <1>3, ConstructEffect
<1>5. Types'
  BY <1>4
<1>6. FilesInUse'
  BY <1>1, <1>3, <1>4, Absent DEF Others, OtherFiles, Moves,
     FilesInUse, Busy, Constructing
<1>7. MutexOwned'
  BY <1>1, <1>3, <1>4, Absent DEF Types, Others, OtherFiles, Moves,
     MutexOwned, Mutexed, FilesInUse, Busy, Constructing
<1>8. FlockOwned'
  BY <1>1, <1>3, <1>4, Absent DEF Types, Others, OtherFiles, Moves,
     FlockOwned, Holding, Mode, MutexOwned, Mutexed, FilesInUse, Busy, Constructing
<1>9. FlockExcludes'
  BY <1>1, <1>3, <1>4, Absent DEF Others, OtherFiles, Moves,
     FlockExcludes, FlockOwned, FilesInUse, Busy, Holding, Constructing
<1>10. KeysAgree'
  <2>1. \A g \in Files : Keyed(g)' /\ file'[g].ino \in Inodes =>
               Keyed(g) /\ file'[g].ino = file[g].ino /\ file'[g].key = file[g].key
    BY <1>1, <1>3, <1>4, Absent DEF Keyed, Others, OtherFiles, Moves, Mutexed, Types
  <2>2. \A u \in Threads : thread'[u].pc = "writeheader" =>
               /\ thread[u].pc = "writeheader" /\ thread'[u].f = thread[u].f
               /\ file'[thread[u].f].ino = file[thread[u].f].ino
    BY <1>1, <1>3, <1>4, Absent DEF Others, OtherFiles, Moves, FilesInUse, Busy, Constructing
  <2>3. QED BY <1>4, <2>1, <2>2, KeysFrame
<1>11. BlocksWhole' /\ Progress' /\ ReadsAtomic'
  <2>1. \A u \in Threads : u # t /\ Busy(u) => file'[thread[u].f].ino = file[thread[u].f].ino
    BY <1>1, <1>3, <1>4, Absent DEF OtherFiles, FilesInUse, Busy, Constructing
  <2>2. ~HalfWritten(t) /\ ~HalfWritten(t)'
    BY <1>3, <1>4 DEF HalfWritten, Runs, Moves, Progress, ProgressOf
  <2>3. Others(t)
    BY <1>4 DEF Moves
  <2>4. /\ thread'[t].pc \notin {"idle", "unlock"} =>
               thread'[t].at = 1 /\ thread'[t].buf = <<>> /\ thread'[t].ok
        /\ thread'[t].pc = "unlock" => thread'[t].op[1] # "read"
    BY <1>3, <1>4 DEF Moves, Progress, ProgressOf, Constructing
  <2>5. \A j \in Inodes : inode'[j].blocks = inode[j].blocks /\ (j \in exposed <=> j \in exposed')
    BY <1>4
  <2>6. QED BY <2>1, <2>2, <2>3, <2>4, <2>5, DataFrame
<1>12. QED
  BY <1>5, <1>6, <1>7, <1>8, <1>9, <1>10, <1>11 DEF IInv

(* A File that could not be locked is deleted. *)
LEMMA ConstructFailsIInv ==
    ASSUME LockEnabled, IInv, NEW t \in Threads, ConstructFails(t)
    PROVE  IInv'
<1>1. PICK f \in Files : f = thread[t].f
  BY DEF IInv, FilesInUse, Busy, ConstructFails
<1>3. Types /\ FilesInUse /\ MutexOwned /\ FlockOwned /\ FlockExcludes /\ KeysAgree /\ Progress
  BY DEF IInv
<1>4. /\ Types'
      /\ UNCHANGED <<inode, mutex, flock, exposed>>
      /\ thread[t].pc = "construct" /\ Others(t) /\ thread'[t].pc = "idle"
      /\ OtherFiles(f) /\ file'[f] = NoFile
  BY <1>1, <1>3, ConstructFailsEffect
<1>5. Types'
  BY <1>4
<1>6. FilesInUse'
  BY <1>1, <1>3, <1>4, Absent DEF Others, OtherFiles, Moves,
     FilesInUse, Busy, Constructing
<1>7. MutexOwned'
  BY <1>1, <1>3, <1>4, Absent DEF Types, Others, OtherFiles, Moves,
     MutexOwned, Mutexed, FilesInUse, Busy, Constructing
<1>8. FlockOwned'
  BY <1>1, <1>3, <1>4, Absent DEF Types, Others, OtherFiles, Moves,
     FlockOwned, Holding, Mode, MutexOwned, Mutexed, FilesInUse, Busy, Constructing
<1>9. FlockExcludes'
  BY <1>1, <1>3, <1>4, Absent DEF Others, OtherFiles, Moves,
     FlockExcludes, FlockOwned, FilesInUse, Busy, Holding, Constructing
<1>10. KeysAgree'
  <2>1. \A g \in Files : Keyed(g)' /\ file'[g].ino \in Inodes =>
               Keyed(g) /\ file'[g].ino = file[g].ino /\ file'[g].key = file[g].key
    BY <1>1, <1>3, <1>4, Absent DEF Keyed, Others, OtherFiles, Moves, Mutexed, Types
  <2>2. \A u \in Threads : thread'[u].pc = "writeheader" =>
               /\ thread[u].pc = "writeheader" /\ thread'[u].f = thread[u].f
               /\ file'[thread[u].f].ino = file[thread[u].f].ino
    BY <1>1, <1>3, <1>4, Absent DEF Others, OtherFiles, Moves, FilesInUse, Busy, Constructing
  <2>3. QED BY <1>4, <2>1, <2>2, KeysFrame
<1>11. BlocksWhole' /\ Progress' /\ ReadsAtomic'
  <2>1. \A u \in Threads : u # t /\ Busy(u) => file'[thread[u].f].ino = file[thread[u].f].ino
    BY <1>1, <1>3, <1>4, Absent DEF OtherFiles, FilesInUse, Busy, Constructing
  <2>2. ~HalfWritten(t) /\ ~HalfWritten(t)'
    BY <1>3, <1>4 DEF HalfWritten, Runs, Moves, Progress, ProgressOf
  <2>3. Others(t)
    BY <1>4 DEF Moves
  <2>4. /\ thread'[t].pc \notin {"idle", "unlock"} =>
               thread'[t].at = 1 /\ thread'[t].buf = <<>> /\ thread'[t].ok
        /\ thread'[t].pc = "unlock" => thread'[t].op[1] # "read"
    BY <1>3, <1>4 DEF Moves, Progress, ProgressOf, Constructing
  <2>5. \A j \in Inodes : inode'[j].blocks = inode[j].blocks /\ (j \in exposed <=> j \in exposed')
    BY <1>4
  <2>6. QED BY <2>1, <2>2, <2>3, <2>4, <2>5, DataFrame
<1>12. QED
  BY <1>5, <1>6, <1>7, <1>8, <1>9, <1>10, <1>11 DEF IInv

(* The key is read from the header under the lock. *)
LEMMA ReadHeaderIInv ==
    ASSUME LockEnabled, IInv, NEW t \in Threads, ReadHeader(t)
    PROVE  IInv'
<1>1. PICK f \in Files : f = thread[t].f
  BY DEF IInv, FilesInUse, Busy, ReadHeader
<1>3. Types /\ FilesInUse /\ MutexOwned /\ FlockOwned /\ FlockExcludes /\ KeysAgree /\ Progress
  BY DEF IInv
<1>4. /\ Types'
      /\ UNCHANGED <<inode, mutex, flock, exposed>>
      /\ thread[t].pc = "readheader"
      /\ OtherFiles(f)
      /\ file'[f].key = inode[file[f].ino].header
      /\ file'[f].ino = file[f].ino /\ file'[f].ready = file[f].ready
      /\ \/ inode[file[f].ino].header = None /\ Moves(t, "writeheader")
         \/ inode[file[f].ino].header # None /\ Moves(t, "constructed")
  BY <1>1, <1>3, ReadHeaderEffect
<1>5. Types'
  BY <1>4
<1>6. FilesInUse' /\ MutexOwned' /\ FlockOwned' /\ FlockExcludes'
  <2>1. \A g \in Files : file'[g].ino = file[g].ino /\ file'[g].ready = file[g].ready
    BY <1>4 DEF OtherFiles
  <2>2. Others(t) /\ thread'[t].f = thread[t].f /\ thread'[t].op = thread[t].op
        /\ thread'[t].pc \in {"writeheader", "constructed"}
    BY <1>4 DEF Moves
  <2>3. QED BY <1>4, <2>1, <2>2, ConstructFrame
<1>10. KeysAgree'
  <2>1. \A g \in Files : file'[g].ino = file[g].ino
    BY <1>4 DEF OtherFiles
  <2>2. \A g \in Files : g # f => file'[g].key = file[g].key /\ (Keyed(g)' => Keyed(g))
    BY <1>1, <1>4 DEF OtherFiles, Moves, Others, Keyed
  <2>3. Keyed(f)' => inode[file[f].ino].header # None
    <3>1. CASE thread'[t].pc = "constructed"
      BY <1>4, <3>1 DEF Moves
    <3>2. CASE thread'[t].pc # "constructed"
      <4>1. ~file'[f].ready
        BY <1>1, <1>3, <1>4 DEF FilesInUse, Busy, Constructing
      <4>2. \A u \in Threads : u # t /\ thread[u].pc # "idle" => thread[u].f # f
        BY <1>1, <1>3, <1>4, <4>1 DEF FilesInUse, Busy
      <4>3. Others(t) /\ thread'[t].pc = "writeheader"
        BY <1>4, <3>2 DEF Moves
      <4>4. QED BY <4>1, <4>2, <4>3 DEF Keyed, Others, Mutexed
    <3>3. QED BY <3>1, <3>2
  <2>4. \A u \in Threads : thread'[u].pc = "writeheader" =>
          \/ thread[u].pc = "writeheader" /\ thread'[u].f = thread[u].f
          \/ thread'[u].f = f /\ inode[file[f].ino].header = None
    BY <1>1, <1>4 DEF Moves, Others
  <2>5. \A u \in Threads : thread'[u].pc = "writeheader" => thread'[u].f \in Files
    BY <1>1, <1>3, <2>4 DEF FilesInUse, Busy
  <2> SUFFICES ASSUME NEW i \in Inodes \ exposed
               PROVE  /\ \A g \in OnInode(i)' : Keyed(g)' =>
                            file'[g].key = inode[i].header /\ file'[g].key # None
                      /\ \A b \in 1..Len(inode[i].blocks) : Decrypts(inode[i].blocks[b], inode[i].header)
                      /\ inode[i].header = None => inode[i].blocks = <<>>
                      /\ \A u \in Threads : (thread'[u].pc = "writeheader" /\ InodeOf(thread[u].f)' = i)
                                                => inode[i].header = None
    BY <1>4 DEF KeysAgree, Decrypts
  <2>6. /\ \A g \in OnInode(i) : Keyed(g) => file[g].key = inode[i].header /\ file[g].key # None
        /\ \A b \in 1..Len(inode[i].blocks) : Decrypts(inode[i].blocks[b], inode[i].header)
        /\ inode[i].header = None => inode[i].blocks = <<>>
        /\ \A u \in Threads : (thread[u].pc = "writeheader" /\ InodeOf(thread[u].f) = i)
                                  => inode[i].header = None
    BY <1>3 DEF KeysAgree
  <2>7. ASSUME NEW g \in OnInode(i)', Keyed(g)'
        PROVE  file'[g].key = inode[i].header /\ file'[g].key # None
    <3>1. CASE g = f
      BY <1>4, <2>3, <2>7, <3>1 DEF OnInode
    <3>2. CASE g # f
      BY <2>1, <2>2, <2>6, <2>7, <3>2 DEF OnInode
    <3>3. QED BY <3>1, <3>2
  <2>8. ASSUME NEW u \in Threads, thread'[u].pc = "writeheader", file'[thread'[u].f].ino = i
        PROVE  inode[i].header = None
    BY <2>1, <2>4, <2>5, <2>6, <2>8 DEF InodeOf
  <2>9. QED BY <2>6, <2>7, <2>8 DEF InodeOf
<1>11. BlocksWhole' /\ Progress' /\ ReadsAtomic'
  <2>1. \A u \in Threads : u # t /\ Busy(u) => file'[thread[u].f].ino = file[thread[u].f].ino
    BY <1>1, <1>3, <1>4, Absent DEF OtherFiles, FilesInUse, Busy, Constructing
  <2>2. ~HalfWritten(t) /\ ~HalfWritten(t)'
    BY <1>3, <1>4 DEF HalfWritten, Runs, Moves, Progress, ProgressOf
  <2>3. Others(t)
    BY <1>4 DEF Moves
  <2>4. /\ thread'[t].pc \notin {"idle", "unlock"} =>
               thread'[t].at = 1 /\ thread'[t].buf = <<>> /\ thread'[t].ok
        /\ thread'[t].pc = "unlock" => thread'[t].op[1] # "read"
    BY <1>3, <1>4 DEF Moves, Progress, ProgressOf, Constructing
  <2>5. \A j \in Inodes : inode'[j].blocks = inode[j].blocks /\ (j \in exposed <=> j \in exposed')
    BY <1>4
  <2>6. QED BY <2>1, <2>2, <2>3, <2>4, <2>5, DataFrame
<1>12. QED
  BY <1>5, <1>6, <1>10, <1>11 DEF IInv

(* A new header is written under the lock, so all other Files find it. *)
LEMMA WriteHeaderIInv ==
    ASSUME LockEnabled, IInv, NEW t \in Threads, WriteHeader(t)
    PROVE  IInv'
<1>1. PICK f \in Files : f = thread[t].f
  BY DEF IInv, FilesInUse, Busy, WriteHeader
<1>3. Types /\ FilesInUse /\ MutexOwned /\ FlockOwned /\ FlockExcludes /\ KeysAgree /\ Progress
  BY DEF IInv
<1>4. /\ Types'
      /\ UNCHANGED <<mutex, flock, exposed>>
      /\ thread[t].pc = "writeheader" /\ Moves(t, "constructed")
      /\ OtherFiles(f)
      /\ file'[f].ino = file[f].ino /\ file'[f].ready = file[f].ready
      /\ file'[f].key = inode'[file[f].ino].header /\ file'[f].key # None
      /\ inode'[file[f].ino].blocks = inode[file[f].ino].blocks
      /\ \A j \in Inodes : j # file[f].ino => inode'[j] = inode[j]
  BY <1>1, <1>3, WriteHeaderEffect
<1>5. Types'
  BY <1>4
<1>6. FilesInUse' /\ MutexOwned' /\ FlockOwned' /\ FlockExcludes'
  <2>1. \A g \in Files : file'[g].ino = file[g].ino /\ file'[g].ready = file[g].ready
    BY <1>4 DEF OtherFiles
  <2>2. Others(t) /\ thread'[t].f = thread[t].f /\ thread'[t].op = thread[t].op
        /\ thread'[t].pc \in {"writeheader", "constructed"}
    BY <1>4 DEF Moves
  <2>3. QED BY <1>4, <2>1, <2>2, ConstructFrame
<1>10. KeysAgree'
  <2> DEFINE i == file[f].ino
  <2>1. i \in Inodes
    BY <1>1, <1>3, <1>4 DEF FilesInUse, Busy
  <2> SUFFICES ASSUME NEW j \in Inodes, j \notin exposed
               PROVE  /\ \A g \in OnInode(j)' : Keyed(g)' =>
                            file'[g].key = inode'[j].header /\ file'[g].key # None
                      /\ \A b \in 1..Len(inode'[j].blocks) :
                            Decrypts(inode'[j].blocks[b], inode'[j].header)
                      /\ inode'[j].header = None => inode'[j].blocks = <<>>
                      /\ \A u \in Threads : (thread'[u].pc = "writeheader" /\ InodeOf(thread[u].f)' = j)
                                                => inode'[j].header = None
    BY <1>4 DEF KeysAgree, Decrypts
  <2>2. /\ \A g \in OnInode(j) : Keyed(g) => file[g].key = inode[j].header /\ file[g].key # None
        /\ \A b \in 1..Len(inode[j].blocks) : Decrypts(inode[j].blocks[b], inode[j].header)
        /\ inode[j].header = None => inode[j].blocks = <<>>
        /\ \A u \in Threads : (thread[u].pc = "writeheader" /\ InodeOf(thread[u].f) = j)
                                  => inode[j].header = None
    BY DEF IInv, KeysAgree
  <2>3. \A g \in Files : /\ g # f => file'[g] = file[g] /\ (Keyed(g)' => Keyed(g))
                         /\ file'[g].ino = file[g].ino
    BY <1>1, <1>4 DEF Keyed, Moves, Others, OtherFiles
  <2>4. \A u \in Threads : thread'[u].pc = "writeheader" =>
           /\ u # t /\ thread[u].pc = "writeheader"
           /\ InodeOf(thread[u].f)' = InodeOf(thread[u].f)
    BY <1>3, <1>4, <2>3 DEF Moves, Others, InodeOf, FilesInUse, Busy
  <2>5. CASE j = i
    <3>1. inode[i].header = None /\ inode[i].blocks = <<>>
      BY <1>1, <1>4, <2>2, <2>5 DEF InodeOf
    <3>2. \A g \in OnInode(i)' : Keyed(g)' => g = f
      BY <2>2, <2>3, <2>5, <3>1 DEF OnInode
    <3>3. \A u \in Threads : thread'[u].pc = "writeheader" => InodeOf(thread[u].f)' # i
      BY <1>1, <1>4, <2>4, Alone DEF InodeOf, Holding, Mode
    <3>4. Len(inode'[i].blocks) = 0 /\ inode'[i].blocks = <<>>
      BY <1>4, <3>1
    <3>5. QED BY <1>4, <2>5, <3>2, <3>3, <3>4
  <2>6. CASE j # i
    <3>1. inode'[j] = inode[j]
      BY <1>4, <2>6
    <3>2. \A g \in OnInode(j)' : Keyed(g)' => g \in OnInode(j) /\ Keyed(g) /\ file'[g] = file[g]
      BY <2>3, <2>6 DEF OnInode
    <3>3. QED BY <2>2, <2>4, <3>1, <3>2
  <2>7. QED BY <2>5, <2>6
<1>11. BlocksWhole' /\ Progress' /\ ReadsAtomic'
  <2>1. \A u \in Threads : u # t /\ Busy(u) => file'[thread[u].f].ino = file[thread[u].f].ino
    BY <1>1, <1>3, <1>4, Absent DEF OtherFiles, FilesInUse, Busy, Constructing
  <2>2. ~HalfWritten(t) /\ ~HalfWritten(t)'
    BY <1>3, <1>4 DEF HalfWritten, Runs, Moves, Progress, ProgressOf
  <2>3. Others(t)
    BY <1>4 DEF Moves
  <2>4. /\ thread'[t].pc \notin {"idle", "unlock"} =>
               thread'[t].at = 1 /\ thread'[t].buf = <<>> /\ thread'[t].ok
        /\ thread'[t].pc = "unlock" => thread'[t].op[1] # "read"
    BY <1>3, <1>4 DEF Moves, Progress, ProgressOf, Constructing
  <2>5. \A j \in Inodes : inode'[j].blocks = inode[j].blocks /\ (j \in exposed <=> j \in exposed')
    BY <1>4
  <2>6. QED BY <2>1, <2>2, <2>3, <2>4, <2>5, DataFrame
<1>12. QED
  BY <1>5, <1>6, <1>10, <1>11 DEF IInv

(* The constructor gives the lock back. *)
LEMMA ConstructedIInv ==
    ASSUME LockEnabled, IInv, NEW t \in Threads, Constructed(t)
    PROVE  IInv'
<1>1. PICK f \in Files : f = thread[t].f
  BY DEF IInv, FilesInUse, Busy, Constructed
<1>3. Types /\ FilesInUse /\ MutexOwned /\ FlockOwned /\ FlockExcludes /\ KeysAgree /\ Progress
  BY DEF IInv
<1>4. /\ Types'
      /\ UNCHANGED <<inode, mutex, exposed>>
      /\ thread[t].pc = "constructed" /\ flock'[f] = "none"
      /\ OtherFiles(f)
      /\ file'[f].ino = file[f].ino /\ file'[f].key = file[f].key
      /\ \/ Others(t) /\ thread'[t].pc = "idle" /\ file'[f].ready /\ thread[t].op[1] = "open"
         \/ Moves(t, "lock") /\ file'[f] = file[f]
  BY <1>1, <1>3, ConstructedEffect
<1>5. Types'
  BY <1>4
<1>6. FilesInUse'
  BY <1>1, <1>3, <1>4, Absent DEF Others, OtherFiles, Moves,
     FilesInUse, Busy, Constructing
<1>7. MutexOwned'
  BY <1>1, <1>3, <1>4, Absent, SMTT(30) DEF Types, Others, OtherFiles, Moves,
     MutexOwned, Mutexed, FilesInUse, Busy, Constructing
<1>8. FlockOwned'
  BY <1>1, <1>3, <1>4, Absent, SMTT(30) DEF Types, Others, OtherFiles, Moves,
     FlockOwned, Holding, Mode, MutexOwned, Mutexed, FilesInUse, Busy, Constructing
<1>9. FlockExcludes'
  BY <1>1, <1>3, <1>4, Absent DEF Others, OtherFiles, Moves,
     FlockExcludes, FlockOwned, FilesInUse, Busy, Holding, Constructing
<1>10. KeysAgree'
  <2>1. \A g \in Files : Keyed(g)' /\ file'[g].ino \in Inodes =>
               Keyed(g) /\ file'[g].ino = file[g].ino /\ file'[g].key = file[g].key
    BY <1>1, <1>3, <1>4, Absent DEF Keyed, Others, OtherFiles, Moves, Mutexed, Types
  <2>2. \A u \in Threads : thread'[u].pc = "writeheader" =>
               /\ thread[u].pc = "writeheader" /\ thread'[u].f = thread[u].f
               /\ file'[thread[u].f].ino = file[thread[u].f].ino
    BY <1>1, <1>3, <1>4, Absent DEF Others, OtherFiles, Moves, FilesInUse, Busy, Constructing
  <2>3. QED BY <1>4, <2>1, <2>2, KeysFrame
<1>11. BlocksWhole' /\ Progress' /\ ReadsAtomic'
  <2>1. \A u \in Threads : u # t /\ Busy(u) => file'[thread[u].f].ino = file[thread[u].f].ino
    BY <1>1, <1>3, <1>4, Absent DEF OtherFiles, FilesInUse, Busy, Constructing
  <2>2. ~HalfWritten(t) /\ ~HalfWritten(t)'
    BY <1>3, <1>4 DEF HalfWritten, Runs, Moves, Progress, ProgressOf
  <2>3. Others(t)
    BY <1>4 DEF Moves
  <2>4. /\ thread'[t].pc \notin {"idle", "unlock"} =>
               thread'[t].at = 1 /\ thread'[t].buf = <<>> /\ thread'[t].ok
        /\ thread'[t].pc = "unlock" => thread'[t].op[1] # "read"
    BY <1>3, <1>4 DEF Moves, Progress, ProgressOf, Constructing
  <2>5. \A j \in Inodes : inode'[j].blocks = inode[j].blocks /\ (j \in exposed <=> j \in exposed')
    BY <1>4
  <2>6. QED BY <2>1, <2>2, <2>3, <2>4, <2>5, DataFrame
<1>12. QED
  BY <1>5, <1>6, <1>7, <1>8, <1>9, <1>10, <1>11 DEF IInv

(* The mutex of File::lock. *)
LEMMA LockIInv ==
    ASSUME LockEnabled, IInv, NEW t \in Threads, Lock(t)
    PROVE  IInv'
<1>1. PICK f \in Files : f = thread[t].f
  BY DEF IInv, FilesInUse, Busy, Lock
<1>3. Types /\ FilesInUse /\ MutexOwned /\ FlockOwned /\ FlockExcludes /\ KeysAgree /\ Progress
  BY DEF IInv
<1>4. /\ Types'
      /\ UNCHANGED <<inode, file, flock, exposed>>
      /\ thread[t].pc = "lock" /\ Moves(t, "flock")
      /\ OtherFiles(f) /\ mutex[f] = None /\ mutex'[f] = t
  BY <1>1, <1>3, LockEffect
<1>5. Types'
  BY <1>4
<1>6. FilesInUse'
  BY <1>1, <1>3, <1>4, Absent DEF Others, OtherFiles, Moves,
     FilesInUse, Busy, Constructing
<1>7. MutexOwned'
  BY <1>1, <1>3, <1>4, Absent DEF Types, Others, OtherFiles, Moves,
     MutexOwned, Mutexed, FilesInUse, Busy, Constructing
<1>8. FlockOwned'
  BY <1>1, <1>3, <1>4, Absent DEF Types, Others, OtherFiles, Moves,
     FlockOwned, Holding, Mode, MutexOwned, Mutexed, FilesInUse, Busy, Constructing
<1>9. FlockExcludes'
  BY <1>1, <1>3, <1>4, Absent DEF Others, OtherFiles, Moves,
     FlockExcludes, FlockOwned, FilesInUse, Busy, Holding, Constructing
<1>10. KeysAgree'
  <2>1. \A g \in Files : Keyed(g)' /\ file'[g].ino \in Inodes =>
               Keyed(g) /\ file'[g].ino = file[g].ino /\ file'[g].key = file[g].key
    BY <1>1, <1>3, <1>4, Absent DEF Keyed, Others, OtherFiles, Moves, Mutexed, Types
  <2>2. \A u \in Threads : thread'[u].pc = "writeheader" =>
               /\ thread[u].pc = "writeheader" /\ thread'[u].f = thread[u].f
               /\ file'[thread[u].f].ino = file[thread[u].f].ino
    BY <1>1, <1>3, <1>4, Absent DEF Others, OtherFiles, Moves, FilesInUse, Busy, Constructing
  <2>3. QED BY <1>4, <2>1, <2>2, KeysFrame
<1>11. BlocksWhole' /\ Progress' /\ ReadsAtomic'
  <2>1. \A u \in Threads : u # t /\ Busy(u) => file'[thread[u].f].ino = file[thread[u].f].ino
    BY <1>1, <1>3, <1>4, Absent DEF OtherFiles, FilesInUse, Busy, Constructing
  <2>2. ~HalfWritten(t) /\ ~HalfWritten(t)'
    BY <1>3, <1>4 DEF HalfWritten, Runs, Moves, Progress, ProgressOf
  <2>3. Others(t)
    BY <1>4 DEF Moves
  <2>4. /\ thread'[t].pc \notin {"idle", "unlock"} =>
               thread'[t].at = 1 /\ thread'[t].buf = <<>> /\ thread'[t].ok
        /\ thread'[t].pc = "unlock" => thread'[t].op[1] # "read"
    BY <1>3, <1>4 DEF Moves, Progress, ProgressOf, Constructing
  <2>5. \A j \in Inodes : inode'[j].blocks = inode[j].blocks /\ (j \in exposed <=> j \in exposed')
    BY <1>4
  <2>6. QED BY <2>1, <2>2, <2>3, <2>4, <2>5, DataFrame
<1>12. QED
  BY <1>5, <1>6, <1>7, <1>8, <1>9, <1>10, <1>11 DEF IInv

(* The advisory lock of File::lock. *)
LEMMA FlockIInv ==
    ASSUME LockEnabled, IInv, NEW t \in Threads, Flock(t)
    PROVE  IInv'
<1>1. PICK f \in Files : f = thread[t].f
  BY DEF IInv, FilesInUse, Busy, Flock
<1>3. Types /\ FilesInUse /\ MutexOwned /\ FlockOwned /\ FlockExcludes /\ KeysAgree /\ Progress
  BY DEF IInv
<1>4. /\ Types'
      /\ UNCHANGED <<inode, file, mutex, exposed>>
      /\ thread[t].pc = "flock" /\ Moves(t, "run")
      /\ OtherFiles(f)
      /\ flock'[f] = IF thread[t].op[1] # "read" THEN "exclusive" ELSE "shared"
      /\ \A g \in Files : g # f /\ file[g].ino = file[f].ino =>
            /\ thread[t].op[1] # "read" => flock[g] = "none"
            /\ flock[g] # "exclusive"
  BY <1>1, <1>3, FlockEffect
<1>5. Types'
  BY <1>4
<1>6. FilesInUse'
  BY <1>1, <1>3, <1>4, Absent DEF Others, OtherFiles, Moves,
     FilesInUse, Busy, Constructing
<1>7. MutexOwned'
  BY <1>1, <1>3, <1>4, Absent DEF Types, Others, OtherFiles, Moves,
     MutexOwned, Mutexed, FilesInUse, Busy, Constructing
<1>8. FlockOwned'
  BY <1>1, <1>3, <1>4, Absent DEF Types, Others, OtherFiles, Moves,
     FlockOwned, Holding, Mode, MutexOwned, Mutexed, FilesInUse, Busy, Constructing
<1>9. FlockExcludes'
  BY <1>1, <1>3, <1>4, Absent DEF Others, OtherFiles, Moves,
     FlockExcludes, FlockOwned, FilesInUse, Busy, Holding, Constructing
<1>10. KeysAgree'
  <2>1. \A g \in Files : Keyed(g)' /\ file'[g].ino \in Inodes =>
               Keyed(g) /\ file'[g].ino = file[g].ino /\ file'[g].key = file[g].key
    BY <1>1, <1>3, <1>4, Absent DEF Keyed, Others, OtherFiles, Moves, Mutexed, Types
  <2>2. \A u \in Threads : thread'[u].pc = "writeheader" =>
               /\ thread[u].pc = "writeheader" /\ thread'[u].f = thread[u].f
               /\ file'[thread[u].f].ino = file[thread[u].f].ino
    BY <1>1, <1>3, <1>4, Absent DEF Others, OtherFiles, Moves, FilesInUse, Busy, Constructing
  <2>3. QED BY <1>4, <2>1, <2>2, KeysFrame
<1>11. BlocksWhole' /\ Progress' /\ ReadsAtomic'
  <2>1. \A u \in Threads : u # t /\ Busy(u) => file'[thread[u].f].ino = file[thread[u].f].ino
    BY <1>1, <1>3, <1>4, Absent DEF OtherFiles, FilesInUse, Busy, Constructing
  <2>2. ~HalfWritten(t) /\ ~HalfWritten(t)'
    BY <1>3, <1>4 DEF HalfWritten, Runs, Moves, Progress, ProgressOf
  <2>3. Others(t)
    BY <1>4 DEF Moves
  <2>4. /\ thread'[t].pc \notin {"idle", "unlock"} =>
               thread'[t].at = 1 /\ thread'[t].buf = <<>> /\ thread'[t].ok
        /\ thread'[t].pc = "unlock" => thread'[t].op[1] # "read"
    BY <1>3, <1>4 DEF Moves, Progress, ProgressOf, Constructing
  <2>5. \A j \in Inodes : inode'[j].blocks = inode[j].blocks /\ (j \in exposed <=> j \in exposed')
    BY <1>4
  <2>6. QED BY <2>1, <2>2, <2>3, <2>4, <2>5, DataFrame
<1>12. QED
  BY <1>5, <1>6, <1>7, <1>8, <1>9, <1>10, <1>11 DEF IInv

(* The mutex is given back when flock fails. *)
LEMMA FlockFailsIInv ==
    ASSUME LockEnabled, IInv, NEW t \in Threads, FlockFails(t)
    PROVE  IInv'
<1>1. PICK f \in Files : f = thread[t].f
  BY DEF IInv, FilesInUse, Busy, FlockFails
<1>3. Types /\ FilesInUse /\ MutexOwned /\ FlockOwned /\ FlockExcludes /\ KeysAgree /\ Progress
  BY DEF IInv
<1>4. /\ Types'
      /\ UNCHANGED <<inode, flock, exposed>>
      /\ thread[t].pc = "flock" /\ Others(t) /\ thread'[t].pc = "idle"
      /\ OtherFiles(f) /\ mutex'[f] = None
      /\ \/ file'[f] = NoFile /\ ~file[f].ready
         \/ file'[f].ready /\ file'[f].ino = file[f].ino /\ file'[f].key = file[f].key
  BY <1>1, <1>3, FlockFailsEffect
<1>5. Types'
  BY <1>4
<1>6. FilesInUse'
  BY <1>1, <1>3, <1>4, Absent DEF Others, OtherFiles, Moves,
     FilesInUse, Busy, Constructing
<1>7. MutexOwned'
  <2>1. mutex[f] = t /\ thread[t].pc \in Mutexed
    BY <1>1, <1>3, <1>4 DEF MutexOwned, Mutexed
  <2>2. \A u \in Threads : u # t /\ thread[u].pc \in Mutexed => thread[u].f \in Files \ {f}
    BY <1>3, <2>1 DEF MutexOwned, FilesInUse, Busy, Mutexed
  <2>3. \A u \in Threads : thread'[u].pc \in Mutexed => mutex'[thread'[u].f] = u
    BY <1>3, <1>4, <2>2 DEF Others, OtherFiles, MutexOwned, Mutexed
  <2>4. \A g \in Files : g # f /\ mutex[g] # None => mutex[g] \in Threads \ {t}
    BY <1>1, <1>3 DEF Types, MutexOwned
  <2>5. ASSUME NEW g \in Files, mutex'[g] # None
        PROVE  thread'[mutex'[g]].pc \in Mutexed /\ thread'[mutex'[g]].f = g
    <3>1. g # f /\ mutex'[g] = mutex[g] /\ mutex[g] \in Threads \ {t}
      BY <1>4, <2>4, <2>5 DEF OtherFiles
    <3>2. QED BY <1>3, <1>4, <2>5, <3>1 DEF Others, MutexOwned
  <2>6. QED BY <2>3, <2>5 DEF MutexOwned
<1>8. FlockOwned'
  <2>1. \A u \in Threads : thread'[u].pc \in Holding =>
            u # t /\ thread'[u] = thread[u] /\ thread[u].pc \in Holding
    BY <1>4 DEF Others, Holding
  <2>2. \A u \in Threads : thread'[u].pc \in Holding => flock'[thread'[u].f] = Mode(u)'
    BY <1>3, <1>4, <2>1 DEF FlockOwned, Mode
  <2>3. \A u \in Threads : thread[u].pc \in Holding => thread'[u] = thread[u]
    BY <1>4 DEF Others, Holding
  <2>4. \A g \in Files : flock'[g] # "none" =>
            \E u \in Threads : thread'[u].pc \in Holding /\ thread'[u].f = g
    BY <1>3, <1>4, <2>3 DEF FlockOwned
  <2>5. QED BY <2>2, <2>4 DEF FlockOwned
<1>9. FlockExcludes'
  BY <1>1, <1>3, <1>4, Absent DEF Others, OtherFiles, Moves,
     FlockExcludes, FlockOwned, FilesInUse, Busy, Holding, Constructing
<1>10. KeysAgree'
  <2>1. \A g \in Files : Keyed(g)' /\ file'[g].ino \in Inodes =>
               Keyed(g) /\ file'[g].ino = file[g].ino /\ file'[g].key = file[g].key
    BY <1>1, <1>3, <1>4, Absent DEF Keyed, Others, OtherFiles, Moves, Mutexed, Types
  <2>2. \A u \in Threads : thread'[u].pc = "writeheader" =>
               /\ thread[u].pc = "writeheader" /\ thread'[u].f = thread[u].f
               /\ file'[thread[u].f].ino = file[thread[u].f].ino
    BY <1>1, <1>3, <1>4, Absent DEF Others, OtherFiles, Moves, FilesInUse, Busy, Constructing
  <2>3. QED BY <1>4, <2>1, <2>2, KeysFrame
<1>11. BlocksWhole' /\ Progress' /\ ReadsAtomic'
  <2>1. \A u \in Threads : u # t /\ Busy(u) => file'[thread[u].f].ino = file[thread[u].f].ino
    BY <1>1, <1>3, <1>4, Absent DEF OtherFiles, FilesInUse, Busy, Constructing
  <2>2. ~HalfWritten(t) /\ ~HalfWritten(t)'
    BY <1>3, <1>4 DEF HalfWritten, Runs, Moves, Progress, ProgressOf
  <2>3. Others(t)
    BY <1>4 DEF Moves
  <2>4. /\ thread'[t].pc \notin {"idle", "unlock"} =>
               thread'[t].at = 1 /\ thread'[t].buf = <<>> /\ thread'[t].ok
        /\ thread'[t].pc = "unlock" => thread'[t].op[1] # "read"
    BY <1>3, <1>4 DEF Moves, Progress, ProgressOf, Constructing
  <2>5. \A j \in Inodes : inode'[j].blocks = inode[j].blocks /\ (j \in exposed <=> j \in exposed')
    BY <1>4
  <2>6. QED BY <2>1, <2>2, <2>3, <2>4, <2>5, DataFrame
<1>12. QED
  BY <1>5, <1>6, <1>7, <1>8, <1>9, <1>10, <1>11 DEF IInv

(* A block is read. *)
LEMMA ReadIInv ==
    ASSUME LockEnabled, IInv, NEW t \in Threads, ReadStep(t)
    PROVE  IInv'
<1>1. PICK f \in Files : f = thread[t].f
  BY DEF IInv, FilesInUse, Busy, ReadStep, ReadOne
<1>2. PICK i \in Inodes : i = file[f].ino
  BY <1>1 DEF IInv, FilesInUse, Busy, ReadStep, ReadOne
<1>3. Types /\ FilesInUse /\ MutexOwned /\ FlockOwned /\ FlockExcludes /\ KeysAgree /\ Progress
  BY DEF IInv
<1>4. ReadFacts(t, f, i)
  BY <1>1, <1>2, <1>3, ReadEffect
<1> USE DEF ReadFacts
<1>5. Types'
  BY <1>4
<1>6. FilesInUse' /\ MutexOwned' /\ FlockOwned' /\ FlockExcludes'
  BY <1>1, <1>4, LockFrame
<1>7. KeysAgree'
  <2>1. \A g \in Files : Keyed(g)' /\ file'[g].ino \in Inodes =>
               Keyed(g) /\ file'[g].ino = file[g].ino /\ file'[g].key = file[g].key
    <3>1. file' = file /\ Others(t) /\ thread[t].f = f /\ thread[t].pc \in Mutexed
      BY <1>1, <1>4 DEF Mutexed
    <3>2. thread'[t].f = f
      BY <1>4
    <3> HIDE DEF ReadFacts
    <3>3. QED BY <3>1, <3>2 DEF Keyed, Others
  <2>2. \A u \in Threads : thread'[u].pc = "writeheader" =>
               /\ thread[u].pc = "writeheader" /\ thread'[u].f = thread[u].f
               /\ file'[thread[u].f].ino = file[thread[u].f].ino
    BY <1>1, <1>2, <1>3, <1>4, Absent DEF Others, OtherFiles, Moves, FilesInUse, Busy, Constructing
  <2>3. QED BY <1>4, <2>1, <2>2, KeysFrame
<1>8. BlocksWhole' /\ Progress' /\ ReadsAtomic'
  <2>1. \A u \in Threads : u # t /\ Busy(u) => file'[thread[u].f].ino = file[thread[u].f].ino
    BY <1>4
  <2>2. BlocksWhole'
    BY <1>4, <2>1, BlocksFrame DEF HalfWritten, Runs
  <2>3. \A u \in Threads : u # t => ProgressOf(u)' /\ ReadAtomicOf(u)'
    BY <1>4, <2>1, OthersData
  <2>4. InodeOf(thread[t].f) = i /\ InodeOf(thread[t].f)' = i
    BY <1>1, <1>2, <1>4 DEF InodeOf
  <2>5. ProgressOf(t)' /\ ReadAtomicOf(t)'
    <3>1. CASE i \in exposed
      <4>1. thread[t].at \in 1..2
        BY <1>3, <1>4 DEF Progress, ProgressOf
      <4>2. /\ thread'[t].pc \in {"run", "unlock"} /\ thread'[t].op[1] = "read"
            /\ thread'[t].pc = "run" => thread'[t].at \in 1..2
        BY <1>4, <4>1
      <4>3. InodeOf(thread[t].f)' \in exposed'
        BY <1>4, <2>4, <3>1
      <4> HIDE DEF ReadFacts
      <4>4. QED BY <4>2, <4>3 DEF ProgressOf, ReadAtomicOf, HalfWritten, Runs, Constructing
    <3>2. CASE i \notin exposed
      <4>1. /\ thread[t].at \in 1..2
            /\ thread[t].at = 1 => thread[t].buf = <<>>
            /\ thread[t].at = 2 => Len(inode[i].blocks) >= 1 /\ thread[t].buf = <<inode[i].blocks[1].val>>
        BY <1>3, <1>4, <2>4, <3>2 DEF Progress, ProgressOf, Runs
      <4>2. /\ inode[i].blocks \in Seq(Block) /\ Len(inode[i].blocks) \in Nat
        BY <1>3 DEF Types, Inode
      <4>3. CASE thread[t].at > Len(inode[i].blocks) /\ thread'[t].pc = "unlock" /\ thread'[t].ok
                 /\ thread'[t].buf = thread[t].buf
        <5>1. CASE thread[t].at = 1
          BY <4>1, <4>3, <5>1 DEF ProgressOf, ReadAtomicOf, HalfWritten, Runs, Constructing
        <5>2. CASE thread[t].at = 2
          <6>1. Len(thread[t].buf) = 1
            <7>1. thread[t].buf = <<inode[i].blocks[1].val>>
              BY <4>1, <5>2
            <7> HIDE DEF ReadFacts
            <7>2. QED BY <7>1
          <6>2. QED BY <4>3, <6>1 DEF ProgressOf, ReadAtomicOf, HalfWritten, Runs, Constructing
        <5>3. QED BY <4>1, <5>1, <5>2
      <4>4. thread[t].at <= Len(inode[i].blocks) => Decrypts(inode[i].blocks[thread[t].at], file[f].key)
        <5>1. Keyed(f) /\ f \in OnInode(i)
          BY <1>1, <1>2, <1>4 DEF Keyed, Mutexed, OnInode
        <5>2. /\ file[f].key = inode[i].header
              /\ \A b \in 1..Len(inode[i].blocks) : Decrypts(inode[i].blocks[b], inode[i].header)
          BY <3>2, <5>1 DEF IInv, KeysAgree
        <5>3. QED BY <4>1, <4>2, <5>2
      <4>5. CASE /\ thread[t].at = 1 /\ thread[t].at <= Len(inode[i].blocks)
                 /\ thread'[t].buf = Append(thread[t].buf, inode[i].blocks[thread[t].at].val)
                 /\ thread'[t].at = 2 /\ thread'[t].ok /\ thread'[t].pc = "run"
        <5>1. thread'[t].buf = <<inode[i].blocks[1].val>>
          <6>1. thread[t].buf = <<>>
            BY <4>1, <4>5
          <6>2. thread'[t].buf = Append(<<>>, inode[i].blocks[1].val)
            BY <4>5, <6>1
          <6>3. QED BY <6>2
        <5>2. QED BY <1>4, <2>4, <4>2, <4>5, <5>1
                DEF ProgressOf, ReadAtomicOf, HalfWritten, Runs, Constructing
      <4>6. CASE /\ thread[t].at = 2 /\ thread[t].at <= Len(inode[i].blocks)
                 /\ thread'[t].buf = Append(thread[t].buf, inode[i].blocks[thread[t].at].val)
                 /\ thread'[t].ok /\ thread'[t].pc = "unlock"
        <5>1. ASSUME NEW u \in Threads, HalfWritten(u), InodeOf(thread[u].f) = i PROVE FALSE
          <6>1. u = t
            BY <1>4, <2>4, <5>1, Alone DEF HalfWritten, Runs, Holding, Mode, InodeOf
          <6>2. QED BY <1>4, <5>1, <6>1 DEF HalfWritten, Runs
        <5>2. inode[i].blocks[1].val = inode[i].blocks[2].val
          <6>1. /\ Len(inode[i].blocks) <= 2
                /\ Len(inode[i].blocks) = 2 => inode[i].blocks[1].val = inode[i].blocks[2].val
            BY <3>2, <5>1 DEF IInv, BlocksWhole, WholeAt
          <6>2. Len(inode[i].blocks) = 2
            <7> DEFINE n == Len(inode[i].blocks)
            <7>1. n \in Nat /\ 2 <= n /\ n <= 2
              BY <4>2, <4>6, <6>1
            <7> HIDE DEF n
            <7>2. n = 2
              BY <7>1
            <7>3. QED BY <7>2 DEF n
          <6>3. QED BY <6>1, <6>2
        <5>3. thread'[t].buf[1] = thread'[t].buf[2]
          BY <4>1, <4>6, <5>2
        <5>4. QED BY <4>6, <5>3 DEF ProgressOf, ReadAtomicOf, HalfWritten, Runs, Constructing
      <4>7. QED BY <1>4, <4>1, <4>3, <4>4, <4>5, <4>6
    <3>3. QED BY <3>1, <3>2
  <2>6. QED BY <2>2, <2>3, <2>5 DEF Progress, ReadsAtomic, ReadAtomicOf
<1>9. QED
  BY <1>5, <1>6, <1>7, <1>8 DEF IInv

(* A block is written. *)
LEMMA WriteIInv ==
    ASSUME LockEnabled, IInv, NEW t \in Threads, WriteStep(t)
    PROVE  IInv'
<1>1. PICK f \in Files : f = thread[t].f
  BY DEF IInv, FilesInUse, Busy, WriteStep
<1>2. PICK i \in Inodes : i = file[f].ino
  BY <1>1 DEF IInv, FilesInUse, Busy, WriteStep
<1>3. Types /\ FilesInUse /\ MutexOwned /\ FlockOwned /\ FlockExcludes /\ KeysAgree /\ Progress
  BY DEF IInv
<1>4. WriteFacts(t, f, i)
  BY <1>1, <1>2, <1>3, WriteEffect
<1> USE DEF WriteFacts
<1>5. Types'
  BY <1>4
<1>6. FilesInUse' /\ MutexOwned' /\ FlockOwned' /\ FlockExcludes'
  BY <1>1, <1>4, LockFrame
<1>7. KeysAgree'
  <2>1. \A b \in 1..Len(inode'[i].blocks) :
               \/ b \in 1..Len(inode[i].blocks) /\ inode'[i].blocks[b] = inode[i].blocks[b]
               \/ inode'[i].blocks[b] = Hole
               \/ inode'[i].blocks[b].key = file[f].key
    <3>1. Len(inode[i].blocks) \in Nat
      BY <1>3 DEF Types, Inode
    <3>2. QED BY <1>4, <3>1, SMTT(30)
  <2>2. thread'[t].pc \in {"run", "unlock"}
    BY <1>4
  <2>3. QED BY <1>1, <1>2, <1>4, <2>1, <2>2, WriterKeys
<1>8. BlocksWhole' /\ Progress' /\ ReadsAtomic'
  <2>1. InodeOf(thread[t].f) = i /\ InodeOf(thread[t].f)' = i
    BY <1>1, <1>2, <1>4 DEF InodeOf
  <2>2. Len(inode[i].blocks) \in 0..2
    <3> DEFINE n == Len(inode[i].blocks)
    <3>1. n \in Nat
      BY <1>3 DEF Types, Inode
    <3>2. n <= 2
      BY DEF IInv, BlocksWhole, WholeAt
    <3> HIDE DEF n
    <3>3. n \in 0..2
      BY <3>1, <3>2
    <3>4. QED BY <3>3 DEF n
  <2>3. (thread[t].at = 2 /\ i \notin exposed) =>
           Len(inode[i].blocks) >= 1 /\ inode[i].blocks[1].val = thread[t].op[2]
    BY <1>3, <1>4, <2>1 DEF Progress, ProgressOf, HalfWritten, Runs
  <2>4. CASE thread[t].at = 1
    <3>1. HalfWritten(t)' /\ ~Runs(t, "read")'
      BY <1>4, <2>4 DEF HalfWritten, Runs
    <3>2. /\ Len(inode'[i].blocks) <= 2 /\ Len(inode'[i].blocks) >= 1
          /\ inode'[i].blocks[1].val = thread[t].op[2]
      BY <1>4, <2>2, <2>4
    <3>3. WholeAt(i)'
      BY <2>1, <3>1, <3>2 DEF WholeAt
    <3>4. ProgressOf(t)' /\ ReadAtomicOf(t)'
      BY <1>4, <2>1, <2>4, <3>1, <3>2 DEF ProgressOf, ReadAtomicOf, Constructing
    <3>5. QED BY <1>1, <1>2, <1>4, <3>3, <3>4, WriterData
  <2>5. CASE thread[t].at = 2
    <3>1. Len(inode'[i].blocks) = 2 /\ inode'[i].blocks[2].val = thread[t].op[2]
      BY <1>4, <2>2, <2>5
    <3>2. i \notin exposed => inode'[i].blocks[1].val = thread[t].op[2]
      BY <1>4, <2>2, <2>3, <2>5, <3>1
    <3>3. WholeAt(i)'
      BY <1>4, <3>1, <3>2 DEF WholeAt
    <3>4. thread'[t].pc = "unlock" /\ thread'[t].op[1] = "write"
      BY <1>4, <2>5
    <3>5. ProgressOf(t)' /\ ReadAtomicOf(t)'
      BY <3>4 DEF ProgressOf, ReadAtomicOf, HalfWritten, Runs, Constructing
    <3>6. QED BY <1>1, <1>2, <1>4, <3>3, <3>5, WriterData
  <2>6. QED BY <1>4, <2>4, <2>5
<1>9. QED
  BY <1>5, <1>6, <1>7, <1>8 DEF IInv

(* The file is resized. *)
LEMMA ResizeIInv ==
    ASSUME LockEnabled, IInv, NEW t \in Threads, ResizeStep(t)
    PROVE  IInv'
<1>1. PICK f \in Files : f = thread[t].f
  BY DEF IInv, FilesInUse, Busy, ResizeStep
<1>2. PICK i \in Inodes : i = file[f].ino
  BY <1>1 DEF IInv, FilesInUse, Busy, ResizeStep
<1>3. Types /\ FilesInUse /\ MutexOwned /\ FlockOwned /\ FlockExcludes /\ KeysAgree /\ Progress
  BY DEF IInv
<1>4. ResizeFacts(t, f, i)
  BY <1>1, <1>2, <1>3, ResizeEffect
<1> USE DEF ResizeFacts
<1>5. Types'
  BY <1>4
<1>6. FilesInUse' /\ MutexOwned' /\ FlockOwned' /\ FlockExcludes'
  BY <1>1, <1>4, LockFrame DEF Moves
<1>7. KeysAgree'
  <2>1. \A b \in 1..Len(inode'[i].blocks) :
               \/ b \in 1..Len(inode[i].blocks) /\ inode'[i].blocks[b] = inode[i].blocks[b]
               \/ inode'[i].blocks[b] = Hole
               \/ inode'[i].blocks[b].key = file[f].key
    <3>1. Len(inode[i].blocks) \in Nat
      BY <1>3 DEF Types, Inode
    <3>2. QED BY <1>4, <3>1
  <2>2. thread'[t].pc \in {"run", "unlock"}
    BY <1>4 DEF Moves
  <2>3. QED BY <1>1, <1>2, <1>4, <2>1, <2>2, WriterKeys DEF Moves
<1>8. BlocksWhole' /\ Progress' /\ ReadsAtomic'
  <2>1. thread'[t].pc = "unlock" /\ thread'[t].op[1] # "read"
    BY <1>4 DEF Moves
  <2>2. WholeAt(i)'
    BY <1>4 DEF WholeAt
  <2>3. ProgressOf(t)' /\ ReadAtomicOf(t)'
    BY <2>1 DEF ProgressOf, ReadAtomicOf, HalfWritten, Runs, Constructing
  <2>4. QED BY <1>1, <1>2, <1>4, <2>2, <2>3, WriterData DEF Moves
<1>9. QED
  BY <1>5, <1>6, <1>7, <1>8 DEF IInv

(* flush and fsync. *)
LEMMA SyncIInv ==
    ASSUME LockEnabled, IInv, NEW t \in Threads, SyncStep(t)
    PROVE  IInv'
<1>1. PICK f \in Files : f = thread[t].f
  BY DEF IInv, FilesInUse, Busy, SyncStep
<1>3. Types /\ FilesInUse /\ MutexOwned /\ FlockOwned /\ FlockExcludes /\ KeysAgree /\ Progress
  BY DEF IInv
<1>4. /\ Types'
      /\ UNCHANGED <<inode, file, mutex, flock, exposed>>
      /\ thread[t].pc = "run" /\ thread[t].op[1] = "sync" /\ Moves(t, "unlock")
  BY <1>1, <1>3, SyncEffect
<1>5. Types'
  BY <1>4
<1>6. FilesInUse'
  BY <1>1, <1>3, <1>4, Absent DEF Others, OtherFiles, Moves,
     FilesInUse, Busy, Constructing
<1>7. MutexOwned'
  BY <1>1, <1>3, <1>4, Absent DEF Types, Others, OtherFiles, Moves,
     MutexOwned, Mutexed, FilesInUse, Busy, Constructing
<1>8. FlockOwned'
  BY <1>1, <1>3, <1>4, Absent DEF Types, Others, OtherFiles, Moves,
     FlockOwned, Holding, Mode, MutexOwned, Mutexed, FilesInUse, Busy, Constructing
<1>9. FlockExcludes'
  BY <1>1, <1>3, <1>4, Absent DEF Others, OtherFiles, Moves,
     FlockExcludes, FlockOwned, FilesInUse, Busy, Holding, Constructing
<1>10. KeysAgree'
  <2>1. \A g \in Files : Keyed(g)' /\ file'[g].ino \in Inodes =>
               Keyed(g) /\ file'[g].ino = file[g].ino /\ file'[g].key = file[g].key
    BY <1>1, <1>3, <1>4, Absent DEF Keyed, Others, OtherFiles, Moves, Mutexed, Types
  <2>2. \A u \in Threads : thread'[u].pc = "writeheader" =>
               /\ thread[u].pc = "writeheader" /\ thread'[u].f = thread[u].f
               /\ file'[thread[u].f].ino = file[thread[u].f].ino
    BY <1>1, <1>3, <1>4, Absent DEF Others, OtherFiles, Moves, FilesInUse, Busy, Constructing
  <2>3. QED BY <1>4, <2>1, <2>2, KeysFrame
<1>11. BlocksWhole' /\ Progress' /\ ReadsAtomic'
  <2>1. \A u \in Threads : u # t /\ Busy(u) => file'[thread[u].f].ino = file[thread[u].f].ino
    BY <1>1, <1>3, <1>4, Absent DEF OtherFiles, FilesInUse, Busy, Constructing
  <2>2. ~HalfWritten(t) /\ ~HalfWritten(t)'
    BY <1>3, <1>4 DEF HalfWritten, Runs, Moves, Progress, ProgressOf
  <2>3. Others(t)
    BY <1>4 DEF Moves
  <2>4. /\ thread'[t].pc \notin {"idle", "unlock"} =>
               thread'[t].at = 1 /\ thread'[t].buf = <<>> /\ thread'[t].ok
        /\ thread'[t].pc = "unlock" => thread'[t].op[1] # "read"
    BY <1>3, <1>4 DEF Moves, Progress, ProgressOf, Constructing
  <2>5. \A j \in Inodes : inode'[j].blocks = inode[j].blocks /\ (j \in exposed <=> j \in exposed')
    BY <1>4
  <2>6. QED BY <2>1, <2>2, <2>3, <2>4, <2>5, DataFrame
<1>12. QED
  BY <1>5, <1>6, <1>7, <1>8, <1>9, <1>10, <1>11 DEF IInv

(* File::unlock and the end of the call. *)
LEMMA UnlockIInv ==
    ASSUME LockEnabled, IInv, NEW t \in Threads, Unlock(t)
    PROVE  IInv'
<1>1. PICK f \in Files : f = thread[t].f
  BY DEF IInv, FilesInUse, Busy, Unlock
<1>3. Types /\ FilesInUse /\ MutexOwned /\ FlockOwned /\ FlockExcludes /\ KeysAgree /\ Progress
  BY DEF IInv
<1>4. /\ Types'
      /\ UNCHANGED <<inode, exposed>>
      /\ thread[t].pc = "unlock" /\ Others(t) /\ thread'[t].pc = "idle"
      /\ OtherFiles(f) /\ mutex'[f] = None /\ flock'[f] = "none"
      /\ \/ file'[f] = NoFile /\ ~file[f].ready
         \/ file'[f].ready /\ file'[f].ino = file[f].ino /\ file'[f].key = file[f].key
  BY <1>1, <1>3, UnlockEffect
<1>5. Types'
  BY <1>4
<1>6. FilesInUse'
  BY <1>1, <1>3, <1>4, Absent DEF Others, OtherFiles, Moves,
     FilesInUse, Busy, Constructing
<1>7. MutexOwned'
  <2>1. mutex[f] = t /\ thread[t].pc \in Mutexed
    BY <1>1, <1>3, <1>4 DEF MutexOwned, Mutexed
  <2>2. \A u \in Threads : u # t /\ thread[u].pc \in Mutexed => thread[u].f \in Files \ {f}
    BY <1>3, <2>1 DEF MutexOwned, FilesInUse, Busy, Mutexed
  <2>3. \A u \in Threads : thread'[u].pc \in Mutexed => mutex'[thread'[u].f] = u
    BY <1>3, <1>4, <2>2 DEF Others, OtherFiles, MutexOwned, Mutexed
  <2>4. \A g \in Files : g # f /\ mutex[g] # None => mutex[g] \in Threads \ {t}
    BY <1>1, <1>3 DEF Types, MutexOwned
  <2>5. ASSUME NEW g \in Files, mutex'[g] # None
        PROVE  thread'[mutex'[g]].pc \in Mutexed /\ thread'[mutex'[g]].f = g
    <3>1. g # f /\ mutex'[g] = mutex[g] /\ mutex[g] \in Threads \ {t}
      BY <1>4, <2>4, <2>5 DEF OtherFiles
    <3>2. QED BY <1>3, <1>4, <2>5, <3>1 DEF Others, MutexOwned
  <2>6. QED BY <2>3, <2>5 DEF MutexOwned
<1>8. FlockOwned'
  <2>1. \A u \in Threads : thread'[u].pc \in Holding =>
            u # t /\ thread'[u] = thread[u] /\ thread[u].pc \in Holding
    BY <1>4 DEF Others, Holding
  <2>2. mutex[f] = t
    BY <1>1, <1>3, <1>4 DEF MutexOwned, Mutexed
  <2>3. \A u \in Threads : u # t /\ thread[u].pc \in Holding => thread[u].f \in Files \ {f}
    <3> SUFFICES ASSUME NEW u \in Threads, u # t, thread[u].pc \in Holding
                 PROVE  thread[u].f \in Files \ {f}
      OBVIOUS
    <3>1. thread[u].f \in Files /\ Busy(u) /\ Busy(t)
      BY <1>3, <1>4 DEF FilesInUse, Busy, Holding
    <3>2. CASE thread[u].pc \in Mutexed
      BY <1>3, <2>2, <3>1, <3>2 DEF MutexOwned
    <3>3. CASE thread[u].pc \notin Mutexed
      <4>1. thread[u].pc \in Constructing
        BY <3>3 DEF Holding, Mutexed, Constructing
      <4>2. QED BY <1>1, <1>3, <3>1, <4>1 DEF FilesInUse
    <3>4. QED BY <3>2, <3>3
  <2>4. \A u \in Threads : thread'[u].pc \in Holding => flock'[thread'[u].f] = Mode(u)'
    BY <1>3, <1>4, <2>1, <2>3 DEF FlockOwned, Mode, OtherFiles
  <2>5. ASSUME NEW g \in Files, flock'[g] # "none"
        PROVE  \E u \in Threads : thread'[u].pc \in Holding /\ thread'[u].f = g
    <3>1. g # f /\ flock[g] # "none"
      BY <1>4, <2>5 DEF OtherFiles
    <3>2. PICK u \in Threads : thread[u].pc \in Holding /\ thread[u].f = g
      BY <1>3, <3>1 DEF FlockOwned
    <3>3. thread'[u] = thread[u]
      BY <1>1, <1>4, <3>1, <3>2 DEF Others
    <3>4. QED BY <3>2, <3>3
  <2>6. QED BY <2>4, <2>5 DEF FlockOwned
<1>9. FlockExcludes'
  BY <1>1, <1>3, <1>4, Absent DEF Others, OtherFiles, Moves,
     FlockExcludes, FlockOwned, FilesInUse, Busy, Holding, Constructing
<1>10. KeysAgree'
  <2>1. \A g \in Files : Keyed(g)' /\ file'[g].ino \in Inodes =>
               Keyed(g) /\ file'[g].ino = file[g].ino /\ file'[g].key = file[g].key
    BY <1>1, <1>3, <1>4, Absent DEF Keyed, Others, OtherFiles, Moves, Mutexed, Types
  <2>2. \A u \in Threads : thread'[u].pc = "writeheader" =>
               /\ thread[u].pc = "writeheader" /\ thread'[u].f = thread[u].f
               /\ file'[thread[u].f].ino = file[thread[u].f].ino
    BY <1>1, <1>3, <1>4, Absent DEF Others, OtherFiles, Moves, FilesInUse, Busy, Constructing
  <2>3. QED BY <1>4, <2>1, <2>2, KeysFrame
<1>11. BlocksWhole' /\ Progress' /\ ReadsAtomic'
  <2>1. \A u \in Threads : u # t /\ Busy(u) => file'[thread[u].f].ino = file[thread[u].f].ino
    BY <1>1, <1>3, <1>4, Absent DEF OtherFiles, FilesInUse, Busy, Constructing
  <2>2. ~HalfWritten(t) /\ ~HalfWritten(t)'
    BY <1>3, <1>4 DEF HalfWritten, Runs, Moves, Progress, ProgressOf
  <2>3. Others(t)
    BY <1>4 DEF Moves
  <2>4. /\ thread'[t].pc \notin {"idle", "unlock"} =>
               thread'[t].at = 1 /\ thread'[t].buf = <<>> /\ thread'[t].ok
        /\ thread'[t].pc = "unlock" => thread'[t].op[1] # "read"
    BY <1>3, <1>4 DEF Moves, Progress, ProgressOf, Constructing
  <2>5. \A j \in Inodes : inode'[j].blocks = inode[j].blocks /\ (j \in exposed <=> j \in exposed')
    BY <1>4
  <2>6. QED BY <2>1, <2>2, <2>3, <2>4, <2>5, DataFrame
<1>12. QED
  BY <1>5, <1>6, <1>7, <1>8, <1>9, <1>10, <1>11 DEF IInv

(* A step that keeps all but the name of the file, and stuttering. *)
LEMMA UnchangedIInv ==
    ASSUME IInv, UNCHANGED <<inode, file, mutex, flock, thread, exposed>>, Types'
    PROVE  IInv'
<1>1. FilesInUse'
  BY DEF IInv, FilesInUse, Busy
<1>2. MutexOwned' /\ FlockOwned' /\ FlockExcludes'
  BY DEF IInv, MutexOwned, FlockOwned, Mode, FlockExcludes
<1>3. KeysAgree'
  BY DEF IInv, KeysAgree, Keyed, OnInode, InodeOf, Decrypts
<1>4. BlocksWhole'
  BY DEF IInv, BlocksWhole, WholeAt, HalfWritten, Runs, InodeOf
<1>5. Progress' /\ ReadsAtomic'
  BY DEF IInv, Progress, ProgressOf, Runs, HalfWritten, ReadsAtomic, InodeOf
<1>6. QED BY <1>1, <1>2, <1>3, <1>4, <1>5 DEF IInv

(* In the beginning nothing is open. *)
LEMMA InitIInv ==
    ASSUME Init
    PROVE  IInv
<1>1. /\ EmptyInode \in Inode /\ NoFile \in FileObject /\ IdleThread \in ThreadState
      /\ EmptyInode.blocks = <<>> /\ EmptyInode.header = None
      /\ IdleThread.pc = "idle"
  BY DEF EmptyInode, Inode, NoFile, FileObject, Key, IdleThread, ThreadState, PCs, Ops
<1>2. Types
  BY <1>1 DEF Init, Types
<1>3. /\ \A t \in Threads : thread[t].pc = "idle"
      /\ \A f \in Files : /\ file[f].ino = None /\ file[f].ready = FALSE
                          /\ mutex[f] = None /\ flock[f] = "none"
      /\ \A i \in Inodes : inode[i].blocks = <<>>
  BY <1>1, Absent DEF Init
<1>4. FilesInUse /\ MutexOwned /\ FlockOwned /\ FlockExcludes
  BY <1>3 DEF FilesInUse, Busy, MutexOwned, Mutexed, FlockOwned, Holding, FlockExcludes
<1>5. KeysAgree
  BY <1>3, Absent DEF KeysAgree, Keyed, OnInode, Mutexed
<1>6. BlocksWhole /\ Progress /\ ReadsAtomic
  BY <1>3 DEF BlocksWhole, WholeAt, Progress, ProgressOf, HalfWritten, Runs, ReadsAtomic, Constructing
<1>7. QED BY <1>2, <1>4, <1>5, <1>6 DEF IInv

(* A call that a thread begins keeps the invariant. *)
LEMMA BeginIInv ==
    ASSUME LockEnabled, IInv, NEW t \in Threads, Begin(t)
    PROVE  IInv'
<1>1. /\ <<"open">> \in Ops /\ <<"opentrunc">> \in Ops /\ <<"read">> \in Ops /\ <<"sync">> \in Ops
      /\ \A len \in 0..1 : <<"truncate", len>> \in Ops /\ <<"ftruncate", len>> \in Ops
      /\ \A v \in Values : <<"write", v>> \in Ops
  BY DEF Ops
<1>2. dir \in Inodes \cup {None} /\ Types
  BY DEF IInv, Types
<1>3. ASSUME NEW f \in Files, NEW i \in Inodes, create(t, f, i) PROVE IInv'
  <2>1. Opens(t, f, i, <<"open">>, TRUE) /\ dir' \in Inodes \cup {None}
    BY <1>3 DEF create
  <2>2. QED BY <1>1, <2>1, OpensIInv
<1>4. ASSUME NEW f \in Files, NEW trunc \in TruncFlags, open(t, f, trunc) PROVE IInv'
  <2>1. trunc \in BOOLEAN
    BY LiteFileAssumption
  <2>2. dir \in Inodes /\ dir' \in Inodes \cup {None}
    BY <1>2, <1>4 DEF open
  <2>3. \E op \in Ops : Opens(t, f, dir, op, trunc)
    BY <1>1, <1>4 DEF open
  <2>4. QED BY <2>1, <2>2, <2>3, OpensIInv
<1>5. ASSUME NEW f \in Files, NEW len \in 0..1, truncate(t, f, len) PROVE IInv'
  <2>1. dir \in Inodes /\ dir' \in Inodes \cup {None} /\ Opens(t, f, dir, <<"truncate", len>>, FALSE)
    BY <1>2, <1>5 DEF truncate
  <2>2. QED BY <1>1, <2>1, OpensIInv
<1>6. ASSUME NEW f \in Files, NEW op \in Ops, op[1] # "truncate", Call(t, f, op) PROVE IInv'
  BY <1>6, CallIInv
<1>7. ASSUME NEW f \in Files, NEW len \in 0..1, Call(t, f, <<"ftruncate", len>>) PROVE IInv'
  BY <1>1, <1>6, <1>7
<1>8. ASSUME NEW f \in Files, NEW v \in Values, Call(t, f, <<"write", v>>) PROVE IInv'
  BY <1>1, <1>6, <1>8
<1>9. ASSUME NEW f \in Files, Call(t, f, <<"read">>) \/ Call(t, f, <<"sync">>) PROVE IInv'
  BY <1>1, <1>6, <1>9
<1>10. ASSUME NEW f \in Files, release(t, f) PROVE IInv'
  BY <1>10, ReleaseIInv
<1>11. ASSUME unlink(t) PROVE IInv'
  BY <1>2, <1>11, UnlinkEffect, UnchangedIInv
<1>12. QED BY <1>3, <1>4, <1>5, <1>7, <1>8, <1>9, <1>10, <1>11 DEF Begin

(* Every step keeps the invariant. *)
LEMMA NextIInv ==
    ASSUME LockEnabled, IInv, [Next]_vars
    PROVE  IInv'
<1>1. ASSUME NEW t \in Threads, Step(t) PROVE IInv'
  BY <1>1, ConstructIInv, ReadHeaderIInv, WriteHeaderIInv, ConstructedIInv, LockIInv, FlockIInv,
     ReadIInv, WriteIInv, ResizeIInv, SyncIInv, UnlockIInv DEF Step
<1>2. ASSUME NEW t \in Threads, ConstructFails(t) PROVE IInv'
  BY <1>2, ConstructFailsIInv
<1>3. ASSUME NEW t \in Threads, FlockFails(t) PROVE IInv'
  BY <1>3, FlockFailsIInv
<1>4. CASE UNCHANGED vars
  <2>1. Types' /\ UNCHANGED <<inode, file, mutex, flock, thread, exposed>>
    BY <1>4 DEF IInv, Types, vars
  <2>2. QED BY <2>1, UnchangedIInv
<1>5. QED BY <1>1, <1>2, <1>3, <1>4, BeginIInv DEF Next

-----------------------------------------------------------------------------
(* The locks, the keys and the blocks stay in order, whatever the threads do:
   File::lock takes the mutex and then the advisory lock, and the constructor
   the advisory lock alone.                                                  *)
THEOREM LocksInOrder ==
    ASSUME LockEnabled
    PROVE  Spec => []IInv
<1>1. Init => IInv
  BY InitIInv
<1>2. IInv /\ [Next]_vars => IInv'
  BY NextIInv
<1>3. QED BY <1>1, <1>2, PTL DEF Spec

(* All Files on an inode, and all its blocks, use the session key of its header,
   also when several threads or processes open the new file at once: the
   constructor reads the header, and writes a new one, under the lock.       *)
THEOREM SessionKeysTogether ==
    ASSUME LockEnabled
    PROVE  Spec => []SessionKeysAgree
<1>1. IInv => SessionKeysAgree
  <2> SUFFICES ASSUME IInv, NEW i \in Inodes \ exposed
               PROVE  /\ \A f \in OnInode(i) : file[f].ready => file[f].key = inode[i].header
                      /\ \A b \in DOMAIN inode[i].blocks : Decrypts(inode[i].blocks[b], inode[i].header)
    BY DEF SessionKeysAgree
  <2>1. inode[i].blocks \in Seq(Block)
    BY DEF IInv, Types, Inode
  <2>2. DOMAIN inode[i].blocks = 1..Len(inode[i].blocks)
    BY <2>1
  <2>3. QED BY <2>2 DEF IInv, KeysAgree, Keyed
<1>2. QED BY <1>1, LocksInOrder, PTL

(* A read of File::read sees the blocks of one write, and every block decrypts:
   the shared lock of a reader keeps writers and constructors away.          *)
THEOREM ReadersSeeWholeWrites ==
    ASSUME LockEnabled
    PROVE  Spec => []ReadsAtomic
<1>1. IInv => ReadsAtomic
  BY DEF IInv
<1>2. QED BY <1>1, LocksInOrder, PTL

=============================================================================
