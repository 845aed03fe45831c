----------------------------- MODULE VolumeProofs -----------------------------
(***************************************************************************)
(* Proofs about Volume, for any number of processes, passwords and key     *)
(* files.                                                                  *)
(*                                                                         *)
(* That a volume is never lost needs VolumeInv: only one process creates   *)
(* the configuration, and only while no volume was reported; whoever       *)
(* changes the password read the volume itself, and what it is about to    *)
(* rename over the configuration reads back as the volume. The locks need  *)
(* LockInv and FlockInv, which tie the lock file and the flock to the      *)
(* places where processes are.                                             *)
(***************************************************************************)
EXTENDS Volume, TLAPS

FixedSizes(c) == c.version = 1 => c.sizes = "fixed"

Creating(p) == pc[p] \in {"create_write", "create_root", "create_report"}

ChangingPassword(p) == pc[p] \in {"chpass_open", "chpass_write", "chpass_rename"}

ReadsAs(f, c) == Complete(f) /\ read_config(f) = c

(* What a process that runs a command has read or chosen. *)
SeenInv ==
    \A p \in Procs :
        /\ pc[p] # "idle" => seen[p] \in FSConfig /\ FixedSizes(seen[p])
        /\ pc[p] \in {"create_write", "chpass_open", "chpass_write"} => cred[p] \in Credentials

LockInv == MountsExclude /\ LockFileHasOwner

FlockInv == \A p \in Procs : pc[p] = "fixing" <=> flock = p

VolumeInv ==
    /\ VolumeNeverLost
    /\ \A p \in Procs :
          /\ Creating(p) => volume = Absent /\ config # Absent
          /\ pc[p] \in {"create_root", "create_report"} => ReadsAs(config, seen[p])
          /\ ChangingPassword(p) => volume # Absent /\ seen[p] = volume
          /\ pc[p] = "chpass_rename" => ReadsAs(tmp[p], volume)
    /\ \A p, q \in Procs : Creating(p) /\ Creating(q) => p = q

IInv == TypeOK /\ SeenInv /\ LockInv /\ FlockInv /\ VolumeInv

-----------------------------------------------------------------------------
(* What generate_config writes is a configuration that read_config reads as
   what it was made of.                                                     *)
LEMMA GeneratedReadsBack ==
    ASSUME NEW c \in FSConfig, FixedSizes(c), NEW who \in Credentials
    PROVE  generate_config(c, who) \in Contents /\ ReadsAs(generate_config(c, who), c)
<1> DEFINE f == generate_config(c, who)
<1>1. c.version \in Formats /\ c.version \in {1, 3, 4} /\ c.sizes \in Sizes /\ c.master_key \in Procs
  BY VolumeAssumption DEF FSConfig
<1>2. get_version_header(c.version) \in {"version=1", "version=4"}
  BY DEF get_version_header
<1>3. f \in Contents
  BY <1>1, <1>2 DEF generate_config, Contents
<1>4. Complete(f)
  BY <1>3, ContentsAssumption DEF Complete
<1>5. f.version = c.version /\ f.wrapped.key = c.master_key
  BY DEF generate_config
<1>6. (IF f.version = 1 \/ f.sizes = Absent THEN "fixed" ELSE f.sizes) = c.sizes
  BY <1>1, ContentsAssumption DEF generate_config, FixedSizes
<1>7. c = [version |-> c.version, sizes |-> c.sizes, master_key |-> c.master_key]
  BY DEF FSConfig
<1>8. read_config(f) = c
  BY <1>5, <1>6, <1>7 DEF read_config
<1>9. QED
  BY <1>3, <1>4, <1>8 DEF ReadsAs

(* What read_config returns can be written again without loss. *)
LEMMA ReadIsTyped ==
    ASSUME NEW f \in Contents
    PROVE  read_config(f) \in FSConfig /\ FixedSizes(read_config(f))
BY DEF Contents, read_config, FSConfig, FixedSizes, Sizes

(* Before anything is created. *)
LEMMA Initially == Init => IInv
BY VolumeAssumption, ZenonT(60) DEF Init, IInv, TypeOK, SeenInv, LockInv, FlockInv, VolumeInv, MountsExclude,
   LockFileHasOwner, HasLockFile, VolumeNeverLost, Creating, ChangingPassword, Labels

(* Every step keeps the types. *)
LEMMA TypeStep ==
    ASSUME IInv, [Next]_vars PROVE TypeOK'
<1>1. ASSUME NEW p \in Procs, NEW v \in Formats, NEW s \in Sizes, NEW who \in Credentials,
             CreateOpen(p, v, s, who)
      PROVE  TypeOK'
  BY <1>1 DEF CreateOpen, Goto, FSConfig, IInv, TypeOK, Labels
<1>2. ASSUME NEW p \in Procs, CreateWrite(p)
      PROVE  TypeOK'
  BY <1>2, GeneratedReadsBack DEF CreateWrite, Exit, Goto, SeenInv, IInv, TypeOK, Labels
<1>3. ASSUME NEW p \in Procs, CreateRoot(p)
      PROVE  TypeOK'
  BY <1>3 DEF CreateRoot, Exit, Goto, SeenInv, IInv, TypeOK, Labels
<1>4. ASSUME NEW p \in Procs, CreateFails(p)
      PROVE  TypeOK'
  BY <1>4 DEF CreateFails, Exit, Goto, IInv, TypeOK, Labels
<1>5. ASSUME NEW p \in Procs, NEW old \in Credentials, NEW new \in Credentials,
             ChpassRead(p, old, new)
      PROVE  TypeOK'
  BY <1>5, ReadIsTyped DEF ChpassRead, Goto, CanRead, Complete, IInv, TypeOK, Labels
<1>6. ASSUME NEW p \in Procs, ChpassOpen(p)
      PROVE  TypeOK'
  BY <1>6 DEF ChpassOpen, Goto, IInv, TypeOK, Labels
<1>7. ASSUME NEW p \in Procs, ChpassWrite(p)
      PROVE  TypeOK'
  BY <1>7, GeneratedReadsBack DEF ChpassWrite, Goto, SeenInv, IInv, TypeOK, Labels
<1>8. ASSUME NEW p \in Procs, ChpassRename(p)
      PROVE  TypeOK'
  BY <1>8 DEF ChpassRename, Exit, Goto, IInv, TypeOK, Labels
<1>9. ASSUME NEW p \in Procs, ChpassFails(p)
      PROVE  TypeOK'
  BY <1>9 DEF ChpassFails, Exit, Goto, IInv, TypeOK, Labels
<1>10. ASSUME NEW p \in Procs, NEW who \in Credentials, NEW l \in {"mount_lock", "fix_lock"},
             ReadConfig(p, who, l)
      PROVE  TypeOK'
  BY <1>10, ReadIsTyped DEF ReadConfig, Goto, CanRead, Complete, IInv, TypeOK, Labels
<1>11. ASSUME NEW p \in Procs, MountLock(p)
      PROVE  TypeOK'
  BY <1>11 DEF MountLock, Exit, Goto, IInv, TypeOK, Labels
<1>12. ASSUME NEW p \in Procs, MountInit(p)
      PROVE  TypeOK'
  BY <1>12 DEF MountInit, Goto, IInv, TypeOK, Labels
<1>13. ASSUME NEW p \in Procs, MountFails(p)
      PROVE  TypeOK'
  BY <1>13 DEF MountFails, Exit, Goto, IInv, TypeOK, Labels
<1>14. ASSUME NEW p \in Procs, Destroy(p)
      PROVE  TypeOK'
  BY <1>14 DEF Destroy, Goto, IInv, TypeOK, Labels
<1>15. ASSUME NEW p \in Procs, DestroyTable(p)
      PROVE  TypeOK'
  BY <1>15 DEF DestroyTable, Exit, Goto, IInv, TypeOK, Labels
<1>16. ASSUME NEW p \in Procs, FixLock(p)
      PROVE  TypeOK'
  BY <1>16 DEF FixLock, Exit, Goto, IInv, TypeOK, Labels
<1>17. ASSUME NEW p \in Procs, FixEnds(p)
      PROVE  TypeOK'
  BY <1>17 DEF FixEnds, Exit, Goto, IInv, TypeOK, Labels
<1>18. ASSUME NEW p \in Procs, Kill(p)
      PROVE  TypeOK'
  BY <1>18 DEF Kill, Exit, Goto, IInv, TypeOK, Labels
<1>19. CASE RemoveStaleLock
  BY <1>19 DEF RemoveStaleLock, IInv, TypeOK, Labels
<1>20. CASE UNCHANGED vars
  BY <1>20 DEF vars, IInv, TypeOK, Labels
<1>21. ASSUME NEW p \in Procs, CreateReport(p)
      PROVE  TypeOK'
  BY <1>21 DEF CreateReport, Exit, Goto, SeenInv, IInv, TypeOK, Labels
<1>22. QED
  BY <1>1, <1>2, <1>3, <1>4, <1>5, <1>6, <1>7, <1>8, <1>9, <1>10,
     <1>11, <1>12, <1>13, <1>14, <1>15, <1>16, <1>17, <1>18, <1>19, <1>20, <1>21
  DEF Next, create, chpass, mount, fix

(* A process has read or chosen an FSConfig as long as its command runs. *)
LEMMA SeenStep ==
    ASSUME IInv, [Next]_vars PROVE SeenInv'
<1>1. ASSUME NEW p \in Procs, NEW v \in Formats, NEW s \in Sizes, NEW who \in Credentials,
             CreateOpen(p, v, s, who)
      PROVE  SeenInv'
  BY <1>1 DEF CreateOpen, Goto, FSConfig, IInv, TypeOK, SeenInv, Labels, FixedSizes
<1>2. ASSUME NEW p \in Procs, CreateWrite(p)
      PROVE  SeenInv'
  BY <1>2 DEF CreateWrite, Exit, Goto, IInv, TypeOK, SeenInv, Labels, FixedSizes
<1>3. ASSUME NEW p \in Procs, CreateRoot(p)
      PROVE  SeenInv'
  BY <1>3 DEF CreateRoot, Exit, Goto, IInv, TypeOK, SeenInv, Labels, FixedSizes
<1>4. ASSUME NEW p \in Procs, CreateFails(p)
      PROVE  SeenInv'
  BY <1>4 DEF CreateFails, Exit, Goto, IInv, TypeOK, SeenInv, Labels, FixedSizes
<1>5. ASSUME NEW p \in Procs, NEW old \in Credentials, NEW new \in Credentials,
             ChpassRead(p, old, new)
      PROVE  SeenInv'
  BY <1>5, ReadIsTyped DEF ChpassRead, Goto, CanRead, Complete, IInv, TypeOK, SeenInv,
     Labels, FixedSizes
<1>6. ASSUME NEW p \in Procs, ChpassOpen(p)
      PROVE  SeenInv'
  BY <1>6 DEF ChpassOpen, Goto, IInv, TypeOK, SeenInv, Labels, FixedSizes
<1>7. ASSUME NEW p \in Procs, ChpassWrite(p)
      PROVE  SeenInv'
  BY <1>7 DEF ChpassWrite, Goto, IInv, TypeOK, SeenInv, Labels, FixedSizes
<1>8. ASSUME NEW p \in Procs, ChpassRename(p)
      PROVE  SeenInv'
  BY <1>8 DEF ChpassRename, Exit, Goto, IInv, TypeOK, SeenInv, Labels, FixedSizes
<1>9. ASSUME NEW p \in Procs, ChpassFails(p)
      PROVE  SeenInv'
  BY <1>9 DEF ChpassFails, Exit, Goto, IInv, TypeOK, SeenInv, Labels, FixedSizes
<1>10. ASSUME NEW p \in Procs, NEW who \in Credentials, NEW l \in {"mount_lock", "fix_lock"},
             ReadConfig(p, who, l)
      PROVE  SeenInv'
  BY <1>10, ReadIsTyped DEF ReadConfig, Goto, CanRead, Complete, IInv, TypeOK, SeenInv,
     Labels, FixedSizes
<1>11. ASSUME NEW p \in Procs, MountLock(p)
      PROVE  SeenInv'
  BY <1>11 DEF MountLock, Exit, Goto, IInv, TypeOK, SeenInv, Labels, FixedSizes
<1>12. ASSUME NEW p \in Procs, MountInit(p)
      PROVE  SeenInv'
  BY <1>12 DEF MountInit, Goto, IInv, TypeOK, SeenInv, Labels, FixedSizes
<1>13. ASSUME NEW p \in Procs, MountFails(p)
      PROVE  SeenInv'
  BY <1>13 DEF MountFails, Exit, Goto, IInv, TypeOK, SeenInv, Labels, FixedSizes
<1>14. ASSUME NEW p \in Procs, Destroy(p)
      PROVE  SeenInv'
  BY <1>14 DEF Destroy, Goto, IInv, TypeOK, SeenInv, Labels, FixedSizes
<1>15. ASSUME NEW p \in Procs, DestroyTable(p)
      PROVE  SeenInv'
  BY <1>15 DEF DestroyTable, Exit, Goto, IInv, TypeOK, SeenInv, Labels, FixedSizes
<1>16. ASSUME NEW p \in Procs, FixLock(p)
      PROVE  SeenInv'
  BY <1>16 DEF FixLock, Exit, Goto, IInv, TypeOK, SeenInv, Labels, FixedSizes
<1>17. ASSUME NEW p \in Procs, FixEnds(p)
      PROVE  SeenInv'
  BY <1>17 DEF FixEnds, Exit, Goto, IInv, TypeOK, SeenInv, Labels, FixedSizes
<1>18. ASSUME NEW p \in Procs, Kill(p)
      PROVE  SeenInv'
  BY <1>18 DEF Kill, Exit, Goto, IInv, TypeOK, SeenInv, Labels, FixedSizes
<1>19. CASE RemoveStaleLock
  BY <1>19 DEF RemoveStaleLock, IInv, TypeOK, SeenInv, Labels, FixedSizes
<1>20. CASE UNCHANGED vars
  BY <1>20 DEF vars, IInv, TypeOK, SeenInv, Labels, FixedSizes
<1>21. ASSUME NEW p \in Procs, CreateReport(p)
      PROVE  SeenInv'
  BY <1>21 DEF CreateReport, Exit, Goto, IInv, TypeOK, SeenInv, Labels, FixedSizes
<1>22. QED
  BY <1>1, <1>2, <1>3, <1>4, <1>5, <1>6, <1>7, <1>8, <1>9, <1>10,
     <1>11, <1>12, <1>13, <1>14, <1>15, <1>16, <1>17, <1>18, <1>19, <1>20, <1>21
  DEF Next, create, chpass, mount, fix

(* The lock file belongs to the one mount that made it, or was leaked. *)
LEMMA LockStep ==
    ASSUME IInv, [Next]_vars PROVE LockInv'
<1>1. ASSUME NEW p \in Procs, NEW v \in Formats, NEW s \in Sizes, NEW who \in Credentials,
             CreateOpen(p, v, s, who)
      PROVE  LockInv'
  BY <1>1 DEF CreateOpen, Goto, IInv, TypeOK, LockInv, MountsExclude, LockFileHasOwner,
     HasLockFile, IsFull
<1>2. ASSUME NEW p \in Procs, CreateWrite(p)
      PROVE  LockInv'
  BY <1>2 DEF CreateWrite, Exit, Goto, IInv, TypeOK, LockInv, MountsExclude,
     LockFileHasOwner, HasLockFile, IsFull
<1>3. ASSUME NEW p \in Procs, CreateRoot(p)
      PROVE  LockInv'
  BY <1>3 DEF CreateRoot, Exit, Goto, IInv, TypeOK, LockInv, MountsExclude,
     LockFileHasOwner, HasLockFile, IsFull
<1>4. ASSUME NEW p \in Procs, CreateFails(p)
      PROVE  LockInv'
  BY <1>4 DEF CreateFails, Exit, Goto, IInv, TypeOK, LockInv, MountsExclude,
     LockFileHasOwner, HasLockFile, IsFull
<1>5. ASSUME NEW p \in Procs, NEW old \in Credentials, NEW new \in Credentials,
             ChpassRead(p, old, new)
      PROVE  LockInv'
  BY <1>5 DEF ChpassRead, Goto, IInv, TypeOK, LockInv, MountsExclude, LockFileHasOwner,
     HasLockFile, IsFull
<1>6. ASSUME NEW p \in Procs, ChpassOpen(p)
      PROVE  LockInv'
  BY <1>6 DEF ChpassOpen, Goto, IInv, TypeOK, LockInv, MountsExclude, LockFileHasOwner,
     HasLockFile, IsFull
<1>7. ASSUME NEW p \in Procs, ChpassWrite(p)
      PROVE  LockInv'
  BY <1>7 DEF ChpassWrite, Goto, IInv, TypeOK, LockInv, MountsExclude, LockFileHasOwner,
     HasLockFile, IsFull
<1>8. ASSUME NEW p \in Procs, ChpassRename(p)
      PROVE  LockInv'
  BY <1>8 DEF ChpassRename, Exit, Goto, IInv, TypeOK, LockInv, MountsExclude,
     LockFileHasOwner, HasLockFile, IsFull
<1>9. ASSUME NEW p \in Procs, ChpassFails(p)
      PROVE  LockInv'
  BY <1>9 DEF ChpassFails, Exit, Goto, IInv, TypeOK, LockInv, MountsExclude,
     LockFileHasOwner, HasLockFile, IsFull
<1>10. ASSUME NEW p \in Procs, NEW who \in Credentials, NEW l \in {"mount_lock", "fix_lock"},
             ReadConfig(p, who, l)
      PROVE  LockInv'
  BY <1>10 DEF ReadConfig, Goto, IInv, TypeOK, LockInv, MountsExclude, LockFileHasOwner,
     HasLockFile, IsFull
<1>11. ASSUME NEW p \in Procs, MountLock(p)
      PROVE  LockInv'
  BY <1>11 DEF MountLock, Exit, Goto, IInv, TypeOK, LockInv, MountsExclude,
     LockFileHasOwner, HasLockFile, IsFull
<1>12. ASSUME NEW p \in Procs, MountInit(p)
      PROVE  LockInv'
  BY <1>12 DEF MountInit, Goto, IInv, TypeOK, LockInv, MountsExclude, LockFileHasOwner,
     HasLockFile, IsFull
<1>13. ASSUME NEW p \in Procs, MountFails(p)
      PROVE  LockInv'
  BY <1>13 DEF MountFails, Exit, Goto, IInv, TypeOK, LockInv, MountsExclude,
     LockFileHasOwner, HasLockFile, IsFull
<1>14. ASSUME NEW p \in Procs, Destroy(p)
      PROVE  LockInv'
  BY <1>14 DEF Destroy, Goto, IInv, TypeOK, LockInv, MountsExclude, LockFileHasOwner,
     HasLockFile, IsFull
<1>15. ASSUME NEW p \in Procs, DestroyTable(p)
      PROVE  LockInv'
  BY <1>15 DEF DestroyTable, Exit, Goto, IInv, TypeOK, LockInv, MountsExclude,
     LockFileHasOwner, HasLockFile, IsFull
<1>16. ASSUME NEW p \in Procs, FixLock(p)
      PROVE  LockInv'
  BY <1>16 DEF FixLock, Exit, Goto, IInv, TypeOK, LockInv, MountsExclude, LockFileHasOwner,
     HasLockFile, IsFull
<1>17. ASSUME NEW p \in Procs, FixEnds(p)
      PROVE  LockInv'
  BY <1>17 DEF FixEnds, Exit, Goto, IInv, TypeOK, LockInv, MountsExclude, LockFileHasOwner,
     HasLockFile, IsFull
<1>18. ASSUME NEW p \in Procs, Kill(p)
      PROVE  LockInv'
  BY <1>18 DEF Kill, Exit, Goto, IInv, TypeOK, LockInv, MountsExclude, LockFileHasOwner,
     HasLockFile, IsFull
<1>19. CASE RemoveStaleLock
  BY <1>19 DEF RemoveStaleLock, IInv, TypeOK, LockInv, MountsExclude, LockFileHasOwner,
     HasLockFile, IsFull
<1>20. CASE UNCHANGED vars
  BY <1>20 DEF vars, IInv, TypeOK, LockInv, MountsExclude, LockFileHasOwner, HasLockFile,
     IsFull
<1>21. ASSUME NEW p \in Procs, CreateReport(p)
      PROVE  LockInv'
  BY <1>21 DEF CreateReport, Exit, Goto, IInv, TypeOK, LockInv, MountsExclude,
     LockFileHasOwner, HasLockFile, IsFull
<1>22. QED
  BY <1>1, <1>2, <1>3, <1>4, <1>5, <1>6, <1>7, <1>8, <1>9, <1>10,
     <1>11, <1>12, <1>13, <1>14, <1>15, <1>16, <1>17, <1>18, <1>19, <1>20, <1>21
  DEF Next, create, chpass, mount, fix

(* The flock is held by the run of fix that took it. *)
LEMMA FlockStep ==
    ASSUME IInv, [Next]_vars PROVE FlockInv'
<1>1. ASSUME NEW p \in Procs, NEW v \in Formats, NEW s \in Sizes, NEW who \in Credentials,
             CreateOpen(p, v, s, who)
      PROVE  FlockInv'
  BY <1>1 DEF CreateOpen, Goto, IInv, TypeOK, FlockInv
<1>2. ASSUME NEW p \in Procs, CreateWrite(p)
      PROVE  FlockInv'
  BY <1>2 DEF CreateWrite, Exit, Goto, IInv, TypeOK, FlockInv
<1>3. ASSUME NEW p \in Procs, CreateRoot(p)
      PROVE  FlockInv'
  BY <1>3 DEF CreateRoot, Exit, Goto, IInv, TypeOK, FlockInv
<1>4. ASSUME NEW p \in Procs, CreateFails(p)
      PROVE  FlockInv'
  BY <1>4 DEF CreateFails, Exit, Goto, IInv, TypeOK, FlockInv
<1>5. ASSUME NEW p \in Procs, NEW old \in Credentials, NEW new \in Credentials,
             ChpassRead(p, old, new)
      PROVE  FlockInv'
  BY <1>5 DEF ChpassRead, Goto, IInv, TypeOK, FlockInv
<1>6. ASSUME NEW p \in Procs, ChpassOpen(p)
      PROVE  FlockInv'
  BY <1>6 DEF ChpassOpen, Goto, IInv, TypeOK, FlockInv
<1>7. ASSUME NEW p \in Procs, ChpassWrite(p)
      PROVE  FlockInv'
  BY <1>7 DEF ChpassWrite, Goto, IInv, TypeOK, FlockInv
<1>8. ASSUME NEW p \in Procs, ChpassRename(p)
      PROVE  FlockInv'
  BY <1>8 DEF ChpassRename, Exit, Goto, IInv, TypeOK, FlockInv
<1>9. ASSUME NEW p \in Procs, ChpassFails(p)
      PROVE  FlockInv'
  BY <1>9 DEF ChpassFails, Exit, Goto, IInv, TypeOK, FlockInv
<1>10. ASSUME NEW p \in Procs, NEW who \in Credentials, NEW l \in {"mount_lock", "fix_lock"},
             ReadConfig(p, who, l)
      PROVE  FlockInv'
  BY <1>10 DEF ReadConfig, Goto, IInv, TypeOK, FlockInv
<1>11. ASSUME NEW p \in Procs, MountLock(p)
      PROVE  FlockInv'
  BY <1>11 DEF MountLock, Exit, Goto, IInv, TypeOK, FlockInv
<1>12. ASSUME NEW p \in Procs, MountInit(p)
      PROVE  FlockInv'
  BY <1>12 DEF MountInit, Goto, IInv, TypeOK, FlockInv
<1>13. ASSUME NEW p \in Procs, MountFails(p)
      PROVE  FlockInv'
  BY <1>13 DEF MountFails, Exit, Goto, IInv, TypeOK, FlockInv
<1>14. ASSUME NEW p \in Procs, Destroy(p)
      PROVE  FlockInv'
  BY <1>14 DEF Destroy, Goto, IInv, TypeOK, FlockInv
<1>15. ASSUME NEW p \in Procs, DestroyTable(p)
      PROVE  FlockInv'
  BY <1>15 DEF DestroyTable, Exit, Goto, IInv, TypeOK, FlockInv
<1>16. ASSUME NEW p \in Procs, FixLock(p)
      PROVE  FlockInv'
  BY <1>16, VolumeAssumption DEF FixLock, Exit, Goto, IInv, TypeOK, FlockInv
<1>17. ASSUME NEW p \in Procs, FixEnds(p)
      PROVE  FlockInv'
  BY <1>17, VolumeAssumption DEF FixEnds, Exit, Goto, IInv, TypeOK, FlockInv
<1>18. ASSUME NEW p \in Procs, Kill(p)
      PROVE  FlockInv'
  BY <1>18, VolumeAssumption DEF Kill, Exit, Goto, IInv, TypeOK, FlockInv
<1>19. CASE RemoveStaleLock
  BY <1>19 DEF RemoveStaleLock, IInv, TypeOK, FlockInv
<1>20. CASE UNCHANGED vars
  BY <1>20 DEF vars, IInv, TypeOK, FlockInv
<1>21. ASSUME NEW p \in Procs, CreateReport(p)
      PROVE  FlockInv'
  BY <1>21 DEF CreateReport, Exit, Goto, IInv, TypeOK, FlockInv
<1>22. QED
  BY <1>1, <1>2, <1>3, <1>4, <1>5, <1>6, <1>7, <1>8, <1>9, <1>10,
     <1>11, <1>12, <1>13, <1>14, <1>15, <1>16, <1>17, <1>18, <1>19, <1>20, <1>21
  DEF Next, create, chpass, mount, fix

(* No step loses the volume. *)
LEMMA VolumeStep ==
    ASSUME IInv, [Next]_vars PROVE VolumeInv'
<1>1. ASSUME NEW p \in Procs, NEW v \in Formats, NEW s \in Sizes, NEW who \in Credentials,
             CreateOpen(p, v, s, who)
      PROVE  VolumeInv'
  BY <1>1, ContentsAssumption DEF CreateOpen, Goto, Complete, IInv, TypeOK, VolumeInv,
     VolumeNeverLost, Creating, ChangingPassword, ReadsAs
<1>2. ASSUME NEW p \in Procs, CreateWrite(p)
      PROVE  VolumeInv'
  BY <1>2, GeneratedReadsBack DEF CreateWrite, Exit, Goto, SeenInv, Complete, IInv, TypeOK,
     VolumeInv, VolumeNeverLost, Creating, ChangingPassword, ReadsAs
<1>3. ASSUME NEW p \in Procs, CreateRoot(p)
      PROVE  VolumeInv'
  BY <1>3 DEF CreateRoot, Exit, Goto, IInv, TypeOK, VolumeInv, VolumeNeverLost, Creating,
     ChangingPassword, ReadsAs
<1>4. ASSUME NEW p \in Procs, CreateFails(p)
      PROVE  VolumeInv'
  BY <1>4 DEF CreateFails, Exit, Goto, IInv, TypeOK, VolumeInv, VolumeNeverLost, Creating,
     ChangingPassword, ReadsAs
<1>5. ASSUME NEW p \in Procs, NEW old \in Credentials, NEW new \in Credentials,
             ChpassRead(p, old, new)
      PROVE  VolumeInv'
  BY <1>5 DEF ChpassRead, Goto, CanRead, Complete, IInv, TypeOK, VolumeInv,
     VolumeNeverLost, Creating, ChangingPassword, ReadsAs
<1>6. ASSUME NEW p \in Procs, ChpassOpen(p)
      PROVE  VolumeInv'
  BY <1>6 DEF ChpassOpen, Goto, IInv, TypeOK, VolumeInv, VolumeNeverLost, Creating,
     ChangingPassword, ReadsAs
<1>7. ASSUME NEW p \in Procs, ChpassWrite(p)
      PROVE  VolumeInv'
  BY <1>7, GeneratedReadsBack DEF ChpassWrite, Goto, SeenInv, IInv, TypeOK, VolumeInv,
     VolumeNeverLost, Creating, ChangingPassword, ReadsAs
<1>8. ASSUME NEW p \in Procs, ChpassRename(p)
      PROVE  VolumeInv'
  BY <1>8 DEF ChpassRename, Exit, Goto, IInv, TypeOK, VolumeInv, VolumeNeverLost, Creating,
     ChangingPassword, ReadsAs
<1>9. ASSUME NEW p \in Procs, ChpassFails(p)
      PROVE  VolumeInv'
  BY <1>9 DEF ChpassFails, Exit, Goto, IInv, TypeOK, VolumeInv, VolumeNeverLost, Creating,
     ChangingPassword, ReadsAs
<1>10. ASSUME NEW p \in Procs, NEW who \in Credentials, NEW l \in {"mount_lock", "fix_lock"},
             ReadConfig(p, who, l)
      PROVE  VolumeInv'
  BY <1>10 DEF ReadConfig, Goto, IInv, TypeOK, VolumeInv, VolumeNeverLost, Creating,
     ChangingPassword, ReadsAs
<1>11. ASSUME NEW p \in Procs, MountLock(p)
      PROVE  VolumeInv'
  BY <1>11 DEF MountLock, Exit, Goto, IInv, TypeOK, VolumeInv, VolumeNeverLost, Creating,
     ChangingPassword, ReadsAs
<1>12. ASSUME NEW p \in Procs, MountInit(p)
      PROVE  VolumeInv'
  BY <1>12 DEF MountInit, Goto, IInv, TypeOK, VolumeInv, VolumeNeverLost, Creating,
     ChangingPassword, ReadsAs
<1>13. ASSUME NEW p \in Procs, MountFails(p)
      PROVE  VolumeInv'
  BY <1>13 DEF MountFails, Exit, Goto, IInv, TypeOK, VolumeInv, VolumeNeverLost, Creating,
     ChangingPassword, ReadsAs
<1>14. ASSUME NEW p \in Procs, Destroy(p)
      PROVE  VolumeInv'
  BY <1>14 DEF Destroy, Goto, IInv, TypeOK, VolumeInv, VolumeNeverLost, Creating,
     ChangingPassword, ReadsAs
<1>15. ASSUME NEW p \in Procs, DestroyTable(p)
      PROVE  VolumeInv'
  BY <1>15 DEF DestroyTable, Exit, Goto, IInv, TypeOK, VolumeInv, VolumeNeverLost,
     Creating, ChangingPassword, ReadsAs
<1>16. ASSUME NEW p \in Procs, FixLock(p)
      PROVE  VolumeInv'
  BY <1>16 DEF FixLock, Exit, Goto, IInv, TypeOK, VolumeInv, VolumeNeverLost, Creating,
     ChangingPassword, ReadsAs
<1>17. ASSUME NEW p \in Procs, FixEnds(p)
      PROVE  VolumeInv'
  BY <1>17 DEF FixEnds, Exit, Goto, IInv, TypeOK, VolumeInv, VolumeNeverLost, Creating,
     ChangingPassword, ReadsAs
<1>18. ASSUME NEW p \in Procs, Kill(p)
      PROVE  VolumeInv'
  BY <1>18 DEF Kill, Exit, Goto, IInv, TypeOK, VolumeInv, VolumeNeverLost, Creating,
     ChangingPassword, ReadsAs
<1>19. CASE RemoveStaleLock
  BY <1>19 DEF RemoveStaleLock, IInv, TypeOK, VolumeInv, VolumeNeverLost, Creating,
     ChangingPassword, ReadsAs
<1>20. CASE UNCHANGED vars
  BY <1>20 DEF vars, IInv, TypeOK, VolumeInv, VolumeNeverLost, Creating, ChangingPassword,
     ReadsAs
<1>21. ASSUME NEW p \in Procs, CreateReport(p)
      PROVE  VolumeInv'
  BY <1>21 DEF CreateReport, Exit, Goto, IInv, TypeOK, VolumeInv, VolumeNeverLost, Creating,
     ChangingPassword, ReadsAs
<1>22. QED
  BY <1>1, <1>2, <1>3, <1>4, <1>5, <1>6, <1>7, <1>8, <1>9, <1>10,
     <1>11, <1>12, <1>13, <1>14, <1>15, <1>16, <1>17, <1>18, <1>19, <1>20, <1>21
  DEF Next, create, chpass, mount, fix

-----------------------------------------------------------------------------
(* IInv holds in every reachable state, for any processes and credentials. *)
THEOREM InductiveInvariant == Spec => []IInv
<1>1. Init => IInv
  BY Initially
<1>2. IInv /\ [Next]_vars => IInv'
  BY TypeStep, SeenStep, LockStep, FlockStep, VolumeStep DEF IInv
<1>3. QED
  BY <1>1, <1>2, PTL DEF Spec

(* Every reachable state is well typed: the values of the configuration file,
   the locks and the commands' progress.                                    *)
THEOREM TypeCorrect == Spec => []TypeOK
<1>1. IInv => TypeOK
  BY DEF IInv
<1>2. QED
  BY <1>1, InductiveInvariant, PTL

(* A volume whose creation was reported can be opened ever after, with the same
   master key, format and sizes, however many processes run create, chpass,
   mount and fix on it and are killed.                                      *)
THEOREM VolumeIsNeverLost == Spec => []VolumeNeverLost
<1>1. IInv => VolumeNeverLost
  BY DEF IInv, VolumeInv
<1>2. QED
  BY <1>1, InductiveInvariant, PTL

(* The lock file keeps any number of mounts of a full volume apart. *)
THEOREM MountsExcludeEachOther == Spec => []MountsExclude
<1>1. IInv => MountsExclude
  BY DEF IInv, LockInv
<1>2. QED
  BY <1>1, InductiveInvariant, PTL

(* A lock file that no mount owns was leaked by a kill or a failed fuse_main,
   and a running mount has its lock file.                                   *)
THEOREM LockFileIsOwned == Spec => []LockFileHasOwner
<1>1. IInv => LockFileHasOwner
  BY DEF IInv, LockInv
<1>2. QED
  BY <1>1, InductiveInvariant, PTL

(* The flock keeps any number of runs of fix apart. *)
THEOREM FixesExcludeEachOther == Spec => []FixesExclude
<1>1. IInv => FixesExclude
  BY DEF IInv, FlockInv, FixesExclude
<1>2. QED
  BY <1>1, InductiveInvariant, PTL

=============================================================================
