-------------------------------- MODULE Volume --------------------------------
(***************************************************************************)
(* A data directory and the commands that work on it (commands.cpp): its   *)
(* configuration file, the lock file of a mount, the flock that fix takes, *)
(* and the directory's root file. Several processes run create, mount,     *)
(* chpass and fix at the same time, one command each; every system call    *)
(* that others can see is a step of its own, each may fail where the code  *)
(* handles it, and a process may be killed between any two.                *)
(*                                                                         *)
(* Key derivation and wrapping are perfect: a configuration opens with the *)
(* credentials it was written with and with no others. Format 1 stands for *)
(* the formats without sizes in the configuration, 3 for the other full    *)
(* formats and 4 is the lite format.                                       *)
(***************************************************************************)
EXTENDS Naturals, FiniteSets

CONSTANTS
    Procs,      \* processes
    Passwords,  \* what users type
    KeyFiles,   \* contents of key files
    Formats,    \* format versions users create
    Space,      \* EMPTY_PASSWORD_WHEN_KEY_FILE_IS_USED
    Empty,      \* a configuration file that was created and not written
    Absent      \* no file, no key file, nothing

ASSUME VolumeAssumption ==
    /\ Formats \subseteq {1, 3, 4}
    /\ Absent \notin Procs
    /\ Absent \notin KeyFiles

VARIABLES
    config,    \* the configuration file: Absent, Empty or its contents
    tmp,       \* the temporary configuration file of every process
    lockFile,  \* whether LOCK_FILENAME exists
    flock,     \* the process that holds the lock of the directory
    root,      \* whether the underlying files of the root exist
    pc,        \* where every process is in its command
    seen,      \* what every process has read or chosen: an FSConfig
    cred,      \* the credentials a process was given, for chpass the new ones
    volume,    \* the FSConfig of the volume whose creation was reported
    leaked     \* whether a process that made the lock file ended without removing it

vars == <<config, tmp, lockFile, flock, root, pc, seen, cred, volume, leaked>>

(* get_password: a password, a key file with the fixed password, or both. *)
Credentials ==
    (Passwords \X (KeyFiles \cup {Absent})) \cup ({Space} \X KeyFiles)

(* Block and IV sizes: the fixed ones of format 1, or the user's. *)
Sizes == {"fixed", "chosen"}

FSConfig == [version : Formats, sizes : Sizes, master_key : Procs]

(* A configuration file that was written. *)
Contents ==
    [version : Formats, sizes : Sizes \cup {Absent},
     wrapped : [with : Credentials, header : {"version=1", "version=4"}, key : Procs]]

ASSUME ContentsAssumption ==
    /\ Absent \notin Contents
    /\ Empty \notin Contents
    /\ Absent \notin Sizes
    /\ Absent # Empty

(* The associated data is the same for formats 1 to 3. *)
get_version_header(v) == IF v < 4 THEN "version=1" ELSE "version=4"

(* generate_config: the master key wrapped with a key derived from the
   credentials; the sizes are stored from format 2 on.                      *)
generate_config(c, who) ==
    [version |-> c.version, sizes |-> IF c.version >= 2 THEN c.sizes ELSE Absent,
     wrapped |-> [with |-> who, header |-> get_version_header(c.version), key |-> c.master_key]]

Complete(f) == f \notin {Absent, Empty}

(* parse_config verifies; read_config throws if the file is no JSON or the
   verification fails.                                                      *)
CanRead(f, who) ==
    /\ Complete(f)
    /\ f.wrapped.with = who
    /\ f.wrapped.header = get_version_header(f.version)

read_config(f) ==
    [version |-> f.version,
     sizes |-> IF f.version = 1 \/ f.sizes = Absent THEN "fixed" ELSE f.sizes,
     master_key |-> f.wrapped.key]

IsFull(p) == seen[p].version < 4

Init ==
    /\ config = Absent /\ lockFile = FALSE /\ flock = Absent /\ root = FALSE
    /\ tmp = [p \in Procs |-> Absent]
    /\ pc = [p \in Procs |-> "idle"]
    /\ seen = [p \in Procs |-> Absent]
    /\ cred = [p \in Procs |-> Absent]
    /\ volume = Absent
    /\ leaked = FALSE

Goto(p, l) == pc' = [pc EXCEPT ![p] = l]

(* The command ends: nothing of the process remains but its files. *)
Exit(p) ==
    /\ Goto(p, "idle")
    /\ seen' = [seen EXCEPT ![p] = Absent]
    /\ cred' = [cred EXCEPT ![p] = Absent]

-----------------------------------------------------------------------------
(* CreateCommand: refuse sizes with format 1, then create the configuration
   file exclusively. If it exists the command throws, before the guard that
   removes it.                                                              *)
CreateOpen(p, v, s, who) ==
    /\ pc[p] = "idle"
    /\ v = 1 => s = "fixed"
    /\ config = Absent
    /\ config' = Empty
    /\ Goto(p, "create_write")
    /\ seen' = [seen EXCEPT ![p] = [version |-> v, sizes |-> s, master_key |-> p]]
    /\ cred' = [cred EXCEPT ![p] = who]
    /\ UNCHANGED <<tmp, lockFile, flock, root, volume, leaked>>

(* write_config; a lite volume is finished with that. *)
CreateWrite(p) ==
    /\ pc[p] = "create_write"
    /\ config' = generate_config(seen[p], cred[p])
    /\ IF IsFull(p)
       THEN Goto(p, "create_root") /\ UNCHANGED <<seen, cred, volume>>
       ELSE Exit(p) /\ volume' = seen[p]
    /\ UNCHANGED <<tmp, lockFile, flock, root, leaked>>

(* create_as makes the underlying files of the root of a full volume,
   exclusively.                                                             *)
CreateRoot(p) ==
    /\ pc[p] = "create_root"
    /\ ~root
    /\ root' = TRUE
    /\ Goto(p, "create_report")
    /\ UNCHANGED <<config, tmp, lockFile, flock, seen, cred, volume, leaked>>

(* The root's header is written, and create returns. *)
CreateReport(p) ==
    /\ pc[p] = "create_report"
    /\ volume' = seen[p]
    /\ Exit(p)
    /\ UNCHANGED <<config, tmp, lockFile, flock, root, leaked>>

(* An exception in create removes whatever is at the path of the
   configuration file, and no file of the root.                             *)
CreateFails(p) ==
    /\ pc[p] \in {"create_write", "create_root", "create_report"}
    /\ config' = Absent
    /\ Exit(p)
    /\ UNCHANGED <<tmp, lockFile, flock, root, volume, leaked>>

create(p) ==
    \/ \E v \in Formats, s \in Sizes, who \in Credentials : CreateOpen(p, v, s, who)
    \/ CreateWrite(p) \/ CreateRoot(p) \/ CreateReport(p) \/ CreateFails(p)

-----------------------------------------------------------------------------
(* chpass reads the configuration with the old credentials. Users change the
   password of a volume only after its creation was reported to them.       *)
ChpassRead(p, old, new) ==
    /\ pc[p] = "idle"
    /\ volume # Absent
    /\ CanRead(config, old)
    /\ seen' = [seen EXCEPT ![p] = read_config(config)]
    /\ cred' = [cred EXCEPT ![p] = new]
    /\ Goto(p, "chpass_open")
    /\ UNCHANGED <<config, tmp, lockFile, flock, root, volume, leaked>>

(* Mutant: the configuration itself is opened for writing. *)
ChpassOpenInPlace(p) ==
    /\ pc[p] = "chpass_open"
    /\ tmp' = [tmp EXCEPT ![p] = Empty]
    /\ config' = Empty
    /\ Goto(p, "chpass_write")
    /\ UNCHANGED <<lockFile, flock, root, seen, cred, volume, leaked>>

(* A new file under a random name. *)
ChpassOpen(p) ==
    /\ pc[p] = "chpass_open"
    /\ tmp' = [tmp EXCEPT ![p] = Empty]
    /\ Goto(p, "chpass_write")
    /\ UNCHANGED <<config, lockFile, flock, root, seen, cred, volume, leaked>>

ChpassWrite(p) ==
    /\ pc[p] = "chpass_write"
    /\ tmp' = [tmp EXCEPT ![p] = generate_config(seen[p], cred[p])]
    /\ Goto(p, "chpass_rename")
    /\ UNCHANGED <<config, lockFile, flock, root, seen, cred, volume, leaked>>

(* The temporary file replaces the configuration in one step. *)
ChpassRename(p) ==
    /\ pc[p] = "chpass_rename"
    /\ config' = tmp[p]
    /\ tmp' = [tmp EXCEPT ![p] = Absent]
    /\ Exit(p)
    /\ UNCHANGED <<lockFile, flock, root, volume, leaked>>

(* An exception removes the temporary file. *)
ChpassFails(p) ==
    /\ pc[p] \in {"chpass_write", "chpass_rename"}
    /\ tmp' = [tmp EXCEPT ![p] = Absent]
    /\ Exit(p)
    /\ UNCHANGED <<config, lockFile, flock, root, volume, leaked>>

chpass(p) ==
    \/ \E old, new \in Credentials : ChpassRead(p, old, new)
    \/ ChpassOpen(p) \/ ChpassWrite(p) \/ ChpassRename(p) \/ ChpassFails(p)

-----------------------------------------------------------------------------
(* mount and fix read the configuration; fix refuses the lite format. *)
ReadConfig(p, who, next) ==
    /\ pc[p] = "idle"
    /\ CanRead(config, who)
    /\ next = "fix_lock" => config.version < 4
    /\ seen' = [seen EXCEPT ![p] = read_config(config)]
    /\ Goto(p, next)
    /\ UNCHANGED <<config, tmp, lockFile, flock, root, cred, volume, leaked>>

(* Mutant: the lock file is opened whether or not it exists. *)
MountLockAnyway(p) ==
    /\ pc[p] = "mount_lock"
    /\ Goto(p, "mount_init")
    /\ lockFile' = IsFull(p)
    /\ UNCHANGED <<config, tmp, flock, root, seen, cred, volume, leaked>>

(* A full volume: the lock file is created exclusively. A lite one has none. *)
MountLock(p) ==
    /\ pc[p] = "mount_lock"
    /\ IF ~IsFull(p)
       THEN Goto(p, "mount_init") /\ UNCHANGED <<lockFile, seen, cred>>
       ELSE IF lockFile
       THEN Exit(p) /\ UNCHANGED lockFile
       ELSE Goto(p, "mount_init") /\ lockFile' = TRUE /\ UNCHANGED <<seen, cred>>
    /\ UNCHANGED <<config, tmp, flock, root, volume, leaked>>

(* fuse_main calls init, which makes the FileSystemContext. *)
MountInit(p) ==
    /\ pc[p] = "mount_init"
    /\ Goto(p, "serving")
    /\ UNCHANGED <<config, tmp, lockFile, flock, root, seen, cred, volume, leaked>>

(* fuse_main fails before init: only the FileSystemContext would have removed
   the lock file.                                                           *)
MountFails(p) ==
    /\ pc[p] = "mount_init"
    /\ leaked' = (leaked \/ IsFull(p))
    /\ Exit(p)
    /\ UNCHANGED <<config, tmp, lockFile, flock, root, volume>>

(* Mutant: the destructor leaves the lock file. *)
DestroyKeepsLock(p) ==
    /\ pc[p] = "serving"
    /\ Goto(p, "destroying")
    /\ UNCHANGED <<config, tmp, lockFile, flock, root, seen, cred, volume, leaked>>

(* destroy: the body of the destructor removes the lock file, and only then
   are the members destroyed, the file table among them.                    *)
Destroy(p) ==
    /\ pc[p] = "serving"
    /\ lockFile' = IF IsFull(p) THEN FALSE ELSE lockFile
    /\ Goto(p, "destroying")
    /\ UNCHANGED <<config, tmp, flock, root, seen, cred, volume, leaked>>

(* The destructor of the file table writes what is left. *)
DestroyTable(p) ==
    /\ pc[p] = "destroying"
    /\ Exit(p)
    /\ UNCHANGED <<config, tmp, lockFile, flock, root, volume, leaked>>

mount(p) ==
    \/ \E who \in Credentials : ReadConfig(p, who, "mount_lock")
    \/ MountLock(p) \/ MountInit(p) \/ MountFails(p)
    \/ Destroy(p) \/ DestroyTable(p)

-----------------------------------------------------------------------------
(* Mutant: fix does not ask for the lock of the directory. *)
FixLockUnchecked(p) ==
    /\ pc[p] = "fix_lock"
    /\ flock' = p /\ Goto(p, "fixing") /\ UNCHANGED <<seen, cred>>
    /\ UNCHANGED <<config, tmp, lockFile, root, volume, leaked>>

(* OSService::lock is an flock that does not wait; fix does not look at the
   lock file.                                                               *)
FixLock(p) ==
    /\ pc[p] = "fix_lock"
    /\ IF flock = Absent THEN flock' = p /\ Goto(p, "fixing") /\ UNCHANGED <<seen, cred>>
                         ELSE Exit(p) /\ UNCHANGED flock
    /\ UNCHANGED <<config, tmp, lockFile, root, volume, leaked>>

(* The table is destroyed before the directory that holds the lock. *)
FixEnds(p) ==
    /\ pc[p] = "fixing"
    /\ flock' = Absent
    /\ Exit(p)
    /\ UNCHANGED <<config, tmp, lockFile, root, volume, leaked>>

fix(p) ==
    \/ \E who \in Credentials : ReadConfig(p, who, "fix_lock")
    \/ FixLock(p) \/ FixEnds(p)

-----------------------------------------------------------------------------
HasLockFile(p) == pc[p] \in {"mount_init", "serving"} /\ IsFull(p)

(* The process is killed: its flock goes, its files stay. *)
Kill(p) ==
    /\ pc[p] # "idle"
    /\ flock' = IF flock = p THEN Absent ELSE flock
    /\ leaked' = (leaked \/ HasLockFile(p))
    /\ Exit(p)
    /\ UNCHANGED <<config, tmp, lockFile, root, volume>>

(* "Or remove the lock file manually if you are sure no other instances are
   holding the lock."                                                       *)
RemoveStaleLock ==
    /\ lockFile
    /\ \A p \in Procs : ~HasLockFile(p)
    /\ lockFile' = FALSE
    /\ leaked' = FALSE
    /\ UNCHANGED <<config, tmp, flock, root, pc, seen, cred, volume>>

Next ==
    \/ \E p \in Procs :
          create(p) \/ chpass(p) \/ mount(p) \/ fix(p) \/ Kill(p)
    \/ RemoveStaleLock

Spec == Init /\ [][Next]_vars

-----------------------------------------------------------------------------
Labels == {"idle", "create_write", "create_root", "create_report",
           "chpass_open", "chpass_write", "chpass_rename",
           "mount_lock", "mount_init", "serving", "destroying", "fix_lock", "fixing"}

(* The values every variable may take. *)
TypeOK ==
    /\ config \in {Absent, Empty} \cup Contents
    /\ tmp \in [Procs -> {Absent, Empty} \cup Contents]
    /\ lockFile \in BOOLEAN /\ root \in BOOLEAN /\ leaked \in BOOLEAN
    /\ flock \in Procs \cup {Absent}
    /\ pc \in [Procs -> Labels]
    /\ seen \in [Procs -> FSConfig \cup {Absent}]
    /\ cred \in [Procs -> Credentials \cup {Absent}]
    /\ volume \in FSConfig \cup {Absent}

(* Once create has reported success, the configuration file gives back the
   volume's master key, format and sizes: no change of password, failed
   command or kill between two calls ever loses them, and every later chpass
   only wraps them anew.                                                    *)
VolumeNeverLost ==
    volume # Absent => Complete(config) /\ read_config(config) = volume

(* Two mounts never serve a full volume at the same time, with lock files that
   kills left and users removed.                                            *)
MountsExclude ==
    \A p, q \in Procs : HasLockFile(p) /\ HasLockFile(q) => p = q

(* A lock file without a mount was left by a kill or a failed fuse_main: no
   other order of mounts, unmounts and manual removals leaks one, and a mount
   that runs always has its file.                                           *)
LockFileHasOwner ==
    /\ lockFile => leaked \/ \E p \in Procs : HasLockFile(p)
    /\ \A p \in Procs : HasLockFile(p) => lockFile

(* The flock of the directory keeps two runs of fix apart, whatever was killed
   before: a run of fix holds it to its end.                                *)
FixesExclude ==
    \A p, q \in Procs : pc[p] = "fixing" /\ pc[q] = "fixing" => p = q /\ flock = p

=============================================================================
