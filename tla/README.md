# securefs in TLA+

This directory holds a verification project for securefs, a file system that
stores encrypted files in an ordinary directory and is mounted through FUSE.
It models the parts of `src/sources/` in which state survives from one call to
the next, checks them with TLC on small instances, and proves with TLAPS, for every
value of the constants, the central properties of the file table, of the full format's
namespace and its crashes, of the encrypted streams of both formats, of the lite format's
locks, and of the commands' locks and configuration.

`PROJECT.json` lists the components, the runs, for every definition the lines
of source it models, the hazards, the findings and the theorems.

## 1. The system

securefs has two storage formats.

* The **full format** (versions 1 to 3). Every file, directory and symbolic
  link is a pair of underlying files named by a random 256-bit id: a data file
  of encrypted blocks, and a meta file with an HMAC, an encrypted header
  (mode, owner, link count, times, B-tree root) and one IV and MAC per block.
  FUSE runs single threaded.
* The **lite format** (version 4). Underlying files and directories mirror the
  visible ones, names are encrypted with AES-SIV and every block carries its own
  IV and MAC. FUSE runs on several threads.

| Component | State it keeps | Operations | What makes it correct |
|---|---|---|---|
| File table (`file_table.*`) | `m_files` (id to object), `m_closed_ids` (queue of unreferenced objects), reference counts | `open_as`, `create_as`, `close`, `eject`, `gc`, `finalize`, destructor | no object is destroyed while a caller holds it; no header update is lost; an unlinked file goes with its last reference; the cache stays bounded |
| Files (`files.*`) | cached header, dirty flag, timestamps | setters, `flush`, `unlink`, xattr, `utimens` | a clean header is the one on disk |
| Full format operations (`operations.cpp`) | open handles; namespace in the directories | all FUSE calls | link counts equal the number of names, no dangling entries, no orphans, a kill takes a last path only by the files it leaves impossible to open |
| B-tree directory (`btree_dir.*`) | pages, free list, node cache | get, add, remove, iterate, `flush`, `rebuild` | behaves as a map; pages are neither leaked nor shared |
| Crypt streams (`streams.*`) | data and meta file, HMAC dirty flag | read, write, resize, flush | reads back what was written; every block decrypts; a clean meta file is covered by its HMAC |
| Lite stream (`lite_stream.*`) | one underlying file: header, blocks with IV and MAC | open, read, write, resize | reads back what was written; a crash costs at most one block |
| Lite file system (`lite_fs.*`, `lite_operations.cpp`) | the underlying tree; open files with session key, mutex and flock | all FUSE calls, on several threads | callers see a plain tree of files; calls on one file are atomic and return |
| Commands (`commands.cpp`) | configuration file, lock file, flock of the directory | create, chpass, mount, fix | a volume can always be opened; mounts exclude each other; fix restores the namespace |
| Platform layer (`unix.cpp`) | the underlying directory | system calls | modelled as far as the other parts use it |
| Crypto, strings, logging | none of their own | | base32 and case folding only |

How they interact: a FUSE operation opens the directories on its path and the
file itself through the file table (`AutoClosedFileBase` guards), changes the
objects, and the guards' destructors close them again. The last close finalizes
an object: it is flushed, or, without links, its underlying files are removed.
Directories store their entries in a B-tree in the crypt stream of the directory
file; the B-tree's root and free list are header fields of the same file. `fix`
uses the same table to repair what a crash left. A lite handler translates its path
and makes one call on the underlying directory, or locks an open file and works on its
stream. The commands meet in the data directory only: in the configuration file,
the lock file of a mount and the flock that `fix` takes.

What is hard: the order in which guards are closed and therefore written
(crashes), pages that are written before the HMAC that covers them, objects that
stay cached after their last close and are opened again or evicted, unlinking
what is open, flushes that fail, parent pointers that exist only in the node
cache, free pages chained in both directions, sparse blocks, several threads and
descriptors on one file of the lite format, and processes that fail or are
killed between two system calls. `PROJECT.json` lists each of these as a hazard
at its line.

## 2. Modules

| Module | Models | Notes |
|---|---|---|
| `FileTable` | `FileTable` and the header part of `FileBase` | objects live in a heap addressed by pointers, so that a stale pointer can be told from a live one |
| `OpenFiles` | abstract: files and references, without a cache | implemented by `FileTable` |
| `FileTableProofs` | invariants of `FileTable`, and that it implements `OpenFiles` | TLAPS |
| `FullFS` | FUSE operations of the full format on the namespace | uses that the cache is invisible |
| `FullFSProofs` | invariants of `FullFS` | TLAPS |
| `FullFSCrashProofs` | the order of writes of `FullFS` | TLAPS, extends `FullFSProofs` |
| `BtreeDir` | `BtreeDirectory` | recursive operators, TLC only |
| `DirectoryMap` | abstract: a map from names to entries | implemented by `BtreeDir` |
| `Fix` | the command fix, on what a killed mount or a killed fix left | extends `FullFS` |
| `FixProofs` | invariants of `Fix`, and the paths it keeps | TLAPS, extends `FullFSProofs` |
| `StreamBytes`, `BlockBasedStream` | bytes of an underlying file; `BlockBasedStream` for both formats | parameterised by the size and the block reader of the format |
| `CryptStream` | `CryptStream`, the AES-GCM stream with its header, `HMACStream` | instantiates `BlockBasedStream` |
| `CryptStreamProofs` | invariants of `CryptStream`, and that it implements `ByteStream` | TLAPS |
| `LiteStream` | the AES-GCM stream of the lite format | instantiates `BlockBasedStream` |
| `LiteStreamProofs` | invariants of `LiteStream`, what a crash leaves, and that it implements `ByteStream` | TLAPS |
| `ByteStream` | abstract: a sequence of bytes | implemented by `CryptStream` and by `LiteStream` |
| `LiteFile` | open files of the lite format, threads, mutexes, flocks | fairness |
| `LiteFileProofs` | invariants of `LiteFile` | TLAPS |
| `LiteNames` | base32, encrypted names, paths, case folding | |
| `PosixTree` | the calls of `OSService` on a tree of files | used on encrypted and on plain names |
| `LiteFS` | `lite::FileSystem` and its handlers on the tree | extends `LiteNames`, instantiates `PosixTree` |
| `PlainTree` | abstract: a tree of files under the names callers use | implemented by `LiteFS` |
| `Volume` | create, chpass, mount, fix on one data directory, by several processes | |
| `VolumeProofs` | proofs about `Volume` | TLAPS |
| `MC...` | instances for TLC | |

The modules stack as the code does. `FullFS` takes from `FileTable` that the
cache is invisible (`ImplementsOpenFiles`) and from `BtreeDir` that a directory
is a map (`ImplementsDirectory`); `BtreeDir` reads and writes whole pages of a
stream that keeps what is written (`ImplementsByteStream`). `LiteFS` leaves the
contents of files to `LiteStream`, and `LiteFile` takes from it that a stream is a
sequence of blocks. `Volume` leaves what fix does to `Fix` and what a mount serves to
`FullFS` and `LiteFS`.

### FileTable

`disk` is what the underlying directory holds for an id: nothing, files without
a header, or a header. `heap`, `m_files` and `m_closed_ids` are the C++ state,
`held` counts the references callers hold to each object, and `unsafe` collects
ids whose write-back on close threw. A header is a link count and one attribute
that stands for all other cached fields. One action per path of `open_as`
(cached, loaded, failing), `create_as`, `close` (shared, last with and without
links, last with a failing flush), the setters, `link`, `unlink`, `flush` and
the destructor; `gc` and `eject` are part of the close that triggers them.
A header that was never written reads as all ones, as in `read_header`, and the
unsigned link count wraps below zero.

The callers are the environment. They close only what they opened, unlink a file
only while it has a name, and open an id under another type than the cached one
only after closing it, as `fix` does. These are guards of the actions.

### FullFS

`mem` is every file as the mounted file system shows it, `disk` as the underlying
directory holds it, `handles` counts the kernel's open handles, and `todo` lists
the guards the running operation has yet to close, in the order in which the C++
destructors run. An operation changes `mem` at once and then closes its guards
one step at a time (`Settle`), each of which may write or remove one file.

The code writes through: `allocate_page`, `deallocate_page` and `write_free_page` write pages of
a directory and resize its stream during the operation (`btree_dir.cpp:146`, `155`, `183`), and
only the flush in the close writes the HMAC (`streams.cpp:110-122`), without which the file does not open
again (`streams.cpp:93-94`). `disk` is therefore every file as its last HMAC covers it. A kill
finds each file as `disk` has it, or, if it was open or about to be closed (`Unsealed`), refused
because its HMAC does not fit or its data file is already gone: what it leaves is
`Without(disk, W)` for some set `W` of unsealed files. `CrashKeepsPaths` is about every such `W`:
a step takes the last path around `W` to a file from the disk only if memory has no path around
`W` to it before or after the step. So in a rename from `d1` to `d2`, a kill after the close of
`d2` may leave `d1` refused; what else lies in `d1` is then lost with it, and the file that was
moved is not. Nothing protects the root itself: a kill while an operation on the root runs may leave
a volume that cannot be opened at all.

Paths are resolved to a reachable directory and a
last component. The kernel's own checks on rename (no directory below itself, no
replaced ancestor) are guards marked external. Mode, owner and times are one attribute;
read, write and O_TRUNC change it through a handle without writing it. That a lookup or a
change of an entry touches the times of the directory is left out: they are written with the
directory. The read-only option only refuses calls and is not modelled. What a path can
lead to (`ReachableIn`) is the least set of files that has the root and is closed under
entries. `HandleLeft` bounds the handles the kernel holds, `MaxNlink` the links.

### BtreeDir

A directory is one record that the operators transform as the methods transform
the object: the pages, the node cache, the root, the start and length of the free
list, and `bad`, which is set where the code throws
`CorruptedDirectoryException`. A page is a node, a link of the free list or
zeros. Parent pointers are in the cached nodes only. `flush` evicts the cache when
it is large and rebuilds the directory when it has many free pages; `reopen` is
destruction of the object and a new one on the same pages.

### CryptStream

Encryption is perfect: a stored byte is its plaintext, a MAC is the plaintext it
was computed over, and decryption succeeds exactly when the stored block is what
the MAC covers. A byte made by extending the underlying file is a `Hole`. A byte
of the buffer that was never initialized is `Garbage`, so that encrypting one
would show. The meta file is the header followed by the MACs, at the positions
`meta_position_for_iv` computes. `covered` says whether HMACStream's constructor accepts
the meta file: a fresh IV makes the HMAC stale until the next flush. A kill closes the
stream without that flush, between two calls or in the middle of one, and a file that is not covered
then never opens again. One kill leaves a file that does open and is neither as before the call nor
as after it: a truncation to whole blocks writes no IV, and cuts the data file
(`streams.cpp:448`) before the meta file (`450`). `killInTruncation` comes between the two. The MACs of the
blocks that are gone then stay, and if the file later grows over a hole, such a MAC lies over
zeros and the block does not decrypt. `intact` is the number of blocks before every such cut, and the
properties say what the code does keep: all blocks before it. A call
that reaches the block limit fails in the middle and leaves what it did. The model is of a
mount with integrity checks on.

### Fix

`Mounted` is a step of `FullFS`; `CrashThenFix` kills the mount, or a running fix, and
starts fix on the disk it left. From then on `mem` is what the objects in the file table
hold and `disk` what the HMACs cover. The files that the kill left impossible to open (`refused`) are in
neither: fix meets their entries as ones that cannot be opened, and their meta files as files that no
entry names. To recover or delete such a file throws, and only ignoring it goes on (`OfferRefused`).
A kill of fix itself (`KillRefuses`) may leave refused the directories it holds that changed, the root
to which `recover` added entries among them, and one file whose close was writing or removing
it; if the root is refused, the next fix ends at once. `get_as` is noexcept, so that a
directory's entry to another type of file ends the process in `fix_hardlink_count`, with the held
directories not closed (`Terminate`). `stack` is the recursion of `fix_helper` and
`fix_hardlink_count`, with the entries each frame has yet to look at; a directory is
sealed when its frame ends, the root when fix ends. Every question can be answered either way. Opening a directory
the recursion still holds destroys the object it uses; this ends the run as "undefined".

`FixKeepsFiles` is that no step of fix takes a file's last path, and a kill of fix only paths through the
files that it leaves refused. It is about the paths all of whose files have links, because a file without links
goes when it is closed. A directory can be without links and still have entries on disk: a
rename onto a directory with entries while clients have both open, an fsync of the replaced one, and a
kill. fix removes that directory when it closes it, and what is below loses this path.

### LiteStream

The underlying file is a sequence of cells: header, zeros, or the i-th cell of the encryption
of a plaintext as a block, so that a block decrypts exactly when all its cells belong together
and to its number. `moments` are the contents of the underlying file after every single
write of the last call: what a crash in the middle can leave.

### LiteFile

Every thread runs one call at a time, in the steps at which others can interfere: the
underlying open, the flock of the constructor, reading and writing the header, the mutex,
the flock, each block, and the unlock. Calls that fail (flock, authentication) go the way
their exception takes. `exposed` marks files that an open with O_TRUNC cut while other
Files were on them. A header draws a session key that no header had before; `Keys` bounds
how many headers are written.

### LiteNames, LiteFS

base32 is translated bit by bit, because the length and the uniqueness of a stored name depend
on it; AES-SIV is a stand-in whose IV is computed from the name and checked. Every handler is one
action that translates its paths and makes one call of `PosixTree`. The underlying
directory also holds foreign names that are hidden, do not decode or do not decrypt.

### Volume

Several processes run one command each, and every system call another process can see is a
step: the exclusive creation of the configuration, its writing, the root's creation and the end of
create, the temporary file and the rename of chpass, the lock file, the flock. A step fails where the code
handles a failure, and a process may be killed between any two; a user removes a lock file
that no mount holds, as the error message tells him to. Credentials are a password, a key
file, or both. Users run chpass on a volume whose creation was reported to them.

## 3. Runs

| Run | Checks | Instance |
|---|---|---|
| `file_table` | `TypeOK`, `RefCountExact`, `ClosedQueueSound`, `CacheIsBounded`, `CleanAgreesWithDisk`, `UnlinkedFilesGo`, `ImplementsOpenFiles` | two files, two attribute values, a queue of two, evicted together, two references |
| `full_fs` | `TypeOK`, `LinkCountExact`, `NoDanglingEntries`, `NoOrphans`, `HandlesStayValid`, `DurableWhenIdle`, `CrashKeepsPaths` | root and three files, two names, two links, one handle, two attribute values |
| `rename_nonempty` | violation of `OnlyEmptyDirsGo` | as `full_fs`, clients rename onto directories with entries |
| `btree` | `NeverCorrupted`, `PagesAccounted`, `BtreeSound`, `CacheCoherent`, `ImplementsDirectory` | nodes of two to five entries, from 0, 9, 20 and 24 names |
| `btree_iterate` | violation of `IterationStops` | as `btree` |
| `crypt_stream` | `BlocksAuthentic`, `MetaFitsData`, `CleanMetaIsCovered`, `HeaderKept`, `ImplementsByteStream` | blocks of two bytes, a limit of three blocks, sizes up to seven, one header |
| `fix` | `FixRepairs`, `FixKeepsFiles`, `FixedCounts`, `NeverReopensHeld` | root and three files, two names besides those of recovered files, one handle |
| `fix_recover` | violation of `RecoveredFilesOpen` | as `fix` |
| `volume` | `VolumeNeverLost`, `MountsExclude`, `LockFileHasOwner`, `FixesExclude` | two processes, one password, one key file, formats 1, 3 and 4 |
| `lite_stream` | `LiteBlocksAuthentic`, `CrashContained`, `ImplementsByteStream` | blocks of three bytes, header and overhead of two, a limit of two blocks, sizes up to ten |
| `lite_file` | `SessionKeysAgree`, `ReadsAtomic`, `CallsReturn` | two threads, two Files on one name, two values |
| `lite_fs` | `ForeignUntouched`, `ImplementsPlainTree` | six paths, three inodes, four foreign names, with and without case folding |

Why the bounds are enough. *File table*: `eject` and `open_as` act on one id at a
time, and their interplay needs one file that is evicted and another that is
reopened; two references distinguish the last close from the others. *FullFS, Fix*: an operation names at most two directories and two files; with
three files below the root there can be a directory in a directory, a second link and a
replaced file at once, and fix can meet a cycle, an orphan with an entry and a directory with two
names. `UINT32_MAX` is larger than every legal count, so that a wrapped count
shows. *BtreeDir*: the algorithm depends on `BTREE_MAX_NUM_ENTRIES` only through
comparisons; 5 is the smallest odd value for which both halves of a split are legal
nodes (the code has 13). From 20 and 24 names inner nodes split, rotate and merge and the
third level comes and goes. *LiteStream*: three bytes per block give a first, an
inner and a last byte. *CryptStream*: two bytes give a write that begins and one that ends inside
a block. In both, the legal blocks and part of one more give a written block, a
hole between, and the limit. *LiteFile*: two threads and two Files give every pair of
calls on one File and on two descriptors of one file; a write and a read cover two blocks, so
that a read can fall between the halves of a write. *LiteFS*: names that differ in case only,
a dotted one, the longest that is allowed, and one too long for a link target. *Volume*: each
exclusion is between two processes. The proofs (section 5) remove the bounds of all but
*BtreeDir* and *LiteFS*.
Views leave out the last call's result, on which no step depends; symmetry is over
interchangeable ids, pointers, names and processes and is used with invariants and action
properties only.

Every property of a passing run has a mutant: a definition with a plausible mistake
under which TLC finds the property violated.

**Deadlock** is checked except in `fix`, which ends, and in `volume`, where a file that a
killed create left makes every command refuse.

**Fairness.** The full format is single threaded and every handler runs to its end, so
its promises are about what holds when a call has returned: safety and refinement.
`LiteFile` assumes weak fairness of every thread's next step (`Fairness`): the scheduler runs a
thread that can go on. It assumes nothing of the locks: neither `std::mutex` nor flock hands a
lock to the thread that waits longest, so a caller that keeps calling can starve another.
`CallsReturn` is therefore stated for callers that stop calling: then every call that
was begun returns. Nothing makes a caller begin a call, or flock fail.

## 4. Findings

* **`rename` onto a directory with entries** (`rename_nonempty`). `rmdir` refuses a
  non-empty directory with ENOTEMPTY (`operations.cpp:199-202`). `rename` removes the
  destination's entry and unlinks it without that check (`operations.cpp:593`, `599`),
  and everything below it stays as files no path leads to. The run `full_fs` sets
  `RenameOntoNonEmpty = FALSE` and checks the rest of the behaviour without such calls;
  `fix` has them, for fix is what finds those files again.
* **An iteration does not stop** (`btree_iterate`). `files.h:393` and `415` say that the
  iteration is terminated when the callback returns false; `recursive_iterate`
  ignores the result (`btree_dir.cpp:711`).
* **What fix recovers may be gone** (`fix_recover`). For a file that no entry names, fix
  asks "do you want to recover it?" and takes yes as the default (`commands.cpp:211`). It then
  opens the file, adds an entry to the root and closes it (`commands.cpp:218`). A file that
  was unlinked while open has link count zero if the mount was killed, and the close removes it:
  the entry leads nowhere. A file whose header was never written gets an entry of type
  0xFFFFFFFF, which nothing can open.

Remarks the models led to, where nothing in the repository promises otherwise:

* `fix` takes an flock and a mount a lock file, so a fix and a mount do not exclude each other.
* The lock file goes before the file table is destroyed (`operations.cpp:53`): the next mount can
  begin while the last one is still writing.
* A create that is killed before it wrote the configuration leaves an empty file that makes
  create, mount, chpass and fix refuse until it is removed by hand.
* `fix_hardlink_count` counts paths: below a directory with two names every file gets too
  many links. They are never too few (`FixedCounts`).
* fix can follow a cycle of directories only when the killed mount had directories open
  (`NeverReopensHeld`), because their entries are then not written at once.
* `open` of the lite format with O_TRUNC cuts the file before it takes the lock
  (`lite_fs.cpp:184`); Files that are open on it keep the session key of the old header.
* A kill of the full format between a write and the next flush leaves a file whose HMAC does not
  verify; it cannot be opened, and fix does not repair it. For a directory this costs everything
  that has no path around it, for the root the volume. fix has the same window from the first file
  it recovers to its end, because it holds the root open (`commands.cpp:203`, `218`).
* In the loop over unreferenced files, an exception from a refused file ends fix: of such a file only
  "ignore" gets past it.
* A truncation to whole blocks that is killed between its two resizes leaves MACs of blocks that are
  gone (`streams.cpp:448-450`); the file opens, and may not decrypt where it grows again.
* A create that fails or is killed after it made the root's files leaves them; a later create in
  that directory fails, because it makes the root exclusively.
* `utimens` of the full format stores an uninitialized ctime (`files.cpp:327`).
* The lite stream's limit is block number 2^31 - 1, so 2^31 blocks can be written.

## 5. Proofs

### File table

`FileTableProofs` proves, for every set of ids, pointers and attributes, every cache
limit and every bound on references and links:

| Theorem | States |
|---|---|
| `InductiveInvariant` | `Spec => []IInv` |
| `TypeCorrect` | `Spec => []TypeOK` |
| `NoDanglingPointers` | `Spec => []RefCountExact` |
| `EvictionIsSafe` | `Spec => []ClosedQueueSound` |
| `CleanMeansWritten` | `Spec => []CleanAgreesWithDisk` |
| `UnlinkedFilesAreRemoved` | `Spec => []UnlinkedFilesGo` |

*Assumptions*: the named ASSUMEs of `FileTable` (the cache sizes and bounds are positive,
sentinels are not data). Nothing is assumed about the sets, not even that they are finite.

*Argument*: no invariant is inductive alone. `RefCountExact` says that every live object
is the one the table has under its id; eviction keeps it only if the queue names
unreferenced objects (`ClosedQueueSound`), and the queue's entries stay
unreferenced only because `open_as` removes them and they occur once. Removing the
underlying files of an unlinked file (`UnlinkedFilesGo`) needs that the object is the
only one for its id, and that a clean object agrees with the disk (`CleanAgreesWithDisk`),
for otherwise a link count of zero could come back when the file is loaded again. The
one part that is not itself a property, `Linked`, says that what the table points
to is live and carries the id it is filed under; with `RefCountExact` the table and
the heap are inverse to each other. `IInv` is the conjunction.

The proof has one lemma per action, and lemmas on the queue (`RemoveClosed` removes
exactly one id, `Victims` is a prefix whose removal leaves the rest) on which they rest.

### File table: refinement

The second half of `FileTableProofs` proves, under the same assumptions:

| Theorem | States |
|---|---|
| `StrongInvariant` | `Spec => []RInv` |
| `CacheStaysBounded` | `Spec => []CacheIsBounded` |
| `TableImplementsOpenFiles` | `Spec => ImplementsOpenFiles` |

*Argument*: the abstract header of a file is the cached one if there is an object and the one
on disk otherwise. Evicting an object keeps it only if what is evicted is on disk, so `RInv`
adds to `IInv` that an unreferenced object is clean unless its write-back failed
(`IdleIsWritten`), and that such an object is never queued (`QueuedIsSafe`), which holds because
`finalize` throws before the id is pushed. One lemma per action shows both that
`RInv` holds again and that the step is a step of `OpenFiles`, or a stutter.

### Full format

`FullFSProofs` proves, for every finite set of files and names, every number of handles and
links, and whether or not clients rename onto directories with entries:

| Theorem | States |
|---|---|
| `InductiveInvariant` | `Spec => []IInv` |
| `TypeCorrect` | `Spec => []TypeOK` |
| `EntriesNeverDangle` | `Spec => []NoDanglingEntries` |
| `HandlesValid` | `Spec => []HandlesStayValid` |
| `Durable` | `Spec => []DurableWhenIdle` |

and, for clients that do not rename onto directories with entries (`~RenameOntoNonEmpty`, the
case the run `full_fs` has; with such renames TLC refutes these two, which is the finding
`rename_nonempty`):

| Theorem | States |
|---|---|
| `LinkCountsExact` | `Spec => []LinkCountExact` |
| `NothingIsLost` | `Spec => []NoOrphans` |

*Argument*: `Stored` says for each file how `mem` and `disk` may differ: not at all for a file
that is neither open nor in a guard; an open one is on both. `Tree` says that only directories
hold entries, that each entry leads to a file of its type, and that the link count is
at least the number of names; it holds in any case, and keeps a file that has a name from being
removed. `WholeTree` adds that the count is exact, that a directory that
goes is empty, and that every file that is linked can be reached; each needs the other two, and
all three need that clients do not replace directories with entries. Reachability is reasoned
about through closed sets: a file is unreachable exactly when a set that is closed under
entries has the root and not the file. A rename keeps everything reachable because the kernel
refuses to move a directory below itself: the closed set below the moved directory
does not have the destination (`NotAbove`).

Counting names needs that there are finitely many, hence the assumption that `Ids` and `Names`
are finite; the other assumptions are the bounds' types and that sentinels are not data.

`FullFSCrashProofs` proves the action property of crashes:

| Theorem | States |
|---|---|
| `CrashesKeepPaths` | `~RenameOntoNonEmpty` gives `Spec => CrashKeepsPaths` |

It says of every set of unsealed files that a kill may leave impossible to open that no path around
them is lost.

*Argument*: what a crash leaves depends on the order in which guards are closed. `CloseOrder`
says of each pending guard that writing its file only adds entries to the disk, or that by
then the entries of every file not closed before it are on disk already (`Covered`). A close that only
adds entries keeps every path; one that removes entries comes when what is still reachable in `mem`
can be reached on disk through the written directories. `TwinGuards` (two guards on one file
are closed one after the other) and `BareOnDisk` (what is no directory has no entries on disk)
close the induction. Both arguments are about single entries, so they also hold in the file
system without the files of `W` (`PathsGrowAround`).

### Fix

`FixProofs` proves, for every finite set of files and names, any number of handles and
restarts of fix, whether or not clients renamed onto directories with entries:

| Theorem | States |
|---|---|
| `FixInvariant` | `FixSpec => [](FixInv /\ RefusedInv)` |
| `FixRepairsAll` | `FixSpec => []FixRepairs` |
| `FixCountsNames` | `FixSpec => []FixedCounts` |
| `FixReopensNone` | `FixSpec => []NeverReopensHeld` |
| `FixKeepsLinkedFiles` | `FixSpec => FixKeepsFiles` |

*Assumptions*: those of `FullFS`, and `FixAssumption`: the hexadecimal form of an id is a name
that no client uses, and the sentinels are not entries or files.

*Argument*: `FixInv` has three layers.

* `MountInv` is what a mount may leave on disk at any moment: types and entries agree up to
  headers that were never written, no entry names the root, and the directories have no cycle
  in memory. On disk, or through disk and memory together, they have none while no client
  has a directory open. It extends the invariant of `FullFSProofs` and holds in every step
  of every handler, for the kill may come between any two writes.
* `Core` relates memory and disk during fix: they differ only in directories that the recursion
  holds, and an entry on disk that leads to a file is in memory too, at most with another
  type. This is why a kill of fix leaves a volume that fix may be started on again.
* `PhaseInv` says how far a walk is: each entry of a directory that was met is pending in a frame
  of the recursion, or has been dealt with (`HelperOn`, `CollectingOn`, `SettingOn`). When the
  stack is empty nothing is pending, and what the phase promises follows. The two walks
  of `fix_hardlink_count` do not record where they were; the invariant says that sets of
  directories entered and entries counted exist, and that a count is at least the number of
  entries counted for the file, and exactly that number when no directory has two names.

`RefusedInv` says that a refused file is neither in memory nor on disk, and that while the user declined
nothing none is left when links are counted: every refused file is offered, and there is no way past it
but to ignore it. This gives the part of `FixRepairs` that no refused file is left.

No induction over paths is needed: reachability is defined by closed sets, acyclicity by minimal
elements (`Acyclic`). Since the frames are linked by entries, a frame for a directory that is held
would close a cycle (`HeldNotMet`), which gives `NeverReopensHeld`. `FixKeepsFiles` follows step
by step from `Core`: closing a file, writing a directory and an exception that unwinds the
recursion each keep every path of files with links (`CloseKeeps`, `WriteKeeps`, `AbortKeeps`). A kill
keeps every path around what it leaves refused (`KeepsAround`, `FewerPaths`).

### Encrypted streams

`CryptStreamProofs` proves, for every block size, every number of blocks, all byte values,
headers and buffers, with and without sparse files:

| Theorem | States |
|---|---|
| `StreamInvariant` | `Spec => []IInv` |
| `StreamAuthentic` | `Spec => []BlocksAuthentic` |
| `MetaFits` | `Spec => []MetaFitsData` |
| `CleanMetaCovered` | `Spec => []CleanMetaIsCovered` |
| `HeaderReadsBack` | `Spec => []HeaderKept` |
| `StreamImplementsByteStream` | `Spec => ImplementsByteStream` |

*Assumptions*: `StreamAssumption`: a block has at least one byte, 0 is a byte, holes and
uninitialized bytes are no bytes, and buffers hold bytes.

*Argument*: `Sound(f)` says of the two underlying files that their cells are bytes or holes,
never `Garbage`, that the meta file fits the data file, and that every block before `intact`
decrypts; `intact` is `max_block_number + 1` until a truncation is killed between its two resizes, and from
then on at most the number of blocks it kept. The lemmas follow the code from the inside out, and each says
both that the stream stays `Sound` and which bytes it reads as: a block that is written
(`BlockWritten`); `read_then_write_block`, where `MergedFacts` shows that the part of the
buffer nobody wrote is never encrypted, because a part of a block is written only where the
block is stored up to the beginning of that part; the loop of `unchecked_write`; `Shrink`,
`Grow`, `Resize` and `Write`. `WriteDone` and `ResizeDone` are what a call leaves, whether it threw
or not, and the steps of `ByteStream` follow from them with the refinement mapping in
`CryptStream`, which maps `intact` to the `limit` below which calls succeed. That a call throws only
beyond it is a part of both, since all blocks before it decrypt. `IInv` adds that the header's place in the meta file is
never written by blocks, and `CleanMetaIsCovered`.

The loop over blocks is a recursive function. What it computes is proved without an
induction rule: `Least` gives, from the theorem `WFMin` of the library, the least round after
which `Progressed` would fail, and the round before it contradicts that (`WriteRangeFacts`);
`LoopRuns` shows in the same way that the recursive definition has a solution.

### The stream of the lite format

`LiteStreamProofs` proves, for every block size, header size, overhead and number of blocks, all
byte values and buffers, with and without sparse files:

| Theorem | States |
|---|---|
| `LiteStreamInvariant` | `Spec => []IInv` |
| `LiteStreamAuthentic` | `Spec => []LiteBlocksAuthentic` |
| `LiteStreamCrashContained` | `Spec => CrashContained` |
| `LiteStreamImplementsByteStream` | `Spec => ImplementsByteStream` |

*Assumptions*: `LiteStreamAssumption`: blocks, header and overhead have at least one byte, 0 is a
byte and an uninitialized byte is none, buffers hold bytes. The cells of the underlying file
are symbols: a byte of the header is not the zero byte, and the zero byte is no byte of an encryption,
by which a hole is told from a block; `write_block` sees to that by drawing an IV again when it
is all zeros (`lite_stream.cpp:133-136`).

*Argument*: `Stores(d, c)` says that the cells `d` are the underlying file of the bytes `c`: `d` is
as long as `c` needs (`U`), and the cells of each block are its encryption, or zeros where the
bytes are zeros. A file stores one sequence of bytes only: every block decrypts to the bytes of
`c` (`StoredBlock`), and the size that is computed from the length of `d` is the length of `c`
(`RealSize`, `StoredContent`). `PutStores` is that `write_block` keeps `Stores` where the block
does not become shorter; `CutStores` that `adjust_logical_size` does where it cuts or grows the
file at the beginning of a block, or leaves its length; `ShrinkStores` that a shorter block followed by
the cut does. From there on the argument is one about the bytes of the stream
and goes as that for `CryptStream`. `IInv` says that there is a stream only on a file that
stores its contents, and that any other file is a part of a header.

For `CrashContained`, each lemma also says what the writes on the way left (`Kept`): every state of the
underlying file that a call passes through stores bytes that are each the one from before or the one
from after the call (`Between`). That this survives one write after the other needs `Via`: what a
step leaves of a byte is the one from before or the one that is there in the end, because a call
writes each byte once and growing adds zeros, which bytes beyond the end count as. A
truncation within a block is the exception: between its two writes the cells of that
block are a shorter encryption with a rest of the old one behind it; `CutKept` says that
the cells of all other blocks are untouched.

### Lite files

`LiteFileProofs` proves, for any number of threads, Files, inodes, keys and values, and files of two
blocks, as `LiteFile` has them:

| Theorem | States |
|---|---|
| `LocksInOrder` | `LockEnabled` gives `Spec => []IInv` |
| `SessionKeysTogether` | `LockEnabled` gives `Spec => []SessionKeysAgree` |
| `ReadersSeeWholeWrites` | `LockEnabled` gives `Spec => []ReadsAtomic` |

*Assumptions*: `LockEnabled`, which is the default of the mount (`--noflock` turns it off, and
then nothing holds between two descriptors), and those of `LiteFile`.

*Argument*: `MutexOwned` and `FlockOwned` tie every lock to the step its owner is at, the
failing paths included; `FlockExcludes` is that an exclusive flock has no other beside it. From
these, `KeysAgree` follows for the constructor, which reads the header and writes a new one
under the exclusive lock, and `BlocksWhole`: outside a half-done write or resize both blocks of a file
are of the same call. `Progress` says what a thread in the middle of its blocks has in its
buffer, which gives `ReadsAtomic` when it is done.

### Volume

`VolumeProofs` proves, for any number of processes, passwords, key files and formats:

| Theorem | States |
|---|---|
| `InductiveInvariant` | `Spec => []IInv` |
| `TypeCorrect` | `Spec => []TypeOK` |
| `VolumeIsNeverLost` | `Spec => []VolumeNeverLost` |
| `MountsExcludeEachOther` | `Spec => []MountsExclude` |
| `LockFileIsOwned` | `Spec => []LockFileHasOwner` |
| `FixesExcludeEachOther` | `Spec => []FixesExclude` |

*Assumptions*: formats are among 1, 3 and 4, and the sentinels `Absent` and `Empty` are not
processes, key files, sizes or written configurations.

*Argument*: `VolumeNeverLost` alone is not inductive, because a rename may bring in any
temporary file and a failing create removes whatever is at the path. `VolumeInv` adds that a
process in create is the only one, that no volume was reported while it runs, and that it has
written what it will report; and that a process in chpass read the volume itself and that
its temporary file, before the rename, reads back as the volume. That what is written
reads back is `GeneratedReadsBack`: format 1 stores no sizes, and `read_config` puts in the
fixed ones, which is lossless only because create refuses others (`SeenInv`). `LockInv` ties the
lock file to the one mount past `MountLock`, `FlockInv` the flock to the one process in fix.
There is one lemma per part of the invariant with one step per action.

### What is only model-checked

* Liveness under fairness (`CallsReturn`).
* `BtreeDir` (`NeverCorrupted`, `PagesAccounted`, `BtreeSound`, `CacheCoherent`,
  `ImplementsDirectory`): written with recursive operators, which the prover cannot handle.
* `LiteFS` (`ForeignUntouched`, `ImplementsPlainTree`): they rest on base32 and path translation
  being invertible, an induction over the data.

## 6. Not modelled

* The Windows layer (`win.cpp`): another implementation of the same calls.
* The numbers of the cryptographic primitives (AES-SIV, HKDF, scrypt): algorithms without state;
  encryption, key derivation and MACs are perfect in the models. PaddedStream, which shifts a
  file by a constant.
* The byte layout of headers, pages and the JSON of the configuration; logging, the command line,
  exceptions' messages, `info` and `version`, which change nothing.
* The two directory layouts of FileTableIO: both are one store of underlying files.
* Extended attributes: compiled on macOS only. UTF-8 normalization: a library's table.
* `SimpleDirectory`: used by tests only. `to_dot_graph`: diagnostics.
* The branch of `deallocate_page` that shrinks the stream is modelled but never taken: pages are
  numbered from 0, and it asks whether the page's number is the number of pages.
* Underlying writes that fail, except where a step says so; `--noflock` (`LockEnabled` is there
  for it; without flock nothing holds between two descriptors).
* Single calls of the system that a crash tears apart: a write of one block or of the header is
  one step. chpass renames without fsync, so what a power failure leaves is up to the
  underlying file system.

## 7. Plan

What is done: the file table, the full format with crashes, fix, the streams of both formats, the
locks of the lite format and the commands, each with proofs; the B-tree directory and the
names of the lite format, model-checked. What is worth doing next: failing underlying writes in
`BtreeDir` and `FullFS`.
