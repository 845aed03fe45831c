---------------------------------- MODULE Fix ----------------------------------
(***************************************************************************)
(* The command fix (sources/commands.cpp) on what a crash of the full      *)
(* format left. A mount (FullFS) runs and is killed at any moment, between *)
(* two write-backs too, which may leave files that cannot be opened        *)
(* (refused); then fix walks the tree from the root, offers the files it   *)
(* did not meet, and sets the link counts in two more walks.               *)
(*                                                                         *)
(* During fix mem is what the objects in the file table hold and disk      *)
(* every file as it was when its HMAC was last written; a refused file is  *)
(* in neither, as if it had no underlying files. stack is the recursion    *)
(* of fix_helper and fix_hardlink_count: the directories it holds open,    *)
(* each with the entries it has yet to look at (listings). A directory is  *)
(* sealed when its guard closes, at the end of its frame, the root at the  *)
(* end of fix; until then a kill may leave one that changed refused. The   *)
(* user may answer every question either way, and fix may itself be killed *)
(* and started again.                                                      *)
(***************************************************************************)
EXTENDS FullFS

VARIABLES
    phase,      \* "mounted", a phase of fix, or how it ended: "complete", "aborted", "undefined"
    stack,      \* frames [dir, rest] of the recursion, the innermost first
    all_ids,    \* ids that fix_helper met
    unseen,     \* ids of underlying files that fix has yet to compare with all_ids
    nlink_map,  \* paths to every id, as the collecting walk counts them
    declined,   \* whether the user declined a repair
    dirsOpen,   \* whether clients had directories open when the mount was killed
    gone,       \* ids whose underlying files fix removed
    refused     \* ids whose underlying files exist and cannot be opened: their HMAC does
                \* not fit, or their data file is gone

fixVars == <<phase, stack, all_ids, unseen, nlink_map, declined, dirsOpen, gone, refused>>
allVars == <<vars, fixVars>>

Walks == {"helper", "CollectingNLink", "FixingNLink"}
Fixing == phase \in Walks \cup {"orphans"}

Listing(d) == {n \in Names : mem[d].ents[n] # None}

Frame(d) == [dir |-> d, rest |-> Listing(d)]

(* hexify(id) as a name; it is unlike any name a client uses. *)
hexify(id) == id

(* fix_type and recover write the type that the header of the file has into its
   entry, also that of a header that was never written.                     *)
FixEntry == [id : Ids, type : RealTypes \cup {"UNKNOWN"}]
FixNode == [type : RealTypes \cup {"UNKNOWN"}, nlink : Nat, attr : Attrs \cup {BlankAttr},
            ents : [Names -> FixEntry \cup {None}]]

ASSUME FixAssumption ==
    /\ \A id \in Ids : hexify(id) \in Names \ UserNames
    /\ None \notin FixEntry /\ NoFile \notin FixNode

FixInit ==
    /\ Init
    /\ phase = "mounted"
    /\ stack = <<>>
    /\ all_ids = {} /\ unseen = {} /\ gone = {} /\ refused = {}
    /\ nlink_map = [id \in Ids |-> 0]
    /\ declined = FALSE /\ dirsOpen = FALSE

(* Mutant: fix does not count the root as met. *)
NoIds == {}

(* all_ids before the first call of fix_helper. *)
StartIds == {Root}

Mounted == phase = "mounted" /\ Next /\ UNCHANGED fixVars

Top == Head(stack)

(* The directories the recursion and fix itself hold open. *)
Held == {Root} \cup {stack[i].dir : i \in 1..Len(stack)}

(* Directories whose pages changed since their HMAC was written; fix holds them. *)
Changed == {id \in Ids : mem[id] # disk[id]}

(* Files that the next step of fix may write or remove by closing them: the
   header gets a link count, or unlink removes the data file and then the
   meta file.                                                               *)
Closing ==
    {id \in Ids \ Held : Exists(mem, id) /\
        IF phase = "orphans"
        THEN id \in unseen \ all_ids
        ELSE /\ phase = "FixingNLink" \/ mem[id].nlink = 0
             /\ \E n \in Top.rest : mem[Top.dir].ents[n] # None /\ mem[Top.dir].ents[n].id = id}

(* What a kill may leave with an HMAC that does not fit, or half removed. *)
KillRefuses ==
    IF phase = "mounted" THEN SUBSET Unsealed
    ELSE {W \in SUBSET (Changed \cup Closing) : Cardinality(W \ Changed) <= 1}

(* The mount or an earlier fix is killed, and fix starts: fix opens the root
   as a directory, which throws if it is refused, and calls fix_helper on it. *)
CrashThenFix ==
    /\ phase = "mounted" \/ Fixing
    /\ \E W \in KillRefuses :
         /\ refused' = refused \cup W
         /\ disk' = Without(disk, W)
         /\ mem' = disk'
         /\ IF Root \in W
            THEN phase' = "aborted" /\ stack' = <<>>
            ELSE /\ phase' = "helper"
                 /\ stack' = <<[dir |-> Root, rest |-> {n \in Names : disk[Root].ents[n] # None}]>>
    /\ handles' = [id \in Ids |-> 0]
    /\ todo' = <<>>
    /\ all_ids' = StartIds
    /\ unseen' = {} /\ gone' = {}
    /\ nlink_map' = [id \in Ids |-> 0]
    /\ declined' = FALSE
    /\ dirsOpen' = (dirsOpen \/ \E id \in Ids : IsDir(mem, id) /\ handles[id] > 0)

-----------------------------------------------------------------------------
(* The current frame has looked at the entry n. *)
Advanced(n) == <<[Top EXCEPT !.rest = @ \ {n}]>> \o Tail(stack)

(* FileTable::close of the last reference to id, after fs changed the object. *)
Closed(fs, id) == IF fs[id].nlink = 0 THEN [fs EXCEPT ![id] = NoFile] ELSE fs

WrittenBack(fs, id) == [disk EXCEPT ![id] = fs[id]]

RemovedBy(fs) == {id \in Ids : Exists(mem, id) /\ ~Exists(fs, id)}

(* An exception leaves fix: every guard closes on the way out. *)
Abort(fs) ==
    /\ mem' = fs /\ disk' = fs
    /\ phase' = "aborted"
    /\ stack' = <<>>
    /\ gone' = gone \cup RemovedBy(fs)
    /\ UNCHANGED <<handles, todo, all_ids, unseen, nlink_map, declined, dirsOpen, refused>>

(* open_as of a held directory under the type BASE destroys the object that the
   recursion goes on to use; what happens then is undefined.                *)
ReopenHeld(n) ==
    /\ mem[Top.dir].ents[n].id \in Held
    /\ phase' = "undefined"
    /\ stack' = <<>>
    /\ UNCHANGED <<vars, all_ids, unseen, nlink_map, declined, dirsOpen, gone, refused>>

(* fix_helper: an entry that cannot be opened; the user removes it or not. *)
HelperUnopenable(n) ==
    LET d == Top.dir IN
    /\ ~Exists(mem, mem[d].ents[n].id)
    /\ stack' = Advanced(n)
    /\ \/ mem' = [mem EXCEPT ![d] = WithEntry(@, n, None)] /\ UNCHANGED declined
       \/ declined' = TRUE /\ UNCHANGED mem
    /\ UNCHANGED <<disk, handles, todo, phase, all_ids, unseen, nlink_map, dirsOpen, gone, refused>>

(* Mutant: an entry of the wrong type is removed and not added again. *)
RetypedRemoved(d, n) == [mem EXCEPT ![d] = WithEntry(@, n, None)]

(* fix_type: remove_entry, then add_entry with the type the file has. *)
Retyped(d, n) ==
    [mem EXCEPT ![d] = WithEntry(@, n, [id |-> @.ents[n].id, type |-> mem[@.ents[n].id].type])]

(* fix_helper: an entry that can be opened. Its type is repaired if the user
   agrees, the file is closed, and a directory is opened again and walked.
   Closing removes a file without links, and the directory then fails to
   open.                                                                    *)
HelperOpenable(n) ==
    LET d == Top.dir
        e == mem[d].ents[n]
        real_type == mem[e.id].type
    IN
    /\ Exists(mem, e.id)
    /\ e.id \notin Held
    /\ \E fs \in {mem} \cup (IF e.type = real_type THEN {} ELSE {Retyped(d, n)}) :
         LET after == Closed(fs, e.id) IN
         IF real_type = "DIR" /\ ~Exists(after, e.id)
         THEN Abort(after)
         ELSE /\ mem' = after
              /\ disk' = WrittenBack(after, e.id)
              /\ declined' = (declined \/ (e.type # real_type /\ fs = mem))
              /\ all_ids' = all_ids \cup {e.id}
              /\ gone' = gone \cup RemovedBy(after)
              /\ stack' = IF real_type = "DIR" THEN <<Frame(e.id)>> \o Advanced(n)
                                               ELSE Advanced(n)
              /\ UNCHANGED <<handles, todo, phase, unseen, nlink_map, dirsOpen, refused>>

fix_helper ==
    /\ phase = "helper"
    /\ stack # <<>>
    /\ \E n \in Top.rest : HelperUnopenable(n) \/ HelperOpenable(n) \/ ReopenHeld(n)

(* A recursive call returns and the guard of its directory closes. The guard
   of the root belongs to fix and stays open.                               *)
Return ==
    /\ stack # <<>>
    /\ Top.rest = {}
    /\ Len(stack) > 1
    /\ stack' = Tail(stack)
    /\ disk' = WrittenBack(mem, Top.dir)
    /\ UNCHANGED <<mem, handles, todo, phase, all_ids, unseen, nlink_map, declined, dirsOpen, gone, refused>>

(* find_all_ids: the meta files in the underlying directory. *)
find_all_ids ==
    /\ phase = "helper"
    /\ Len(stack) = 1 /\ Top.rest = {}
    /\ phase' = "orphans"
    /\ unseen' = {id \in Ids : Exists(disk, id)} \cup refused
    /\ stack' = <<>>
    /\ UNCHANGED <<mem, disk, handles, todo, all_ids, nlink_map, declined, dirsOpen, gone, refused>>

Referenced(id) ==
    /\ id \in all_ids
    /\ UNCHANGED <<mem, disk, gone, declined, phase, stack>>

(* Mutant: recover closes the file and forgets the entry. *)
RecoverUnnamed(id) ==
    /\ id \notin all_ids
    /\ mem' = Closed(mem, id)
    /\ disk' = WrittenBack(mem', id)
    /\ gone' = gone \cup RemovedBy(mem')
    /\ UNCHANGED <<declined, phase, stack>>

(* recover: a new entry in the root, named by the id, of the type in the
   file's header. Closing the file removes it if it has no links.           *)
Recover(id) ==
    LET named == [mem EXCEPT ![Root] =
                    WithEntry(@, hexify(id), [id |-> id, type |-> mem[id].type])]
    IN
    /\ id \notin all_ids
    /\ mem' = Closed(named, id)
    /\ disk' = WrittenBack(mem', id)
    /\ gone' = gone \cup RemovedBy(mem')
    /\ UNCHANGED <<declined, phase, stack>>

(* remove: open, close, open again under the type of the header, unlink, close.
   The second open throws if the first close removed the file, and for a type
   that is none of the three. The data file goes before the meta file; a kill
   between the two is one of KillRefuses.                                   *)
Delete(id) ==
    /\ id \notin all_ids
    /\ mem[id].nlink > 0 /\ mem[id].type \in RealTypes
    /\ mem' = Closed([mem EXCEPT ![id] = Unlinked(@)], id)
    /\ disk' = WrittenBack(mem', id)
    /\ gone' = gone \cup RemovedBy(mem')
    /\ declined' = TRUE
    /\ UNCHANGED <<phase, stack>>

Ignore(id) ==
    /\ id \notin all_ids
    /\ declined' = TRUE
    /\ UNCHANGED <<mem, disk, gone, phase, stack>>

(* The loop of fix over the underlying ids, in any order. To open the root again
   would destroy the object that fix holds.                                 *)
OfferOrphan(id) ==
    /\ phase = "orphans"
    /\ id \in unseen \ refused
    /\ unseen' = unseen \ {id}
    /\ IF id \in Held \ all_ids
       THEN phase' = "undefined" /\ UNCHANGED <<mem, disk, gone, declined, stack>>
       ELSE Referenced(id) \/ Recover(id) \/ Delete(id) \/ Ignore(id)
    /\ UNCHANGED <<handles, todo, all_ids, nlink_map, dirsOpen, refused>>

DeleteFails(id) ==
    /\ phase = "orphans"
    /\ id \in unseen \ (all_ids \cup Held \cup refused)
    /\ mem[id].nlink = 0 \/ mem[id].type \notin RealTypes
    /\ Abort(Closed(mem, id))

(* A refused file is offered too: nothing but to ignore it helps, since recover
   and remove let the exception of open_as through.                         *)
OfferRefused(id) ==
    /\ phase = "orphans"
    /\ id \in unseen \cap refused
    /\ \/ Abort(mem)
       \/ /\ unseen' = unseen \ {id}
          /\ declined' = TRUE
          /\ UNCHANGED <<vars, phase, stack, all_ids, nlink_map, dirsOpen, gone, refused>>

(* The two calls of fix_hardlink_count on the root, and the end of fix, where
   the root's guard closes.                                                 *)
StartCount(from, to) ==
    /\ phase = from
    /\ IF from = "orphans" THEN unseen = {} ELSE Len(stack) = 1 /\ Top.rest = {}
    /\ phase' = to
    /\ stack' = <<Frame(Root)>>
    /\ UNCHANGED <<vars, all_ids, unseen, nlink_map, declined, dirsOpen, gone, refused>>

FixComplete ==
    /\ phase = "FixingNLink"
    /\ Len(stack) = 1 /\ Top.rest = {}
    /\ phase' = "complete"
    /\ stack' = <<>>
    /\ disk' = WrittenBack(mem, Root)
    /\ UNCHANGED <<mem, handles, todo, all_ids, unseen, nlink_map, declined, dirsOpen, gone, refused>>

(* fix_hardlink_count skips an entry it cannot open. *)
CountUnopenable(n) ==
    /\ ~Exists(mem, mem[Top.dir].ents[n].id)
    /\ stack' = Advanced(n)
    /\ UNCHANGED <<vars, phase, all_ids, unseen, nlink_map, declined, dirsOpen, gone, refused>>

(* Mutant: the second walk sets the count of the last name it meets. *)
CountedOnce(id) ==
    IF phase = "FixingNLink" THEN [mem EXCEPT ![id].nlink = 1] ELSE mem

Counted(id) ==
    IF phase = "FixingNLink" THEN [mem EXCEPT ![id].nlink = nlink_map[id]] ELSE mem

(* get_as<Directory> throws on a file whose header is not a directory's, and is
   noexcept: the process ends, and the held directories are not closed.     *)
Terminate(fs, id) ==
    /\ \E W \in SUBSET Changed :
         /\ refused' = refused \cup W
         /\ disk' = Without(WrittenBack(fs, id), W)
    /\ mem' = disk'
    /\ phase' = "aborted"
    /\ stack' = <<>>
    /\ gone' = gone \cup RemovedBy(fs)
    /\ UNCHANGED <<handles, todo, all_ids, unseen, nlink_map, declined, dirsOpen>>

(* fix_hardlink_count on an entry: count it or set the count, close the file,
   and walk it if the entry says it is a directory. open_as throws if the close
   removed it.                                                              *)
CountOpenable(n) ==
    LET e == mem[Top.dir].ents[n]
        after == Closed(Counted(e.id), e.id)
    IN
    /\ Exists(mem, e.id)
    /\ e.id \notin Held
    /\ CASE e.type = "DIR" /\ ~Exists(after, e.id) -> Abort(after)
         [] e.type = "DIR" /\ Exists(after, e.id) /\ ~IsDir(after, e.id) -> Terminate(after, e.id)
         [] OTHER ->
            /\ mem' = after
            /\ disk' = WrittenBack(after, e.id)
            /\ nlink_map' = IF phase = "CollectingNLink" THEN [nlink_map EXCEPT ![e.id] = @ + 1]
                                                         ELSE nlink_map
            /\ gone' = gone \cup RemovedBy(after)
            /\ stack' = IF e.type = "DIR" THEN <<Frame(e.id)>> \o Advanced(n) ELSE Advanced(n)
            /\ UNCHANGED <<handles, todo, phase, all_ids, unseen, declined, dirsOpen, refused>>

fix_hardlink_count ==
    /\ phase \in {"CollectingNLink", "FixingNLink"}
    /\ stack # <<>>
    /\ \E n \in Top.rest : CountUnopenable(n) \/ CountOpenable(n) \/ ReopenHeld(n)

FixStep ==
    \/ fix_helper \/ Return \/ find_all_ids
    \/ \E id \in Ids : OfferOrphan(id) \/ DeleteFails(id) \/ OfferRefused(id)
    \/ StartCount("orphans", "CollectingNLink")
    \/ StartCount("CollectingNLink", "FixingNLink")
    \/ fix_hardlink_count \/ FixComplete

FixNext == Mounted \/ CrashThenFix \/ FixStep

FixSpec == FixInit /\ [][FixNext]_allVars

-----------------------------------------------------------------------------
(* A file system without the files that have no links: they go when they are
   closed.                                                                  *)
LinkedFiles(fs) ==
    [id \in Ids |-> IF Exists(fs, id) /\ fs[id].nlink > 0 THEN fs[id] ELSE NoFile]

(* Every file that a path of files with links leads to on disk keeps such a path
   through every step of fix, whatever the user answers: fix_helper removes only
   entries it cannot open, a wrong type is replaced in memory before the directory
   is written, what the user deletes was not met before, and no link count of a
   file that was met becomes zero. A kill of fix costs only the paths
   through the files that it leaves refused.                                 *)
KeepsLinkedPaths ==
    (Fixing /\ disk' # disk) =>
        ReachableIn(LinkedFiles(Without(disk, refused')))
            \subseteq ReachableIn(LinkedFiles(disk'))

FixKeepsFiles == [][KeepsLinkedPaths]_allVars

(* When fix completes and the user declined no repair, every entry of a
   directory that fix walked names a file of its type, except the files fix
   removed because they had no links, every underlying file can be reached, and
   no file is left that cannot be opened. Directories that fix recovered are not
   walked: they keep what they have.                                        *)
FixRepairs ==
    (phase = "complete" /\ ~declined) =>
        /\ \A e \in {x \in EntriesOf(disk) : x[1] \in all_ids} :
              LET t == Target(disk, e) IN
              t.id \in gone \/ (Exists(disk, t.id) /\ disk[t.id].type = t.type)
        /\ \A id \in Ids : Exists(disk, id) => id \in ReachableIn(disk)
        /\ refused = {}

(* After fix no file has fewer links than names, so that unlink never removes
   a file that has another name; and unless some directory has two names (a
   crash within rename) the two agree. fix_hardlink_count counts paths.     *)
OneParent == \A id \in Ids : IsDir(disk, id) => Cardinality(LinksTo(disk, id)) <= 1

FixedCounts ==
    phase = "complete" =>
        \A id \in ReachableIn(disk) \ {Root} :
            LET names == Cardinality({e \in LinksTo(disk, id) : e[1] \in ReachableIn(disk)}) IN
            /\ disk[id].nlink >= names
            /\ OneParent => disk[id].nlink = names

(* fix opens a directory again that its recursion holds only on what a mount
   left whose clients had directories open: such a directory is not written
   when it is renamed, and a cycle of directories can reach the disk.       *)
NeverReopensHeld == phase = "undefined" => dirsOpen

(* What the user told fix to recover is a file that can be opened afterwards:
   the prompt offers to "recover it" and does so by default. A file without
   links is removed by the very step that recovers it, and a file whose header
   was never written gets an entry of a type nothing can open.              *)
RecoveredFilesOpen ==
    phase = "complete" =>
        \A id \in Ids : disk[Root].ents[hexify(id)] # None =>
            /\ Exists(disk, id)
            /\ disk[Root].ents[hexify(id)].type \in RealTypes
=============================================================================
