-------------------------------- MODULE LiteFS --------------------------------
(***************************************************************************)
(* The tree of files of a lite file system (FileSystem in                  *)
(* sources/lite_fs.cpp and the handlers of sources/lite_operations.cpp):   *)
(* every handler translates its paths and makes one call on the underlying *)
(* directory, where the configuration and files of other programs may lie  *)
(* too. What is in the files is the matter of LiteStream and LiteFile.     *)
(***************************************************************************)
EXTENDS LiteNames

CONSTANTS
    Paths,      \* paths of the callers
    Targets,    \* paths they put into symbolic links
    Attrs,      \* mode, owner and times, as one value
    Ids,        \* bound: inodes besides the foreign ones
    f_namemax   \* longest name of the underlying file system

ASSUME LiteFSAssumption ==
    /\ Ids \subseteq Nat \ {0}
    /\ f_namemax \in Nat /\ namemax(f_namemax) > 0
    /\ 0 \in Attrs
    /\ Foreign \cap DOMAIN Decrypted = {}

VARIABLES
    tree,      \* the underlying directory, as PosixTree describes it
    casefold,  \* kOptionCaseFoldFileName
    last       \* the last call and its result

vars == <<tree, casefold, last>>

OS == INSTANCE PosixTree

(* One inode stands for all files that no handler made. *)
ForeignId == 0
ForeignNode == [kind |-> "foreign", target |-> <<>>, attr |-> 0]

transform(fold, path) == [i \in DOMAIN path |-> Fold(fold, path[i])]

(* How the underlying system reads a translated path. *)
Resolved(path) == SelectSeq(path, LAMBDA n : n # <<>> /\ n # <<Dot>>)

UnderPath == [fold \in BOOLEAN |-> [p \in Paths |->
                 Resolved(translate_path(transform(fold, p), FALSE))]]

Under(path) == UnderPath[casefold][path]

FreeId == Min(Ids \ DOMAIN tree.nodes)

NewNode(kind, target) == [kind |-> kind, target |-> target, attr |-> 0]

NoCall == [op |-> "none", p |-> <<>>, q |-> <<>>, target |-> <<>>, attr |-> 0]

(* A handler: a path that cannot be translated makes it fail. *)
Serve(call, r) ==
    LET result == IF TooLong(call.p) \/ TooLong(call.q) \/ TooLong(call.target)
                  THEN OS!Fail(tree) ELSE r
    IN  /\ tree' = result.tree
        /\ last' = [call |-> call, ok |-> result.ok, value |-> result.value]
        /\ UNCHANGED casefold

-----------------------------------------------------------------------------
Init ==
    /\ tree = [names |-> [p \in {<<n>> : n \in Foreign} |-> ForeignId],
               nodes |-> [i \in {ForeignId} |-> ForeignNode]]
    /\ casefold \in BOOLEAN
    /\ last = [call |-> NoCall, ok |-> TRUE, value |-> <<>>]

mkdir(p) ==
    Serve([NoCall EXCEPT !.op = "mkdir", !.p = p],
          OS!Make(tree, Under(p), NewNode("dir", <<>>), FreeId, f_namemax))

create(p) ==
    Serve([NoCall EXCEPT !.op = "create", !.p = p],
          OS!Make(tree, Under(p), NewNode("file", <<>>), FreeId, f_namemax))

(* symlinkat takes no empty target. *)
symlink(to, p) ==
    Serve([NoCall EXCEPT !.op = "symlink", !.p = p, !.target = to],
          LET target == translate_path(transform(casefold, to), TRUE) IN
          IF target = << <<>> >> THEN OS!Fail(tree)
          ELSE OS!Make(tree, Under(p), NewNode("link", target), FreeId, f_namemax))

unlink(p) == Serve([NoCall EXCEPT !.op = "unlink", !.p = p], OS!remove_file(tree, Under(p)))

rmdir(p) == Serve([NoCall EXCEPT !.op = "rmdir", !.p = p], OS!remove_directory(tree, Under(p)))

link(p, q) ==
    Serve([NoCall EXCEPT !.op = "link", !.p = p, !.q = q],
          OS!link(tree, Under(p), Under(q), f_namemax))

rename(p, q) ==
    Serve([NoCall EXCEPT !.op = "rename", !.p = p, !.q = q],
          OS!rename(tree, Under(p), Under(q), f_namemax))

(* chmod, chown and utimens *)
setattr(p, attr) ==
    Serve([NoCall EXCEPT !.op = "setattr", !.p = p, !.attr = attr],
          OS!setattr(tree, Under(p), attr))

(* open and truncate, as far as the tree is concerned. *)
open(p) == Serve([NoCall EXCEPT !.op = "open", !.p = p], OS!open_file(tree, Under(p)))

(* The size of a symbolic link is that of the path it decrypts to. *)
getattr(p) ==
    LET r == OS!stat(tree, Under(p)) IN
    Serve([NoCall EXCEPT !.op = "getattr", !.p = p],
          IF ~r.ok THEN r
          ELSE IF r.value.kind # "link" \/ StringLength(r.value.target) <= 0
          THEN [r EXCEPT !.value = <<@.kind, @.attr, StringLength(@.target)>>]
          ELSE IF ~CanDecryptPath(r.value.target) THEN OS!Fail(tree)
          ELSE [r EXCEPT !.value = <<@.kind, @.attr, StringLength(decrypt_path(@.target))>>])

readlink(p) ==
    LET r == OS!readlink(tree, Under(p)) IN
    Serve([NoCall EXCEPT !.op = "readlink", !.p = p],
          IF ~r.ok THEN r
          ELSE IF ~CanDecryptPath(r.value) THEN OS!Fail(tree)
          ELSE [r EXCEPT !.value = decrypt_path(@)])

(* LiteDirectoryTraverser::next: hidden names, and names that do not decode or
   decrypt, are skipped.                                                     *)
NextNames(names) ==
    {Decrypted[n] : n \in {m \in names : m[1] # Dot /\ m \in DOMAIN Decrypted}}

(* opendir, readdir, releasedir *)
readdir(p) ==
    LET r == OS!list(tree, Under(p)) IN
    Serve([NoCall EXCEPT !.op = "readdir", !.p = p],
          IF r.ok THEN [r EXCEPT !.value = NextNames(@)] ELSE r)

(* The kernel resolves symbolic links: no path goes through one. *)
Lookups == {p \in Paths : \A i \in 1..(Len(Under(p)) - 1) :
               LET q == SubSeq(Under(p), 1, i) IN
               q \in DOMAIN tree.names => tree.nodes[tree.names[q]].kind # "link"}

Next ==
    \/ \E p \in Lookups :
          \/ /\ Ids \ DOMAIN tree.nodes # {}
             /\ mkdir(p) \/ create(p) \/ (\E to \in Targets : symlink(to, p))
          \/ unlink(p) \/ rmdir(p) \/ open(p)
          \/ \E attr \in Attrs : setattr(p, attr)
          \/ getattr(p) \/ readlink(p) \/ readdir(p)
    \/ \E p, q \in Lookups : link(p, q) \/ rename(p, q)

Spec == Init /\ [][Next]_vars

-----------------------------------------------------------------------------
(* The tree as the callers see it: the entries whose names all decrypt. *)
Visible == {p \in DOMAIN tree.names : CanDecryptPath(p)}

PlainNode(node) ==
    IF node.kind = "link" THEN [node EXCEPT !.target = decrypt_path(@)] ELSE node

PlainView ==
    LET paths == {decrypt_path(p) : p \in Visible}
        names == [q \in paths |-> tree.names[CHOOSE p \in Visible : decrypt_path(p) = q]]
    IN  [names |-> names, nodes |-> [i \in Range(names) |-> PlainNode(tree.nodes[i])]]

CallSet == [op : {"mkdir", "create", "symlink", "unlink", "rmdir", "link", "rename", "setattr",
                  "open", "getattr", "readlink", "readdir"},
            p : Paths, q : Paths \cup {<<>>}, target : Targets \cup {<<>>}, attr : Attrs]

Plain == INSTANCE PlainTree WITH
    tree <- PlainView, Calls <- CallSet, Normal <- Fold,
    NameMax <- namemax(f_namemax), TargetMax <- MAX_SLICE

(* What callers see is a tree of files under the names they used, with every
   result that tree would give: no two names collide, everything listed can be
   reached, links read back as they were made, and the longest names that
   statfs allows, and no longer ones, can be used.                           *)
ImplementsPlainTree == Plain!PSpec

(* The configuration and the files of other programs in the underlying
   directory are never changed or replaced, whatever names callers use.      *)
ForeignUntouched ==
    \A n \in Foreign :
        /\ <<n>> \in DOMAIN tree.names
        /\ tree.names[<<n>>] = ForeignId
        /\ tree.nodes[ForeignId] = ForeignNode

=============================================================================
