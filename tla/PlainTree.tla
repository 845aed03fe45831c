------------------------------ MODULE PlainTree ------------------------------
(***************************************************************************)
(* What a mounted lite file system promises: a tree of files under the     *)
(* names its callers use, normalized as the mount was told to. Names may   *)
(* be as long as statfs says. last is the last call with its result.       *)
(***************************************************************************)
EXTENDS PosixTree

CONSTANTS
    Calls,      \* calls, records with op, p, q, target and attr
    Ids,        \* inodes
    NameMax,    \* f_namemax
    TargetMax,  \* length of the names in a symbolic link
    Normal(_, _) \* normalization of a name: case folding or not

VARIABLES tree, casefold, last

pvars == <<tree, casefold, last>>

Normalized(path) == [i \in DOMAIN path |-> Normal(casefold, path[i])]

(* The names of a path that is written with slashes. *)
NamesIn(path) == SelectSeq(Normalized(path), LAMBDA n : n # <<>>)

Length(path) == SumFunction([i \in DOMAIN path |-> Len(path[i])]) + Len(path) - 1

Node(kind, target, attr) == [kind |-> kind, target |-> target, attr |-> attr]

Described(r) == IF r.ok THEN [r EXCEPT !.value = <<@.kind, @.attr, Length(@.target)>>] ELSE r

Effect(c) ==
    LET p == NamesIn(c.p)
        q == NamesIn(c.q)
        id == Min(Ids \ DOMAIN tree.nodes)
    IN  CASE c.op = "mkdir" -> Make(tree, p, Node("dir", <<>>, 0), id, NameMax)
          [] c.op = "create" -> Make(tree, p, Node("file", <<>>, 0), id, NameMax)
          [] c.op = "symlink" ->
                IF c.target = << <<>> >> \/ \E i \in DOMAIN c.target : Len(c.target[i]) > TargetMax
                THEN Fail(tree)
                ELSE Make(tree, p, Node("link", Normalized(c.target), 0), id, NameMax)
          [] c.op = "unlink" -> remove_file(tree, p)
          [] c.op = "rmdir" -> remove_directory(tree, p)
          [] c.op = "link" -> link(tree, p, q, NameMax)
          [] c.op = "rename" -> rename(tree, p, q, NameMax)
          [] c.op = "setattr" -> setattr(tree, p, c.attr)
          [] c.op = "open" -> open_file(tree, p)
          [] c.op = "getattr" -> Described(stat(tree, p))
          [] c.op = "readlink" -> readlink(tree, p)
          [] c.op = "readdir" -> list(tree, p)

PInit == tree = Named(<<>>, <<>>) /\ casefold \in BOOLEAN

PNext ==
    /\ last'.call \in Calls
    /\ UNCHANGED casefold
    /\ LET r == Effect(last'.call)
       IN  tree' = r.tree /\ last'.ok = r.ok /\ last'.value = r.value

PSpec == PInit /\ [][PNext]_pvars

=============================================================================
