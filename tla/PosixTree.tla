------------------------------ MODULE PosixTree ------------------------------
(***************************************************************************)
(* A tree of files as POSIX and OSService (sources/unix.cpp) offer it:     *)
(* operators on a value t, where t.names maps paths to inodes and t.nodes  *)
(* maps inodes to what they are. A path is a sequence of names, the root   *)
(* being the empty one. Every call returns whether it succeeded, the tree  *)
(* it leaves, and a value. OSService throws when the system call fails.    *)
(***************************************************************************)
EXTENDS Naturals, Sequences, FiniteSets, FiniteSetsExt, Functions

Parent(p) == SubSeq(p, 1, Len(p) - 1)

IsPrefixOf(p, q) == Len(p) <= Len(q) /\ SubSeq(q, 1, Len(p)) = p

Ok(t, v) == [ok |-> TRUE, tree |-> t, value |-> v]
Fail(t) == [ok |-> FALSE, tree |-> t, value |-> <<>>]

Exists(t, p) == p = <<>> \/ p \in DOMAIN t.names

NodeOf(t, p) == IF p = <<>> THEN [kind |-> "dir", target |-> <<>>, attr |-> 0]
                ELSE t.nodes[t.names[p]]

IsDir(t, p) == Exists(t, p) /\ NodeOf(t, p).kind = "dir"

Children(t, p) == {q \in DOMAIN t.names : Parent(q) = p}

(* A new entry can be made: its directory exists and its name is not too long. *)
HasRoom(t, p, name_max) == p # <<>> /\ IsDir(t, Parent(p)) /\ Len(p[Len(p)]) <= name_max

(* The tree with these names, and without inodes that have none left. *)
Named(names, nodes) == [names |-> names, nodes |-> Restrict(nodes, Range(names))]

(* mkdir, symlink, and open with O_CREAT and O_EXCL. *)
Make(t, p, node, id, name_max) ==
    IF HasRoom(t, p, name_max) /\ ~Exists(t, p)
    THEN Ok(Named([q \in DOMAIN t.names \cup {p} |-> IF q = p THEN id ELSE t.names[q]],
                  [i \in DOMAIN t.nodes \cup {id} |-> IF i = id THEN node ELSE t.nodes[i]]),
            <<>>)
    ELSE Fail(t)

Dropped(t, p) == Named(Restrict(t.names, DOMAIN t.names \ {p}), t.nodes)

remove_file(t, p) == IF Exists(t, p) /\ ~IsDir(t, p) THEN Ok(Dropped(t, p), <<>>) ELSE Fail(t)

remove_directory(t, p) ==
    IF p # <<>> /\ IsDir(t, p) /\ Children(t, p) = {} THEN Ok(Dropped(t, p), <<>>) ELSE Fail(t)

link(t, p, q, name_max) ==
    IF Exists(t, p) /\ ~IsDir(t, p) /\ HasRoom(t, q, name_max) /\ ~Exists(t, q)
    THEN Ok([t EXCEPT !.names = [r \in DOMAIN @ \cup {q} |-> IF r = q THEN @[p] ELSE @[r]]], <<>>)
    ELSE Fail(t)

(* A directory takes everything below it along, and replaces an empty directory
   only; two names of one file stay.                                         *)
rename(t, p, q, name_max) ==
    LET Moved(r) == IF IsPrefixOf(p, r) THEN q \o SubSeq(r, Len(p) + 1, Len(r)) ELSE r
        kept     == DOMAIN t.names \ {q}
        names    == [s \in {Moved(r) : r \in kept} |-> t.names[CHOOSE r \in kept : Moved(r) = s]]
    IN  IF ~Exists(t, p) \/ p = <<>> \/ ~HasRoom(t, q, name_max) THEN Fail(t)
        ELSE IF Exists(t, q) /\ t.names[p] = t.names[q] THEN Ok(t, <<>>)
        ELSE IF \/ IsPrefixOf(p, q)
                \/ Exists(t, q) /\ (IsDir(t, p) # IsDir(t, q) \/ Children(t, q) # {})
             THEN Fail(t)
        ELSE Ok(Named(names, t.nodes), <<>>)

setattr(t, p, attr) ==
    IF p # <<>> /\ Exists(t, p) THEN Ok([t EXCEPT !.nodes[t.names[p]].attr = attr], <<>>) ELSE Fail(t)

open_file(t, p) == IF Exists(t, p) /\ ~IsDir(t, p) THEN Ok(t, <<>>) ELSE Fail(t)

stat(t, p) == IF Exists(t, p) THEN Ok(t, NodeOf(t, p)) ELSE Fail(t)

readlink(t, p) ==
    IF Exists(t, p) /\ NodeOf(t, p).kind = "link" THEN Ok(t, NodeOf(t, p).target) ELSE Fail(t)

(* opendir and readdir *)
list(t, p) == IF IsDir(t, p) THEN Ok(t, {q[Len(q)] : q \in Children(t, p)}) ELSE Fail(t)

=============================================================================
