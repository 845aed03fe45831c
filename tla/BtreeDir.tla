------------------------------- MODULE BtreeDir -------------------------------
(***************************************************************************)
(* The B-tree that stores a directory (sources/btree_dir.{h,cpp}): nodes   *)
(* in pages of the file's stream, a free list threaded through the pages   *)
(* that are not in use, and the cache of nodes whose parent pointers exist *)
(* only in memory.                                                         *)
(*                                                                         *)
(* A directory is a record dir that the operators below pass along, as the *)
(* methods pass the object: pages (the stream), cache (m_node_cache), and  *)
(* the three header fields root, start and free. bad is set where the code *)
(* throws CorruptedDirectoryException. A page is what to_buffer and        *)
(* write_free_page make of it: a node, a link of the free list, or zeros.  *)
(***************************************************************************)
EXTENDS Integers, Sequences, FiniteSets, SequencesExt

CONSTANTS
    Names,                  \* file names, ordered: a set of integers
    Values,                 \* an entry's id and type
    None,                   \* no entry
    BTREE_MAX_NUM_ENTRIES,  \* 13 in the code
    BTREE_MAX_DEPTH,        \* 32 in the code
    CacheLimit,             \* nodes that stay cached over a flush, 8 in the code
    RebuildLimit,           \* free pages that stay without a rebuild, 5 in the code
    Prefills,               \* sequences of names, one of which was added before the start
    Addable(_),             \* bound: names callers add to a directory with these names
    Removable(_),           \* bound: names callers remove from such a directory
    Refusals                \* calls at which an iteration's callback returns false

(* A node of BTREE_MAX_NUM_ENTRIES + 1 entries must split into two nodes of at
   least BTREE_MAX_NUM_ENTRIES / 2 entries, and a node that lost an entry must
   keep one to compare with its sibling.                                     *)
ASSUME BtreeAssumption ==
    /\ Names \subseteq Int
    /\ None \notin Values
    /\ BTREE_MAX_NUM_ENTRIES >= 5 /\ BTREE_MAX_NUM_ENTRIES % 2 = 1
    /\ BTREE_MAX_DEPTH \in Nat \ {0}
    /\ Prefills \subseteq Seq(Names)
    /\ \A prefill \in Prefills : Addable(ToSet(prefill)) \cup Removable(ToSet(prefill)) \subseteq Names

VARIABLES
    dir,    \* the directory
    last    \* the last call and what it returned

vars == <<dir, last>>

INVALID_PAGE == -1

Entry == [name : Names, value : Values]

ZeroPage == [kind |-> "zero"]

FreePage(nxt, prv) == [kind |-> "free", next |-> nxt, prev |-> prv]

NodePage(n) == [kind |-> "node", ents |-> n.ents, kids |-> n.kids]

EmptyDir == [pages |-> <<>>, cache |-> [p \in {} |-> ZeroPage], root |-> INVALID_PAGE,
             start |-> INVALID_PAGE, free |-> 0, bad |-> FALSE]

-----------------------------------------------------------------------------
(* dir_check: the exception leaves everything as it is. *)
Checked(d, ok) == IF ok THEN d ELSE [d EXCEPT !.bad = TRUE]

HasPage(d, num) == num \in 0..(Len(d.pages) - 1)

PageAt(d, num) == d.pages[num + 1]

WritePage(d, num, page) == [d EXCEPT !.pages[num + 1] = page]

(* Mutant: the new head of the free list keeps its link to the old one. *)
AllocatePageKeepsPrev(d) ==
    IF d.start = INVALID_PAGE
    THEN [dir |-> [d EXCEPT !.pages = Append(@, ZeroPage)], pg |-> Len(d.pages)]
    ELSE [dir |-> [d EXCEPT !.free = @ - 1, !.start = PageAt(d, d.start).next], pg |-> d.start]

(* allocate_page: the head pg of the free list, or a new page of zeros. *)
AllocatePage(d) ==
    IF d.start = INVALID_PAGE
    THEN [dir |-> [d EXCEPT !.pages = Append(@, ZeroPage)], pg |-> Len(d.pages)]
    ELSE IF PageAt(d, d.start).kind # "free"
    THEN [dir |-> Checked(d, FALSE), pg |-> 0]
    ELSE LET nxt   == PageAt(d, d.start).next
             taken == [d EXCEPT !.free = @ - 1, !.start = nxt]
         IN  [dir |-> IF nxt = INVALID_PAGE THEN taken
                      ELSE WritePage(taken, nxt, [PageAt(d, nxt) EXCEPT !.prev = INVALID_PAGE]),
              pg  |-> d.start]

(* deallocate_page: the stream shrinks when num is one past its last page,
   otherwise num becomes the head of the free list.                          *)
DeallocatePage(d, num) ==
    IF num = Len(d.pages)
    THEN [d EXCEPT !.pages = SubSeq(@, 1, num - 1)]
    ELSE LET put    == WritePage(d, num, FreePage(d.start, INVALID_PAGE))
             linked == IF d.start = INVALID_PAGE THEN put
                       ELSE WritePage(put, d.start, [PageAt(put, d.start) EXCEPT !.prev = num])
         IN  [linked EXCEPT !.start = num, !.free = @ + 1]

(* read_node and from_buffer: a page that is not a node reads as one without
   entries.                                                                  *)
ReadNode(d, parent, num) ==
    LET page == PageAt(d, num)
    IN  [parent |-> parent, dirty |-> FALSE,
         ents |-> IF page.kind = "node" THEN page.ents ELSE <<>>,
         kids |-> IF page.kind = "node" THEN page.kids ELSE <<>>]

IsCached(d, num) == num \in DOMAIN d.cache

(* retrieve_node: from the cache, where the parent must match, or from the
   stream.                                                                   *)
Retrieve(d, parent, num) ==
    IF IsCached(d, num)
    THEN Checked(d, parent = INVALID_PAGE \/ parent = d.cache[num].parent)
    ELSE IF HasPage(d, num)
         THEN [d EXCEPT !.cache = (num :> ReadNode(d, parent, num)) @@ @]
         ELSE Checked(d, FALSE)

NodeAt(d, num) == d.cache[num]

(* mutable_entries, mutable_children, mutable_parent_page_number. *)
Modify(d, num, ents, kids) ==
    [d EXCEPT !.cache[num].ents = ents, !.cache[num].kids = kids, !.cache[num].dirty = TRUE]

IsLeaf(n) == n.kids = <<>>

(* Mutant: nodes in the cache keep their parent. *)
AdjustNothing(d, kids, parent) == d

(* adjust_children_in_cache *)
AdjustChildren(d, kids, parent) ==
    [d EXCEPT !.cache =
        [p \in DOMAIN d.cache |->
            IF Contains(kids, p) THEN [d.cache[p] EXCEPT !.parent = parent, !.dirty = TRUE]
            ELSE d.cache[p]]]

(* std::lower_bound: how many entries precede name. *)
LowerBound(ents, name) == Cardinality({i \in DOMAIN ents : ents[i].name < name})

-----------------------------------------------------------------------------
(* find_node: the node that holds name, or the leaf it belongs to, together
   with its (0-based) index there and the directory with the nodes on the
   way cached.                                                               *)
RECURSIVE FindFrom(_, _, _, _)
FindFrom(d, num, name, depth) ==
    LET n  == NodeAt(d, num)
        lb == LowerBound(n.ents, name)
        eq == lb < Len(n.ents) /\ n.ents[lb + 1].name = name
    IN  IF d.bad \/ depth = BTREE_MAX_DEPTH
        THEN [dir |-> Checked(d, FALSE), num |-> INVALID_PAGE, index |-> 0, equal |-> FALSE]
        ELSE IF eq \/ IsLeaf(n)
        THEN [dir |-> d, num |-> num, index |-> lb, equal |-> eq]
        ELSE FindFrom(Retrieve(d, num, n.kids[lb + 1]), n.kids[lb + 1], name, depth + 1)

FindNode(d, name) ==
    IF d.root = INVALID_PAGE
    THEN [dir |-> d, num |-> INVALID_PAGE, index |-> 0, equal |-> FALSE]
    ELSE FindFrom(Retrieve(d, INVALID_PAGE, d.root), d.root, name, 0)

(* insert_and_balance: the entry (and the page of a new child right of it)
   joins node num; a node that is too large splits, and its middle entry goes
   up, into a new root if there is no parent.                                *)
RECURSIVE InsertAndBalance(_, _, _, _, _)
InsertAndBalance(d, num, e, child, depth) ==
    LET n    == NodeAt(d, num)
        lb   == LowerBound(n.ents, e.name)
        ents == InsertAt(n.ents, lb + 1, e)
        kids == IF child # INVALID_PAGE /\ ~IsLeaf(n) THEN InsertAt(n.kids, lb + 2, child)
                ELSE n.kids
        one  == Modify(d, num, ents, kids)
    IN  IF d.bad \/ depth = BTREE_MAX_DEPTH THEN Checked(d, FALSE)
        ELSE IF Len(ents) <= BTREE_MAX_NUM_ENTRIES THEN one
        ELSE LET new    == AllocatePage(one)
                 sib    == new.pg
                 middle == Len(ents) \div 2
                 right  == SubSeq(kids, middle + 1, Len(kids))
                 got    == Retrieve(new.dir, n.parent, sib)
                 rest   == IF IsLeaf(n) THEN <<>> ELSE SubSeq(kids, 1, middle)
                 cut    == Modify(got, num, SubSeq(ents, 1, middle - 1), rest)
                 two    == AdjustChildren(
                               Modify(cut, sib, SubSeq(ents, middle + 1, Len(ents)), right),
                               right, sib)
             IN  IF n.parent # INVALID_PAGE
                 THEN InsertAndBalance(two, n.parent, ents[middle], sib, depth + 1)
                 ELSE LET top == AllocatePage(two)
                          up  == Modify(Retrieve(top.dir, INVALID_PAGE, top.pg), top.pg,
                                        <<ents[middle]>>, <<num, sib>>)
                      IN  AdjustChildren([up EXCEPT !.root = top.pg], <<num, sib>>, top.pg)

(* add_entry_impl *)
AddEntry(d, name, value) ==
    LET f == FindNode(d, name)
        e == [name |-> name, value |-> value]
    IN  IF f.equal THEN f.dir
        ELSE IF f.num # INVALID_PAGE THEN InsertAndBalance(f.dir, f.num, e, INVALID_PAGE, 0)
        ELSE LET new == AllocatePage(f.dir)
                 d1  == [new.dir EXCEPT !.root = new.pg]
             IN  Modify(Retrieve(d1, INVALID_PAGE, new.pg), new.pg, <<e>>, <<>>)

-----------------------------------------------------------------------------
(* replace_with_sub_entry: the entry leaves its leaf, or is replaced by the
   last entry of the leaf before it. leaf is the node that got smaller.      *)
RECURSIVE LastLeaf(_, _)
LastLeaf(d, num) ==
    LET n == NodeAt(d, num)
    IN  IF d.bad \/ IsLeaf(n) THEN [dir |-> d, leaf |-> num]
        ELSE LastLeaf(Retrieve(d, num, Last(n.kids)), Last(n.kids))

ReplaceWithSubEntry(d, num, index) ==
    LET n == NodeAt(d, num)
    IN  IF IsLeaf(n)
        THEN [dir |-> Modify(d, num, RemoveAt(n.ents, index + 1), n.kids), leaf |-> num]
        ELSE LET c    == n.kids[index + 1]
                 l    == LastLeaf(Retrieve(d, num, c), c)
                 sub  == NodeAt(l.dir, l.leaf).ents
                 d1   == Modify(l.dir, num, ReplaceAt(n.ents, index + 1, Last(sub)), n.kids)
             IN  [dir |-> Modify(d1, l.leaf, Front(sub), <<>>), leaf |-> l.leaf]

(* del_node *)
DelNode(d, num) ==
    LET d1 == DeallocatePage(d, num)
    IN  [d1 EXCEPT !.cache = [p \in DOMAIN d1.cache \ {num} |-> d1.cache[p]]]

(* Mutant: the children of right keep it as their parent. *)
MergeKeepsParents(d, left, right, parent, index) ==
    LET l  == NodeAt(d, left)
        r  == NodeAt(d, right)
        p  == NodeAt(d, parent)
        d1 == Modify(d, left, Append(l.ents, p.ents[index + 1]) \o r.ents, l.kids \o r.kids)
        d2 == Modify(d1, parent, RemoveAt(p.ents, index + 1), RemoveFirst(p.kids, right))
    IN  DelNode(d2, right)

(* merge: right and the separator join left. *)
Merge(d, left, right, parent, index) ==
    LET l  == NodeAt(d, left)
        r  == NodeAt(d, right)
        p  == NodeAt(d, parent)
        d1 == Modify(d, left, Append(l.ents, p.ents[index + 1]) \o r.ents, l.kids \o r.kids)
        d2 == Modify(d1, parent, RemoveAt(p.ents, index + 1),
                     RemoveFirst(p.kids, right))
    IN  DelNode(AdjustChildren(d2, r.kids, left), right)

(* Mutant: the children are shared out one short. *)
RotateOffByOne(d, left, right, parent, index) ==
    LET l      == NodeAt(d, left)
        r      == NodeAt(d, right)
        p      == NodeAt(d, parent)
        ents   == Append(l.ents, p.ents[index + 1]) \o r.ents
        kids   == l.kids \o r.kids
        middle == Len(ents) \div 2
        inner  == ~IsLeaf(l) /\ ~IsLeaf(r)
        lkids  == IF inner THEN SubSeq(kids, 1, middle) ELSE l.kids
        rkids  == IF inner THEN SubSeq(kids, middle + 1, Len(kids)) ELSE r.kids
        d1     == Modify(d, parent, ReplaceAt(p.ents, index + 1, ents[middle + 1]), p.kids)
        d2     == Modify(d1, left, SubSeq(ents, 1, middle), lkids)
        d3     == Modify(d2, right, SubSeq(ents, middle + 2, Len(ents)), rkids)
    IN  AdjustChildren(AdjustChildren(d3, lkids, left), rkids, right)

(* rotate: the entries of both, and the separator, are shared out evenly. *)
Rotate(d, left, right, parent, index) ==
    LET l      == NodeAt(d, left)
        r      == NodeAt(d, right)
        p      == NodeAt(d, parent)
        ents   == Append(l.ents, p.ents[index + 1]) \o r.ents
        kids   == l.kids \o r.kids
        middle == Len(ents) \div 2
        inner  == ~IsLeaf(l) /\ ~IsLeaf(r)
        lkids  == IF inner THEN SubSeq(kids, 1, middle + 1) ELSE l.kids
        rkids  == IF inner THEN SubSeq(kids, middle + 2, Len(kids)) ELSE r.kids
        d1     == Modify(d, parent, ReplaceAt(p.ents, index + 1, ents[middle + 1]), p.kids)
        d2     == Modify(d1, left, SubSeq(ents, 1, middle), lkids)
        d3     == Modify(d2, right, SubSeq(ents, middle + 2, Len(ents)), rkids)
    IN  AdjustChildren(AdjustChildren(d3, lkids, left), rkids, right)

(* find_sibling: the right sibling, or the left one of the last child, with
   the index of the entry that separates them.                               *)
Sibling(kids, num) ==
    LET i == CHOOSE j \in DOMAIN kids : kids[j] = num
    IN  IF i = Len(kids) THEN [num |-> kids[i - 1], index |-> i - 2]
        ELSE [num |-> kids[i + 1], index |-> i - 1]

(* balance_up: a root without entries gives way to its only child; a node
   that is too small merges with a sibling or takes entries from it.         *)
RECURSIVE BalanceUp(_, _, _)
BalanceUp(d, num, depth) ==
    LET n == NodeAt(d, num) IN
    IF d.bad \/ depth = BTREE_MAX_DEPTH THEN Checked(d, FALSE)
    ELSE IF n.parent = INVALID_PAGE /\ n.ents = <<>> /\ n.kids # <<>>
    THEN IF Len(n.kids) # 1 THEN Checked(d, FALSE)
         ELSE DelNode([AdjustChildren(d, n.kids, INVALID_PAGE) EXCEPT !.root = n.kids[1]], num)
    ELSE IF n.parent = INVALID_PAGE \/ Len(n.ents) >= BTREE_MAX_NUM_ENTRIES \div 2 THEN d
    ELSE IF ~IsCached(d, n.parent) \/ ~Contains(NodeAt(d, n.parent).kids, num)
    THEN Checked(d, FALSE)
    ELSE LET s     == Sibling(NodeAt(d, n.parent).kids, num)
             d1    == Retrieve(d, n.parent, s.num)
             sents == NodeAt(d1, s.num).ents
             first == Last(n.ents).name < Head(sents).name
             left  == IF first THEN num ELSE s.num
             right == IF first THEN s.num ELSE num
             d2    == IF Len(n.ents) + Len(sents) < BTREE_MAX_NUM_ENTRIES
                      THEN Merge(d1, left, right, n.parent, s.index)
                      ELSE Rotate(d1, left, right, n.parent, s.index)
         IN  IF d1.bad THEN d1 ELSE BalanceUp(d2, n.parent, depth + 1)

(* remove_entry_impl *)
RemoveEntry(d, name) ==
    LET f == FindNode(d, name)
    IN  IF ~f.equal THEN f.dir
        ELSE LET r == ReplaceWithSubEntry(f.dir, f.num, f.index)
             IN  BalanceUp(r.dir, r.leaf, 0)

(* get_entry_impl *)
GetEntry(d, name) ==
    LET f == FindNode(d, name)
    IN  IF f.equal THEN NodeAt(f.dir, f.num).ents[f.index + 1].value ELSE None

(* recursive_iterate: every entry of a node, then those of its children. *)
RECURSIVE IterateFrom(_, _, _)
IterateFrom(d, num, depth) ==
    LET n == NodeAt(d, num)
        Upto[i \in 0..Len(n.kids)] ==
            IF i = 0 THEN [dir |-> d, shown |-> n.ents]
            ELSE LET acc == Upto[i - 1]
                     sub == IterateFrom(Retrieve(acc.dir, num, n.kids[i]), n.kids[i], depth + 1)
                 IN  [dir |-> sub.dir, shown |-> acc.shown \o sub.shown]
    IN  IF d.bad \/ depth = BTREE_MAX_DEPTH THEN [dir |-> Checked(d, FALSE), shown |-> <<>>]
        ELSE Upto[Len(n.kids)]

(* iterate_over_entries_impl *)
Iterate(d) ==
    IF d.root = INVALID_PAGE THEN [dir |-> d, shown |-> <<>>]
    ELSE IterateFrom(Retrieve(d, INVALID_PAGE, d.root), d.root, 0)

AddAll(d, ents) == FoldLeft(LAMBDA acc, e : AddEntry(acc, e.name, e.value), d, ents)

(* Mutant: the cache is cleared before the entries are taken out. *)
RebuildClearsFirst(d) ==
    IF d.root = INVALID_PAGE THEN d
    ELSE AddAll(EmptyDir, Iterate([d EXCEPT !.cache = EmptyDir.cache]).shown)

(* rebuild: every entry is taken out, the stream emptied, and the entries are
   added again.                                                              *)
Rebuild(d) ==
    LET it == Iterate(d) IN
    IF d.root = INVALID_PAGE \/ it.dir.bad THEN it.dir ELSE AddAll(EmptyDir, it.shown)

(* flush_cache: dirty nodes are written; a large cache is dropped. *)
FlushCache(d) ==
    [d EXCEPT
        !.pages = [i \in DOMAIN d.pages |->
                      IF IsCached(d, i - 1) /\ d.cache[i - 1].dirty THEN NodePage(d.cache[i - 1])
                      ELSE d.pages[i]],
        !.cache = IF Cardinality(DOMAIN d.cache) > CacheLimit THEN EmptyDir.cache
                  ELSE [p \in DOMAIN d.cache |-> [d.cache[p] EXCEPT !.dirty = FALSE]]]

(* subflush: two thirds of the pages are free, and not only a few. *)
Flush(d) ==
    FlushCache(IF d.free > RebuildLimit /\ d.free > (2 * Len(d.pages)) \div 3
               THEN Rebuild(d) ELSE d)

-----------------------------------------------------------------------------
SomeValue == CHOOSE v \in Values : TRUE

Returned(call, result) == last' = [call |-> call, result |-> result]

Init ==
    /\ \E names \in Prefills :
          dir = Flush(AddAll(EmptyDir, [i \in DOMAIN names |->
                                          [name |-> names[i], value |-> SomeValue]]))
    /\ last = [call |-> <<"flush">>, result |-> None]

get_entry(n) ==
    /\ dir' = FindNode(dir, n).dir
    /\ Returned(<<"get_entry", n>>, GetEntry(dir, n))

add_entry(n, v) ==
    /\ dir' = AddEntry(dir, n, v)
    /\ Returned(<<"add_entry", n, v>>, ~FindNode(dir, n).equal)

remove_entry(n) ==
    /\ dir' = RemoveEntry(dir, n)
    /\ Returned(<<"remove_entry", n>>, GetEntry(dir, n))

(* The callback returns false at its k-th call; recursive_iterate does not
   look at what it returns.                                                  *)
iterate_over_entries(k) ==
    LET it == Iterate(dir) IN
    /\ dir' = it.dir
    /\ Returned(<<"iterate_over_entries", k>>,
                [n \in Names |-> Cardinality({i \in DOMAIN it.shown : it.shown[i].name = n})])

(* empty looks at the root only. *)
empty ==
    LET d == IF dir.root = INVALID_PAGE THEN dir ELSE Retrieve(dir, INVALID_PAGE, dir.root) IN
    /\ dir' = d
    /\ Returned(<<"empty">>, d.root = INVALID_PAGE \/ NodeAt(d, d.root).ents = <<>>)

flush ==
    /\ dir' = Flush(dir)
    /\ Returned(<<"flush">>, None)

(* The file leaves the table's cache and is opened again. *)
reopen ==
    /\ dir' = [Flush(dir) EXCEPT !.cache = EmptyDir.cache]
    /\ Returned(<<"flush">>, None)

(* A node as the directory sees it: the cached copy, or the page. *)
Logical(num) == IF IsCached(dir, num) THEN NodeAt(dir, num) ELSE ReadNode(dir, INVALID_PAGE, num)

RECURSIVE PagesBelow(_)
PagesBelow(num) == {num} \cup UNION {PagesBelow(k) : k \in ToSet(Logical(num).kids)}

TreePages == IF dir.root = INVALID_PAGE THEN {} ELSE PagesBelow(dir.root)

Contents == UNION {ToSet(Logical(num).ents) : num \in TreePages}

Listed == {e.name : e \in Contents}

Next ==
    \/ \E n \in Addable(Listed), v \in Values : add_entry(n, v)
    \/ \E n \in Removable(Listed) : remove_entry(n)
    \/ \E n \in Addable(Listed) \cup Removable(Listed) : get_entry(n)
    \/ \E k \in Refusals : iterate_over_entries(k)
    \/ empty \/ flush \/ reopen

Spec == Init /\ [][Next]_vars

-----------------------------------------------------------------------------
RECURSIVE DepthsBelow(_)
DepthsBelow(num) ==
    IF Logical(num).kids = <<>> THEN {0}
    ELSE {depth + 1 : depth \in UNION {DepthsBelow(k) : k \in ToSet(Logical(num).kids)}}

(* The names below a page, in the order of the tree. *)
RECURSIVE InOrder(_)
InOrder(num) ==
    LET n == Logical(num)
        names == [i \in DOMAIN n.ents |-> n.ents[i].name]
        Upto[i \in 0..Len(names)] ==
            IF i = 0 THEN InOrder(n.kids[1])
            ELSE Append(Upto[i - 1], names[i]) \o InOrder(n.kids[i + 1])
    IN  IF n.kids = <<>> THEN names ELSE Upto[Len(names)]

(* No operation ever meets a directory it must call corrupted: every dir_check
   holds, in particular the one on the parent of a cached node.              *)
NeverCorrupted == ~dir.bad

(* The pages form a B-tree: entries in order across the whole tree (a search
   looks in the right child), every node but the root at least half full and
   none too large, a child left and right of every entry, all leaves equally
   deep. validate_btree_structure checks less: it ignores what it finds below
   the root, and the depth.                                                  *)
BtreeSound ==
    dir.root # INVALID_PAGE =>
        /\ \A num \in TreePages :
              LET n == Logical(num) IN
              /\ n.kids # <<>> => Len(n.kids) = Len(n.ents) + 1
              /\ Len(n.ents) <= BTREE_MAX_NUM_ENTRIES
              /\ num # dir.root => Len(n.ents) >= BTREE_MAX_NUM_ENTRIES \div 2
        /\ Cardinality(DepthsBelow(dir.root)) = 1
        /\ LET order == InOrder(dir.root)
           IN  \A i \in 1..(Len(order) - 1) : order[i] < order[i + 1]

(* The free list holds exactly the pages the tree does not use, each once,
   as many as the header counts, with the right backward links: no page leaks
   and none is given out twice.                                              *)
PagesAccounted ==
    LET Walk[i \in 0..Len(dir.pages)] ==
            IF i = 0 THEN dir.start
            ELSE LET p == Walk[i - 1]
                 IN  IF HasPage(dir, p) /\ PageAt(dir, p).kind = "free" THEN PageAt(dir, p).next
                     ELSE INVALID_PAGE
        listed == {Walk[i] : i \in 0..(dir.free - 1)}
    IN  /\ dir.free <= Len(dir.pages)
        /\ Cardinality(listed) = dir.free
        /\ listed \cap TreePages = {}
        /\ listed \cup TreePages = 0..(Len(dir.pages) - 1)
        /\ Walk[dir.free] = INVALID_PAGE
        /\ \A i \in 0..(dir.free - 1) :
              PageAt(dir, Walk[i]).prev = IF i = 0 THEN INVALID_PAGE ELSE Walk[i - 1]

(* Every cached node is a node of the tree, knows its parent, and has it in
   the cache, as insert_and_balance and balance_up assume; and a node that is
   not dirty is on its page, so that flush_cache may drop it.                *)
CacheCoherent ==
    /\ DOMAIN dir.cache \subseteq TreePages
    /\ \A num \in DOMAIN dir.cache :
        LET n == NodeAt(dir, num) IN
        /\ IF num = dir.root THEN n.parent = INVALID_PAGE
           ELSE IsCached(dir, n.parent) /\ Contains(NodeAt(dir, n.parent).kids, num)
        /\ ~n.dirty => PageAt(dir, num) = NodePage(n)

(* An iteration ends when its callback returns false, as the comment on
   iterate_over_entries says ("the iteration will be terminated").           *)
IterationStops ==
    last.call[1] = "iterate_over_entries" => SumFunction(last.result) <= last.call[2]

Abstract == INSTANCE DirectoryMap WITH entries <- Contents

(* The directory is a map: every call returns and changes what the abstract
   directory does, whatever is cached, flushed, rebuilt or reloaded before.  *)
ImplementsDirectory == Abstract!DSpec

=============================================================================
