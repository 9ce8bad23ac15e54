------------------------------- MODULE BTree -------------------------------
(***************************************************************************)
(* The B+ tree of a bucket: search, insertion with splits, deletion with   *)
(* borrowing and merging, path copying, and iteration, on the pages of one *)
(* writer's transactions.                                                  *)
(*                                                                         *)
(* A node is the sequence of its keys and of its data: the values of a     *)
(* leaf, the children of a branch (one more than keys; the last is         *)
(* tail_child).  Slots count from 1.  Offsets, slots and compaction inside *)
(* a page are left out: a page holds PageSpace units, a record takes the   *)
(* size of its key, slot included, and of its value.  Records that need    *)
(* overflow pages are not modelled.                                        *)
(*                                                                         *)
(* Pager::Alloc is abstracted to the lowest page not in use: TxManager     *)
(* shows that it hands out no page of a live version.  An assertion of the *)
(* code that does not hold sets failed, which ends the behaviour.          *)
(***************************************************************************)
EXTENDS Integers, Sequences, SequencesExt, FiniteSets, FiniteSetsExt, TLC

CONSTANTS
    Keys,        \* a finite set of integers
    Values,
    KeySize,     \* the space each key takes, with its slot
    ValueSize,   \* the space each value takes
    PageSpace,   \* the space of a page
    MaxPages,    \* pages of the file, more than the other bounds use up
    MaxOps       \* bound on the operations of a transaction

\* A page has room for two records; a larger one goes to overflow pages.
MaxInlineRecordSize == PageSpace \div 2

ASSUME BTreeAssumption ==
    /\ Keys \subseteq Int
    /\ KeySize \in [Keys -> Nat \ {0}] /\ ValueSize \in [Values -> Nat]
    /\ PageSpace \in Nat
    /\ \A k \in Keys, v \in Values : KeySize[k] + ValueSize[v] <= MaxInlineRecordSize

PageIds        == 1 .. MaxPages
kPageInvalidId == 0

VARIABLES
    tree,            \* what the writer sees: [root, node, own, freed, failed]
    committed_root,  \* root of the last committed version
    contents,        \* auxiliary: what the writer has put
    committed,       \* auxiliary: what was committed
    ops              \* auxiliary: operations of this transaction

vars == <<tree, committed_root, contents, committed, ops>>

-----------------------------------------------------------------------------
(* Nodes.                                                                   *)

Leaf(ks, vs)   == [type |-> "leaf", keys |-> ks, data |-> vs]
Branch(ks, cs) == [type |-> "branch", keys |-> ks, data |-> cs]
Count(n)       == Len(n.keys)

RecordSize(n, k, d) == KeySize[k] + IF n.type = "leaf" THEN ValueSize[d] ELSE 0

\* The space in use, slots included: what FreeSpaceAfterCompaction leaves.
Space(n) ==
    FoldLeft(LAMBDA s, i : s + RecordSize(n, n.keys[i], n.data[i]), 0, [i \in 1 .. Count(n) |-> i])

\* Node::RequestSpaceFor and Node::GetFillRate.
Fits(n, k, d) == Space(n) + RecordSize(n, k, d) <= PageSpace
TooEmpty(n)   == 5 * Space(n) < 2 * PageSpace                    \* below 0.4

\* Mutant: > for >=.
HasSpareOfThree(n) == 2 * Space(n) > PageSpace /\ Count(n) > 2

\* The test of both BTree::Delete on the sibling: above 0.5.
HasSpare(n) == 2 * Space(n) > PageSpace /\ Count(n) >= 2

\* Insert and Delete of BranchNode and LeafNode: record s, with its own or, in
\* a branch, its right child.
Insert(n, s, k, d, right) ==
    [n EXCEPT !.keys = InsertAt(@, s, k), !.data = InsertAt(@, IF right THEN s + 1 ELSE s, d)]
Delete(n, s, right) ==
    [n EXCEPT !.keys = RemoveAt(@, s), !.data = RemoveAt(@, IF right THEN s + 1 ELSE s)]

\* Node::LowerBound
LowerSlot(n, key) == 1 + Cardinality({i \in 1 .. Count(n) : n.keys[i] < key})
HasKeyAt(n, s, key) == s <= Count(n) /\ n.keys[s] = key

-----------------------------------------------------------------------------
(* Pages.                                                                   *)

SetNode(t, p, n) == [t EXCEPT !.node = (p :> n) @@ @]

Alloc(t) == Min(PageIds \ DOMAIN t.node)

\* Pager::Alloc and Build: n goes to the page Alloc(t).
NewNode(t, n) == [SetNode(t, Alloc(t), n) EXCEPT !.own = @ \cup {Alloc(t)}]

\* Pager::Free; debug_free_set_ finds a page that is freed twice.
Free(t, p) == [t EXCEPT !.freed = @ \cup {p}, !.failed = @ \/ p \in t.freed]

Require(t, condition) == [t EXCEPT !.failed = @ \/ ~condition]

\* TxImpl::CopyNeeded, with no log: only the writer's own pages are not copied.
CopyNeeded(t, p) == p \notin t.own

-----------------------------------------------------------------------------
(* The iterator: a path of pages and slots, from the root to a leaf.        *)

At(p, s) == [pgid |-> p, slot |-> s]

RECURSIVE Down(_, _, _)
\* BTreeIterator::Down from page p to the leaf.
Down(t, p, key) ==
    LET n == t.node[p]
        s == LowerSlot(n, key)
        c == IF HasKeyAt(n, s, key) THEN s + 1 ELSE s
    IN  IF n.type = "leaf" THEN <<At(p, s)>> ELSE <<At(p, c)>> \o Down(t, n.data[c], key)

\* BTree::LowerBound
LowerBound(t, key) == IF t.root = kPageInvalidId THEN <<>> ELSE Down(t, t.root, key)

\* Status::kEq
Found(t, path, key) ==
    path # <<>> /\ HasKeyAt(t.node[Last(path).pgid], Last(path).slot, key)

RECURSIVE First(_, _)
\* BTreeIterator::First
First(t, p) ==
    LET n == t.node[p]
    IN  IF n.type = "branch" THEN <<At(p, 1)>> \o First(t, n.data[1])
        ELSE IF Count(n) = 0 THEN <<>>
        ELSE <<At(p, 1)>>

RECURSIVE IterNext(_, _)
\* Mutant: the tail child of a branch is passed over.
IterNextSkipsTail(t, path) ==
    IF path = <<>> THEN <<>>
    ELSE LET f == Last(path)
             n == t.node[f.pgid]
             s == f.slot + 1
         IN  IF s > Count(n) THEN IterNext(t, Front(path))
             ELSE Append(Front(path), At(f.pgid, s)) \o
                  IF n.type = "branch" THEN First(t, n.data[s]) ELSE <<>>

\* BTreeIterator::Next
IterNext(t, path) ==
    IF path = <<>> THEN <<>>
    ELSE LET f == Last(path)
             n == t.node[f.pgid]
             s == f.slot + 1
         IN  IF n.type = "leaf" /\ s <= Count(n) THEN Append(Front(path), At(f.pgid, s))
             ELSE IF n.type = "branch" /\ s <= Count(n) + 1
             THEN Append(Front(path), At(f.pgid, s)) \o First(t, n.data[s])
             ELSE IterNext(t, Front(path))

RECURSIVE CopyPath(_, _, _, _)
\* The loop of BTreeIterator::CopyAllPagesByPath at position i of the path;
\* lower is the page that position i + 1 now has.
CopyPath(t, path, i, lower) ==
    IF i = 0 THEN [t |-> [t EXCEPT !.root = lower], path |-> path]
    ELSE LET p == path[i].pgid
             n == IF t.node[p].type = "leaf" THEN t.node[p]
                  ELSE [t.node[p] EXCEPT !.data[path[i].slot] = lower]
         IN  IF ~CopyNeeded(t, p)
             THEN [t |-> SetNode(t, p, n), path |-> path]
             ELSE CopyPath(Free(NewNode(t, n), p),
                           [path EXCEPT ![i].pgid = Alloc(t)], i - 1, Alloc(t))

CopyAllPagesByPath(t, path) ==
    IF path = <<>> THEN [t |-> t, path |-> path]
    ELSE CopyPath(t, path, Len(path), kPageInvalidId)

-----------------------------------------------------------------------------
(* Insertion.                                                               *)

\* How many records Split leaves in the left node: it moves the last one, and
\* goes on until the left node is at most half full.
Kept(n) ==
    Max({m \in 0 .. (Count(n) - 1) :
            2 * Space([n EXCEPT !.keys = SubSeq(@, 1, m)]) <= PageSpace})

\* Both Splits assert it of the node they are given.
Splittable(n) == Count(n) >= 2 /\ 2 * Space(n) > PageSpace

\* BTree::Split of a leaf; in the end one side has two records, the other one.
SplitLeaf(n, s, k, v) ==
    LET m      == Kept(n)
        left   == Leaf(SubSeq(n.keys, 1, m), SubSeq(n.data, 1, m))
        right  == Leaf(SubSeq(n.keys, m + 1, Count(n)), SubSeq(n.data, m + 1, Count(n)))
        first  == Insert(left, m + 1, right.keys[1], right.data[1], FALSE)
        second == Delete(right, 1, FALSE)
        Halves(ok, l, r) ==
            [ok |-> /\ ok /\ Splittable(n)
                    /\ Count(l) >= 1 /\ Count(r) >= 1 /\ Count(l) + Count(r) >= 3,
             left |-> l, right |-> r]
    IN  IF s <= m + 1
        THEN Halves(Fits(left, k, v), Insert(left, s, k, v, FALSE), right)
        ELSE IF Fits(right, k, v)
        THEN Halves(TRUE, left, Insert(right, s - m, k, v, FALSE))
        ELSE Halves(Fits(left, right.keys[1], right.data[1]) /\ Fits(second, k, v),
                    first, Insert(second, s - m - 1, k, v, FALSE))

\* The key that rises when a branch has been split.
Rise(ok, left, right) ==
    IF Count(left) >= 2
    THEN [ok |-> ok /\ Count(right) >= 1, up |-> Last(left.keys),
          left |-> Delete(left, Count(left), TRUE), right |-> right]
    ELSE [ok |-> ok /\ Count(right) >= 2, up |-> right.keys[1],
          left |-> [left EXCEPT !.data[Count(left) + 1] = right.data[1]],
          right |-> Delete(right, 1, FALSE)]

\* BTree::Split of a branch.  Until the key has risen, the left node still has
\* the tail child that has become the right node's.
SplitBranch(n, s, k, child) ==
    LET m      == Kept(n)
        kids   == [n.data EXCEPT ![s] = child]
        left   == Branch(SubSeq(n.keys, 1, m), Append(SubSeq(kids, 1, m), Last(kids)))
        right  == Branch(SubSeq(n.keys, m + 1, Count(n)), SubSeq(kids, m + 1, Count(n) + 1))
        first  == Insert(left, m + 1, right.keys[1], right.data[1], TRUE)
        second == Delete(right, 1, FALSE)
    IN  IF s <= m + 1
        THEN Rise(Fits(left, k, n.data[s]), Insert(left, s, k, n.data[s], FALSE), right)
        ELSE IF Fits(right, k, n.data[s])
        THEN Rise(TRUE, left, Insert(right, s - m, k, n.data[s], FALSE))
        ELSE Rise(Fits(left, right.keys[1], right.data[1]) /\ Fits(second, k, n.data[s]),
                  first, Insert(second, s - m - 1, k, n.data[s], FALSE))

RECURSIVE PutBranch(_, _, _, _, _)
\* BTree::Put of a new right sibling, with its key, into the branches of path.
PutBranch(t, path, left, right, key) ==
    IF path = <<>>
    THEN [NewNode(t, Branch(<<key>>, <<left, right>>)) EXCEPT !.root = Alloc(t)]
    ELSE LET f == Last(path)
             n == t.node[f.pgid]
             s == SplitBranch(n, f.slot, key, right)
         IN  IF Fits(n, key, right)
             THEN SetNode(t, f.pgid, Insert(n, f.slot, key, right, TRUE))
             ELSE PutBranch(SetNode(NewNode(Require(t, Splittable(n) /\ s.ok), s.right),
                                    f.pgid, s.left),
                            Front(path), f.pgid, Alloc(t), s.up)

\* BTree::Put at the leaf where path ends.
PutLeaf(t, path, key, value) ==
    LET f == Last(path)
        n == t.node[f.pgid]
        updated == [n EXCEPT !.data[f.slot] = value]
        s == SplitLeaf(n, f.slot, key, value)
    IN  IF HasKeyAt(n, f.slot, key)
        \* LeafNode::Update keeps the record when the new one does not fit.
        THEN IF Space(updated) <= PageSpace THEN SetNode(t, f.pgid, updated) ELSE t
        ELSE IF Fits(n, key, value)
        THEN SetNode(t, f.pgid, Insert(n, f.slot, key, value, FALSE))
        ELSE PutBranch(SetNode(NewNode(Require(t, s.ok), s.right), f.pgid, s.left),
                       Front(path), f.pgid, Alloc(t), s.right.keys[1])

\* BTree::Put
PutTree(t, key, value) ==
    LET c == CopyAllPagesByPath(t, LowerBound(t, key))
    IN  IF c.path = <<>>
        THEN [NewNode(t, Leaf(<<key>>, <<value>>)) EXCEPT !.root = Alloc(t)]
        ELSE PutLeaf(c.t, c.path, key, value)

-----------------------------------------------------------------------------
(* Deletion.                                                                *)

\* The child of parent to take records from: GetSibling chooses the right one,
\* or the left one of the last child.  key is the slot that separates the two.
GetSibling(parent, slot) ==
    IF slot = Count(parent) + 1 THEN [left |-> TRUE, key |-> slot - 1, child |-> slot - 1]
                                ELSE [left |-> FALSE, key |-> slot, child |-> slot + 1]

\* Mutant: the parent's key is read before the sibling has lost its record.
BorrowStaleKey(node, sibling, left, down) ==
    LET c == IF left THEN Count(sibling) ELSE 1
    IN  [up |-> sibling.keys[c], sibling |-> Delete(sibling, c, left /\ node.type = "branch"),
         node |-> IF node.type = "leaf"
                  THEN Insert(node, IF left THEN 1 ELSE Count(node) + 1,
                              sibling.keys[c], sibling.data[c], FALSE)
                  ELSE Insert(node, IF left THEN 1 ELSE Count(node) + 1, down,
                              sibling.data[IF left THEN c + 1 ELSE c], ~left)]

\* One record moves from sibling to node; a branch's goes by way of the parent,
\* whose key there was down.  up is the parent's new key.
Borrow(node, sibling, left, down) ==
    LET c == Count(sibling)
    IN  IF node.type = "leaf" /\ left
        THEN [up |-> sibling.keys[c], sibling |-> Delete(sibling, c, FALSE),
              node |-> Insert(node, 1, sibling.keys[c], sibling.data[c], FALSE)]
        ELSE IF node.type = "leaf"
        THEN [up |-> sibling.keys[2], sibling |-> Delete(sibling, 1, FALSE),
              node |-> Insert(node, Count(node) + 1, sibling.keys[1], sibling.data[1], FALSE)]
        ELSE IF left
        THEN [up |-> sibling.keys[c], sibling |-> Delete(sibling, c, TRUE),
              node |-> Insert(node, 1, down, sibling.data[c + 1], FALSE)]
        ELSE [up |-> sibling.keys[1], sibling |-> Delete(sibling, 1, FALSE),
              node |-> Insert(node, Count(node) + 1, down, sibling.data[1], TRUE)]

\* BTree::Merge
Merge(left, right, down) ==
    [left EXCEPT !.keys = @ \o (IF left.type = "leaf" THEN <<>> ELSE <<down>>) \o right.keys,
                 !.data = @ \o right.data]

\* Mutant: the sibling is changed in place.
CopySiblingNever(t, parent, i) == t

\* The sibling is copied like the pages on the path.
CopySibling(t, parent, i) ==
    LET p == t.node[parent].data[i]
        c == NewNode(t, t.node[p])
    IN  IF ~CopyNeeded(t, p) THEN t
        ELSE SetNode(Free(c, p), parent, [t.node[parent] EXCEPT !.data[i] = Alloc(t)])

\* BranchNode::Update of the parent's key, or, when the new one does not fit,
\* its removal and an insertion upwards.
UpdateParentKey(t, path, slot, key, left, right) ==
    LET p == Last(path).pgid
        n == t.node[p]
        updated == [n EXCEPT !.keys[slot] = key]
    IN  IF Space(updated) <= PageSpace THEN SetNode(t, p, updated)
        ELSE PutBranch(SetNode(t, p, Delete(n, slot, TRUE)),
                       Append(Front(path), At(p, slot)), left, right, key)

RECURSIVE DeleteBranch(_, _, _, _)
\* The common end of both BTree::Delete: page p, whose parents are path, has
\* lost a record.
Rebalance(t, path, p) ==
    LET f    == Last(path)
        g    == GetSibling(t.node[f.pgid], f.slot)
        t1   == CopySibling(t, f.pgid, g.child)
        q    == t1.node[f.pgid].data[g.child]
        down == t1.node[f.pgid].keys[g.key]
        l    == IF g.left THEN q ELSE p
        r    == IF g.left THEN p ELSE q
        b    == Borrow(t1.node[p], t1.node[q], g.left, down)
        m    == Merge(t1.node[l], t1.node[r], down)
    IN  IF HasSpare(t1.node[q])
        THEN UpdateParentKey(
                 Require(SetNode(SetNode(t1, p, b.node), q, b.sibling), Space(b.node) <= PageSpace),
                 path, g.key, b.up, l, r)
        ELSE DeleteBranch(Require(Free(SetNode(t1, l, m), r), Space(m) <= PageSpace),
                          Front(path), f.pgid, g.key)

\* Mutant: a root without keys stays.
DeleteBranchKeepsRoot(t, path, p, s) ==
    LET n  == Delete(t.node[p], s, TRUE)
        t1 == SetNode(t, p, n)
    IN  IF path = <<>> \/ ~TooEmpty(n) THEN t1 ELSE Rebalance(t1, path, p)

\* Mutant: the old root is not set free.
DeleteBranchLeaksRoot(t, path, p, s) ==
    LET n  == Delete(t.node[p], s, TRUE)
        t1 == SetNode(t, p, n)
    IN  IF path = <<>> /\ Count(n) = 0 THEN [t1 EXCEPT !.root = n.data[1]]
        ELSE IF path = <<>> \/ ~TooEmpty(n) THEN t1
        ELSE Rebalance(t1, path, p)

\* BTree::Delete of record s, with its right child, of branch p.
DeleteBranch(t, path, p, s) ==
    LET n  == Delete(t.node[p], s, TRUE)
        t1 == SetNode(t, p, n)
    IN  IF path = <<>> /\ Count(n) = 0 THEN [Free(t1, p) EXCEPT !.root = n.data[1]]
        ELSE IF path = <<>> \/ ~TooEmpty(n) THEN t1
        ELSE Rebalance(t1, path, p)

\* BTree::Delete of the record where path ends, which has been copied.
DeleteLeaf(t, path) ==
    LET f  == Last(path)
        n  == Delete(t.node[f.pgid], f.slot, FALSE)
        t1 == SetNode(t, f.pgid, n)
    IN  IF ~TooEmpty(n) \/ Len(path) = 1 THEN t1 ELSE Rebalance(t1, Front(path), f.pgid)

\* BTree::Delete
DeleteTree(t, key) ==
    LET path == LowerBound(t, key)
        c    == CopyAllPagesByPath(t, path)
    IN  IF Found(t, path, key) THEN DeleteLeaf(c.t, c.path) ELSE t

-----------------------------------------------------------------------------
(* The writer's transactions.                                               *)

EmptyTree == [root |-> kPageInvalidId, node |-> <<>>, own |-> {}, freed |-> {}, failed |-> FALSE]

Init ==
    /\ tree = EmptyTree
    /\ committed_root = kPageInvalidId
    /\ contents = <<>>
    /\ committed = <<>>
    /\ ops = 0

Operate ==
    /\ ~tree.failed
    /\ ops < MaxOps
    /\ ops' = ops + 1
    /\ UNCHANGED <<committed_root, committed>>

\* BucketImpl::Put and BucketImpl::Delete
PutKey(k, v) ==
    /\ Operate
    /\ tree' = PutTree(tree, k, v)
    /\ contents' = (k :> v) @@ contents

DeleteKey(k) ==
    /\ Operate
    /\ tree' = DeleteTree(tree, k)
    /\ contents' = [i \in DOMAIN contents \ {k} |-> contents[i]]

\* The committed version is the writer's; the pages it has set free may be
\* reused by later transactions.
Commit ==
    /\ ~tree.failed
    /\ ops > 0
    /\ ops' = 0
    /\ committed_root' = tree.root
    /\ committed' = contents
    /\ tree' = [tree EXCEPT !.own = {}, !.freed = {},
                            !.node = [p \in DOMAIN tree.node \ tree.freed |-> tree.node[p]]]
    /\ UNCHANGED contents

RollBack ==
    /\ ~tree.failed
    /\ ops > 0
    /\ ops' = 0
    /\ contents' = committed
    /\ tree' = [tree EXCEPT !.own = {}, !.freed = {}, !.root = committed_root,
                            !.node = [p \in DOMAIN tree.node \ tree.own |-> tree.node[p]]]
    /\ UNCHANGED <<committed_root, committed>>

Next ==
    \/ \E k \in Keys, v \in Values : PutKey(k, v)
    \/ \E k \in Keys : DeleteKey(k)
    \/ Commit
    \/ RollBack

Spec == Init /\ [][Next]_vars

-----------------------------------------------------------------------------
(* Properties.                                                              *)

RECURSIVE Pages(_, _)
Pages(t, p) ==
    IF p = kPageInvalidId THEN {}
    ELSE {p} \cup IF t.node[p].type = "leaf" THEN {}
                  ELSE UNION {Pages(t, t.node[p].data[i]) : i \in 1 .. Count(t.node[p]) + 1}

RECURSIVE ScanFrom(_, _)
\* The entries from an iterator on, by Next.
ScanFrom(t, path) ==
    IF path = <<>> THEN <<>>
    ELSE LET f == Last(path)
             n == t.node[f.pgid]
         IN  <<<<n.keys[f.slot], n.data[f.slot]>>>> \o ScanFrom(t, IterNext(t, path))

Scan(t) == IF t.root = kPageInvalidId THEN <<>> ELSE ScanFrom(t, First(t, t.root))

\* The entries of a dictionary in the order of the keys.
Sorted(d) ==
    LET ks == SetToSortSeq(DOMAIN d, LAMBDA a, b : a < b)
    IN  [i \in 1 .. Len(ks) |-> <<ks[i], d[ks[i]]>>]

RECURSIVE Depth(_, _)
Depth(t, p) == IF t.node[p].type = "leaf" THEN 0 ELSE 1 + Depth(t, t.node[p].data[1])

\* Assertions hold: no split or merge runs out of space, and no page is freed
\* twice (the assertions in BTree::Split, BTree::Merge and Pager::FreeToMap).
AssertionsHold == ~tree.failed

\* Search finds exactly what was put: whatever splits, merges and borrowing did
\* to the separators, Get() reaches each key that was put and not removed, with
\* its last value, and no other (BTree::Get, BTreeIterator::Down).
SearchIsExact ==
    ~tree.failed =>
        \A k \in Keys :
            LET path == LowerBound(tree, k)
                f    == Last(path)
            IN  /\ Found(tree, path, k) <=> k \in DOMAIN contents
                /\ k \in DOMAIN contents => tree.node[f.pgid].data[f.slot] = contents[k]

\* Iteration is complete and sorted: begin() and Next() visit every entry once,
\* in the order of the keys (BTreeIterator::First, BTreeIterator::Next).
ScanIsSorted == ~tree.failed => Scan(tree) = Sorted(contents)

\* The tree stays balanced and no page but the root becomes empty.
Balanced ==
    ~tree.failed => \A p \in Pages(tree, tree.root) :
        LET n == tree.node[p]
        IN  /\ Space(n) <= PageSpace
            /\ p # tree.root \/ n.type = "branch" => Count(n) >= 1
            /\ n.type = "branch" =>
                  \A i \in 1 .. Count(n) : Depth(tree, n.data[i]) = Depth(tree, n.data[i + 1])

\* Splits, merges and borrowing copy what they change: the committed version,
\* which views and a rollback read, stays as it was committed.
CommittedVersionIntact ==
    ~tree.failed => Scan([tree EXCEPT !.root = committed_root]) = Sorted(committed)

\* No page is lost: each page in use is in the writer's tree or has been set
\* free, and never both.
PagesAccountedFor ==
    ~tree.failed =>
        /\ DOMAIN tree.node = Pages(tree, tree.root) \cup tree.freed
        /\ Pages(tree, tree.root) \cap tree.freed = {}
=============================================================================
