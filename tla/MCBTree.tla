------------------------------ MODULE MCBTree ------------------------------
(* BTree for TLC: sizes of keys and values, and a view of the states without *)
(* the names of the pages, which mean nothing to the tree.                   *)
EXTENDS BTree

SameKeySize == [k \in Keys |-> 1]
OddKeysLarge == [k \in Keys |-> 1 + (k % 2)]
NoValueSize == [v \in Values |-> 0]

RECURSIVE Shape(_)
\* The subtree of page p, and for each page whether it is the writer's or free.
Shape(p) ==
    IF p = kPageInvalidId THEN <<>>
    ELSE LET n == tree.node[p]
         IN  <<p \in tree.own, p \in tree.freed, n.keys,
               IF n.type = "leaf" THEN n.data
               ELSE [i \in 1 .. Len(n.data) |-> Shape(n.data[i])]>>

PagesUnnamed ==
    <<Shape(tree.root), Shape(committed_root), Cardinality(tree.freed),
      Cardinality(DOMAIN tree.node), tree.failed, contents, committed, ops>>
=============================================================================
