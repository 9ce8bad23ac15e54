------------------------------ MODULE MCBucket ------------------------------
(* Bucket, for TLC.                                                         *)
EXTENDS Bucket

Symmetry == Permutations(Names)

Roots == {meta.user_root} \cup {views[r].user_root : r \in OpenViews}
         \cup IF writer = "idle" THEN {} ELSE {RootOf(o) : o \in Objects}

\* The state without the pages that belong to no tree a transaction can reach:
\* they are written as a whole before they are read again.
LiveState ==
    <<meta, txVars, views, pagerVars, committed,
      [p \in UNION {ReachedFrom(root) : root \in Roots \ {kPageInvalidId}} |-> page[p]]>>
=============================================================================
