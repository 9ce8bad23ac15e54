------------------------------- MODULE MCNode -------------------------------
(* Node, for TLC.                                                           *)
EXTENDS Node, TLC

Symmetry == Permutations(Tags) \cup Permutations(Children)

\* The page without the units that belong to no record: they are written
\* before they are read again.
LivePage ==
    <<type, [node EXCEPT !.mem =
                [c \in UNION {Cells(node, i) : i \in DOMAIN node.slots} |-> node.mem[c]]],
      overflow, aborted, records, children, lost>>
=============================================================================
