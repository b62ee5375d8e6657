----------------------------- MODULE MCRBCursor -----------------------------
(* The forest of MCRBTree, smaller, with a cursor.                         *)
EXTENDS RBCursor

CONSTANT Keys    \* number of distinct keys

MCNode == 1 .. Keys + 1
MCKeyOf == [n \in MCNode |-> IF n > Keys THEN Keys ELSE n]

=============================================================================
