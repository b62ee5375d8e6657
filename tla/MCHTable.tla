------------------------------ MODULE MCHTable ------------------------------
(***************************************************************************)
(* Nodes enough for two planes.  Keys 1 to 3 meet in slot 0 of the first   *)
(* plane, and in two slots of the second; the last two nodes, of one key,  *)
(* can meet in any plane.                                                  *)
(***************************************************************************)
EXTENDS HTable

CONSTANT Keys    \* number of distinct keys

MCNode == 1 .. Keys + 1
MCKeyOf == [x \in MCNode |-> IF x > Keys THEN Keys ELSE x]
MCHashOf == [k \in 1 .. Keys |-> IF k <= 3 THEN FirstPlane * k ELSE k + 1]

=============================================================================
