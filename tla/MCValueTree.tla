---------------------------- MODULE MCValueTree ----------------------------
(* Four values at once; paths of up to two components.                     *)
EXTENDS ValueTree

CONSTANTS c2, c3, c4, k1, k2

MCCell == {Root, c2, c3, c4}
MCKey == {k1, k2}

Named1 == [sort |-> "key", key |-> k1]
Index(sign, n) == [sort |-> "index", sign |-> sign, n |-> n]
Malformed == [sort |-> "malformed"]

MCPaths ==
  LET comps == {Named1, Index(0, 0), Index(1, 0), Index(1, 1),
                Index(-1, 0), Index(-1, 1), Index(-1, 2), Malformed}
  IN  {<<>>} \cup {<<a>> : a \in comps} \cup {<<a, b>> : a \in comps, b \in comps}

=============================================================================
