------------------------------ MODULE MCBuffer ------------------------------
(* Allocation sizes scaled down so that few bytes cross every threshold;   *)
(* of the three-byte insertions, enough to tell every two places apart.    *)
EXTENDS Buffer

MCChunk == {<<>>} \cup [1 .. 1 -> Byte] \cup {s \in [1 .. 3 -> Byte] : s[2] # s[3]}

=============================================================================
