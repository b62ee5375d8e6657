------------------------------ MODULE Doubling ------------------------------
(* Sizes that double: the planes of a hash table, and good allocations.    *)
EXTENDS Integers

\* first, 2 * first, 4 * first ..., from index 0.
Doubled(first) ==
  LET size[k \in Nat] == IF k = 0 THEN first ELSE 2 * size[k - 1]
  IN  size

=============================================================================
