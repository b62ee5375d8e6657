----------------------------- MODULE MCMemChunk -----------------------------
(***************************************************************************)
(* Small blocks, so that a few requests fill one, and request sizes on     *)
(* both sides of a quarter of a block and of a whole one.                  *)
(***************************************************************************)
EXTENDS MemChunk

MCSizes == {0, 1, 2, 3, block_size + 1}

\* Every size_t.
AllSizes == 0 .. SizeModulus - 1

=============================================================================
