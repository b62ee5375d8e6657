------------------------------ MODULE MemChunk ------------------------------
(***************************************************************************)
(* The chunk allocator of mem/memchunk.[hc]: memory is carved out of large *)
(* blocks and freed all at once.                                           *)
(*                                                                         *)
(* A block is known by the number of the malloc that made it.  The blocks' *)
(* linked list is the sequence of blocks, its first element chunk->head.   *)
(* What the callers hold (handed) and what was given back to free (freed)  *)
(* are kept for the properties; the code keeps neither.                    *)
(***************************************************************************)
EXTENDS Integers, Sequences

CONSTANTS RequestedBlockSize,   \* the argument of memchunk_init
          DefaultBlockSize,     \* MEMCHUNK_DEFAULT_BLOCK_SIZE
          HeaderSize,           \* sizeof(MEMCHUNK_BLOCK)
          SizeModulus,          \* 2^w: size_t counts modulo this
          Sizes,                \* the sizes callers ask for
          MaxMallocs,           \* bound on the mallocs that succeed
          MaxHanded             \* bound on the allocations alive

block_size ==
  IF RequestedBlockSize = 0 THEN DefaultBlockSize ELSE RequestedBlockSize

ASSUME SizesAssumption ==
  /\ RequestedBlockSize \in Nat
  /\ DefaultBlockSize \in Nat \ {0}
  /\ HeaderSize \in Nat
  /\ SizeModulus \in Nat \ {0}
  /\ Sizes \subseteq Nat
  /\ MaxMallocs \in Nat /\ MaxHanded \in Nat

VARIABLES blocks,     \* the list that begins at chunk->head
          bytes,      \* what malloc was asked for, for each block ever made
          free_off,   \* offset of the free space in the head block
          handed,     \* the allocations callers may still use, in order
          freed,      \* the blocks given back to free
          pc          \* "idle", or "fini" within memchunk_fini

vars == <<blocks, bytes, free_off, handed, freed, pc>>

Allocation == [block : Nat, off : Nat, size : Nat]

TypeOK ==
  /\ blocks \in Seq(1 .. Len(bytes))
  /\ bytes \in Seq(Nat)
  /\ free_off \in Nat
  /\ handed \in Seq(Allocation)
  /\ freed \subseteq 1 .. Len(bytes)
  /\ pc \in {"idle", "fini"}

\* size_t arithmetic.
Wrap(n) == IF n < SizeModulus THEN n ELSE n % SizeModulus

\* memchunk_init leaves no free space, MEMCHUNK_INITIALIZER an offset of 0;
\* without a head block neither is looked at.
Init ==
  /\ blocks = <<>>
  /\ bytes = <<>>
  /\ free_off \in {block_size, 0}
  /\ handed = <<>>
  /\ freed = {}
  /\ pc = "idle"

-----------------------------------------------------------------------------
(* memchunk_alloc, one action for each way through it.                     *)

\* Faulty variant: the header is counted as free space.
NoRoom_CountsHeader(size) ==
  blocks = <<>> \/ Wrap(free_off + size) > block_size + HeaderSize

NoRoom(size) == blocks = <<>> \/ Wrap(free_off + size) > block_size
\* Faulty variant: only what exceeds a block is big.
IsBig_WholeBlock(size) == size > block_size

IsBig(size) == Wrap(4 * size) > block_size

\* malloc succeeds and makes the next block, of n bytes and a header.
Malloc(n) ==
  /\ Len(bytes) < MaxMallocs
  /\ bytes' = Append(bytes, Wrap(HeaderSize + n))
NewBlock == Len(bytes) + 1

Hand(block, off, size) ==
  /\ Len(handed) < MaxHanded
  /\ handed' = Append(handed, [block |-> block, off |-> off, size |-> size])

AllocFromHead(size) ==
  /\ pc = "idle"
  /\ ~NoRoom(size)
  /\ Hand(blocks[1], free_off, size)
  /\ free_off' = Wrap(free_off + size)
  /\ UNCHANGED <<blocks, bytes, freed, pc>>

\* Faulty variant: a big block that becomes the head leaves free_off as it was.
AllocBig_KeepsOffset(size) ==
  /\ pc = "idle"
  /\ NoRoom(size) /\ IsBig(size)
  /\ Malloc(size)
  /\ blocks' = IF blocks = <<>> THEN <<NewBlock>>
               ELSE <<blocks[1], NewBlock>> \o Tail(blocks)
  /\ Hand(NewBlock, 0, size)
  /\ UNCHANGED <<free_off, freed, pc>>

\* Faulty variant: the new block does not link the rest of the list.
AllocBig_CutsList(size) ==
  /\ pc = "idle"
  /\ NoRoom(size) /\ IsBig(size)
  /\ Malloc(size)
  /\ IF blocks = <<>>
     THEN blocks' = <<NewBlock>> /\ free_off' = block_size
     ELSE blocks' = <<blocks[1], NewBlock>> /\ UNCHANGED free_off
  /\ Hand(NewBlock, 0, size)
  /\ UNCHANGED <<freed, pc>>

\* A block of its own, behind the head if there is one: the head's free space
\* can still serve smaller requests.
AllocBig(size) ==
  /\ pc = "idle"
  /\ NoRoom(size) /\ IsBig(size)
  /\ Malloc(size)
  /\ IF blocks = <<>>
     THEN blocks' = <<NewBlock>> /\ free_off' = block_size
     ELSE blocks' = <<blocks[1], NewBlock>> \o Tail(blocks) /\ UNCHANGED free_off
  /\ Hand(NewBlock, 0, size)
  /\ UNCHANGED <<freed, pc>>

AllocInNewHead(size) ==
  /\ pc = "idle"
  /\ NoRoom(size) /\ ~IsBig(size)
  /\ Malloc(block_size)
  /\ blocks' = <<NewBlock>> \o blocks
  /\ Hand(NewBlock, 0, size)
  /\ free_off' = Wrap(0 + size)
  /\ UNCHANGED <<freed, pc>>

\* malloc returns NULL, and so does memchunk_alloc.
AllocFails(size) ==
  /\ pc = "idle"
  /\ NoRoom(size)
  /\ UNCHANGED vars

-----------------------------------------------------------------------------
(* memchunk_fini: from now on nobody may use what was handed out.          *)

CallFini ==
  /\ pc = "idle"
  /\ pc' = "fini"
  /\ handed' = <<>>
  /\ UNCHANGED <<blocks, bytes, free_off, freed>>

FiniFree ==
  /\ pc = "fini"
  /\ blocks # <<>>
  /\ freed' = freed \cup {blocks[1]}
  /\ blocks' = Tail(blocks)
  /\ UNCHANGED <<bytes, free_off, handed, pc>>

\* Faulty variant: the loop stops at the last block.
FiniReturn_LeavesLast ==
  /\ pc = "fini"
  /\ Len(blocks) <= 1
  /\ pc' = "idle"
  /\ UNCHANGED <<blocks, bytes, free_off, handed, freed>>

\* free_off keeps the value it had.
FiniReturn ==
  /\ pc = "fini"
  /\ blocks = <<>>
  /\ pc' = "idle"
  /\ UNCHANGED <<blocks, bytes, free_off, handed, freed>>

-----------------------------------------------------------------------------
Next ==
  \/ \E size \in Sizes : \/ AllocFromHead(size) \/ AllocBig(size)
                         \/ AllocInNewHead(size) \/ AllocFails(size)
  \/ CallFini \/ FiniFree \/ FiniReturn

Spec == Init /\ [][Next]_vars /\ WF_vars(FiniFree \/ FiniReturn)

\* The requests for which no sum or product of the code exceeds a size_t.
NoOverflow ==
  /\ HeaderSize + block_size < SizeModulus
  /\ \A size \in Sizes : /\ 4 * size < SizeModulus
                         /\ HeaderSize + size < SizeModulus
                         /\ block_size + size < SizeModulus

-----------------------------------------------------------------------------
(* Properties.                                                             *)

InUse == {blocks[i] : i \in 1 .. Len(blocks)}

\* An allocation lies within a block that the chunk still owns.  (One of no
\* bytes may point behind the end of a big block at the head of the list.)
HandedInside ==
  \A i \in 1 .. Len(handed) :
    LET a == handed[i]
    IN  a.size > 0 => /\ a.block \in InUse
                      /\ HeaderSize + a.off + a.size <= bytes[a.block]

\* No two allocations share a byte.
HandedDisjoint ==
  \A i, j \in 1 .. Len(handed) :
    LET a == handed[i]
        b == handed[j]
    IN  i # j /\ a.block = b.block /\ a.size > 0 /\ b.size > 0 =>
          \/ a.off + a.size <= b.off
          \/ b.off + b.size <= a.off

\* Every block malloc made is once in the list or was freed, never both: what
\* memchunk_fini walks leaks no block and frees none twice.
BlocksAccounted ==
  /\ InUse \cup freed = 1 .. Len(bytes)
  /\ InUse \cap freed = {}
  /\ \A i, j \in 1 .. Len(blocks) : blocks[i] = blocks[j] => i = j

\* "To prevent wasting memory at the end of the chunk->head": a block that is
\* no more the head is used up to less than a quarter of block_size.
Filled(b, n) == \E i \in 1 .. Len(handed) :
                  handed[i].block = b /\ handed[i].off + handed[i].size >= n
WasteBounded ==
  pc = "idle" =>
    \A i \in 2 .. Len(blocks) :
      \E n \in 0 .. bytes[blocks[i]] : /\ Filled(blocks[i], n)
                                       /\ 4 * (bytes[blocks[i]] - HeaderSize - n) < block_size

\* "If application asks for more memory than the block size, we have no other
\* option but to malloc() a special block dedicated just for the big request":
\* the block such an allocation lies in has at least that many bytes.
BigGetsOwnBlock ==
  \A i \in 1 .. Len(handed) :
    handed[i].size > block_size => handed[i].size <= bytes[handed[i].block]

\* memchunk_fini comes to its end and leaves no block behind.
FiniEmpties == pc = "fini" ~> pc = "idle" /\ blocks = <<>>

=============================================================================
