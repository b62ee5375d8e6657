--------------------------- MODULE MemChunkProofs ---------------------------
(***************************************************************************)
(* For every block size and all request sizes whose arithmetic stays       *)
(* within a size_t (NoOverflow), memchunk_alloc hands out disjoint pieces  *)
(* of blocks the chunk owns, and memchunk_fini frees each block once.      *)
(***************************************************************************)
EXTENDS MemChunk, TLAPS

\* What the free space of the head block is: behind all that was handed out
\* of it, and within it; or there is none.
HeadFill ==
  pc = "idle" /\ blocks # <<>> =>
    /\ free_off <= block_size
    /\ free_off < block_size =>
         /\ HeaderSize + block_size <= bytes[blocks[1]]
         /\ \A i \in 1 .. Len(handed) :
              handed[i].block = blocks[1] => handed[i].off + handed[i].size <= free_off

\* What h hands out of block b reaches to byte n of it or further.
FilledBy(h, b, n) == \E i \in 1 .. Len(h) : h[i].block = b /\ h[i].off + h[i].size >= n

\* Of a block b with by[b] bytes less than a quarter of block_size is left behind
\* what h hands out of it.
UsedUp(by, h, b) ==
  \E n \in 0 .. by[b] : FilledBy(h, b, n) /\ 4 * (by[b] - HeaderSize - n) < block_size

\* The head block: one for a big request that found no other block, which leaves
\* no free space, or one of the usual size, in use up to free_off.
HeadUsed ==
  pc = "idle" /\ blocks # <<>> =>
    \/ free_off = block_size /\ UsedUp(bytes, handed, blocks[1])
    \/ bytes[blocks[1]] = HeaderSize + block_size /\ FilledBy(handed, blocks[1], free_off)

\* Inductive together with IInv; HeadUsed says what the head leaves behind
\* when memchunk_alloc puts a new block before it.
WasteInv == HeadUsed /\ WasteBounded

\* Callers hold pieces of blocks in the list, and nothing once it is torn down.
HandedInUse ==
  /\ \A i \in 1 .. Len(handed) : handed[i].block \in InUse
  /\ pc = "fini" => handed = <<>>

IInv ==
  TypeOK /\ HeadFill /\ HandedInUse /\ HandedInside /\ HandedDisjoint /\ BlocksAccounted

\* The standard block has a size.
LEMMA BlockSizeType == block_size \in Nat \ {0}
BY SizesAssumption DEF block_size

\* Arithmetic in a size_t gives numbers.
LEMMA WrapType == ASSUME NEW n \in Nat PROVE Wrap(n) \in Nat
BY SizesAssumption DEF Wrap

\* Under NoOverflow the code's arithmetic is that of the naturals.
LEMMA NoWrap ==
  ASSUME NoOverflow, NEW size \in Sizes
  PROVE  /\ size \in Nat
         /\ Wrap(4 * size) = 4 * size
         /\ Wrap(HeaderSize + size) = HeaderSize + size
         /\ Wrap(HeaderSize + block_size) = HeaderSize + block_size
         /\ Wrap(0 + size) = size
         /\ \A off \in 0 .. block_size : Wrap(off + size) = off + size
BY SizesAssumption, BlockSizeType DEF NoOverflow, Wrap

\* The fields of what callers hold.
LEMMA HandedType ==
  ASSUME TypeOK
  PROVE  /\ Len(handed) \in Nat
         /\ \A i \in 1 .. Len(handed) :
              /\ handed[i].block \in Nat
              /\ handed[i].off \in Nat
              /\ handed[i].size \in Nat
<1>1. \A i \in 1 .. Len(handed) : handed[i] \in Allocation
  BY DEF TypeOK
<1> QED
  BY <1>1 DEF TypeOK, Allocation

\* The list consists of blocks that malloc returned; the next one is not among them.
LEMMA BlocksType ==
  ASSUME TypeOK
  PROVE  /\ bytes \in Seq(Nat) /\ Len(bytes) \in Nat
         /\ blocks \in Seq(1 .. Len(bytes)) /\ Len(blocks) \in Nat
         /\ \A i \in 1 .. Len(blocks) : blocks[i] \in 1 .. Len(bytes)
         /\ InUse \subseteq 1 .. Len(bytes)
         /\ NewBlock = Len(bytes) + 1 /\ NewBlock \notin 1 .. Len(bytes)
<1>1. bytes \in Seq(Nat) /\ Len(bytes) \in Nat /\ NewBlock = Len(bytes) + 1
  BY DEF TypeOK, NewBlock
<1>2. blocks \in Seq(1 .. Len(bytes)) /\ Len(blocks) \in Nat
  BY DEF TypeOK
<1>3. \A i \in 1 .. Len(blocks) : blocks[i] \in 1 .. Len(bytes)
  BY <1>2
<1>4. InUse \subseteq 1 .. Len(bytes)
  BY <1>3 DEF InUse
<1>5. NewBlock \notin 1 .. Len(bytes)
  BY <1>1
<1> QED
  BY <1>1, <1>2, <1>3, <1>4, <1>5

\* A new chunk satisfies the invariant.
LEMMA InitIInv == Init => IInv
BY BlockSizeType, SizesAssumption
DEF Init, IInv, TypeOK, HeadFill, HandedInUse, HandedInside, HandedDisjoint,
    BlocksAccounted, InUse

-----------------------------------------------------------------------------
(* One lemma for each action.                                              *)

\* An allocation carved off the head.
LEMMA AllocFromHeadIInv ==
  ASSUME NoOverflow, IInv, NEW size \in Sizes, AllocFromHead(size)
  PROVE  IInv'
<1> DEFINE new == [block |-> blocks[1], off |-> free_off, size |-> size]
<1>1. blocks # <<>> /\ free_off + size <= block_size /\ free_off' = free_off + size
  BY NoWrap, BlockSizeType DEF AllocFromHead, NoRoom, IInv, HeadFill, TypeOK
<1>2. /\ size \in Nat /\ blocks[1] \in 1 .. Len(bytes) /\ blocks[1] \in InUse
      /\ new \in Allocation
  BY <1>1, NoWrap, SMTT(30) DEF IInv, TypeOK, InUse, Allocation
<1>3. /\ handed' = Append(handed, new) /\ pc = "idle" /\ pc' = pc
      /\ blocks' = blocks /\ bytes' = bytes /\ freed' = freed
  BY DEF AllocFromHead, Hand
<1>4. /\ \A i \in 1 .. Len(handed') : \/ i \in 1 .. Len(handed) /\ handed'[i] = handed[i]
                                      \/ i = Len(handed) + 1 /\ handed'[i] = new
      /\ new.block = blocks[1] /\ new.off = free_off /\ new.size = size
      /\ Len(handed) \in Nat /\ Len(handed') = Len(handed) + 1
  BY <1>2, <1>3 DEF IInv, TypeOK
<1>5. TypeOK'
  BY <1>1, <1>2, <1>3 DEF IInv, TypeOK
<1> HIDE DEF new
<1>5a. \A i \in 1 .. Len(handed) : handed[i].off \in Nat /\ handed[i].size \in Nat
  BY HandedType DEF IInv
<1>5b. free_off \in Nat
  BY DEF IInv, TypeOK
<1>5c. block_size \in Nat /\ HeaderSize \in Nat
  BY BlockSizeType, SizesAssumption
<1>5d. bytes[blocks[1]] \in Nat
  BY <1>2 DEF IInv, TypeOK
<1>6. HeadFill'
  BY <1>1, <1>2, <1>3, <1>4, <1>5a, <1>5b, <1>5c DEF IInv, HeadFill
<1>7. HandedInUse'
  BY <1>2, <1>3, <1>4 DEF IInv, HandedInUse, InUse
<1>8. HandedInside'
  <2> SUFFICES ASSUME NEW i \in 1 .. Len(handed'), handed'[i].size > 0
               PROVE  /\ handed'[i].block \in InUse'
                      /\ HeaderSize + handed'[i].off + handed'[i].size
                           <= bytes'[handed'[i].block]
    BY DEF HandedInside
  <2>0. InUse' = InUse
    BY <1>3 DEF InUse
  <2>1. CASE i \in 1 .. Len(handed) /\ handed'[i] = handed[i]
    BY <2>0, <2>1, <1>3 DEF IInv, HandedInside
  <2>2. CASE i = Len(handed) + 1 /\ handed'[i] = new
    <3>1. handed'[i].block = blocks[1] /\ handed'[i].off = free_off /\ handed'[i].size = size
      BY <2>2, <1>4
    <3>2. free_off < block_size
      BY <3>1, <1>1, <1>2, <1>5b, <1>5c
    <3>3. HeaderSize + block_size <= bytes[blocks[1]]
      BY <3>2, <1>1, <1>3 DEF IInv, HeadFill
    <3>4. HeaderSize + free_off + size <= bytes[blocks[1]]
      BY <3>3, <1>1, <1>2, <1>5b, <1>5c, <1>5d
    <3> QED
      BY <3>1, <3>4, <2>0, <1>2, <1>3
  <2> QED
    BY <1>4, <2>1, <2>2
<1>9. HandedDisjoint'
  <2> SUFFICES ASSUME NEW i \in 1 .. Len(handed'), NEW j \in 1 .. Len(handed'), i < j,
                      handed'[i].block = handed'[j].block,
                      handed'[i].size > 0, handed'[j].size > 0
               PROVE  \/ handed'[i].off + handed'[i].size <= handed'[j].off
                      \/ handed'[j].off + handed'[j].size <= handed'[i].off
    BY DEF HandedDisjoint
  <2>1. CASE j \in 1 .. Len(handed)
    BY <2>1, <1>4 DEF IInv, HandedDisjoint
  <2>2. CASE j = Len(handed) + 1 /\ handed'[j] = new
    <3>1. i \in 1 .. Len(handed) /\ handed'[i] = handed[i]
      BY <2>2, <1>4
    <3>2. free_off < block_size
      BY <2>2, <1>1, <1>2, <1>4, <1>5b, <1>5c
    <3>3. handed[i].off + handed[i].size <= free_off
      BY <2>2, <3>1, <3>2, <1>1, <1>3, <1>4 DEF IInv, HeadFill
    <3> QED
      BY <2>2, <3>1, <3>3, <1>4
  <2> QED
    BY <1>4, <2>1, <2>2 DEF IInv, TypeOK
<1>10. BlocksAccounted'
  BY <1>3 DEF IInv, BlocksAccounted, InUse
<1> QED
  BY <1>5, <1>6, <1>7, <1>8, <1>9, <1>10 DEF IInv

\* What both ways to call malloc share: block NewBlock is new, joins the list,
\* and what is handed out lies at its start.
LEMMA NewBlockIInv ==
  ASSUME IInv, NEW n \in Nat, NEW size \in 0 .. n,
         bytes' = Append(bytes, HeaderSize + n),
         Hand(NewBlock, 0, size), pc = "idle", pc' = pc, freed' = freed,
         blocks' \in Seq(1 .. Len(bytes)'),
         InUse' = InUse \cup {NewBlock},
         \A i, j \in 1 .. Len(blocks') : blocks'[i] = blocks'[j] => i = j
  PROVE  HandedInUse' /\ HandedInside' /\ HandedDisjoint' /\ BlocksAccounted'
<1> DEFINE new == [block |-> NewBlock, off |-> 0, size |-> size]
<1>1. /\ \A i \in 1 .. Len(handed') : \/ i \in 1 .. Len(handed) /\ handed'[i] = handed[i]
                                      \/ i = Len(handed) + 1 /\ handed'[i] = new
      /\ new.block = NewBlock /\ new.off = 0 /\ new.size = size
      /\ Len(handed) \in Nat /\ Len(handed') = Len(handed) + 1
  BY DEF Hand, IInv, TypeOK
<1> HIDE DEF new
<1>2. /\ Len(bytes') = Len(bytes) + 1 /\ Len(bytes) \in Nat
      /\ \A b \in 1 .. Len(bytes) : bytes'[b] = bytes[b]
      /\ bytes'[NewBlock] = HeaderSize + n
  BY SizesAssumption DEF IInv, TypeOK, NewBlock
<1>3. InUse \subseteq 1 .. Len(bytes) /\ NewBlock \notin 1 .. Len(bytes)
  BY BlocksType DEF IInv
<1>4. HandedInUse'
  BY <1>1 DEF IInv, HandedInUse
<1>5. HandedInside'
  <2> SUFFICES ASSUME NEW i \in 1 .. Len(handed'), handed'[i].size > 0
               PROVE  /\ handed'[i].block \in InUse'
                      /\ HeaderSize + handed'[i].off + handed'[i].size
                           <= bytes'[handed'[i].block]
    BY DEF HandedInside
  <2>1. CASE i \in 1 .. Len(handed) /\ handed'[i] = handed[i]
    BY <2>1, <1>2, <1>3 DEF IInv, HandedInside
  <2>2. CASE i = Len(handed) + 1 /\ handed'[i] = new
    <3>1. handed'[i].block = NewBlock /\ handed'[i].off = 0 /\ handed'[i].size = size
      BY <2>2, <1>1
    <3>2. HeaderSize + 0 + size <= HeaderSize + n
      BY SizesAssumption
    <3> QED
      BY <3>1, <3>2, <1>2
  <2> QED
    BY <1>1, <2>1, <2>2
<1>6. HandedDisjoint'
  <2>1. \A i \in 1 .. Len(handed) : handed[i].block # NewBlock
    BY <1>3 DEF IInv, HandedInUse
  <2> SUFFICES ASSUME NEW i \in 1 .. Len(handed'), NEW j \in 1 .. Len(handed'), i # j,
                      handed'[i].block = handed'[j].block,
                      handed'[i].size > 0, handed'[j].size > 0
               PROVE  \/ handed'[i].off + handed'[i].size <= handed'[j].off
                      \/ handed'[j].off + handed'[j].size <= handed'[i].off
    BY DEF HandedDisjoint
  <2>2. /\ i \in 1 .. Len(handed) /\ handed'[i] = handed[i]
        /\ j \in 1 .. Len(handed) /\ handed'[j] = handed[j]
    BY <1>1, <2>1
  <2> QED
    BY <2>2 DEF IInv, HandedDisjoint
<1>7. BlocksAccounted'
  BY <1>2, <1>3 DEF IInv, BlocksAccounted, TypeOK, NewBlock
<1> QED
  BY <1>4, <1>5, <1>6, <1>7

\* An allocation with a block of its own.
LEMMA AllocBigIInv ==
  ASSUME NoOverflow, IInv, NEW size \in Sizes, AllocBig(size)
  PROVE  IInv'
<1>1. /\ size \in Nat /\ bytes' = Append(bytes, HeaderSize + size)
      /\ Hand(NewBlock, 0, size) /\ pc = "idle" /\ pc' = pc /\ freed' = freed
  BY NoWrap DEF AllocBig, Malloc
<1>2. /\ bytes \in Seq(Nat) /\ blocks \in Seq(1 .. Len(bytes)) /\ Len(bytes) \in Nat
      /\ Len(bytes') = Len(bytes) + 1 /\ NewBlock = Len(bytes) + 1
      /\ bytes' \in Seq(Nat) /\ \A b \in 1 .. Len(bytes) : bytes'[b] = bytes[b]
  BY <1>1, SizesAssumption DEF IInv, TypeOK, NewBlock
<1>3. /\ blocks' \in Seq(1 .. Len(bytes'))
      /\ InUse' = InUse \cup {NewBlock}
      /\ \A i, j \in 1 .. Len(blocks') : blocks'[i] = blocks'[j] => i = j
      /\ blocks' # <<>>
      /\ blocks # <<>> => blocks'[1] = blocks[1]
  <2>1. CASE blocks = <<>>
    <3>1. blocks' = <<NewBlock>>
      BY <2>1 DEF AllocBig
    <3> QED
      BY <1>2, <2>1, <3>1 DEF InUse
  <2>2. CASE blocks # <<>>
    <3>1. blocks' = <<blocks[1], NewBlock>> \o Tail(blocks)
      BY <2>2 DEF AllocBig
    <3>2. /\ Len(blocks) \in Nat /\ Len(blocks) >= 1
          /\ Len(Tail(blocks)) = Len(blocks) - 1 /\ Tail(blocks) \in Seq(1 .. Len(bytes))
          /\ \A i \in 1 .. Len(blocks) - 1 : Tail(blocks)[i] = blocks[i + 1]
          /\ \A i \in 1 .. Len(blocks) : blocks[i] \in 1 .. Len(bytes)
      BY <1>2, <2>2, SMTT(30)
    <3>3. /\ Len(blocks') = Len(blocks) + 1
          /\ blocks'[1] = blocks[1] /\ blocks'[2] = NewBlock
          /\ \A i \in 2 .. Len(blocks) : blocks'[i + 1] = blocks[i]
          /\ blocks' \in Seq(1 .. Len(bytes'))
      BY <1>2, <3>1, <3>2
    <3>4. ASSUME NEW j \in 1 .. Len(blocks')
          PROVE  \/ j = 1
                 \/ j = 2
                 \/ j - 1 \in 2 .. Len(blocks) /\ blocks'[j] = blocks[j - 1]
      <4>1. CASE j > 2
        <5>1. j - 1 \in 2 .. Len(blocks) /\ (j - 1) + 1 = j
          BY <4>1, <3>2, <3>3
        <5> QED
          BY <5>1, <3>3
      <4> QED
        BY <4>1, <3>2, <3>3
    <3>5. InUse' = InUse \cup {NewBlock}
      <4>1. ASSUME NEW i \in 1 .. Len(blocks) PROVE blocks[i] \in InUse'
        <5>1. CASE i = 1
          BY <5>1, <3>2, <3>3 DEF InUse
        <5>2. CASE i \in 2 .. Len(blocks)
          <6>1. i + 1 \in 1 .. Len(blocks') /\ blocks'[i + 1] = blocks[i]
            BY <5>2, <3>2, <3>3
          <6> QED
            BY <6>1 DEF InUse
        <5> QED
          BY <5>1, <5>2, <3>2
      <4>2. ASSUME NEW j \in 1 .. Len(blocks') PROVE blocks'[j] \in InUse \cup {NewBlock}
        <5>1. CASE j - 1 \in 2 .. Len(blocks) /\ blocks'[j] = blocks[j - 1]
          BY <5>1, <3>2 DEF InUse
        <5>2. blocks[1] \in InUse
          BY <3>2 DEF InUse
        <5> QED
          BY <5>1, <5>2, <3>3, <3>4
      <4>3. NewBlock \in InUse'
        BY <3>2, <3>3 DEF InUse
      <4> QED
        BY <4>1, <4>2, <4>3 DEF InUse
    <3>6. ASSUME NEW i \in 1 .. Len(blocks'), NEW j \in 1 .. Len(blocks'),
                 i < j, blocks'[i] = blocks'[j]
          PROVE  FALSE
      <4>1. /\ \A k \in 1 .. Len(blocks) : blocks[k] # NewBlock
            /\ \A k, l \in 1 .. Len(blocks) : blocks[k] = blocks[l] => k = l
            /\ 1 \in 1 .. Len(blocks) /\ \A k \in 2 .. Len(blocks) : k \in 1 .. Len(blocks)
        BY <3>2, <1>2, SMTT(30) DEF IInv, BlocksAccounted
      <4>2. CASE i = 1
        BY <4>1, <4>2, <3>3, <3>4, <3>6
      <4>3. CASE i = 2
        BY <4>1, <4>3, <3>3, <3>4, <3>6
      <4>4. CASE i - 1 \in 2 .. Len(blocks) /\ blocks'[i] = blocks[i - 1]
        <5>1. j - 1 \in 2 .. Len(blocks) /\ blocks'[j] = blocks[j - 1]
          BY <4>4, <3>4, <3>6, <3>3
        <5> QED
          <6>1. i - 1 = j - 1
            BY <4>1, <4>4, <5>1, <3>6
          <6> QED
            BY <6>1, <3>2, <3>3, <3>6
      <4> QED
        BY <4>2, <4>3, <4>4, <3>4
    <3>7. \A i, j \in 1 .. Len(blocks') : blocks'[i] = blocks'[j] => i = j
      <4> SUFFICES ASSUME NEW i \in 1 .. Len(blocks'), NEW j \in 1 .. Len(blocks'),
                          blocks'[i] = blocks'[j], i # j
                   PROVE  FALSE
        OBVIOUS
      <4>1. i < j \/ j < i
        BY <3>2, <3>3
      <4> QED
        BY <4>1, <3>6
    <3> QED
      BY <1>2, <3>3, <3>5, <3>7, <2>2
  <2> QED
    BY <2>1, <2>2
<1>4. HandedInUse' /\ HandedInside' /\ HandedDisjoint' /\ BlocksAccounted'
  BY <1>1, <1>3, NewBlockIInv
<1>5. TypeOK'
  <2>1. handed' \in Seq(Allocation)
    BY <1>1, <1>2 DEF Hand, IInv, TypeOK, Allocation
  <2>2. free_off' \in Nat
    BY BlockSizeType DEF AllocBig, IInv, TypeOK
  <2> QED
    BY <1>1, <1>2, <1>3, <2>1, <2>2 DEF IInv, TypeOK
<1>6. HeadFill'
  <2>1. CASE blocks = <<>>
    BY <2>1, BlockSizeType DEF AllocBig, HeadFill
  <2>2. CASE blocks # <<>>
    <3>1. /\ free_off' = free_off /\ blocks'[1] = blocks[1]
          /\ blocks[1] \in 1 .. Len(bytes) /\ blocks[1] # NewBlock
          /\ bytes'[blocks[1]] = bytes[blocks[1]]
      <4>1. free_off' = free_off /\ blocks'[1] = blocks[1]
        BY <2>2, <1>3 DEF AllocBig
      <4>2. blocks[1] \in 1 .. Len(bytes)
        BY <2>2, <1>2
      <4>3. blocks[1] # NewBlock /\ bytes'[blocks[1]] = bytes[blocks[1]]
        BY <4>2, <1>2
      <4> QED
        BY <4>1, <4>2, <4>3
    <3>2. \A i \in 1 .. Len(handed') : \/ i \in 1 .. Len(handed) /\ handed'[i] = handed[i]
                                       \/ handed'[i].block = NewBlock
      BY <1>1 DEF Hand, IInv, TypeOK
    <3> QED
      BY <2>2, <3>1, <3>2, <1>1 DEF IInv, HeadFill
  <2> QED
    BY <2>1, <2>2
<1> QED
  BY <1>4, <1>5, <1>6 DEF IInv

\* An allocation that makes a new head.
LEMMA AllocInNewHeadIInv ==
  ASSUME NoOverflow, IInv, NEW size \in Sizes, AllocInNewHead(size)
  PROVE  IInv'
<1>1. /\ size \in Nat /\ size <= block_size /\ bytes' = Append(bytes, HeaderSize + block_size)
      /\ Hand(NewBlock, 0, size) /\ pc = "idle" /\ pc' = pc /\ freed' = freed
      /\ blocks' = <<NewBlock>> \o blocks /\ free_off' = size
  BY NoWrap, BlockSizeType DEF AllocInNewHead, Malloc, IsBig
<1>2. /\ bytes \in Seq(Nat) /\ blocks \in Seq(1 .. Len(bytes)) /\ Len(bytes) \in Nat
      /\ Len(bytes') = Len(bytes) + 1 /\ NewBlock = Len(bytes) + 1
      /\ bytes' \in Seq(Nat) /\ bytes'[NewBlock] = HeaderSize + block_size
      /\ Len(blocks) \in Nat /\ \A i \in 1 .. Len(blocks) : blocks[i] \in 1 .. Len(bytes)
  <2>1. HeaderSize + block_size \in Nat
    BY SizesAssumption, BlockSizeType
  <2> QED
    BY <1>1, <2>1, BlocksType DEF IInv
<1>3. /\ Len(blocks') = Len(blocks) + 1
      /\ blocks'[1] = NewBlock
      /\ \A i \in 1 .. Len(blocks) : blocks'[i + 1] = blocks[i]
      /\ blocks' \in Seq(1 .. Len(bytes'))
  BY <1>1, <1>2
<1>4. ASSUME NEW j \in 1 .. Len(blocks')
      PROVE  j = 1 \/ (j - 1 \in 1 .. Len(blocks) /\ blocks'[j] = blocks[j - 1])
  <2>1. CASE j > 1
    <3>1. j - 1 \in 1 .. Len(blocks) /\ (j - 1) + 1 = j
      BY <2>1, <1>2, <1>3
    <3> QED
      BY <3>1, <1>3
  <2> QED
    BY <2>1, <1>2, <1>3
<1>5. InUse' = InUse \cup {NewBlock}
  <2>1. ASSUME NEW i \in 1 .. Len(blocks) PROVE blocks[i] \in InUse'
    <3>1. i + 1 \in 1 .. Len(blocks') /\ blocks'[i + 1] = blocks[i]
      BY <1>2, <1>3
    <3> QED
      BY <3>1 DEF InUse
  <2>2. ASSUME NEW j \in 1 .. Len(blocks') PROVE blocks'[j] \in InUse \cup {NewBlock}
    BY <1>3, <1>4 DEF InUse
  <2>3. NewBlock \in InUse'
    BY <1>2, <1>3 DEF InUse
  <2> QED
    BY <2>1, <2>2, <2>3 DEF InUse
<1>6. \A i, j \in 1 .. Len(blocks') : blocks'[i] = blocks'[j] => i = j
  <2>1. /\ \A k \in 1 .. Len(blocks) : blocks[k] # NewBlock
        /\ \A k, l \in 1 .. Len(blocks) : blocks[k] = blocks[l] => k = l
    BY <1>2, SMTT(30) DEF IInv, BlocksAccounted
  <2> SUFFICES ASSUME NEW i \in 1 .. Len(blocks'), NEW j \in 1 .. Len(blocks'),
                      blocks'[i] = blocks'[j]
               PROVE  i = j
    OBVIOUS
  <2>2. CASE i = 1
    <3>1. blocks'[j] = NewBlock
      BY <2>2, <1>3
    <3>2. ~(j - 1 \in 1 .. Len(blocks) /\ blocks'[j] = blocks[j - 1])
      BY <3>1, <2>1
    <3> QED
      BY <2>2, <3>2, <1>4
  <2>3. CASE j = 1
    <3>1. blocks'[i] = NewBlock
      BY <2>3, <1>3
    <3>2. ~(i - 1 \in 1 .. Len(blocks) /\ blocks'[i] = blocks[i - 1])
      BY <3>1, <2>1
    <3> QED
      BY <2>3, <3>2, <1>4
  <2>4. CASE i # 1 /\ j # 1
    <3>1. i - 1 = j - 1
      BY <2>1, <2>4, <1>4
    <3> QED
      BY <3>1, <1>2, <1>3
  <2> QED
    BY <2>2, <2>3, <2>4
<1>7. HandedInUse' /\ HandedInside' /\ HandedDisjoint' /\ BlocksAccounted'
  <2>1. block_size \in Nat /\ size \in 0 .. block_size /\ blocks' \in Seq(1 .. Len(bytes)')
    BY <1>1, <1>3, BlockSizeType
  <2> QED
    BY <1>1, <1>5, <1>6, <2>1, NewBlockIInv
<1>8. TypeOK'
  <2>1. handed' \in Seq(Allocation)
    BY <1>1, <1>2 DEF Hand, IInv, TypeOK, Allocation
  <2> QED
    BY <1>1, <1>2, <1>3, <2>1 DEF IInv, TypeOK
<1>9. HeadFill'
  <2>1. \A i \in 1 .. Len(handed) : handed[i].block # NewBlock
    <3>1. InUse \subseteq 1 .. Len(bytes) /\ NewBlock \notin 1 .. Len(bytes)
      BY <1>2, SMTT(30) DEF InUse
    <3> QED
      BY <3>1 DEF IInv, HandedInUse
  <2>2. \A i \in 1 .. Len(handed') :
          handed'[i].block = NewBlock => handed'[i].off + handed'[i].size <= size
    BY <1>1, <2>1 DEF Hand, IInv, TypeOK
  <2> QED
    BY <1>1, <1>2, <1>3, <2>2, BlockSizeType, SizesAssumption DEF HeadFill
<1> QED
  BY <1>7, <1>8, <1>9 DEF IInv

\* memchunk_fini takes everything back before it frees.
LEMMA CallFiniIInv ==
  ASSUME IInv, CallFini
  PROVE  IInv'
<1>1. handed' = <<>> /\ pc' = "fini" /\ blocks' = blocks /\ bytes' = bytes
      /\ free_off' = free_off /\ freed' = freed
  BY DEF CallFini
<1>2. Len(handed') = 0 /\ handed' \in Seq(Allocation)
  BY <1>1
<1> QED
  BY <1>1, <1>2
  DEF IInv, TypeOK, HeadFill, HandedInUse, HandedInside, HandedDisjoint,
      BlocksAccounted, InUse

\* One iteration of its loop.
LEMMA FiniFreeIInv ==
  ASSUME IInv, FiniFree
  PROVE  IInv'
<1>1. /\ pc = "fini" /\ pc' = "fini" /\ blocks # <<>> /\ blocks' = Tail(blocks)
      /\ freed' = freed \cup {blocks[1]}
      /\ bytes' = bytes /\ free_off' = free_off /\ handed' = handed
      /\ handed = <<>>
  BY DEF FiniFree, IInv, HandedInUse
<1>2. /\ Len(blocks) \in Nat /\ Len(blocks) >= 1 /\ Len(blocks') = Len(blocks) - 1
      /\ blocks' \in Seq(1 .. Len(bytes))
      /\ \A i \in 1 .. Len(blocks') : i + 1 \in 2 .. Len(blocks) /\ blocks'[i] = blocks[i + 1]
      /\ \A i \in 1 .. Len(blocks) : blocks[i] \in 1 .. Len(bytes)
  <2>1. /\ blocks \in Seq(1 .. Len(bytes)) /\ Len(blocks) \in Nat
        /\ \A i \in 1 .. Len(blocks) : blocks[i] \in 1 .. Len(bytes)
    BY BlocksType DEF IInv
  <2>2. Len(blocks) >= 1 /\ Len(blocks') = Len(blocks) - 1 /\ blocks' \in Seq(1 .. Len(bytes))
    BY <1>1, <2>1
  <2>3. \A i \in 1 .. Len(blocks') : i + 1 \in 2 .. Len(blocks) /\ blocks'[i] = blocks[i + 1]
    BY <1>1, <2>1, <2>2
  <2> QED
    BY <2>1, <2>2, <2>3
<1>3. Len(handed) = 0 /\ Len(handed') = 0
  BY <1>1
<1>4. /\ \A i, j \in 1 .. Len(blocks) : blocks[i] = blocks[j] => i = j
      /\ InUse \cup freed = 1 .. Len(bytes) /\ InUse \cap freed = {}
  BY DEF IInv, BlocksAccounted
<1>5. InUse' = InUse \ {blocks[1]}
  <2>1. ASSUME NEW i \in 1 .. Len(blocks') PROVE blocks'[i] \in InUse \ {blocks[1]}
    <3>1. i + 1 \in 1 .. Len(blocks) /\ i + 1 # 1 /\ 1 \in 1 .. Len(blocks)
      BY <1>2
    <3> QED
      BY <3>1, <1>2, <1>4 DEF InUse
  <2>2. ASSUME NEW i \in 1 .. Len(blocks), blocks[i] # blocks[1] PROVE blocks[i] \in InUse'
    <3>1. i - 1 \in 1 .. Len(blocks') /\ (i - 1) + 1 = i
      BY <1>2, <2>2
    <3> QED
      BY <3>1, <1>2 DEF InUse
  <2> QED
    BY <2>1, <2>2 DEF InUse
<1>6. BlocksAccounted'
  <2>1. blocks[1] \in InUse
    BY <1>2 DEF InUse
  <2>2. \A i, j \in 1 .. Len(blocks') : blocks'[i] = blocks'[j] => i = j
    <3> SUFFICES ASSUME NEW i \in 1 .. Len(blocks'), NEW j \in 1 .. Len(blocks'),
                        blocks'[i] = blocks'[j]
                 PROVE  i = j
      OBVIOUS
    <3>1. /\ i + 1 \in 1 .. Len(blocks) /\ blocks[i + 1] = blocks'[i]
          /\ j + 1 \in 1 .. Len(blocks) /\ blocks[j + 1] = blocks'[j]
      BY <1>2
    <3>2. i + 1 = j + 1
      BY <3>1, <1>4
    <3> QED
      BY <3>2, <1>2
  <2> QED
    BY <1>1, <1>4, <1>5, <2>1, <2>2 DEF BlocksAccounted
<1>7. TypeOK'
  <2>1. freed' \subseteq 1 .. Len(bytes)
    <3>1. 1 \in 1 .. Len(blocks) /\ blocks[1] \in 1 .. Len(bytes)
      BY <1>2
    <3> QED
      BY <3>1, <1>1 DEF IInv, TypeOK
  <2> QED
    BY <1>1, <1>2, <2>1 DEF IInv, TypeOK
<1>8. HeadFill'
  BY <1>1 DEF HeadFill
<1> QED
  BY <1>1, <1>3, <1>6, <1>7, <1>8 DEF IInv, HandedInUse, HandedInside, HandedDisjoint

\* Steps that leave the blocks alone.
LEMMA IdleIInv ==
  ASSUME IInv, UNCHANGED <<blocks, bytes, free_off, handed, freed>>,
         pc' = pc \/ (pc' = "idle" /\ blocks = <<>>)
  PROVE  IInv'
<1>1. /\ blocks' = blocks /\ bytes' = bytes /\ free_off' = free_off
      /\ handed' = handed /\ freed' = freed
  OBVIOUS
<1>2. TypeOK'
  BY <1>1 DEF IInv, TypeOK
<1>3. HeadFill'
  BY <1>1 DEF IInv, HeadFill
<1>4. InUse' = InUse
  BY <1>1 DEF InUse
<1>5. HandedInUse' /\ HandedInside' /\ HandedDisjoint'
  BY <1>1, <1>4 DEF IInv, HandedInUse, HandedInside, HandedDisjoint
<1>6. BlocksAccounted'
  BY <1>1, <1>4 DEF IInv, BlocksAccounted
<1> QED
  BY <1>2, <1>3, <1>5, <1>6 DEF IInv

\* Every step keeps the invariant.
LEMMA NextIInv == ASSUME NoOverflow, IInv, [Next]_vars PROVE IInv'
<1>1. ASSUME NEW size \in Sizes, AllocFromHead(size) PROVE IInv'
  BY <1>1, AllocFromHeadIInv
<1>2. ASSUME NEW size \in Sizes, AllocBig(size) PROVE IInv'
  BY <1>2, AllocBigIInv
<1>3. ASSUME NEW size \in Sizes, AllocInNewHead(size) PROVE IInv'
  BY <1>3, AllocInNewHeadIInv
<1>4. ASSUME NEW size \in Sizes, AllocFails(size) PROVE IInv'
  BY <1>4, IdleIInv DEF AllocFails, vars
<1>5. CASE CallFini
  BY <1>5, CallFiniIInv
<1>6. CASE FiniFree
  BY <1>6, FiniFreeIInv
<1>7. CASE FiniReturn
  BY <1>7, IdleIInv DEF FiniReturn
<1>8. CASE UNCHANGED vars
  BY <1>8, IdleIInv DEF vars
<1> QED
  BY <1>1, <1>2, <1>3, <1>4, <1>5, <1>6, <1>7, <1>8 DEF Next

-----------------------------------------------------------------------------
(* What is wasted at the end of the blocks.                                *)

\* A block stays used up when more is handed out and more blocks are made.
LEMMA UsedUpStays ==
  ASSUME TypeOK, NEW b \in 1 .. Len(bytes), bytes'[b] = bytes[b],
         NEW a, handed' = Append(handed, a)
  PROVE  /\ UsedUp(bytes, handed, b) => UsedUp(bytes', handed', b)
         /\ \A n \in Nat : FilledBy(handed, b, n) => FilledBy(handed', b, n)
<1>1. \A i \in 1 .. Len(handed) : i \in 1 .. Len(handed') /\ handed'[i] = handed[i]
  BY DEF TypeOK
<1>2. ASSUME NEW n \in Nat, FilledBy(handed, b, n) PROVE FilledBy(handed', b, n)
  BY <1>1, <1>2 DEF FilledBy
<1>3. bytes[b] \in Nat
  BY DEF TypeOK
<1>4. ASSUME UsedUp(bytes, handed, b) PROVE UsedUp(bytes', handed', b)
  <2>1. PICK n \in 0 .. bytes[b] :
          FilledBy(handed, b, n) /\ 4 * (bytes[b] - HeaderSize - n) < block_size
    BY <1>4 DEF UsedUp
  <2>2. n \in Nat /\ FilledBy(handed', b, n)
    BY <1>2, <1>3, <2>1
  <2> QED
    BY <2>1, <2>2 DEF UsedUp
<1> QED
  BY <1>2, <1>4

\* What was just handed out fills its block.
LEMMA FilledByNew ==
  ASSUME TypeOK, NEW b \in Nat, NEW off \in Nat, NEW size \in Nat, Hand(b, off, size)
  PROVE  FilledBy(handed', b, off + size)
<1>1. /\ Len(handed) + 1 \in 1 .. Len(handed')
      /\ handed'[Len(handed) + 1] = [block |-> b, off |-> off, size |-> size]
  BY DEF TypeOK, Hand
<1> QED
  BY <1>1 DEF FilledBy

\* WasteBounded, in terms of UsedUp.
LEMMA WasteByUsedUp ==
  WasteBounded <=> (pc = "idle" => \A i \in 2 .. Len(blocks) : UsedUp(bytes, handed, blocks[i]))
BY DEF WasteBounded, Filled, UsedUp, FilledBy

\* memchunk_alloc puts a new block before a head that has no room for a small
\* request: less than that request is left in it.
LEMMA WasteStep == ASSUME NoOverflow, IInv, WasteInv, [Next]_vars PROVE WasteInv'
<1>1. /\ TypeOK /\ block_size \in Nat \ {0} /\ HeaderSize \in Nat
      /\ free_off \in Nat /\ bytes \in Seq(Nat)
      /\ blocks \in Seq(1 .. Len(bytes)) /\ Len(blocks) \in Nat
      /\ \A i \in 1 .. Len(blocks) : blocks[i] \in 1 .. Len(bytes)
      /\ NewBlock = Len(bytes) + 1 /\ Len(bytes) \in Nat
  BY BlocksType, BlockSizeType, SizesAssumption DEF IInv, TypeOK
<1>2. pc = "idle" => \A i \in 2 .. Len(blocks) : UsedUp(bytes, handed, blocks[i])
  BY WasteByUsedUp DEF WasteInv
<1>3. WasteBounded' <=> (pc' = "idle" => \A i \in 2 .. Len(blocks') : UsedUp(bytes', handed', blocks'[i]))
  BY DEF WasteBounded, Filled, UsedUp, FilledBy
<1>4. ASSUME NEW size \in Sizes, AllocFromHead(size) PROVE WasteInv'
  <2>1. /\ blocks # <<>> /\ free_off + size <= block_size /\ size \in Nat
        /\ free_off' = free_off + size /\ pc = "idle" /\ pc' = "idle"
        /\ blocks' = blocks /\ bytes' = bytes /\ Hand(blocks[1], free_off, size)
    BY <1>4, NoWrap, BlockSizeType DEF AllocFromHead, NoRoom, IInv, HeadFill, TypeOK
  <2>2. /\ \A b \in 1 .. Len(bytes) : UsedUp(bytes, handed, b) => UsedUp(bytes', handed', b)
        /\ blocks[1] \in 1 .. Len(bytes)
    BY <1>1, <2>1, UsedUpStays DEF Hand
  <2>3. FilledBy(handed', blocks[1], free_off + size)
    BY <1>1, <2>1, <2>2, FilledByNew
  <2>4. HeadUsed'
    <3>1. CASE free_off = block_size /\ UsedUp(bytes, handed, blocks[1])
      BY <1>1, <2>1, <2>2, <3>1 DEF HeadUsed
    <3>2. CASE bytes[blocks[1]] = HeaderSize + block_size /\ FilledBy(handed, blocks[1], free_off)
      BY <2>1, <2>3, <3>2 DEF HeadUsed, FilledBy
    <3> QED
      BY <2>1, <3>1, <3>2 DEF WasteInv, HeadUsed
  <2> QED
    BY <1>1, <1>2, <1>3, <2>1, <2>2, <2>4 DEF WasteInv
<1>5. ASSUME NEW size \in Sizes, AllocBig(size) PROVE WasteInv'
  <2>1. /\ size \in Nat /\ bytes' = Append(bytes, HeaderSize + size)
        /\ Hand(NewBlock, 0, size) /\ pc = "idle" /\ pc' = "idle"
    BY <1>5, NoWrap DEF AllocBig, Malloc
  <2>2. /\ \A b \in 1 .. Len(bytes) : bytes'[b] = bytes[b]
        /\ bytes'[NewBlock] = HeaderSize + size
    BY <1>1, <2>1
  <2>3. \A b \in 1 .. Len(bytes) : /\ UsedUp(bytes, handed, b) => UsedUp(bytes', handed', b)
                                   /\ \A n \in Nat : FilledBy(handed, b, n) => FilledBy(handed', b, n)
    BY <1>1, <2>1, <2>2, UsedUpStays DEF Hand
  <2>4. UsedUp(bytes', handed', NewBlock)
    <3>1. FilledBy(handed', NewBlock, size)
      BY <1>1, <2>1, FilledByNew
    <3>2. bytes'[NewBlock] - HeaderSize - size = 0 /\ size \in 0 .. bytes'[NewBlock]
      BY <1>1, <2>1, <2>2
    <3>3. /\ size \in 0 .. bytes'[NewBlock]
          /\ 4 * (bytes'[NewBlock] - HeaderSize - size) < block_size
      BY <1>1, <2>1, <3>2
    <3> QED
      BY <1>1, <3>1, <3>3 DEF UsedUp, FilledBy, NewBlock
  <2>5. CASE blocks = <<>>
    <3>1. blocks' = <<NewBlock>> /\ free_off' = block_size
      BY <1>5, <2>5 DEF AllocBig
    <3>2. blocks'[1] = NewBlock /\ Len(blocks') = 1
      BY <3>1
    <3>3. HeadUsed'
      BY <2>4, <3>1, <3>2 DEF HeadUsed, UsedUp, FilledBy
    <3> QED
      BY <1>3, <3>2, <3>3 DEF WasteInv
  <2>6. CASE blocks # <<>>
    <3>1. blocks' = <<blocks[1], NewBlock>> \o Tail(blocks) /\ free_off' = free_off
      BY <1>5, <2>6 DEF AllocBig
    <3>2. Len(blocks) >= 1 /\ blocks[1] \in 1 .. Len(bytes)
      BY <1>1, <2>6
    <3>3. /\ Len(Tail(blocks)) = Len(blocks) - 1 /\ Tail(blocks) \in Seq(1 .. Len(bytes))
          /\ \A i \in 1 .. Len(blocks) - 1 : Tail(blocks)[i] = blocks[i + 1]
      BY <1>1, <2>6
    <3>4. /\ Len(blocks') = Len(blocks) + 1
          /\ blocks'[1] = blocks[1] /\ blocks'[2] = NewBlock
          /\ \A i \in 3 .. Len(blocks') :
               i - 1 \in 2 .. Len(blocks) /\ blocks'[i] = Tail(blocks)[i - 2]
      BY <1>1, <3>1, <3>2, <3>3
    <3>5. ASSUME NEW i \in 2 .. Len(blocks') PROVE UsedUp(bytes', handed', blocks'[i])
      <4>1. CASE i = 2
        BY <2>4, <3>4, <4>1 DEF UsedUp, FilledBy
      <4>2. CASE i # 2
        <5>1. /\ i - 1 \in 2 .. Len(blocks) /\ i - 1 \in 1 .. Len(blocks)
              /\ blocks'[i] = blocks[i - 1]
          BY <1>1, <3>2, <3>3, <3>4, <4>2
        <5>2. UsedUp(bytes, handed, blocks[i - 1]) /\ blocks[i - 1] \in 1 .. Len(bytes)
          BY <1>1, <1>2, <2>1, <5>1
        <5>3. UsedUp(bytes', handed', blocks[i - 1])
          BY <2>3, <5>2 DEF UsedUp, FilledBy
        <5> QED
          BY <5>1, <5>3 DEF UsedUp, FilledBy
      <4> QED
        BY <4>1, <4>2
    <3>6. HeadUsed'
      <4>1. CASE free_off = block_size /\ UsedUp(bytes, handed, blocks[1])
        <5>1. UsedUp(bytes', handed', blocks[1])
          BY <2>3, <3>2, <4>1 DEF UsedUp, FilledBy
        <5> QED
          BY <3>1, <3>4, <4>1, <5>1 DEF HeadUsed, UsedUp, FilledBy
      <4>2. CASE bytes[blocks[1]] = HeaderSize + block_size /\ FilledBy(handed, blocks[1], free_off)
        <5>1. FilledBy(handed', blocks[1], free_off)
          BY <1>1, <2>3, <3>1, <3>2, <4>2 DEF FilledBy
        <5> QED
          BY <2>2, <3>1, <3>2, <3>4, <4>2, <5>1 DEF HeadUsed, FilledBy
      <4> QED
        BY <2>1, <2>6, <4>1, <4>2 DEF WasteInv, HeadUsed
    <3> QED
      BY <1>3, <3>5, <3>6 DEF WasteInv
  <2> QED
    BY <2>5, <2>6
<1>6. ASSUME NEW size \in Sizes, AllocInNewHead(size) PROVE WasteInv'
  <2>1. /\ size \in Nat /\ bytes' = Append(bytes, HeaderSize + block_size)
        /\ Hand(NewBlock, 0, size) /\ pc = "idle" /\ pc' = "idle"
        /\ blocks' = <<NewBlock>> \o blocks /\ free_off' = size
        /\ 4 * size <= block_size /\ NoRoom(size)
    BY <1>6, NoWrap, BlockSizeType DEF AllocInNewHead, Malloc, IsBig
  <2>2. /\ \A b \in 1 .. Len(bytes) : bytes'[b] = bytes[b]
        /\ bytes'[NewBlock] = HeaderSize + block_size
    BY <1>1, <2>1
  <2>3. \A b \in 1 .. Len(bytes) : UsedUp(bytes, handed, b) => UsedUp(bytes', handed', b)
    BY <1>1, <2>1, <2>2, UsedUpStays DEF Hand
  <2>4. /\ Len(blocks') = Len(blocks) + 1 /\ blocks'[1] = NewBlock
        /\ \A i \in 2 .. Len(blocks') :
             i - 1 \in 1 .. Len(blocks) /\ blocks'[i] = blocks[i - 1]
    BY <1>1, <2>1
  <2>5. HeadUsed'
    <3>1. FilledBy(handed', NewBlock, size)
      BY <1>1, <2>1, FilledByNew
    <3> QED
      BY <2>1, <2>2, <2>4, <3>1 DEF HeadUsed, FilledBy
  <2>6. ASSUME blocks # <<>> PROVE UsedUp(bytes, handed, blocks[1])
    <3>1. CASE bytes[blocks[1]] = HeaderSize + block_size /\ FilledBy(handed, blocks[1], free_off)
      <4>1. free_off <= block_size
        BY <2>1, <2>6 DEF IInv, HeadFill
      <4>2. free_off + size > block_size
        BY <2>1, <2>6, <4>1, <1>1, NoWrap DEF NoRoom
      <4>3. 4 * (HeaderSize + block_size - HeaderSize - free_off) < block_size
        BY <1>1, <2>1, <4>1, <4>2
      <4>4. free_off \in 0 .. HeaderSize + block_size
        BY <1>1, <4>1
      <4>5. /\ free_off \in 0 .. bytes[blocks[1]]
            /\ 4 * (bytes[blocks[1]] - HeaderSize - free_off) < block_size
        BY <1>1, <2>6, <3>1, <4>1, <4>2, <2>1
      <4> QED
        BY <3>1, <4>5 DEF UsedUp
    <3> QED
      BY <2>1, <2>6, <3>1 DEF WasteInv, HeadUsed
  <2>7. ASSUME NEW i \in 2 .. Len(blocks') PROVE UsedUp(bytes', handed', blocks'[i])
    <3>1. i - 1 \in 1 .. Len(blocks) /\ blocks'[i] = blocks[i - 1]
      BY <2>4
    <3>2. UsedUp(bytes, handed, blocks[i - 1])
      <4>1. CASE i = 2
        BY <1>1, <2>6, <3>1, <4>1
      <4>2. CASE i # 2
        BY <1>1, <1>2, <2>1, <3>1, <4>2
      <4> QED
        BY <4>1, <4>2
    <3>3. UsedUp(bytes', handed', blocks[i - 1])
      BY <1>1, <2>3, <3>1, <3>2 DEF UsedUp, FilledBy
    <3> QED
      BY <3>1, <3>3 DEF UsedUp, FilledBy
  <2> QED
    BY <1>3, <2>5, <2>7 DEF WasteInv
<1>7. CASE CallFini \/ FiniFree
  BY <1>7 DEF CallFini, FiniFree, WasteInv, HeadUsed, WasteBounded
<1>8. CASE FiniReturn
  <2>1. blocks' = <<>> /\ Len(blocks') = 0
    BY <1>8 DEF FiniReturn
  <2> QED
    BY <2>1 DEF WasteInv, HeadUsed, WasteBounded
<1>9. CASE UNCHANGED vars
  <2>1. /\ blocks' = blocks /\ bytes' = bytes /\ free_off' = free_off
        /\ handed' = handed /\ pc' = pc
    BY <1>9 DEF vars
  <2>2. HeadUsed'
    BY <2>1 DEF WasteInv, HeadUsed
  <2> QED
    BY <1>2, <1>3, <2>1, <2>2 DEF WasteInv
<1>10. ASSUME NEW size \in Sizes, AllocFails(size) PROVE WasteInv'
  BY <1>9, <1>10 DEF AllocFails
<1> QED
  BY <1>4, <1>5, <1>6, <1>7, <1>8, <1>9, <1>10 DEF Next

-----------------------------------------------------------------------------
(* The theorems, for all block sizes and all request sizes without         *)
(* overflow.                                                               *)

\* The inductive invariant holds of memchunk_init, memchunk_alloc and
\* memchunk_fini in any order.
THEOREM Invariance == ASSUME NoOverflow PROVE Spec => []IInv
<1>1. Init => IInv
  BY InitIInv
<1>2. IInv /\ [Next]_vars => IInv'
  BY NextIInv
<1> QED
  BY <1>1, <1>2, PTL DEF Spec

\* The types of the allocator's state.
THEOREM TypeCorrect == ASSUME NoOverflow PROVE Spec => []TypeOK
<1>1. IInv => TypeOK
  BY DEF IInv
<1> QED
  BY <1>1, Invariance, PTL

\* memchunk_alloc hands out memory of blocks it owns, within their bounds.
THEOREM AllocationsInside == ASSUME NoOverflow PROVE Spec => []HandedInside
<1>1. IInv => HandedInside
  BY DEF IInv
<1> QED
  BY <1>1, Invariance, PTL

\* No byte is handed out twice by memchunk_alloc.
THEOREM AllocationsDisjoint == ASSUME NoOverflow PROVE Spec => []HandedDisjoint
<1>1. IInv => HandedDisjoint
  BY DEF IInv
<1> QED
  BY <1>1, Invariance, PTL

\* memchunk_fini leaks no block and frees none twice.
THEOREM BlocksFreedOnce == ASSUME NoOverflow PROVE Spec => []BlocksAccounted
<1>1. IInv => BlocksAccounted
  BY DEF IInv
<1> QED
  BY <1>1, Invariance, PTL

\* "To prevent wasting memory at the end of the chunk->head": whatever
\* memchunk_alloc was asked for, a block behind the head is used up to less
\* than a quarter of block_size.
THEOREM WasteIsBounded == ASSUME NoOverflow PROVE Spec => []WasteBounded
<1>1. Init => IInv /\ WasteInv
  BY InitIInv DEF Init, WasteInv, HeadUsed, WasteBounded
<1>2. IInv /\ WasteInv /\ [Next]_vars => IInv' /\ WasteInv'
  BY NextIInv, WasteStep
<1>3. WasteInv => WasteBounded
  BY DEF WasteInv
<1> QED
  BY <1>1, <1>2, <1>3, PTL DEF Spec

=============================================================================
