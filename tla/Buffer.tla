------------------------------- MODULE Buffer -------------------------------
(***************************************************************************)
(* The growing byte buffer of data/buffer.[hc], and the STACK and the      *)
(* ARRAY on top of it.                                                     *)
(*                                                                         *)
(* mem is the allocated memory, size how much of it is in use.  Any        *)
(* realloc may fail.  Sizes stay far below the limits of size_t.           *)
(***************************************************************************)
EXTENDS Integers, Sequences, Doubling

CONSTANTS Buf,          \* the callers' BUFFERs
          Byte,         \* what a byte can be, fresh memory included
          Junk,         \* a byte of fresh memory
          Chunk,        \* the byte sequences callers insert
          MinAlloc,     \* the least good allocation, 16
          SmallLimit,   \* up to which allocations are powers of two, 256
          Slack,        \* what larger ones leave to the heap, 32
          MaxSize       \* bound on the bytes in a buffer

ASSUME BufferAssumption ==
  /\ Junk \in Byte
  /\ Chunk \subseteq Seq(Byte)
  /\ MinAlloc \in Nat \ {0} /\ SmallLimit \in Nat /\ Slack \in Nat /\ MaxSize \in Nat
  /\ Slack < SmallLimit

VARIABLES mem,    \* data[0 .. alloc-1] of each buffer
          size,   \* its size
          ret,    \* -1 when the last call reported an error, else 0
          room    \* bytes reserved and not used or given up since (auxiliary)

vars == <<mem, size, ret, room>>

TypeOK ==
  /\ mem \in [Buf -> Seq(Byte)]
  /\ size \in [Buf -> Nat]
  /\ ret \in {0, -1}
  /\ room \in [Buf -> Nat]

Init ==
  /\ mem = [b \in Buf |-> <<>>]
  /\ size = [b \in Buf |-> 0]
  /\ ret = 0
  /\ room = [b \in Buf |-> 0]

-----------------------------------------------------------------------------
\* The least of first, 2 * first, 4 * first ..., less slack, that n fits in.
LeastDoubling(first, slack, n) ==
  LET Good(k) == Doubled(first)[k] - slack
      least == CHOOSE k \in 0 .. n : Good(k) >= n /\ \A j \in 0 .. k - 1 : Good(j) < n
  IN  Good(least)

buffer_good_alloc_size(n) ==
  IF n <= SmallLimit THEN LeastDoubling(MinAlloc, 0, n)
  ELSE LeastDoubling(2 * SmallLimit, Slack, n)

Lesser(m, n) == IF m < n THEN m ELSE n

\* What the calls below can lead to, as sets of results: the memory, the size,
\* and whether a realloc failed.
Result(m, s, failed) == [mem |-> m, size |-> s, failed |-> failed]

\* buffer_realloc.
Realloc(m, s, alloc) ==
  IF alloc = Len(m) THEN {Result(m, s, FALSE)}
  ELSE IF alloc = 0 THEN {Result(<<>>, 0, FALSE)}
  ELSE {Result([i \in 1 .. alloc |-> IF i <= Len(m) THEN m[i] ELSE Junk],
               Lesser(s, alloc), FALSE),
        Result(m, s, TRUE)}

\* Faulty variant: what is in use already is not counted.
Reserve_Only(m, s, n) ==
  IF s + n < Len(m) THEN {Result(m, s, FALSE)}
  ELSE Realloc(m, s, buffer_good_alloc_size(n))

\* buffer_reserve.
Reserve(m, s, n) ==
  IF s + n < Len(m) THEN {Result(m, s, FALSE)}
  ELSE Realloc(m, s, buffer_good_alloc_size(s + n))

\* Faulty variant: the bytes behind the gap are moved to its beginning.
MakeGap_TooShort(m, s, off, n) ==
  [i \in 1 .. Len(m) |-> IF i > off + n /\ i < s + n THEN m[i - n] ELSE m[i]]

\* memmove of the bytes behind off by n; bytes beyond the memory are dropped.
MakeGap(m, s, off, n) ==
  [i \in 1 .. Len(m) |-> IF i > off + n /\ i <= s + n THEN m[i - n] ELSE m[i]]
CloseGap(m, s, off, n) ==
  [i \in 1 .. Len(m) |-> IF i > off /\ i <= s - n THEN m[i + n] ELSE m[i]]

\* buffer_insert_raw.
InsertRaw(m, s, off, n) ==
  {IF r.failed THEN r
   ELSE Result(MakeGap(r.mem, r.size, off, n), r.size + n, FALSE) :
     r \in IF s + n > Len(m) THEN Reserve(m, s, n) ELSE {Result(m, s, FALSE)}}

\* The pointer buffer_insert_raw returns is NULL when it failed, and when there
\* is no memory to point to.
NullResult(r) == r.failed \/ r.mem = <<>>

\* memcpy of data to the gap.
Written(m, off, data) ==
  [i \in 1 .. Len(m) |-> IF i \in off + 1 .. off + Len(data) THEN data[i - off] ELSE m[i]]

\* buffer_remove; a realloc that fails is no error here.
Removed(m, s, off, n) ==
  LET left == IF off + n < s THEN s - n ELSE off
      kept == IF off + n < s THEN CloseGap(m, s, off, n) ELSE m
      good == buffer_good_alloc_size(2 * left)
  IN  IF left = 0 THEN {Result(<<>>, 0, FALSE)}
      ELSE IF left < Len(m) \div 4 /\ good < Len(m) \div 2 THEN Realloc(kept, left, good)
      ELSE {Result(kept, left, FALSE)}

-----------------------------------------------------------------------------
\* Memory not in use is forgotten: nothing reads it before it is written.
Become(b, r) ==
  /\ mem' = [mem EXCEPT ![b] =
       [i \in 1 .. Len(r.mem) |-> IF i <= r.size THEN r.mem[i] ELSE Junk]]
  /\ size' = [size EXCEPT ![b] = r.size]

Status(bad) == ret' = IF bad THEN -1 ELSE 0
Promise(b, n) == room' = [room EXCEPT ![b] = n]

\* An insertion that succeeds uses n of the bytes that were reserved.
Use(b, r, n) ==
  IF r.failed THEN UNCHANGED room
  ELSE Promise(b, IF room[b] > n THEN room[b] - n ELSE 0)

buffer_realloc(b, alloc) ==
  \E r \in Realloc(mem[b], size[b], alloc) :
    Become(b, r) /\ Status(r.failed) /\ Promise(b, 0)

buffer_reserve(b, n) ==
  \E r \in Reserve(mem[b], size[b], n) :
    /\ Become(b, r) /\ Status(r.failed)
    /\ IF r.failed \/ room[b] > n THEN UNCHANGED room ELSE Promise(b, n)

buffer_shrink(b) ==
  /\ IF (0 < Len(mem[b]) /\ Len(mem[b]) < 8) \/ Len(mem[b]) \div 8 < size[b] \div 7
     THEN Become(b, Result(mem[b], size[b], FALSE))
     ELSE \E r \in Realloc(mem[b], size[b], size[b]) : Become(b, r)
  /\ Status(FALSE) /\ Promise(b, 0)

\* Also buffer_append_raw and stack_push_raw, at the end, and the _raw and _n
\* insertions of an array.
buffer_insert_raw(b, off, n) ==
  \E r \in InsertRaw(mem[b], size[b], off, n) :
    Become(b, r) /\ Status(NullResult(r)) /\ Use(b, r, n)

\* Also buffer_append, at the end.
buffer_insert(b, off, data) ==
  \E r \in InsertRaw(mem[b], size[b], off, Len(data)) :
    /\ Become(b, IF NullResult(r) THEN r ELSE Result(Written(r.mem, off, data), r.size, FALSE))
    /\ Status(NullResult(r))
    /\ Use(b, r, Len(data))

\* Also buffer_clear and stack_clear, of all.
buffer_remove(b, off, n) ==
  /\ \E r \in Removed(mem[b], size[b], off, n) : Become(b, r)
  /\ Status(FALSE) /\ Promise(b, 0)

\* A stack pushes and pops at the end; stack_pop_raw gives no memory back.
stack_push(b, data) == buffer_insert(b, size[b], data)
stack_pop(b, n) == buffer_remove(b, size[b] - n, n)

stack_pop_raw(b, n) ==
  /\ Become(b, Result(mem[b], size[b] - n, FALSE))
  /\ Status(FALSE) /\ UNCHANGED room

\* An array holds items of one width, item i at offset i * width.
IsArray(b, width) == width > 0 /\ size[b] % width = 0

array_insert(b, i, item) == buffer_insert(b, i * Len(item), item)
array_append(b, item) == buffer_insert(b, size[b], item)
array_remove_n(b, i, n, width) == buffer_remove(b, i * width, n * width)

array_set(b, i, item) ==
  /\ mem' = [mem EXCEPT ![b] = Written(@, i * Len(item), item)]
  /\ Status(FALSE) /\ UNCHANGED <<size, room>>

\* buffer_acquire, and buffer_fini followed by buffer_init.
buffer_acquire(b) ==
  /\ Become(b, Result(<<>>, 0, FALSE))
  /\ Status(FALSE) /\ Promise(b, 0)

buffer_swap(a, b) ==
  /\ mem' = [mem EXCEPT ![a] = mem[b], ![b] = mem[a]]
  /\ size' = [size EXCEPT ![a] = size[b], ![b] = size[a]]
  /\ room' = [room EXCEPT ![a] = room[b], ![b] = room[a]]
  /\ Status(FALSE)

Grow(b) ==
  \E off \in 0 .. size[b] : \E data \in Chunk :
    /\ size[b] + Len(data) <= MaxSize
    /\ buffer_insert(b, off, data) \/ buffer_insert_raw(b, off, Len(data))

CallStack(b) ==
  \/ \E data \in Chunk : size[b] + Len(data) <= MaxSize /\ stack_push(b, data)
  \/ \E n \in 0 .. size[b] : stack_pop(b, n) \/ stack_pop_raw(b, n)

CallArray(b) ==
  \E item \in Chunk :
    LET width == Len(item)
    IN  /\ IsArray(b, width)
        /\ \/ /\ size[b] + width <= MaxSize
              /\ \/ array_append(b, item)
                 \/ \E i \in 0 .. size[b] \div width : array_insert(b, i, item)
           \/ \E i \in 0 .. size[b] \div width - 1 :
                \/ array_set(b, i, item)
                \/ \E n \in 1 .. size[b] \div width - i : array_remove_n(b, i, n, width)

Next ==
  \E b \in Buf :
    \/ Grow(b)
    \/ CallStack(b)
    \/ CallArray(b)
    \/ \E n \in 0 .. 2 * MaxSize : buffer_realloc(b, n)
    \/ \E n \in 0 .. MaxSize - size[b] : buffer_reserve(b, n)
    \/ buffer_shrink(b)
    \/ \E off \in 0 .. size[b] : \E n \in 0 .. MaxSize : buffer_remove(b, off, n)
    \/ buffer_acquire(b)
    \/ \E a \in Buf : buffer_swap(a, b)

Spec == Init /\ [][Next]_vars

-----------------------------------------------------------------------------
(* Properties.                                                             *)

\* No call leaves more bytes in use than there are, so that memmove and memcpy
\* stay within the memory; and "reserve new space for at least n bytes": the
\* appends that follow find it, whatever their sizes, as long as nothing was
\* removed in between.
RoomAsReserved == TypeOK /\ \A b \in Buf : size[b] + room[b] <= Len(mem[b])

\* The header's promise: a buffer is a sequence of bytes, whatever moves and
\* reallocations happen below, and an error changes nothing; and each function
\* does what its name promises where and with what it is told.
Content == [b \in Buf |-> SubSeq(mem[b], 1, size[b])]
String == INSTANCE ByteString WITH content <- Content
ImplementsByteString ==
  /\ String!Spec
  /\ [][\A b \in Buf :
          /\ \A off \in 0 .. size[b] :
               /\ \A data \in Chunk :
                    /\ buffer_insert(b, off, data) => String!Insert(b, off, data)
                    /\ buffer_insert_raw(b, off, Len(data)) => String!InsertRaw(b, off, Len(data))
               /\ \A n \in 0 .. MaxSize : buffer_remove(b, off, n) => String!Remove(b, off, n)
          /\ \A n \in 0 .. MaxSize : /\ buffer_realloc(b, n) => String!SetCapacity(b, n)
                                     /\ buffer_reserve(b, n) => String!Reserve
          /\ buffer_shrink(b) => String!Shrink
          /\ \A item \in Chunk \ {<<>>} :
               \A i \in 0 .. size[b] \div Len(item) - 1 :
                 array_set(b, i, item) => String!Overwrite(b, i * Len(item), item)]_vars

=============================================================================
