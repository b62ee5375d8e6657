# A formal model of c-reusables

c-reusables is a collection of small C libraries meant to be copied into other
programs. Nothing in it runs by itself or holds a lock; most of the libraries are data
structures with an API, and what can go wrong is a long sequence of legal calls
that leads to a corrupted structure. This directory models those structures in
TLA+, checks them with TLC on small instances and proves what it can with TLAPS.
The theorems of most interest are listed under `theorems` in `PROJECT.json`.

## Inventory

| Part | State | Operations | What makes it correct |
|---|---|---|---|
| Red-black tree, `data/rbtree.[hc]` | root, per node `lc` (left pointer and colour bit) and `r` | insert, remove, lookup, fini_step | after each call a red-black tree in key order; the rebalancing loops end, and find the grandparent, sibling and stack slots they do not test for |
| Tree cursor, same files | stack of nodes from the root to the current one | lookup_ex, current, head, tail, next, prev | the stack is a way down the tree; next and prev go through the keys in order and stay put at the ends |
| Hash table, `data/htable.[hc]` | array of planes of slots, each slot a chain; node count | insert, insert_unsafe, remove, lookup, fini with a callback | every node can be found from its hash in its plane; the count is right; failures change nothing |
| Lists, `data/list.h` | next, previous and tail pointers through a sentinel | insert, append, prepend, remove of three kinds of list | walking either way spells out the content; the tail pointer is the last node |
| Chunk allocator, `mem/memchunk.[hc]` | list of blocks, offset of the free space in the first | alloc, fini | allocations inside their blocks and apart from one another; each block freed once |
| Buffer, stack, array, `data/buffer.[hc]` | data, size, capacity | reserve, shrink, insert, remove; the same at the end (stack) or at multiples of a width (array) | size within capacity, a failed call changes nothing |
| Value store, `data/value.[hc]` | tagged unions; arrays; dictionaries with a tree of their own and an order list | getters, setters, array and dictionary operations, paths | the dictionary's tree balanced and its order list complete; everything nested freed once; partial failures undone; numbers and strings read back |
| Command line, `misc/cmdline.[hc]` | position in argv, the letters left in a group of short options | one parse with a callback | each word is given to the callback once, in order, as the option or argument it is |
| Memory stream, `win32/memstream.[hc]` | per stream a reference count, a position and the bounds of a buffer it does not own | IStream methods; Clone makes another stream over the same buffer | reads within the buffer, a stream freed by its last reference |
| Base64 and hex, `encode/` | none | encode, decode | decoding undoes encoding, only encodings are accepted, sizes are exact |
| Checksums, `hash/` | none | crc32, fnv1a | published values |
| `mem/malloca.h`, `misc/defs.h` | none | macros | - |

The parts do not call one another, with one exception each: a cursor reads the
tree, and the stack and array wrappers use the buffer. `value.c` is
self-contained and has a second red-black tree of its own.

Hard to test here: rebalancing (the interesting shapes need particular orders of
insertions and removals), code that relies on a node being there because of a
global property of the tree, thresholds at which a table grows and shrinks,
allocation failures in the middle of an operation, size arithmetic at its
limits, and callbacks that run while a structure is half taken down. Only the
memory stream has a counter that threads share; nothing else may be called by
two threads at once.
`PROJECT.json` lists each hazard at its line.

## Plan

Modules in the order they were written. All of them are here; the last section on
proofs says what is not proved and why.

| Module | Models | Composes / implements | Proved |
|---|---|---|---|
| `RBTree` | tree insert, remove, lookup, fini_step | base of `RBCursor` | all its safety properties: `SearchTrees`, `RBTreeProofs` |
| `RBCursor` | tree cursor | EXTENDS `RBTree`; implements `OrderedSet` | its path and the refinement: `RBTreeProofs` |
| `MemChunk` | chunk allocator | - | `MemChunkProofs` |
| `List` | three kinds of lists | - | `ListProofs` |
| `HTable` | hash table | EXTENDS `Doubling`; implements `KeyedSet` | `HTableProofs` |
| `Buffer` | buffer, stack, array | EXTENDS `Doubling`; implements `ByteString` | `BufferProofs` |
| `Dict` | dictionary of `value.c`: a tree of its own, order list, get_or_add, walks with callbacks, clean-up | implements `OrderedMap` | - (recursive operators) |
| `Doubling` | the sizes 59, 118 ... of planes and 16, 32 ... of good allocations | - | `DoublingProofs` |
| `MemStream` | streams, references, positions | - | `MemStreamProofs` |
| `CmdLine` | option parsing with a callback | implements `OptionGrammar` | - |
| `ValueTree` | nested arrays and dictionaries, paths | dictionaries as the functions that `Dict` implements | - |
| `Codecs`, `Scalars` | base64 and hex; numbers and strings of `value.c` | composed in `Conversions` | - (functions of bounded inputs) |

Each state module M has a module MCM and a file M.cfg for TLC.

## The modules and the code

Each definition keeps the name of the function it models where it models a
whole one; `PROJECT.json` gives the lines of every definition. Definitions with a
suffix after an underscore and the comment "Faulty variant" are not part of the
model: each is a plausible bug that breaks one property, which shows that the
property depends on the code.

**RBTree.** `tree` is what memory holds: the root and, for each node, both
child pointers and the colour bit that the code keeps in the lowest bit of
`lc`. The other variables are the locals of the call in progress: `pc` names
the loop it is in, `path` is `RBTREE_PATH`, `at` is `node_index`. One
iteration of a loop is one step, so the trees in the middle of a rebalancing
are states, and the invariants speak of them. A node outside the tree belongs
to its owner; `Forget` makes its pointers NULL, because the code writes them
before it reads them. Nodes are in memory, so `Node` is finite. `rbtree_fini_step` puts a child over a pointer whose
lowest bit is a colour and so breaks the tree on purpose: `closing` is true
from its first call until it returns NULL, and only it may be called then, as
the header demands.

**RBCursor** EXTENDS `RBTree` and adds the cursor. `Next` of the tree is
taken whole, with one rule of the header: adding or removing a node
invalidates the cursor (`cur` becomes empty). Climbing works on a copy `cn` of
the length, as the code does, and `cur` is changed only at the end.

**OrderedSet** is the promise of `rbtree.h` for one tree and one cursor:
members, position and result. A call is made in one step (`asked` says which,
with its argument) and has its effect in a later one, so that an answer to
another call than the one made is no step of `OrderedSet`. `RBCursor` implements it
with members read off the tree (`Members`, `Position`, `Asked`); a call takes effect in the step that links or
takes out the node, returns from a lookup, or moves the cursor.

**HTable.** `planes` is the array of planes, each a function from slots to
chains; a chain is a sequence. The size of plane i is `FirstPlane` doubled i
times, from **Doubling**, which the allocation sizes of `Buffer` use too. A
chain walk is a set comprehension (`Hits`, among the `ChainPlaces` of a hash) and the order of the walk is in `FirstHit`: last plane first, from its head.
An insertion into a full table has three outcomes, for the two allocations of
`htable_grow`. `htable_fini` with a callback destroys one node per step.
**KeyedSet** is the promise: a set of nodes found by key, where only
`htable_insert_unsafe` can put in two nodes of one key. Here a call is one step,
and the refinement alone would accept a lookup of one key that answers for
another; so `ImplementsKeyedSet` also says of each function that it takes the
abstract step of its name, with its own argument.

**List.** `n`, `p` and `tail` are the pointers of nodes and sentinels; a run
is of one `kind`. `content` is auxiliary: what each list should hold. The
mutators are the pointer assignments of the inline functions in their order,
and the properties compare pointers with `content`.

**MemChunk.** `blocks` is the linked list of blocks, `bytes[b]` what the
b-th malloc was asked for, `free_off` the offset in the head. `handed` (the
allocations callers hold) and `freed` are auxiliary. `Wrap` is size_t
arithmetic. `MEMCHUNK_INITIALIZER` and `memchunk_init` differ in `free_off`,
and both are initial.

**Dict** models one VALUE that is a dictionary or not. `t` is the tree
(root, children, red nodes), `links` the order list, `heap` the nodes that are
malloc'ed, `fresh` those whose value has IS_NEW. A call that runs no code of
the caller is one step, its loops recursive operators: that the rebalancing
loops of such a tree work iteration by iteration is what `RBTree` is about.
Left and right are mirror images here, so each rotation and each case is
written once for a `Side`. The walks take a step for each visit, during which
`visit_func` may stop them or write the value, and `value_dict_clean` one for
each node it frees. In a dictionary without order list the nodes are malloc'ed
without its two fields; `links` must then stay untouched. A caller may leave values
new, also over other calls, as long as the dictionary has no more than `MaxLate` entries.
**OrderedMap** is the promise: keys, the order they were added in, which values
are new, what a walk has still ahead; one definition, `ImplementsOrderedMap`, holds both the refinement and
that each function takes the step of its name.

**Buffer.** `mem` is the memory a buffer owns, of length `alloc`, and `size`
how much of it is used. The functions that call one another in the code are
operators from a memory and a size to the set of their results, one of them a
failed realloc; the actions wrap them. Stack calls are buffer calls at the end;
an array's are at multiples of the width of its items, in a buffer that holds a
whole number of them, and `array_set` writes in place. `room` is auxiliary: what
`buffer_reserve` has promised and nothing has used since. Bytes beyond `size`
are forgotten (`Become`). **ByteString** is the promise: a sequence of bytes,
and an error changes nothing. As for the table, `ImplementsByteString` also ties each
function to the abstract step of its name, at the offset and of the length given.

**MemStream.** A user of a thread holds references (`Ref`) to streams;
several may be to one stream. `obj` is the MEMSTREAM, `heap` which of them are
malloc'ed; memory that was freed may be used for the next stream. Release is
two steps, since another thread may run between `InterlockedDecrement` and the
test of what it returned; the number it returned is in `local`. CopyTo is two steps too: in
between the other stream's `Write` runs, and may release references, even to this
stream, as long as the one the call is made through stays. `pos` is unprotected, so users
do not make two calls that use it at once (`Alone`); that they use a stream only
through a reference they hold is the rule of COM. Widths are parameters: `Ulong`
and `Quad` are 2^32 and 2^64. `io` is auxiliary: the bytes that the last call
used. Methods that change nothing (Write, SetSize, Commit, Revert, the locks, Stat) are
left out. `memstream_Clone` makes a stream of its own: streams share the bytes,
which they do not own, but no count.

**CmdLine.** `i`, `after` and `group` are the locals of `cmdline_read` and of
the loop over a group of short options; one iteration is one step, with the one
call of the callback that it makes, which answers 0 (go on) or not. Words are
sequences of characters, since prefixes and lengths decide. The loop over the
table is the choice of the first option that takes the word. `made` is auxiliary:
what the callback was given. `snprintf` is that of C99. **OptionGrammar** says what a command line means
without loops: a word, with the state of `--`, gives a list of reports and takes
one or two words; the reading is the concatenation, cut off at the first answer that
is not zero.

**ValueTree.** A VALUE is known by a cell. `store` says which cells exist, what is in
each (its type, the items and the capacity of an array, the entries of a
dictionary) and what is malloc'ed: payloads, buffers of items, and nodes. A type
LONG is a string too long for the VALUE itself. Moving items in memory keeps
their cells: a program that follows the header keeps no pointer over an insertion or removal.
Functions that call one another are operators from a store to the set of their
results, as in `Buffer`; `DictGetOrAdd` and `DictWithout` are the functions of which `Dict` models the
inside. `value_path_ex` takes a step for each component of the path; it is the one call with
several steps, because a failure half way leaves the containers it has already built. Parsing a
component is abstracted to its outcome: a key, an index with its sign, `[]`, or malformed.

**Codecs.** A character is what the decoder's table has for it, its place in the alphabet;
padding, the terminator and other characters are numbers below zero. `LookUp` is the table:
an ASCII character that is not in the alphabet gives 255, and so does one that is not ASCII (`High`)
where char is unsigned. Where char is signed its index is negative: the look-up gives any
of the bytes `Outside`, and perhaps another one the next time the code looks. So
`base64_decode` is the set of the results that are possible. The alphabet, `ch62`, `ch63` and `pad`
are taken to be ASCII characters, all different. `TextOf` is the reference: the bits of all the bytes, in groups of six or four.
Letters behind f are digits in `hex_decode`, as in the code.

**Scalars.** A number is a count of 2^-FracBits; the widths of the types and of the mantissas are
parameters in the order of the real ones. `Rounded` is round-half-to-even to a
precision, `Cast` the conversion of C, which for a float beyond the integer type is undefined:
`build` is what this build does with it. A string is its header of seven-bit
groups and the length of what follows. **Conversions** composes the two: a program makes one conversion.

## The runs

| Run | Shows | Bounds |
|---|---|---|
| `rbtree` | every call from every reachable tree returns, rebalances it, and finds the parent, sibling, grandparent and stack slot it does not test for | 7 keys and one node with a key in use; stack of 6 |
| `rbcursor` | tree and cursor implement `OrderedSet`; the cursor is always a way from the root | 6 keys and a duplicate; stack of 6 |
| `memchunk` | allocations inside their blocks and apart, each block freed once, waste below a quarter block, fini ends | blocks of 8 bytes, header 1, 5 mallocs, 6 allocations; requests on both sides of a quarter and of a whole block |
| `memchunk_wide` | a violation: see Findings | size_t of 6 bits, every size of it |
| `list` | pointers spell out the content, both ways; the tail is the last node | 5 nodes, 2 lists, each kind |
| `htable` | the table implements `KeyedSet`; nodes in their slots; planes come and go with the count; fini ends | first plane 4 slots, 5 keys and a duplicate, three of them in one chain |
| `buffer` | buffer, stack and array implement `ByteString` with any realloc failing; room reserved is there; size within memory | one buffer, 2 byte values, insertions of 0, 1 and 3 bytes, up to 5 bytes |
| `dict` | the dictionary implements `OrderedMap`, balanced, with a complete order list, no leak and no use of freed nodes | 6 keys; with an order list at most 4 nodes; values left new with at most 2 |
| `memstream` | counts are right in every interleaving, the last release frees, nothing outside the buffer is used, Seek is exact | 3 references, 2 places for streams, buffers of 0 and 3 bytes; ULONG of 2 bits, LONGLONG of 4 |
| `cmdline` | `cmdline_read` implements `OptionGrammar`, ends, and its names fit their buffer | 3 words out of 19, 3 tables, `auxbuf` of 4 |
| `value_tree` | every value in one place and all memory accounted for; `value_path` and `value_build_path` do what their header says | 4 values, 2 keys, paths of up to 2 out of 8 components |
| `conversions` | round trips, exact sizes, canonical base64, but for groups with a character that is not ASCII; compatible numbers and lengths of strings read back | 0 to 4 bytes out of 4; texts of 0 to 4 characters out of 7, and of 2 to 4 out of 5 behind a whole group, char signed and not, 4 bytes in front of the table; numbers of 3, 4, 5 and 6 bits for 24, 32, 53 and 64; real lengths around every power of 128 |

Each property of a passing run is one a plausible bug breaks: see `mutants` in
`PROJECT.json`.

Why the bounds are enough. *Trees*: a deficit that climbs more than one level
in `rbtree_remove_fixup` needs three full levels of black nodes. Ten inserts
and three removals reach that tree, seven nodes alone do not, so `MCRBTree`
starts from the empty tree and also from that one (`Complete`), a state the
program can be in. All eight node moves of removal and all rotations on both
sides fire. `RBTREE_PATH` has two slots for each bit of a pointer, because a
red-black tree of N nodes is at most 2*log2(N+1) deep; here N < 2^3, hence a
`Capacity` of 2 * 3, which satisfies what the theorems assume of it (`StackIsLarge`). *Table*: `FirstPlane` is 59 in the code; with 4 the second
plane comes with the fifth node, and goes again after removals, within 6
nodes. *Allocator*: the default block of 8 bytes puts the quarter limit at 2.
*Dictionary*: 6 keys reach every
case of both rebalancing functions and both kinds of successor; the custom comparer finds keys
equal in pairs. The order list multiplies the states, so a constraint keeps dictionaries that
have one at 4 nodes: enough for a head, a tail and two between, and for removals with a
successor that is the right child and one that is deeper. Two entries are enough for one
value to stay new while other keys are added, looked up and removed. `MaxHeight` is 4, the height of a tree of 6 nodes. *Buffer*: the
thresholds 16, 256 and 32 become 1, 2 and 1, so that a handful
of bytes crosses the powers of two, the change of series and the shrinking
after a removal. `buffer_swap` is run with a buffer and itself only: with two
buffers the states multiply and the call is three assignments. Items of an array are one or
three bytes wide. *Streams*: three references make two threads race for the last release while
a third holds or clones; with 2 bits in a ULONG and 4 in a LONGLONG every sum that
can wrap does, and the three lengths of delta (within the buffer, within a ULONG, beyond) occur;
`MCCounts` ends where position plus count would wrap. *Command line*: names
that begin one another, an option that takes the next word, a group, an option without a dash
and `--` interact within three words, and the longest name exceeds `auxbuf`. *Values*: with 4 cells an
array grows from 1 to 2 to 4 and shrinks again, and a dictionary in an array in a dictionary
occurs; negative indices, zero with and without a sign and positive indices hit both ends and lie beyond them. *Codecs*: four bytes are
a whole group and a tail of one, and tails of two and none occur; a
group only depends on its own bytes. The bytes in front of the table are one that is the
first character, one that is the last, one too large for a character that still passes the
test of a tail of two, and one that is refused. *Scalars*: what matters is how the widths lie to one another
(float < INT32 < double < INT64), and that floats reach beyond INT64.

Fairness. The functions are ordinary calls: once entered, they run on. So the
trees assume weak fairness of `Proceed` (the steps inside a call, never the
making of one), the table and the allocator of the steps of their fini loops.
A stream's `ReleaseEnds` and `CopyEnds` are weakly fair for each
reference: a thread inside a call runs on, and the `Write` of the other stream returns. `CmdLine` assumes
weak fairness of `Next`, all of which is inside one call; the callback returns.
The callers are not fair in any run. Deadlock is checked everywhere but in `cmdline` and
`conversions`, whose one call or answer ends the behaviour.

## What is proved

### The tree

`RBTreeProofs` proves for every finite set of nodes and every assignment of
keys, equal ones included, that `RBTree` keeps `TypeOK`, `Ordered`, `Balanced`,
`NeighboursExist` and `OneFlaw`, and the action property
`RebalancingKeepsOrder`; if the stack is large, `PathDescends` as well. Of the cursor
it proves `CursorIsPath` and the refinement of `OrderedSet`. `SearchTrees` has the facts about trees that this rests
on and knows nothing of the code's variables.

*Certificates.* `InOrder` and `BlackRule` walk the tree recursively, and a
recursive walk says little about a tree that a step has changed in one place. The proofs
use certificates, which have to fit their neighbours only. `sub` gives the
nodes at and below each pointer: that `sub[n]` is n and what its children have, that
n is not below its own children, and that keys on either side are less and greater, is
`SearchTree`; that nothing outside `sub[root]` has children, `RootedTree`.
`bh` gives the black height of each pointer, and `Heights` says that siblings
agree, but for a black node lent to one of them below `short`. A step is then a
local change of `sub` and `bh`: `RotatedTree`, `AddedTree`, `SplicedTree` and
`ExchangedTree` for the first, the lemmas that end in `Colors` and `Heights` for
the second. Left and right are mirror images: what a lemma says of the sides a
and b it says of b and a too (`MirroredRooted`, `MirroredHeights`), with keys negated.
Only in the end do `SoundValid` and `InvOrdered` take the certificates back to what
the walks of `RBTree` compute (`TreeInOrder`, `HeightsCount`). This needs induction from the leaves
up: `TreeInduction` (a set with NULL and each node both of whose children are in it
has all nodes in it; a counterexample with the fewest nodes below it is none) and `TreeRecursion`
(the recursive walks have the values they are defined by).

*The inductive invariant* `Inv` has three parts. `Control`: the types, which
locals are in use in which loop, and that `path` goes down from the root.
`Colours`: between calls and in the loops that only search, the tree is `Sound`; in
`rbtree_insert_fixup` it has an `InsertFlaw`, a red node at the end of the path
that may have a red parent or be the root; in `rbtree_remove_fixup` a
`RemoveFlaw`, a subtree at the end of the path that is one black node short. `Walk`: the
tree is ordered, and the loops that search know where they are. `Leads`: the
key searched for can be nowhere but below `node`, without which an insertion
might break the order; `Seeks`: the least node on the right of the node to
remove is below `node`, without which its successor might be another; `Ripe`: after
the swap with the successor only the node to remove is out of order, and it
has at most one child. In the teardown colours mean nothing and `Colours` is empty.

There is a lemma for each action. `NeighboursExist` follows from the flaws: the
root is black, so a red parent has a parent; and a subtree that is short of a black node
has a sibling with at least two, so the sibling is not NULL.
Rebalancing keeps `InOrder` because `InOrder` is the one ascending
list of the nodes below the root (`ListsUnique`), and no loop changes which those are.

*The stack.* The comment on `RBTREE_CURSOR` says that its stack is "good enough to handle
RB-trees of any size", and nothing tests for its end. It has 16 * sizeof(void*) slots,
two for each bit of a pointer, and a node takes at least two pointers, so
N nodes in memory have N + 1 < 2^bits. `StackIsLarge` says no more than this:
two slots for each bit of the number of nodes. Black heights count nodes:
`HeightsNeedNodes` shows that below a pointer of black height h there are
at least 2^(h-1) - 1 (`Full`), or, in a removal, as many less as the subtree short of a black node
would have. `Rank`, twice the black height and one more for a red node, falls along a way down
(`RanksFall`, `RanksAlong`), so between calls a way has at most 2*(h-1) nodes. The loops go
beyond that. An insertion may have two red nodes at the end of the path: then the
way is one longer, but the tree has about twice the nodes (`DoubleRedNeedsNodes`).
A removal may have pushed one node more in a tree that is short of a black one: then the node
taken out, which its owner still has in memory (`PathInv`), makes up for it. The
teardown drops the colours; that pointers are only moved up or cleared keeps a
tree `Shallow`.

*The cursor.* `CursorInvariance` adds to `Inv` what a call has found out so
far. `Answers`, for the calls of the tree: what is equal to the key of a lookup is
below `node`, and a removal works on the one member that is equal to its argument.
`CursorSearch`, for those of the cursor: a lookup is confined in the same way (`Confines`); the
way to the least or greatest of the nodes `Ahead`, which are all members or those on one side
of where the cursor was, has only greater or lesser ones beside it (`Nears`); and
what is below the node that next or prev has climbed to is not ahead
(`Tops`), so that when it stops at a node reached from its left, that is the next one.
prev is next with the keys negated (`Minus`). In the refinement a call is `Ask`, a step of a loop
changes neither members nor position and stutters, and the step that returns has the
effect that was asked for. The cursor needs no colours; they matter for
`CursorIsPath` only, since a lookup pushes a whole way down.

### The table

`DoublingProofs` shows what the recursive function `Doubled` computes, by
the least element of a set of naturals. `HTableProofs` proves for every finite set
of nodes, every hash function and every first plane of four slots or more that `HTable` keeps
`PlacedByHash` and `CountIsRight` and implements `KeyedSet`
(`KeyedSetImplemented`). The inductive invariant `IInv` adds that no node stands
in two places during `htable_fini` as well, and that the count is then at least
the number of nodes left. `Good` is a table of planes of the right sizes,
nodes where their hashes put them, and once; pushing, taking out and merging are shown
to keep it on any table. That merging may send slots s and s + size
of the last plane to slot s is arithmetic of the remainder: a plane is twice the
one before. From `Good` follows that a lookup, which sees one chain of each plane, misses
no node of its key, and so the refinement.

### The buffer

`BufferProofs` proves for all thresholds, sets of bytes and pieces that
`RoomAsReserved` is inductive as it stands, and that `Buffer` implements
`ByteString` (`ByteStringImplemented`), each call as the abstract step of its
name with its own offset and length. The memory between `size` and `alloc` is arbitrary, so all
lemmas are about `SubSeq(mem, 1, size)`: what a realloc, the two memmoves, and a write into the gap
leave of it. `LeastDoubling` is large enough because `Doubled` grows
without bound (`DoubledFacts`).

### Streams, chunks and lists

`MemStreamProofs` proves for all sets of streams, finite sets of references,
widths and counts that `MemStream` keeps `TypeOK`, `RefsCounted` and
`SeeksExactly`, and, where position plus count does not wrap (`NoWrap`),
`AccessInside`. The inductive invariant is `TypeOK`, `RefsCounted` and one fact more, `BusyOn`:
a call in progress goes through a place that refers to a stream (without it a CopyTo might end
on a stream that is gone). `RefsCounted` is already strong enough
for releases: if one saw zero, nobody holds the stream, no other release saw zero, and the
stream is still there.
The counting is in three lemmas (`HoldersFinite`, `HeldCounts`, `SameRefs`), and a lemma for each action says
whether it adds a holder, takes one away, or changes none, and the count with
it. `SignedSum` shows that the sum of a ULONG and a LONGLONG can only wrap to a
negative number, which Seek refuses.

`MemChunkProofs` proves for every block size, header size and size_t, and all
sets of requests that satisfy `NoOverflow` (no sum or product of the code
exceeds a size_t), that `MemChunk` keeps `TypeOK`, `HandedInside`,
`HandedDisjoint`, `BlocksAccounted` and `WasteBounded`.

The inductive invariant `IInv` adds two facts. `HeadFill`: between calls, if the head has free
space at all then `free_off` and the block size are within the memory malloc
gave, and everything handed out of the head lies below `free_off`. Without it
the next piece carved off the head might overlap an earlier one. If the head is a
big block, `free_off` equals the block size, which stands for "no free space"
even though the block may be larger or smaller. `HandedInUse`: what callers
hold lies in blocks of the list. There is a lemma for each action;
`NewBlockIInv` is shared by the two actions that call malloc. `WasteBounded` is
about blocks that have been the head; it is inductive together with
`HeadUsed`: the head is used up to `free_off`, so when it stops being the
head, less than a quarter is left. An allocation of
no bytes is exempt from `HandedInside`: behind a big head its address is the
block size, which may be beyond the end of that block; nobody may access
anything there.

`ListProofs` proves for every set of nodes and lists that `List` keeps `TypeOK`,
`ForwardLinks`, `BackwardLinks` and `TailIsLast`. These are inductive together
with one more fact, `Apart`: no node stands in two places. Without it a pointer
rewritten for one place might also be the pointer of another. The argument has
three layers: what `InsertAt` and `RemoveAt` do to a sequence (`SeqInsert`,
`SeqRemove`), what they do to the cells of a list (`InsertContent`,
`RemoveContent`), and which pointers must change for the links to follow
(`LinkedIn`, `LinkedOut`, with `AfterInsert` and `AfterRemove`). The order of
the four assignments in the code matters only in the lemmas `LinkAfterStep`,
`LinkBeforeStep`, `QLinkAfterStep` and `UnlinkStep`, which show that they change
those pointers. Taking the head of an empty list unlinks the sentinel from
itself and changes nothing (`EmptyRing`, `Stutter`).

### Only model-checked

* The dictionary of `value.c`: its loops are recursive operators (`FixAfterInsert`,
  `FixAfterRemove` and the searches), which the prover cannot read. The rebalancing of `RBTree`, proved
  for every size, is the same algorithm in other code, and says nothing of the order list.
* Nested values (`OwnsItsMemory`, `BuildKeepsPromise`). `Below` recurses over the
  store, and has the value it is defined by only while no value is inside itself; a
  proof would have to carry that through every operator from stores to results, as `SearchTrees` does
  for trees. `value_array_good_alloc_size` is modelled up to the sizes a run has.
* The command line (`NamesFit`, `ImplementsGrammar`). Neither it nor its grammar keeps
  state that grows with the input, apart from the position: a word is read alike wherever it
  stands, and three words show all that can follow one another. A proof would first have to
  show that `Reading`, which recurses over the words, has a solution.
* The conversions, which are functions of bounded inputs.
* All liveness properties: liveness under fairness and ENABLED are out of the prover's
  reach. So is any theorem that takes an operator as a parameter, in particular the
  library's induction theorems; the inductions here are over a
  set of naturals or of nodes instead.

## Findings

* `memchunk_wide`: `4 * size` in `memchunk_alloc` (`src/mem/memchunk.c:52`)
  wraps for huge sizes and the request is then served from a standard block,
  against the comment next to it. The other runs and the proofs assume sizes
  whose arithmetic stays within a size_t.

Smaller disagreements with headers and edges that were met while modelling; the
models do what the code does there, or leave the case out as said:

* `buffer_insert_raw` of no bytes into a buffer without memory returns NULL,
  which its header reserves for errors (`src/data/buffer.c:120`); the calls on top of it
  then report one. In the model (`NullResult`).
* `value_dict_add` of a key in use returns the value already there as long as
  nobody has initialised it (`src/data/value.c:1149`), against its header. In
`Dict`, and said so in `OrderedMap` (`Used`); it happens with no other value.
* When the payload of a new value cannot be allocated, `value_init_ex` leaves
  VALUE_NULL without the new flag (`src/data/value.c:112`). Repeating `value_build_path` after memory is
  available again then fails, though nobody has initialised that value. In `ValueTree`;
`BuildKeepsPromise` says that nothing else can be in the way of the repetition.
* `base64_decode` looks its characters up with a plain char for an index
  (`src/encode/base64.c:162`, and again in lines 178, 183 and 200 to 217). Where char is
  signed, one from 0x80 on reads the stack in front of the table: whether the text is
  refused with -EINVAL, as `base64.h` says of a malformed one, depends on what
  is there, and a text that is accepted has any bytes in the group of that
  character. In the model (`LookUp`); `AcceptsOnlyEncodings` makes an exception of such
  groups, and of them only. The program should index with an unsigned char.
* `ROUNDF` adds 0.5f, which rounds odd whole numbers from 2^23 to 2^24 up to
  the next: `value_int32` of 8388609.0f is 8388610, and `value_is_compatible`
  says no (`src/data/value.c:95`); likewise for doubles from 2^52. `ReadsBack`
  therefore asks for compatibility only below that. On builds whose conversion to integers
  saturates, 2147483648.0f is said to be compatible with INT32 and reads as
  2147483647; the run has the two ways of converting that x86 compilers use, and with
  `Conversions = {"saturate"}` TLC shows that.
* A short name given to an option with COMPILERLIKE is found in a group of short
  options, where its missing argument is not noticed; `cmdline.h` says it is
  ignored (`src/misc/cmdline.c:52`). The tables of the run have none.
* `hex_decode` takes all letters for digits (`src/encode/hex.c:90`); the header speaks of a
  parsing error. In the model; `AcceptsOnlyEncodings` is about base64.
* `memstream_CopyTo` adds position and count in 64 bits (`src/win32/memstream.c:183`); counts close to 2^64
  wrap and pass the clamp. Outside `NoWrap`.
* `memstream_create` returns ERROR_OUTOFMEMORY, which is no failing HRESULT, and for an
  empty resource whatever GetLastError says; the pointer is NULL. Returned codes are not in the model.

## Not modelled

* The checksums are tables and bit arithmetic with published test
  values; a model narrow enough for TLC would not be about them.
* The getters that list the keys of a dictionary, and other getters that only
  return a field.
* The sign of values behind a `uint32_t` (`array_uint32_set` takes a signed
  argument) and other conversions of the typed wrappers.
* A `visit_func` that adds to or removes from the dictionary being walked:
  `value.h` does not say whether it may, and the code would read freed memory.
* Integer overflow of the hash table's slot count (from 25 planes on) and of
  the buffer's sizes, of `index + count` and `size * sizeof(VALUE)` in arrays of
  values, and of strings of 2^31 bytes and more (`<<` of an int in
  `value_string_length`): the models count in unbounded integers there.
* `malloca.h` and `defs.h` keep no state. `acutest.h` is a vendored test
  framework.
