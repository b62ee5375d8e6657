-------------------------------- MODULE Dict --------------------------------
(***************************************************************************)
(* VALUE_DICT of data/value.c: a red-black tree that owns its nodes, with  *)
(* an optional list of the nodes in the order they were added.             *)
(*                                                                         *)
(* A call that runs no code of the caller is one step, its loops recursive *)
(* operators.  The walks, which call visit_func, and value_dict_clean,     *)
(* which frees the tree it walks, take a step for each node.  One VALUE is *)
(* modelled; a node bears the name of its key (malloc gives no memory in   *)
(* use, and no two nodes have one key).                                    *)
(***************************************************************************)
EXTENDS Integers, Sequences, FiniteSets

CONSTANTS Key,         \* the keys, in the order of value_dict_default_cmp
          NULL,
          Rank,        \* what the custom comparer compares
          MaxHeight,   \* RBTREE_MAX_HEIGHT
          MaxLate      \* the most entries with which the caller may leave a value new

ASSUME DictAssumption ==
  /\ Key \subseteq Int /\ NULL \notin Key
  /\ Rank \in [Key -> Int] /\ MaxHeight \in Nat /\ MaxLate \in Nat

Ptr == Key \cup {NULL}
Side == {"left", "right"}
Opposite(s) == IF s = "left" THEN "right" ELSE "left"

VARIABLES type,    \* of the VALUE: "NULL" or "DICT"
          flags,   \* HAS_ORDERLIST, HAS_CUSTOMCMP
          d,       \* DICT: size, order_head, order_tail, cmp_func
          t,       \* the tree: root, both children of a node, the red nodes
          links,   \* order_prev and order_next of a node
          heap,    \* the nodes that are malloc'ed
          fresh,   \* the nodes of the tree whose value is still IS_NEW
          pc,      \* the loop in progress, or "idle"
          stack,   \* of that loop
          node,    \* of that loop
          ret      \* what the last call returned

walkVars == <<pc, stack, node>>
dictVars == <<d, t, links, heap>>
vars == <<type, flags, dictVars, fresh, walkVars, ret>>

NoTree == [root |-> NULL, red |-> {}, kid |-> [s \in Side |-> [n \in Key |-> NULL]]]
NoLinks == [prev |-> [n \in Key |-> NULL], next |-> [n \in Key |-> NULL]]
\* memset to zero.
NoDict == [size |-> 0, head |-> NULL, tail |-> NULL, cmp |-> NULL]

Loops == {"idle", "walk_sorted", "visit_sorted", "walk_ordered", "visit_ordered",
          "clean", "fini"}

TypeOK ==
  /\ type \in {"NULL", "DICT"}
  /\ flags \subseteq {"ORDERLIST", "CUSTOMCMP"}
  /\ d \in [size : Nat, head : Ptr, tail : Ptr, cmp : {"custom", NULL}]
  /\ t \in [root : Ptr, red : SUBSET Key, kid : [Side -> [Key -> Ptr]]]
  /\ links \in [prev : [Key -> Ptr], next : [Key -> Ptr]]
  /\ heap \subseteq Key /\ fresh \subseteq Key
  /\ pc \in Loops
  /\ stack \in Seq(Key) /\ node \in Ptr
  /\ ret \in Ptr \cup {0, 1, -1}

Init ==
  /\ type = "NULL" /\ flags = {}
  /\ d = NoDict /\ t = NoTree /\ links = NoLinks
  /\ heap = {} /\ fresh = {}
  /\ pc = "idle" /\ stack = <<>> /\ node = NULL
  /\ ret = NULL

-----------------------------------------------------------------------------
(* The tree.                                                               *)

IsRed(tr, n) == n \in tr.red
NullOrBlack(tr, p) == p = NULL \/ ~IsRed(tr, p)
MakeRed(tr, n) == [tr EXCEPT !.red = @ \cup {n}]
MakeBlack(tr, n) == [tr EXCEPT !.red = @ \ {n}]
SetKid(tr, s, n, p) == [tr EXCEPT !.kid[s][n] = p]

SameColor(tr, a, b) == IsRed(tr, a) = IsRed(tr, b)
Toggle(tr, n) == IF IsRed(tr, n) THEN MakeBlack(tr, n) ELSE MakeRed(tr, n)

\* value_dict_cmp: negative, zero or positive.
Cmp(a, b) == IF "CUSTOMCMP" \in flags THEN Rank[a] - Rank[b] ELSE a - b
Toward(k, n) == IF Cmp(k, n) < 0 THEN "left" ELSE "right"

SideOf(tr, parent, n) == IF tr.kid["left"][parent] = n THEN "left" ELSE "right"
\* Faulty variant: a new top of the tree is not made its root.
Replace_KeepsRoot(tr, parent, old, new) ==
  IF parent = NULL THEN tr
  ELSE SetKid(tr, SideOf(tr, parent, old), parent, new)

Replace(tr, parent, old, new) ==
  IF parent = NULL THEN [tr EXCEPT !.root = new]
  ELSE SetKid(tr, SideOf(tr, parent, old), parent, new)

\* value_dict_rotate_left for "left": n goes down on side s, its other child up.
Rotate(tr, s, parent, n) ==
  LET up == tr.kid[Opposite(s)][n]
      turned == SetKid(SetKid(tr, Opposite(s), n, tr.kid[s][up]), s, up, n)
  IN  IF parent # NULL /\ n \notin {tr.kid["left"][parent], tr.kid["right"][parent]}
      THEN turned
      ELSE Replace(turned, parent, n, up)

\* The nodes from p down the left children.
Leftmost(p) ==
  LET down[n \in Ptr] == IF n = NULL THEN <<>> ELSE <<n>> \o down[t.kid["left"][n]]
  IN  down[p]

\* The nodes the search for k passes; the last is the pointer it ends at.
SearchPath(k) ==
  LET down[n \in Ptr] == IF n = NULL \/ Cmp(k, n) = 0 THEN <<n>>
                         ELSE <<n>> \o down[t.kid[Toward(k, n)][n]]
  IN  down[t.root]

FromEnd(path, i) == IF Len(path) >= i THEN path[Len(path) - i + 1] ELSE NULL
Shorten(path, i) == SubSeq(path, 1, Len(path) - i)
Found(k) == FromEnd(SearchPath(k), 1)

-----------------------------------------------------------------------------
(* value_dict_fix_after_insert: the node at the end of path is red.        *)

\* Black uncle: an inner node is first turned outwards.
InsertRotate(tr, path) ==
  LET n == FromEnd(path, 1)
      parent == FromEnd(path, 2)
      g == path[Len(path) - 2]
      inner == {s \in Side : /\ tr.kid[s][g] # NULL
                             /\ tr.kid[Opposite(s)][tr.kid[s][g]] = n}
      side == CHOOSE s \in inner : TRUE
      outer == IF inner = {} THEN tr ELSE Rotate(tr, side, g, parent)
      top == IF inner = {} THEN parent ELSE n
      low == IF inner = {} THEN n ELSE outer.kid[side][n]
      turn == Opposite(SideOf(outer, top, low))
  IN  MakeRed(MakeBlack(Rotate(outer, turn, FromEnd(path, 4), g), top), g)

RECURSIVE FixAfterInsert(_, _)
FixAfterInsert(tr, path) ==
  LET n == FromEnd(path, 1)
      parent == FromEnd(path, 2)
      g == path[Len(path) - 2]
      uncle == tr.kid[Opposite(SideOf(tr, g, parent))][g]
  IN  IF parent = NULL THEN [MakeBlack(tr, n) EXCEPT !.root = n]
      ELSE IF ~IsRed(tr, parent) THEN tr
      ELSE IF NullOrBlack(tr, uncle) THEN InsertRotate(tr, path)
      ELSE FixAfterInsert(MakeRed(MakeBlack(MakeBlack(tr, parent), uncle), g),
                          Shorten(path, 2))

-----------------------------------------------------------------------------
(* value_dict_fix_after_remove: the end of path is one black node short.   *)

\* Black sibling with a red child, turned to the far side if it is on the near.
BorrowFromSibling(tr, path, s) ==
  LET parent == FromEnd(path, 2)
      sibling == tr.kid[Opposite(s)][parent]
      near == tr.kid[s][sibling]
      far == tr.kid[Opposite(s)][sibling]
      turned == IF ~NullOrBlack(tr, far) THEN tr
                ELSE Rotate(MakeBlack(MakeRed(tr, sibling), near), Opposite(s), parent, sibling)
      up == turned.kid[Opposite(s)][parent]
      colored == IF SameColor(turned, up, parent) THEN turned ELSE Toggle(turned, up)
      black == MakeBlack(MakeBlack(colored, parent), colored.kid[Opposite(s)][up])
  IN  Rotate(black, s, FromEnd(path, 3), parent)

RECURSIVE FixAfterRemove(_, _)
FixAfterRemove(tr, path) ==
  LET n == FromEnd(path, 1)
      parent == FromEnd(path, 2)
      s == SideOf(tr, parent, n)
      sibling == tr.kid[Opposite(s)][parent]
  IN  IF ~NullOrBlack(tr, n) THEN MakeBlack(tr, n)
      ELSE IF parent = NULL THEN tr
      ELSE IF IsRed(tr, sibling)
      THEN FixAfterRemove(MakeRed(MakeBlack(Rotate(tr, s, FromEnd(path, 3), parent),
                                            sibling), parent),
                          Shorten(path, 2) \o <<sibling, parent, n>>)
      ELSE IF \E c \in Side : ~NullOrBlack(tr, tr.kid[c][sibling])
      THEN BorrowFromSibling(tr, path, s)
      ELSE IF IsRed(tr, parent) THEN MakeBlack(MakeRed(tr, sibling), parent)
      ELSE FixAfterRemove(MakeRed(tr, sibling), Shorten(path, 1))

-----------------------------------------------------------------------------
(* value_dict_remove_: the node changes places with its successor, unless   *)
(* it has at most one child.                                               *)

\* "Common work": the successor takes the node's left subtree, place, colour.
TakePlace(tr, n, successor, parent) ==
  LET moved == Replace(SetKid(SetKid(tr, "left", successor, tr.kid["left"][n]),
                              "left", n, NULL), parent, n, successor)
  IN  IF SameColor(moved, successor, n) THEN moved
      ELSE Toggle(Toggle(moved, successor), n)

\* The tree and the path after the exchange; path ends with the node.
Sunk(path) ==
  LET n == FromEnd(path, 1)
      at == Len(path)
      right == t.kid["right"][n]
      long == path \o Leftmost(right)
      successor == FromEnd(long, 1)
      swapped == SetKid(SetKid(t, "right", successor, right),
                        "right", n, t.kid["right"][successor])
  IN  IF right # NULL /\ t.kid["left"][right] # NULL
      THEN <<TakePlace(Replace(swapped, FromEnd(long, 2), successor, n),
                       n, successor, FromEnd(path, 2)),
             [long EXCEPT ![at] = successor, ![Len(long)] = n]>>
      ELSE IF right # NULL /\ t.kid["left"][n] # NULL
      THEN <<TakePlace(SetKid(SetKid(t, "right", n, t.kid["right"][right]),
                              "right", right, n),
                       n, right, FromEnd(path, 2)),
             [path EXCEPT ![at] = right] \o <<n>>>>
      ELSE <<t, path>>

\* Faulty variant: a node without a child is thought to leave no deficit.
TreeWithout_OnlyWithChild(n, path) ==
  LET tr == Sunk(path)[1]
      full == Sunk(path)[2]
      child == IF tr.kid["left"][n] # NULL THEN tr.kid["left"][n] ELSE tr.kid["right"][n]
      cut == Replace(tr, FromEnd(full, 2), n, child)
      fixed == IF IsRed(cut, n) \/ child = NULL THEN cut
               ELSE FixAfterRemove(cut, [full EXCEPT ![Len(full)] = child])
  IN  MakeBlack(SetKid(SetKid(fixed, "left", n, NULL), "right", n, NULL), n)

\* The freed node's pointers are forgotten.
TreeWithout(n, path) ==
  LET tr == Sunk(path)[1]
      full == Sunk(path)[2]
      child == IF tr.kid["left"][n] # NULL THEN tr.kid["left"][n] ELSE tr.kid["right"][n]
      cut == Replace(tr, FromEnd(full, 2), n, child)
      fixed == IF IsRed(cut, n) THEN cut
               ELSE FixAfterRemove(cut, [full EXCEPT ![Len(full)] = child])
  IN  MakeBlack(SetKid(SetKid(fixed, "left", n, NULL), "right", n, NULL), n)

-----------------------------------------------------------------------------
(* The calls.  value.h asks the caller to initialise a new value; this one  *)
(* does so before the next call if there are more than MaxLate entries.    *)

MayCall == pc = "idle" /\ (fresh = {} \/ d.size <= MaxLate)

Returns(r) == ret' = r /\ UNCHANGED walkVars
NothingElse == UNCHANGED <<type, flags, dictVars, fresh>>

\* The caller uses any of value_init_XXX on a value it was given.
Initialise(n) ==
  /\ n \in fresh /\ pc \in {"idle", "visit_sorted", "visit_ordered"}
  /\ fresh' = fresh \ {n}
  /\ UNCHANGED <<type, flags, dictVars, walkVars, ret>>

\* The DICT is malloc'ed, which may fail.
value_init_dict_ex(f) ==
  /\ MayCall /\ type = "NULL"
  /\ \/ Returns(-1) /\ NothingElse
     \/ /\ type' = "DICT" /\ flags' = f
        /\ d' = [NoDict EXCEPT !.cmp = IF "CUSTOMCMP" \in f THEN "custom" ELSE NULL]
        /\ Returns(0)
        /\ UNCHANGED <<t, links, heap, fresh>>

value_dict_get(k) ==
  /\ MayCall
  /\ Returns(Found(k))
  /\ NothingElse

OrderAppended(n) ==
  IF "ORDERLIST" \notin flags THEN UNCHANGED links /\ d' = [d EXCEPT !.size = @ + 1]
  ELSE /\ links' = [prev |-> [links.prev EXCEPT ![n] = d.tail],
                    next |-> [m \in Key |-> IF m = n THEN NULL
                                            ELSE IF m = d.tail THEN n
                                            ELSE links.next[m]]]
       /\ d' = [d EXCEPT !.size = @ + 1, !.tail = n,
                         !.head = IF d.tail = NULL THEN n ELSE @]

AddNode(k) ==
  LET path == Shorten(SearchPath(k), 1)
      parent == FromEnd(path, 1)
      leaf == MakeRed(SetKid(SetKid(t, "left", k, NULL), "right", k, NULL), k)
      linked == IF parent = NULL THEN [leaf EXCEPT !.root = k]
                ELSE SetKid(leaf, Toward(k, parent), parent, k)
  IN  /\ t' = FixAfterInsert(linked, Append(path, k))
      /\ OrderAppended(k)
      /\ heap' = heap \cup {k}
      /\ fresh' = fresh \cup {k}

\* value_dict_get_or_add_ returns res.  malloc fails for the node or for its
\* key, and the node is freed.
GetOrAdd(k, res) ==
  \/ type # "DICT" /\ res = NULL /\ NothingElse
  \/ type = "DICT" /\ Found(k) # NULL /\ res = Found(k) /\ NothingElse
  \/ type = "DICT" /\ Found(k) = NULL /\ res = NULL /\ NothingElse
  \/ type = "DICT" /\ Found(k) = NULL /\ res = k /\ AddNode(k) /\ UNCHANGED <<type, flags>>

value_dict_get_or_add(k) ==
  MayCall /\ \E res \in Ptr : GetOrAdd(k, res) /\ Returns(res)

value_dict_add(k) ==
  /\ MayCall
  /\ \E res \in Ptr : GetOrAdd(k, res) /\ Returns(IF res \in fresh' THEN res ELSE NULL)

\* Faulty variant: the list's head is left behind.
OrderUnlinked_KeepsHead(n) ==
  LET before == links.prev[n]
      behind == links.next[n]
  IN  IF "ORDERLIST" \notin flags THEN UNCHANGED links /\ d' = [d EXCEPT !.size = @ - 1]
      ELSE /\ links' = [prev |-> [m \in Key |-> IF m = n THEN NULL
                                                ELSE IF m = behind THEN before
                                                ELSE links.prev[m]],
                        next |-> [m \in Key |-> IF m = n THEN NULL
                                                ELSE IF m = before THEN behind
                                                ELSE links.next[m]]]
           /\ d' = [d EXCEPT !.size = @ - 1,
                             !.tail = IF behind = NULL THEN before ELSE @]

OrderUnlinked(n) ==
  LET before == links.prev[n]
      behind == links.next[n]
  IN  IF "ORDERLIST" \notin flags THEN UNCHANGED links /\ d' = [d EXCEPT !.size = @ - 1]
      ELSE /\ links' = [prev |-> [m \in Key |-> IF m = n THEN NULL
                                                ELSE IF m = behind THEN before
                                                ELSE links.prev[m]],
                        next |-> [m \in Key |-> IF m = n THEN NULL
                                                ELSE IF m = before THEN behind
                                                ELSE links.next[m]]]
           /\ d' = [d EXCEPT !.size = @ - 1,
                             !.head = IF before = NULL THEN behind ELSE @,
                             !.tail = IF behind = NULL THEN before ELSE @]

value_dict_remove(k) ==
  /\ MayCall
  /\ \/ Found(k) = NULL /\ Returns(-1) /\ NothingElse
     \/ /\ Found(k) # NULL
        /\ LET n == Found(k)
           IN  /\ t' = TreeWithout(n, SearchPath(k))
               /\ OrderUnlinked(n)
               /\ heap' = heap \ {n}
               /\ fresh' = fresh \ {n}
        /\ Returns(0)
        /\ UNCHANGED <<type, flags>>

-----------------------------------------------------------------------------
(* The walks.  visit_func runs between two steps; it may look at the       *)
(* dictionary and write the value, it must not add or remove.              *)

Enter(loop, s, n) == pc' = loop /\ stack' = s /\ node' = n
Leave(r) == Enter("idle", <<>>, NULL) /\ ret' = r
Pop == SubSeq(stack, 1, Len(stack) - 1)
Top == stack[Len(stack)]

value_dict_walk_sorted ==
  /\ MayCall
  /\ \/ type # "DICT" /\ Returns(-1)
     \/ type = "DICT" /\ Enter("walk_sorted", Leftmost(t.root), NULL) /\ UNCHANGED ret
  /\ NothingElse

VisitSorted ==
  /\ pc = "walk_sorted" /\ stack # <<>>
  /\ Enter("visit_sorted", Pop, Top)
  /\ UNCHANGED ret /\ NothingElse

\* Faulty variant: the right subtree is pushed over what the stack holds.
ResumeSorted_Overwrites ==
  /\ pc = "visit_sorted"
  /\ Enter("walk_sorted", Leftmost(t.kid["right"][node]), NULL)
  /\ UNCHANGED ret /\ NothingElse

ResumeSorted ==
  /\ pc = "visit_sorted"
  /\ Enter("walk_sorted", stack \o Leftmost(t.kid["right"][node]), NULL)
  /\ UNCHANGED ret /\ NothingElse

value_dict_walk_ordered ==
  /\ MayCall
  /\ IF type # "DICT" \/ "ORDERLIST" \notin flags THEN Returns(-1)
     ELSE Enter("walk_ordered", <<>>, d.head) /\ UNCHANGED ret
  /\ NothingElse

VisitOrdered ==
  /\ pc = "walk_ordered" /\ node # NULL
  /\ Enter("visit_ordered", <<>>, node)
  /\ UNCHANGED ret /\ NothingElse

ResumeOrdered ==
  /\ pc = "visit_ordered"
  /\ Enter("walk_ordered", <<>>, links.next[node])
  /\ UNCHANGED ret /\ NothingElse

\* visit_func returned 1.
WalkAborts ==
  /\ pc \in {"visit_sorted", "visit_ordered"}
  /\ Leave(1) /\ NothingElse

WalkEnds ==
  /\ \/ pc = "walk_sorted" /\ stack = <<>>
     \/ pc = "walk_ordered" /\ node = NULL
  /\ Leave(0) /\ NothingElse

-----------------------------------------------------------------------------
(* value_dict_clean, and value_fini, which calls it and frees the DICT.    *)

value_dict_clean ==
  /\ MayCall /\ type = "DICT"
  /\ Enter("clean", Leftmost(t.root), NULL)
  /\ UNCHANGED ret /\ NothingElse

value_fini ==
  /\ MayCall /\ type = "DICT"
  /\ Enter("fini", Leftmost(t.root), NULL)
  /\ UNCHANGED ret /\ NothingElse

\* Faulty variant: the node stays on the stack.
CleanNode_NoPop ==
  /\ pc \in {"clean", "fini"} /\ stack # <<>>
  /\ heap' = heap \ {Top}
  /\ Enter(pc, stack \o Leftmost(t.kid["right"][Top]), NULL)
  /\ UNCHANGED <<type, flags, d, t, links, fresh, ret>>

\* The right child is read before the node is freed.
CleanNode ==
  /\ pc \in {"clean", "fini"} /\ stack # <<>>
  /\ heap' = heap \ {Top}
  /\ Enter(pc, Pop \o Leftmost(t.kid["right"][Top]), NULL)
  /\ UNCHANGED <<type, flags, d, t, links, fresh, ret>>

\* The first memset leaves cmp_func, the second cmp_func and the list, which
\* is not there.
CleanEnds ==
  /\ pc \in {"clean", "fini"} /\ stack = <<>>
  /\ t' = NoTree /\ links' = NoLinks /\ fresh' = {}
  /\ IF pc = "fini" THEN type' = "NULL" /\ flags' = {} /\ d' = NoDict
     ELSE d' = [NoDict EXCEPT !.cmp = d.cmp] /\ UNCHANGED <<type, flags>>
  /\ Enter("idle", <<>>, NULL)
  /\ UNCHANGED <<heap, ret>>

-----------------------------------------------------------------------------
Call(k) ==
  \/ Initialise(k) \/ value_dict_add(k) \/ value_dict_get_or_add(k)
  \/ value_dict_get(k) \/ value_dict_remove(k)

Next ==
  \/ \E f \in SUBSET {"ORDERLIST", "CUSTOMCMP"} : value_init_dict_ex(f)
  \/ \E k \in Key : Call(k)
  \/ value_dict_walk_sorted \/ VisitSorted \/ ResumeSorted
  \/ value_dict_walk_ordered \/ VisitOrdered \/ ResumeOrdered
  \/ WalkAborts \/ WalkEnds
  \/ value_dict_clean \/ value_fini \/ CleanNode \/ CleanEnds

Spec == Init /\ [][Next]_vars

-----------------------------------------------------------------------------
(* Properties.                                                             *)

\* The nodes from left to right, below p.
InOrder(p) ==
  LET walk[n \in Ptr] == IF n = NULL THEN <<>>
                         ELSE walk[t.kid["left"][n]] \o <<n>> \o walk[t.kid["right"][n]]
  IN  walk[p]

\* value_dict_verify_recurse: the black height, or -1.
BlackHeight ==
  LET height[n \in Ptr] ==
        IF n = NULL THEN 1
        ELSE LET l == height[t.kid["left"][n]]
                 r == height[t.kid["right"][n]]
                 doubleRed == IsRed(t, n) /\ \E s \in Side : ~NullOrBlack(t, t.kid[s][n])
             IN  IF doubleRed \/ l < 0 \/ l # r THEN -1
                 ELSE l + IF IsRed(t, n) THEN 0 ELSE 1
  IN  height[t.root]

\* value_dict_verify passes after every call: a call on the default or the
\* custom comparer leaves a red-black tree behind.
Verified == NullOrBlack(t, t.root) /\ BlackHeight > 0

\* The tree holds the nodes that are malloc'ed, each once and in order, and
\* size says how many; there is no leak and no pointer to freed memory. While
\* value_dict_clean runs, only nodes of the tree can be in memory.
OwnsItsNodes ==
  LET s == InOrder(t.root)
      all == {s[i] : i \in DOMAIN s}
  IN  /\ TypeOK
      /\ \A i \in 1 .. Len(s) - 1 : Cmp(s[i], s[i + 1]) < 0
      /\ d.size = Len(s)
      /\ fresh \subseteq all
      /\ IF pc \in {"clean", "fini"} THEN heap \subseteq all ELSE heap = all

\* The order list and the tree hold the same nodes; order_prev mirrors
\* order_next; without HAS_ORDERLIST these fields, for which no memory was
\* malloc'ed, are never written.
OrderListComplete ==
  LET s == InOrder(t.root)
      all == {s[i] : i \in DOMAIN s}
  IN  IF "ORDERLIST" \notin flags THEN links = NoLinks /\ d.head = NULL /\ d.tail = NULL
      ELSE /\ all = {} <=> d.head = NULL
           /\ all = {} <=> d.tail = NULL
           /\ \A n \in all :
                /\ links.prev[n] = NULL <=> n = d.head
                /\ links.next[n] = NULL <=> n = d.tail
                /\ links.next[n] # NULL =>
                     links.next[n] \in all /\ links.prev[links.next[n]] = n
                /\ links.prev[n] # NULL =>
                     links.prev[n] \in all /\ links.next[links.prev[n]] = n

\* What the loops of the walks and of value_dict_clean go on with is in memory
\* (the clean-up frees nodes as it goes), each node once, and fits into stack.
StackAlive ==
  /\ \A i \in DOMAIN stack : stack[i] \in heap
  /\ \A i, j \in DOMAIN stack : stack[i] = stack[j] => i = j
  /\ node # NULL => node \in heap
  /\ Len(stack) <= MaxHeight

\* What a walk still has ahead of it.
Unvisited ==
  LET stacked[i \in 0 .. Len(stack)] ==
        IF i = 0 THEN <<>>
        ELSE <<stack[i]>> \o InOrder(t.kid["right"][stack[i]]) \o stacked[i - 1]
      chain[n \in Ptr] == IF n = NULL THEN <<>> ELSE <<n>> \o chain[links.next[n]]
  IN  CASE pc = "walk_sorted" -> stacked[Len(stack)]
        [] pc = "visit_sorted" ->
             InOrder(t.kid["right"][node]) \o stacked[Len(stack)]
        [] pc = "walk_ordered" -> chain[node]
        [] pc = "visit_ordered" -> chain[links.next[node]]
        [] OTHER -> <<>>

Added ==
  LET chain[n \in Ptr] == IF n = NULL THEN <<>> ELSE <<n>> \o chain[links.next[n]]
  IN  chain[d.head]

Visiting == pc \in {"visit_sorted", "visit_ordered"}

Map == INSTANCE OrderedMap
  WITH exists <- type = "DICT",
       members <- {InOrder(t.root)[i] : i \in DOMAIN InOrder(t.root)},
       added <- Added,
       unset <- fresh,
       rest <- Unvisited,
       walking <- Visiting \/ pc \in {"walk_sorted", "walk_ordered"},
       seen <- IF Visiting THEN node ELSE NULL

\* The dictionary is the ordered map of value.h: every function takes the step
\* of its name, for the key it was given; the sorted walk meets every key in
\* order and the ordered walk in the order of adding, each once, whatever was
\* removed before. That value_dict_add gives NULL for a key in use holds only
\* if its value has been initialised: one still new is given out once more.
ImplementsOrderedMap ==
  /\ Map!Spec
  /\ [][\A k \in Key : /\ value_dict_get(k) => Map!Get(k)
                       /\ value_dict_get_or_add(k) => Map!GetOrAdd(k)
                       /\ value_dict_add(k) => Map!Add(k)
                       /\ value_dict_remove(k) => Map!Delete(k)]_vars

=============================================================================
