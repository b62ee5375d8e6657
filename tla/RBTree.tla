------------------------------- MODULE RBTree -------------------------------
(***************************************************************************)
(* The intrusive red-black tree of data/rbtree.[hc].                       *)
(*                                                                         *)
(* Every call runs alone (the library has no locks and the caller owns the *)
(* tree), but each loop of the code is run one iteration per step, so the  *)
(* states between two iterations, in which the tree is not a valid         *)
(* red-black tree, are states of the model.  tree holds what the memory    *)
(* holds; the other variables are the locals of the call in progress.      *)
(*                                                                         *)
(* A node that is not linked belongs to the caller: its pointers are not   *)
(* read before the code writes them, and the model forgets them (Forget).  *)
(***************************************************************************)
EXTENDS Integers, Sequences, FiniteSets

CONSTANTS Node,      \* the caller's RBTREE_NODEs, in the tree or not
          NULL,      \* the null pointer
          KeyOf,     \* what cmp_func compares: a key for each node
          Capacity   \* slots of RBTREE_PATH.stack

ASSUME NullAssumption == NULL \notin Node
ASSUME NodeAssumption == IsFiniteSet(Node)
ASSUME KeyAssumption == KeyOf \in [Node -> Int]
ASSUME CapacityAssumption == Capacity \in Nat

Ptr == Node \cup {NULL}

VARIABLES tree,      \* root, and the left, right pointers and colour of nodes
          closing,   \* rbtree_fini_step was called and has not emptied the tree
          pc,        \* the loop the call in progress is in, or "idle"
          op,        \* the function called
          key,       \* its node (or key) argument
          node,      \* the pointer the lookup loops walk with
          path,      \* RBTREE_PATH: stack[0 .. n-1]
          at,        \* node_index in rbtree_remove, as an index into path
          ret        \* what the last call returned

callVars == <<op, key, at>>
vars == <<tree, closing, pc, op, key, node, path, at, ret>>

Tree == [root : Ptr, left : [Node -> Ptr], right : [Node -> Ptr],
         red : SUBSET Node]

LoopLabels == {"idle", "lookup", "leftmost", "disconnect", "insert_fixup",
               "remove_fixup", "fini"}

TypeOK ==
  /\ tree \in Tree
  /\ closing \in BOOLEAN
  /\ pc \in LoopLabels
  /\ op \in {"none", "insert", "remove", "lookup", "fini"}
  /\ key \in Ptr
  /\ node \in Ptr
  /\ path \in Seq(Ptr)
  /\ at \in Nat
  /\ ret \in Ptr \cup {0, -1}

-----------------------------------------------------------------------------
(* The accessor macros and the rotations.                                  *)

IsRed(t, n) == n \in t.red
IsBlack(t, n) == n \notin t.red
\* A possibly null pointer counts as black, as in each test of the code.
NullOrBlack(t, p) == p = NULL \/ IsBlack(t, p)

MakeRed(t, n) == [t EXCEPT !.red = @ \cup {n}]
MakeBlack(t, n) == [t EXCEPT !.red = @ \ {n}]
\* Faulty variant: the colour is not looked at.
CopyColor_Black(t, from, to) == MakeBlack(t, to)

CopyColor(t, from, to) ==
  IF IsRed(t, from) THEN MakeRed(t, to) ELSE MakeBlack(t, to)
SwapColors(t, m, n) ==
  IF IsRed(t, m) = IsRed(t, n) THEN t
  ELSE IF IsRed(t, m) THEN MakeRed(MakeBlack(t, m), n)
  ELSE MakeRed(MakeBlack(t, n), m)

SetLeft(t, n, p) == [t EXCEPT !.left[n] = p]
SetRight(t, n, p) == [t EXCEPT !.right[n] = p]

\* Faulty variant: a rotation at the root leaves tree->root behind.
RotatedInto_KeepsRoot(t, parent, old, new) ==
  IF parent = NULL THEN t
  ELSE IF old = t.left[parent] THEN SetLeft(t, parent, new)
  ELSE SetRight(t, parent, new)

\* Replace the child of parent that is old; the root when there is no parent.
\* As the code of the rotations has it, nothing is written when old is no
\* child of parent.
RotatedInto(t, parent, old, new) ==
  IF parent = NULL THEN [t EXCEPT !.root = new]
  ELSE IF old = t.left[parent] THEN SetLeft(t, parent, new)
  ELSE IF old = t.right[parent] THEN SetRight(t, parent, new)
  ELSE t

RotateLeft(t, parent, n) ==
  LET tmp == t.right[n]
  IN  RotatedInto(SetLeft(SetRight(t, n, t.left[tmp]), tmp, n), parent, n, tmp)

\* Faulty variant: the wrong grandchild changes sides.
RotateRight_WrongChild(t, parent, n) ==
  LET tmp == t.left[n]
  IN  RotatedInto(SetRight(SetLeft(t, n, t.left[tmp]), tmp, n), parent, n, tmp)

RotateRight(t, parent, n) ==
  LET tmp == t.left[n]
  IN  RotatedInto(SetRight(SetLeft(t, n, t.right[tmp]), tmp, n), parent, n, tmp)

\* The same replacement as rbtree_remove writes it: right if not left.
ReplaceChild(t, parent, old, new) ==
  IF parent = NULL THEN [t EXCEPT !.root = new]
  ELSE IF old = t.left[parent] THEN SetLeft(t, parent, new)
  ELSE SetRight(t, parent, new)

\* path->stack[path->n - i], or NULL when the code tests n and finds it short.
FromEnd(p, i) == IF Len(p) >= i THEN p[Len(p) - i + 1] ELSE NULL
Shorten(p, i) == SubSeq(p, 1, Len(p) - i)

\* n is linked: the root or somebody's child.
Linked(t) == {n \in Node : \/ n = t.root
                           \/ \E m \in Node : n \in {t.left[m], t.right[m]}}

\* The links of a node handed back to the caller are the caller's memory.
Forget(t, n) == MakeBlack(SetRight(SetLeft(t, n, NULL), n, NULL), n)

-----------------------------------------------------------------------------
Init ==
  /\ tree = [root |-> NULL, left |-> [n \in Node |-> NULL],
             right |-> [n \in Node |-> NULL], red |-> {}]
  /\ closing = FALSE
  /\ pc = "idle"
  /\ op = "none"
  /\ key = NULL
  /\ node = NULL
  /\ path = <<>>
  /\ at = 0
  /\ ret = NULL

Return(r) ==
  /\ pc' = "idle"
  /\ ret' = r
  /\ op' = "none"
  /\ key' = NULL
  /\ node' = NULL
  /\ path' = <<>>
  /\ at' = 0

\* Entry of a function that begins by walking down from the root.
Call(f, k, loop) ==
  /\ pc = "idle"
  /\ pc' = loop
  /\ op' = f
  /\ key' = k
  /\ node' = tree.root
  /\ path' = <<>>
  /\ at' = 0
  /\ UNCHANGED <<tree, ret>>

\* rbtree_insert, rbtree_remove and rbtree_lookup: a node that is linked must
\* not be inserted again (it is its own memory), any node serves as a key.
CallInsert ==
  /\ ~closing
  /\ \E n \in Node \ Linked(tree) : Call("insert", n, "lookup")
  /\ UNCHANGED closing
CallRemove ==
  /\ ~closing
  /\ \E n \in Node : Call("remove", n, "lookup")
  /\ UNCHANGED closing
CallLookup ==
  /\ ~closing
  /\ \E n \in Node : Call("lookup", n, "lookup")
  /\ UNCHANGED closing

-----------------------------------------------------------------------------
(* rbtree_lookup_path, and the same loop of rbtree_lookup, which keeps no  *)
(* path.                                                                   *)

Found == node # NULL /\ KeyOf[key] = KeyOf[node]

LookupDescend ==
  /\ pc = "lookup"
  /\ node # NULL
  /\ KeyOf[key] # KeyOf[node]
  /\ path' = IF op = "lookup" THEN path ELSE Append(path, node)
  /\ node' = IF KeyOf[key] < KeyOf[node] THEN tree.left[node] ELSE tree.right[node]
  /\ UNCHANGED <<tree, closing, pc, op, key, at, ret>>

LookupReturn ==
  /\ pc = "lookup" /\ op = "lookup"
  /\ Found \/ node = NULL
  /\ Return(node)
  /\ UNCHANGED <<tree, closing>>

-----------------------------------------------------------------------------
(* rbtree_insert.                                                          *)

InsertDuplicate ==
  /\ pc = "lookup" /\ op = "insert"
  /\ Found
  /\ Return(-1)
  /\ UNCHANGED <<tree, closing>>

\* The node becomes a red leaf; the loop of rbtree_insert_fixup follows.
InsertLink ==
  /\ pc = "lookup" /\ op = "insert"
  /\ node = NULL
  /\ LET parent == FromEnd(path, 1)
         leaf == MakeRed(SetRight(SetLeft(tree, key, NULL), key, NULL), key)
     IN  tree' = IF parent = NULL THEN [leaf EXCEPT !.root = key]
                 ELSE IF KeyOf[key] < KeyOf[parent] THEN SetLeft(leaf, parent, key)
                 ELSE SetRight(leaf, parent, key)
  /\ path' = Append(path, key)
  /\ pc' = "insert_fixup"
  /\ ret' = 0
  /\ UNCHANGED <<closing, op, key, node, at>>

InsertFixupRoot ==
  /\ pc = "insert_fixup"
  /\ FromEnd(path, 2) = NULL
  /\ LET n == FromEnd(path, 1)
     IN  tree' = [MakeBlack(tree, n) EXCEPT !.root = n]
  /\ Return(ret)
  /\ UNCHANGED closing

InsertFixupBlackParent ==
  /\ pc = "insert_fixup"
  /\ FromEnd(path, 2) # NULL
  /\ IsBlack(tree, FromEnd(path, 2))
  /\ Return(ret)
  /\ UNCHANGED <<tree, closing>>

DoubleRed ==
  /\ pc = "insert_fixup"
  /\ FromEnd(path, 2) # NULL
  /\ IsRed(tree, FromEnd(path, 2))

\* path->stack[path->n - 3]: the code does not test that it is there.
Grandparent == path[Len(path) - 2]
Uncle == IF FromEnd(path, 2) = tree.left[Grandparent]
         THEN tree.right[Grandparent] ELSE tree.left[Grandparent]

\* node and parent are the locals after the first, inner rotation.
OuterRotation(t, gg, g, n, parent) ==
  LET up == IF n = t.left[parent] THEN RotateRight(t, gg, g) ELSE RotateLeft(t, gg, g)
  IN  MakeRed(MakeBlack(up, parent), g)

InsertFixupRotate ==
  /\ DoubleRed
  /\ NullOrBlack(tree, Uncle)
  /\ LET n == FromEnd(path, 1)
         parent == FromEnd(path, 2)
         g == Grandparent
         gg == FromEnd(path, 4)
     IN  tree' =
           IF tree.left[g] # NULL /\ n = tree.right[tree.left[g]] THEN
             LET t == RotateLeft(tree, g, parent)
             IN  OuterRotation(t, gg, g, t.left[n], n)
           ELSE IF tree.right[g] # NULL /\ n = tree.left[tree.right[g]] THEN
             LET t == RotateRight(tree, g, parent)
             IN  OuterRotation(t, gg, g, t.right[n], n)
           ELSE OuterRotation(tree, gg, g, n, parent)
  /\ Return(ret)
  /\ UNCHANGED closing

InsertFixupRecolor ==
  /\ DoubleRed
  /\ ~NullOrBlack(tree, Uncle)
  /\ tree' = MakeRed(MakeBlack(MakeBlack(tree, FromEnd(path, 2)), Uncle), Grandparent)
  /\ path' = Shorten(path, 2)
  /\ UNCHANGED <<closing, pc, op, key, node, at, ret>>

-----------------------------------------------------------------------------
(* rbtree_remove.                                                          *)

RemoveMissing ==
  /\ pc = "lookup" /\ op = "remove"
  /\ node = NULL
  /\ Return(NULL)
  /\ UNCHANGED <<tree, closing>>

RemoveFound ==
  /\ pc = "lookup" /\ op = "remove"
  /\ Found
  /\ at' = Len(path) + 1

\* "Common work": successor takes the victim's left subtree, place and colour.
TakePlace(t, victim, successor, parent) ==
  LET moved == SetLeft(SetLeft(t, successor, t.left[victim]), victim, NULL)
  IN  SwapColors(ReplaceChild(moved, parent, victim, successor), successor, victim)

\* At most one child: the node can be ripped out where it is.
RemoveInPlace ==
  /\ RemoveFound
  /\ \/ tree.right[node] = NULL
     \/ /\ tree.right[node] # NULL /\ tree.left[node] = NULL
        /\ tree.left[tree.right[node]] = NULL
  /\ path' = Append(path, node)
  /\ pc' = "disconnect"
  /\ UNCHANGED <<tree, closing, op, key, node, ret>>

\* The right child is the successor: they swap places at once.
RemoveSwapChild ==
  /\ RemoveFound
  /\ tree.right[node] # NULL
  /\ tree.left[tree.right[node]] = NULL
  /\ tree.left[node] # NULL
  /\ LET successor == tree.right[node]
         t == SetRight(SetRight(tree, node, tree.right[successor]), successor, node)
     IN  /\ tree' = TakePlace(t, node, successor, FromEnd(path, 1))
         /\ path' = path \o <<successor, node>>
  /\ pc' = "disconnect"
  /\ UNCHANGED <<closing, op, key, node, ret>>

\* The successor is deeper: rbtree_leftmost_path goes and finds it.
RemoveSeekSuccessor ==
  /\ RemoveFound
  /\ tree.right[node] # NULL
  /\ tree.left[tree.right[node]] # NULL
  /\ path' = Append(path, node)
  /\ node' = tree.right[node]
  /\ pc' = "leftmost"
  /\ UNCHANGED <<tree, closing, op, key, ret>>

LeftmostDescend ==
  /\ pc = "leftmost"
  /\ node # NULL
  /\ path' = Append(path, node)
  /\ node' = tree.left[node]
  /\ UNCHANGED <<tree, closing, pc, op, key, at, ret>>

RemoveSwapSuccessor ==
  /\ pc = "leftmost"
  /\ node = NULL
  /\ LET victim == path[at]
         successor == FromEnd(path, 1)
         t == SetRight(SetRight(tree, successor, tree.right[victim]),
                       victim, tree.right[successor])
     IN  /\ tree' = TakePlace(ReplaceChild(t, FromEnd(path, 2), successor, victim),
                              victim, successor,
                              IF at > 1 THEN path[at - 1] ELSE NULL)
         /\ path' = [path EXCEPT ![at] = successor, ![Len(path)] = victim]
  /\ pc' = "disconnect"
  /\ UNCHANGED <<closing, op, key, node, at, ret>>

\* Faulty variant: the colour of the removed node is not looked at.
RemoveDisconnect_AlwaysFixup ==
  /\ pc = "disconnect"
  /\ LET victim == FromEnd(path, 1)
         child == IF tree.left[victim] # NULL THEN tree.left[victim]
                  ELSE tree.right[victim]
     IN  /\ tree' = Forget(ReplaceChild(tree, FromEnd(path, 2), victim, child), victim)
         /\ path' = [path EXCEPT ![Len(path)] = child]
         /\ ret' = victim
  /\ pc' = "remove_fixup"
  /\ UNCHANGED <<closing, op, key, node, at>>

\* The node's only child, or NULL, moves into its place; a removed black node
\* leaves a black deficit for rbtree_remove_fixup.
RemoveDisconnect ==
  /\ pc = "disconnect"
  /\ LET victim == FromEnd(path, 1)
         child == IF tree.left[victim] # NULL THEN tree.left[victim]
                  ELSE tree.right[victim]
     IN  /\ tree' = Forget(ReplaceChild(tree, FromEnd(path, 2), victim, child), victim)
         /\ IF IsBlack(tree, victim)
            THEN /\ pc' = "remove_fixup"
                 /\ path' = [path EXCEPT ![Len(path)] = child]
                 /\ ret' = victim
                 /\ UNCHANGED <<op, key, node, at>>
            ELSE Return(victim)
  /\ UNCHANGED closing

-----------------------------------------------------------------------------
(* rbtree_remove_fixup: the subtree at the end of path is one black short. *)

RemoveFixupRed ==
  /\ pc = "remove_fixup"
  /\ ~NullOrBlack(tree, FromEnd(path, 1))
  /\ tree' = MakeBlack(tree, FromEnd(path, 1))
  /\ Return(ret)
  /\ UNCHANGED closing

RemoveFixupRoot ==
  /\ pc = "remove_fixup"
  /\ NullOrBlack(tree, FromEnd(path, 1))
  /\ Len(path) <= 1
  /\ Return(ret)
  /\ UNCHANGED <<tree, closing>>

Deficit ==
  /\ pc = "remove_fixup"
  /\ NullOrBlack(tree, FromEnd(path, 1))
  /\ Len(path) > 1

Parent == FromEnd(path, 2)
IsLeftChild == FromEnd(path, 1) = tree.left[Parent]
\* The code does not test that it is there.
Sibling == IF IsLeftChild THEN tree.right[Parent] ELSE tree.left[Parent]
Nephews == {tree.left[Sibling], tree.right[Sibling]}

\* Faulty variant: the path is not corrected after the rotation.
RemoveFixupRedSibling_StalePath ==
  /\ Deficit
  /\ IsRed(tree, Sibling)
  /\ LET rotated == IF IsLeftChild THEN RotateLeft(tree, FromEnd(path, 3), Parent)
                    ELSE RotateRight(tree, FromEnd(path, 3), Parent)
     IN  tree' = MakeRed(MakeBlack(rotated, Sibling), Parent)
  /\ UNCHANGED <<closing, pc, op, key, node, path, at, ret>>

RemoveFixupRedSibling ==
  /\ Deficit
  /\ IsRed(tree, Sibling)
  /\ LET rotated == IF IsLeftChild THEN RotateLeft(tree, FromEnd(path, 3), Parent)
                    ELSE RotateRight(tree, FromEnd(path, 3), Parent)
     IN  tree' = MakeRed(MakeBlack(rotated, Sibling), Parent)
  /\ path' = Shorten(path, 2) \o <<Sibling, Parent, FromEnd(path, 1)>>
  /\ UNCHANGED <<closing, pc, op, key, node, at, ret>>

\* A red nephew on the near side only is first rotated to the far side.
RemoveFixupRedNephew ==
  /\ Deficit
  /\ IsBlack(tree, Sibling)
  /\ \E n \in Nephews : ~NullOrBlack(tree, n)
  /\ LET near == IF IsLeftChild THEN tree.left[Sibling] ELSE tree.right[Sibling]
         far == IF IsLeftChild THEN tree.right[Sibling] ELSE tree.left[Sibling]
         toFar == MakeBlack(MakeRed(tree, Sibling), near)
         t == IF ~NullOrBlack(tree, far) THEN tree
              ELSE IF IsLeftChild THEN RotateRight(toFar, Parent, Sibling)
              ELSE RotateLeft(toFar, Parent, Sibling)
         sibling == IF IsLeftChild THEN t.right[Parent] ELSE t.left[Parent]
         colored == MakeBlack(CopyColor(t, Parent, sibling), Parent)
     IN  tree' = IF IsLeftChild
                 THEN RotateLeft(MakeBlack(colored, colored.right[sibling]),
                                 FromEnd(path, 3), Parent)
                 ELSE RotateRight(MakeBlack(colored, colored.left[sibling]),
                                  FromEnd(path, 3), Parent)
  /\ Return(ret)
  /\ UNCHANGED closing

\* Faulty variant: the sibling's subtree keeps its surplus.
RemoveFixupAllBlack_NoRed ==
  /\ Deficit
  /\ IsBlack(tree, Sibling)
  /\ \A n \in Nephews : NullOrBlack(tree, n)
  /\ path' = Shorten(path, 1)
  /\ UNCHANGED <<tree, closing, pc, op, key, node, at, ret>>

\* Nothing red to borrow from: the deficit moves up.
RemoveFixupAllBlack ==
  /\ Deficit
  /\ IsBlack(tree, Sibling)
  /\ \A n \in Nephews : NullOrBlack(tree, n)
  /\ tree' = MakeRed(tree, Sibling)
  /\ path' = Shorten(path, 1)
  /\ UNCHANGED <<closing, pc, op, key, node, at, ret>>

-----------------------------------------------------------------------------
(* rbtree_fini_step.  path is the trail of the walk down; the code keeps    *)
(* only its end, as the address of the pointer it came through.            *)

CallFini ==
  /\ Call("fini", NULL, "fini")
  /\ closing' = TRUE

\* Faulty variant: the walk down stays where it is.
FiniDescend_Stays ==
  /\ pc = "fini"
  /\ node # NULL
  /\ tree.left[node] # NULL
  /\ UNCHANGED vars

FiniDescend ==
  /\ pc = "fini"
  /\ node # NULL
  /\ tree.left[node] # NULL
  /\ path' = Append(path, node)
  /\ node' = tree.left[node]
  /\ UNCHANGED <<tree, closing, pc, op, key, at, ret>>

\* The right subtree moves up with a plain store through the pointer: when it
\* is the parent's lc, the parent's colour bit is overwritten.
FiniRipOut ==
  /\ pc = "fini"
  /\ node # NULL
  /\ tree.left[node] = NULL
  /\ LET parent == FromEnd(path, 1)
         raised == IF parent = NULL THEN [tree EXCEPT !.root = tree.right[node]]
                   ELSE MakeBlack(SetLeft(tree, parent, tree.right[node]), parent)
     IN  tree' = Forget(raised, node)
  /\ Return(node)
  /\ UNCHANGED closing

FiniEmpty ==
  /\ pc = "fini"
  /\ node = NULL
  /\ Return(NULL)
  /\ closing' = FALSE
  /\ UNCHANGED tree

-----------------------------------------------------------------------------
Start == CallInsert \/ CallRemove \/ CallLookup \/ CallFini

\* The steps of a call that has begun.
Proceed ==
  \/ LookupDescend \/ LookupReturn
  \/ InsertDuplicate \/ InsertLink
  \/ InsertFixupRoot \/ InsertFixupBlackParent
  \/ InsertFixupRotate \/ InsertFixupRecolor
  \/ RemoveMissing \/ RemoveInPlace \/ RemoveSwapChild
  \/ RemoveSeekSuccessor \/ LeftmostDescend \/ RemoveSwapSuccessor
  \/ RemoveDisconnect
  \/ RemoveFixupRed \/ RemoveFixupRoot \/ RemoveFixupRedSibling
  \/ RemoveFixupRedNephew \/ RemoveFixupAllBlack
  \/ FiniDescend \/ FiniRipOut \/ FiniEmpty

Next == Start \/ Proceed

Spec == Init /\ [][Next]_vars
\* A call that was made runs on: nothing in it waits for anything.
FairSpec == Spec /\ WF_vars(Proceed)

-----------------------------------------------------------------------------
(* What the shape of the memory means.                                     *)

\* The nodes from left to right; a node reached twice would appear twice.
InOrder(t) ==
  LET walk[p \in Ptr] ==
        IF p = NULL THEN <<>>
        ELSE walk[t.left[p]] \o <<p>> \o walk[t.right[p]]
  IN  walk[t.root]

Sorted(s) == \A i \in 1 .. Len(s) - 1 : KeyOf[s[i]] < KeyOf[s[i + 1]]

\* No red node has a red child, except that child may be excused.
RedRule(t, excused) ==
  \A n \in t.red : \A c \in {t.left[n], t.right[n]} :
     c = excused \/ NullOrBlack(t, c)

\* All paths down count the same number of black nodes, when the left (right)
\* subtree of short is given lent more.  -1 stands for a mismatch below.
BlackRule(t, short, lentLeft, lentRight) ==
  LET height[p \in Ptr] ==
        IF p = NULL THEN 1
        ELSE LET l == height[t.left[p]] + IF p = short THEN lentLeft ELSE 0
                 r == height[t.right[p]] + IF p = short THEN lentRight ELSE 0
             IN  IF l < 1 \/ r < 1 \/ l # r THEN -1
                 ELSE l + IF IsBlack(t, p) THEN 1 ELSE 0
  IN  height[t.root] >= 1

\* rbtree_verify.
Valid(t) ==
  /\ t.root # NULL => IsBlack(t, t.root)
  /\ RedRule(t, NULL)
  /\ BlackRule(t, NULL, 0, 0)

-----------------------------------------------------------------------------
(* Safety.                                                                 *)

\* Every call gives back a valid red-black tree (rbtree_verify passes), up to
\* the teardown, which breaks it on purpose.
Balanced == pc = "idle" /\ ~closing => Valid(tree)

\* The nodes are in strictly ascending order, none is linked twice, and all
\* that is linked can be reached from the root: in every state, also amid a
\* rebalancing or a teardown, but for a removed node swapped with its successor.
Ordered ==
  LET s == InOrder(tree)
  IN  /\ pc # "disconnect" => Sorted(s)
      /\ {s[i] : i \in DOMAIN s} = Linked(tree)
      /\ Cardinality(Linked(tree)) = Len(s)

\* path is the way from the root to its last entry, each entry a child of the
\* one before: the rebalancing loops find parents nowhere else. "Good enough to
\* handle RB-trees of any size" (RBTREE_CURSOR): no loop writes past its end.
PathDescends ==
  /\ TypeOK /\ Len(path) <= Capacity
  /\ path # <<>> /\ pc # "idle" => path[1] = tree.root
  /\ \A i \in 1 .. Len(path) - 1 :
        path[i] # NULL /\ path[i + 1] \in {tree.left[path[i]], tree.right[path[i]]}

\* "Note grandparent has to exist and be black" (rbtree_insert_fixup): a red
\* parent is never the root, so stack[n - 3] is there.
GrandparentExists ==
  DoubleRed => /\ Len(path) >= 3
               /\ Grandparent # NULL
               /\ IsBlack(tree, Grandparent)

\* "Sibling is guaranteed to exist" (rbtree_remove_fixup).
SiblingExists == Deficit => Parent # NULL /\ Sibling # NULL

\* The two nodes that the rebalancing loops use without a test.
NeighboursExist == GrandparentExists /\ SiblingExists

\* While rbtree_insert_fixup runs, the tree would be valid but for a red node
\* at the end of path under a red parent (or as the root).
OneDoubleRed ==
  pc = "insert_fixup" => /\ IsRed(tree, FromEnd(path, 1))
                         /\ RedRule(tree, FromEnd(path, 1))
                         /\ BlackRule(tree, NULL, 0, 0)

\* While rbtree_remove_fixup runs, one step away from a valid tree at the end
\* of path: painting a red node there black, or counting one black node more
\* in the subtree there.
OneDeficit ==
  LET end == FromEnd(path, 1)
  IN  pc = "remove_fixup" =>
        IF ~NullOrBlack(tree, end) THEN Valid(MakeBlack(tree, end))
        ELSE /\ RedRule(tree, NULL)
             /\ IF Len(path) = 1 THEN BlackRule(tree, NULL, 0, 0)
                ELSE IF IsLeftChild THEN BlackRule(tree, Parent, 1, 0)
                ELSE BlackRule(tree, Parent, 0, 1)

\* What the rebalancing loops rely on: never more than the one flaw they mend.
OneFlaw == OneDoubleRed /\ OneDeficit

\* Rebalancing moves nodes up and down, never across one another.
RebalancingKeepsOrder ==
  [][(pc \in {"insert_fixup", "remove_fixup"})
       => InOrder(tree)' = InOrder(tree)]_vars

-----------------------------------------------------------------------------
(* Liveness.                                                               *)

\* Every call returns: no loop of the tree runs for ever.
CallsReturn == pc # "idle" ~> pc = "idle"

=============================================================================
