---------------------------- MODULE RBTreeProofs ----------------------------
(***************************************************************************)
(* RBTree keeps its nodes in order and its colours balanced, for any       *)
(* finite set of nodes and any keys; its paths fit a stack that is large   *)
(* for that many nodes.  With its cursor it implements OrderedSet.         *)
(***************************************************************************)
EXTENDS RBCursor, SearchTrees, TLAPS

-----------------------------------------------------------------------------
(* What the record-level operators do to the functions of the children.    *)

\* The types of the fields of a tree.
LEMMA TreeFields ==
  ASSUME NEW t \in Tree
  PROVE  /\ t.root \in Ptr /\ t.left \in [Node -> Ptr] /\ t.right \in [Node -> Ptr]
         /\ t.red \in SUBSET Node
BY DEF Tree

\* The setters of the child pointers change one pointer; the colour stays.
LEMMA SetFields ==
  ASSUME NEW t \in Tree, NEW n \in Node, NEW p \in Ptr
  PROVE  /\ SetLeft(t, n, p) \in Tree
         /\ SetLeft(t, n, p).root = t.root /\ SetLeft(t, n, p).red = t.red
         /\ SetLeft(t, n, p).left = [t.left EXCEPT ![n] = p]
         /\ SetLeft(t, n, p).right = t.right
         /\ SetRight(t, n, p) \in Tree
         /\ SetRight(t, n, p).root = t.root /\ SetRight(t, n, p).red = t.red
         /\ SetRight(t, n, p).left = t.left
         /\ SetRight(t, n, p).right = [t.right EXCEPT ![n] = p]
BY DEF Tree, SetLeft, SetRight

\* The setters of the colour leave the pointers alone.
LEMMA ColorFields ==
  ASSUME NEW t \in Tree, NEW n \in Node
  PROVE  /\ MakeRed(t, n) \in Tree /\ MakeRed(t, n).root = t.root
         /\ MakeRed(t, n).left = t.left /\ MakeRed(t, n).right = t.right
         /\ MakeRed(t, n).red = t.red \cup {n}
         /\ MakeBlack(t, n) \in Tree /\ MakeBlack(t, n).root = t.root
         /\ MakeBlack(t, n).left = t.left /\ MakeBlack(t, n).right = t.right
         /\ MakeBlack(t, n).red = t.red \ {n}
BY DEF Tree, MakeRed, MakeBlack

\* Storing a new root changes the root only.
LEMMA RootFields ==
  ASSUME NEW t \in Tree, NEW p \in Ptr
  PROVE  /\ [t EXCEPT !.root = p] \in Tree
         /\ [t EXCEPT !.root = p].root = p /\ [t EXCEPT !.root = p].red = t.red
         /\ [t EXCEPT !.root = p].left = t.left /\ [t EXCEPT !.root = p].right = t.right
BY DEF Tree

\* A tree seen from the other side twice is the tree.
LEMMA MirroredBack ==
  ASSUME NEW a, NEW b, NEW r, NEW sub, NEW K \in [Node -> Int],
         RootedTree(b, a, r, sub, [n \in Node |-> -K[n]])
  PROVE  RootedTree(a, b, r, sub, K)
<1> DEFINE L == [n \in Node |-> -K[n]]
<1>1. RootedTree(a, b, r, sub, [n \in Node |-> -L[n]])
  <2> HIDE DEF L
  <2>1. RootedTree(b, a, r, sub, L)
    BY DEF L
  <2> QED
    BY <2>1, MirroredRooted
<1>2. [n \in Node |-> -L[n]] = K
  <2>1. \A n \in Node : -(-K[n]) = K[n]
    OBVIOUS
  <2> QED
    BY <2>1
<1> QED
  BY <1>1, <1>2

\* parent is where n hangs in t: its parent, or NULL when n is the root.
Hangs(t, parent, n) ==
  \/ parent = NULL /\ n = t.root
  \/ parent \in Node /\ n \in {t.left[parent], t.right[parent]}

\* The same with a tree and its children given apart.
Ordering(t, sub, K) == RootedTree(t.left, t.right, t.root, sub, K)

\* rbtree_rotate_left is the rotation of SearchTrees at n.
LEMMA RotateLeftIs ==
  ASSUME NEW t \in Tree, NEW sub, NEW K, Ordering(t, sub, K),
         NEW n \in Node, t.right[n] # NULL, NEW parent, Hangs(t, parent, n)
  PROVE  LET t2 == RotateLeft(t, parent, n)
         IN  /\ t2 \in Tree /\ t2.red = t.red
             /\ t2.root = Renamed(t.root, n, t.right[n])
             /\ Rotated(t.left, t.right, t2.left, t2.right, n)
<1> DEFINE a == t.left
           b == t.right
           u == b[n]
           a1 == [a EXCEPT ![u] = n]
           b1 == [b EXCEPT ![n] = a[u]]
           t1 == SetLeft(SetRight(t, n, a[u]), u, n)
           t2 == RotateLeft(t, parent, n)
<1>1. /\ RootedTree(a, b, t.root, sub, K) /\ t.root \in Ptr /\ n \in Ptr /\ NULL \notin Node
      /\ a \in [Node -> Ptr] /\ b \in [Node -> Ptr] /\ u \in Node /\ u \in Ptr /\ a[u] \in Ptr
      /\ a[n] \notin {n, u} /\ a[u] \notin {n, u} /\ b[u] \notin {n, u} /\ u # n
      /\ \A m \in Node \ {n, u} : a[m] # u /\ b[m] # u
  <2>1. RootedTree(a, b, t.root, sub, K)
    BY DEF Ordering
  <2>2. /\ u \in Node /\ u # n
        /\ a[n] \notin {n, u} /\ a[u] \notin {n, u} /\ b[u] \notin {n, u}
        /\ \A m \in Node \ {n, u} : a[m] # u /\ b[m] # u
    <3> DEFINE a0 == [m \in Node |-> IF m = b[n] THEN n ELSE Renamed(a[m], n, b[n])]
               b0 == [m \in Node |-> IF m = n THEN a[b[n]] ELSE Renamed(b[m], n, b[n])]
    <3>1. Rotated(a, b, a0, b0, n)
      BY DEF Rotated
    <3> QED
      BY <2>1, <3>1, RotatedPointers
  <2> QED
    BY <2>1, <2>2, TreeFields, NullAssumption DEF Ptr
<1>2. t1 \in Tree /\ t1.root = t.root /\ t1.red = t.red /\ t1.left = a1 /\ t1.right = b1
  <2>1. /\ SetRight(t, n, a[u]) \in Tree /\ SetRight(t, n, a[u]).root = t.root
        /\ SetRight(t, n, a[u]).red = t.red
        /\ SetRight(t, n, a[u]).left = a /\ SetRight(t, n, a[u]).right = b1
    BY <1>1, TreeFields DEF SetRight, Tree
  <2> QED
    BY <1>1, <2>1, TreeFields DEF SetLeft, Tree
<1>3. t2 = RotatedInto(t1, parent, n, u)
  BY DEF RotateLeft
<1> HIDE DEF t1, t2
<1>4. CASE parent = NULL
  <2>1. t2 = [t1 EXCEPT !.root = u] /\ n = t.root
    BY <1>1, <1>3, <1>4 DEF RotatedInto, Hangs
  <2>2. t2 \in Tree /\ t2.root = u /\ t2.red = t.red /\ t2.left = a1 /\ t2.right = b1
    BY <1>1, <1>2, <2>1, RootFields
  <2>3. \A m \in Node : a[m] # n /\ b[m] # n
    BY <1>1, <2>1, OnlyParent
  <2>4. Rotated(a, b, a1, b1, n)
    BY <1>1, <2>3 DEF Rotated, Renamed
  <2> QED
    BY <2>1, <2>2, <2>4 DEF Renamed, t2
<1>5. CASE parent # NULL
  <2>1. /\ parent \in Node /\ n \in {a[parent], b[parent]} /\ parent \notin {n, u}
        /\ t.root # n /\ a[parent] # b[parent]
        /\ \A m \in Node : n \in {a[m], b[m]} => m = parent
    <3>1. parent \in Node /\ n \in {a[parent], b[parent]}
      BY <1>5 DEF Hangs
    <3>2. /\ t.root # n
          /\ \A m \in Node : n \in {a[m], b[m]} => m = parent
      BY <1>1, <3>1, OnlyParent
    <3>3. parent # u /\ parent # n /\ a[parent] # b[parent]
      BY <1>1, <3>1, Locally DEF RootedTree
    <3> QED
      BY <3>1, <3>2, <3>3
  <2>2. a1[parent] = a[parent] /\ b1[parent] = b[parent]
    BY <1>1, <2>1
  <2>3. CASE n = a[parent]
    <3>1. t2 = SetLeft(t1, parent, u)
      BY <1>2, <1>3, <1>5, <2>2, <2>3 DEF RotatedInto
    <3>2. /\ t2 \in Tree /\ t2.root = t.root /\ t2.red = t.red
          /\ t2.left = [a1 EXCEPT ![parent] = u] /\ t2.right = b1
      BY <1>1, <1>2, <2>1, <3>1, TreeFields DEF SetLeft, Tree
    <3>3. Rotated(a, b, [a1 EXCEPT ![parent] = u], b1, n)
      BY <1>1, <2>1, <2>3 DEF Rotated, Renamed
    <3> QED
      BY <2>1, <3>2, <3>3 DEF Renamed, t2
  <2>4. CASE n # a[parent]
    <3>1. t2 = SetRight(t1, parent, u) /\ n = b[parent]
      BY <1>2, <1>3, <1>5, <2>1, <2>2, <2>4 DEF RotatedInto
    <3>2. /\ t2 \in Tree /\ t2.root = t.root /\ t2.red = t.red
          /\ t2.left = a1 /\ t2.right = [b1 EXCEPT ![parent] = u]
      BY <1>1, <1>2, <2>1, <3>1, TreeFields DEF SetRight, Tree
    <3>3. Rotated(a, b, a1, [b1 EXCEPT ![parent] = u], n)
      BY <1>1, <2>1, <3>1 DEF Rotated, Renamed
    <3> QED
      BY <2>1, <3>2, <3>3 DEF Renamed, t2
  <2> QED
    BY <2>3, <2>4
<1> QED
  BY <1>4, <1>5

\* rbtree_rotate_right is its mirror image.
LEMMA RotateRightIs ==
  ASSUME NEW t \in Tree, NEW sub, NEW K, Ordering(t, sub, K),
         NEW n \in Node, t.left[n] # NULL, NEW parent, Hangs(t, parent, n)
  PROVE  LET t2 == RotateRight(t, parent, n)
         IN  /\ t2 \in Tree /\ t2.red = t.red
             /\ t2.root = Renamed(t.root, n, t.left[n])
             /\ Rotated(t.right, t.left, t2.right, t2.left, n)
<1> DEFINE a == t.right
           b == t.left
           u == b[n]
           a1 == [a EXCEPT ![u] = n]
           b1 == [b EXCEPT ![n] = a[u]]
           t1 == SetRight(SetLeft(t, n, a[u]), u, n)
           t2 == RotateRight(t, parent, n)
           L == [m \in Node |-> -K[m]]
<1>1. /\ RootedTree(a, b, t.root, sub, L) /\ t.root \in Ptr /\ n \in Ptr /\ NULL \notin Node
      /\ a \in [Node -> Ptr] /\ b \in [Node -> Ptr] /\ u \in Node /\ u \in Ptr /\ a[u] \in Ptr
      /\ a[n] \notin {n, u} /\ a[u] \notin {n, u} /\ b[u] \notin {n, u} /\ u # n
      /\ \A m \in Node \ {n, u} : a[m] # u /\ b[m] # u
  <2>1. RootedTree(a, b, t.root, sub, L)
    BY MirroredRooted DEF Ordering
  <2>2. /\ u \in Node /\ u # n
        /\ a[n] \notin {n, u} /\ a[u] \notin {n, u} /\ b[u] \notin {n, u}
        /\ \A m \in Node \ {n, u} : a[m] # u /\ b[m] # u
    <3> DEFINE a0 == [m \in Node |-> IF m = b[n] THEN n ELSE Renamed(a[m], n, b[n])]
               b0 == [m \in Node |-> IF m = n THEN a[b[n]] ELSE Renamed(b[m], n, b[n])]
    <3>1. Rotated(a, b, a0, b0, n)
      BY DEF Rotated
    <3> QED
      BY <2>1, <3>1, RotatedPointers
  <2> QED
    BY <2>1, <2>2, TreeFields, NullAssumption DEF Ptr
<1>2. t1 \in Tree /\ t1.root = t.root /\ t1.red = t.red /\ t1.right = a1 /\ t1.left = b1
  <2>1. /\ SetLeft(t, n, a[u]) \in Tree /\ SetLeft(t, n, a[u]).root = t.root
        /\ SetLeft(t, n, a[u]).red = t.red
        /\ SetLeft(t, n, a[u]).right = a /\ SetLeft(t, n, a[u]).left = b1
    BY <1>1, TreeFields DEF SetLeft, Tree
  <2> QED
    BY <1>1, <2>1, TreeFields DEF SetRight, Tree
<1>3. t2 = RotatedInto(t1, parent, n, u)
  BY DEF RotateRight
<1> HIDE DEF t1, t2, L
<1>4. CASE parent = NULL
  <2>1. t2 = [t1 EXCEPT !.root = u] /\ n = t.root
    BY <1>1, <1>3, <1>4 DEF RotatedInto, Hangs
  <2>2. t2 \in Tree /\ t2.root = u /\ t2.red = t.red /\ t2.right = a1 /\ t2.left = b1
    BY <1>1, <1>2, <2>1, RootFields
  <2>3. \A m \in Node : a[m] # n /\ b[m] # n
    BY <1>1, <2>1, OnlyParent
  <2>4. Rotated(a, b, a1, b1, n)
    BY <1>1, <2>3 DEF Rotated, Renamed
  <2> QED
    BY <2>1, <2>2, <2>4 DEF Renamed, t2
<1>5. CASE parent # NULL
  <2>1. /\ parent \in Node /\ n \in {a[parent], b[parent]} /\ parent \notin {n, u}
        /\ t.root # n /\ a[parent] # b[parent]
        /\ \A m \in Node : n \in {a[m], b[m]} => m = parent
    <3>1. parent \in Node /\ n \in {a[parent], b[parent]}
      BY <1>5 DEF Hangs
    <3>2. /\ t.root # n
          /\ \A m \in Node : n \in {a[m], b[m]} => m = parent
      BY <1>1, <3>1, OnlyParent
    <3>3. parent # u /\ parent # n /\ a[parent] # b[parent]
      BY <1>1, <3>1, Locally DEF RootedTree
    <3> QED
      BY <3>1, <3>2, <3>3
  <2>2. a1[parent] = a[parent] /\ b1[parent] = b[parent]
    BY <1>1, <2>1
  <2>3. CASE n = a[parent]
    <3>1. t2 = SetRight(t1, parent, u)
      BY <1>2, <1>3, <1>5, <2>1, <2>2, <2>3 DEF RotatedInto
    <3>2. /\ t2 \in Tree /\ t2.root = t.root /\ t2.red = t.red
          /\ t2.right = [a1 EXCEPT ![parent] = u] /\ t2.left = b1
      BY <1>1, <1>2, <2>1, <3>1, TreeFields DEF SetRight, Tree
    <3>3. Rotated(a, b, [a1 EXCEPT ![parent] = u], b1, n)
      BY <1>1, <2>1, <2>3 DEF Rotated, Renamed
    <3> QED
      BY <2>1, <3>2, <3>3 DEF Renamed, t2
  <2>4. CASE n # a[parent]
    <3>1. t2 = SetLeft(t1, parent, u) /\ n = b[parent]
      BY <1>2, <1>3, <1>5, <2>1, <2>2, <2>4 DEF RotatedInto
    <3>2. /\ t2 \in Tree /\ t2.root = t.root /\ t2.red = t.red
          /\ t2.right = a1 /\ t2.left = [b1 EXCEPT ![parent] = u]
      BY <1>1, <1>2, <2>1, <3>1, TreeFields DEF SetLeft, Tree
    <3>3. Rotated(a, b, a1, [b1 EXCEPT ![parent] = u], n)
      BY <1>1, <2>1, <3>1 DEF Rotated, Renamed
    <3> QED
      BY <2>1, <3>2, <3>3 DEF Renamed, t2
  <2> QED
    BY <2>3, <2>4
<1> QED
  BY <1>4, <1>5

\* What storing a child, or the root, over an old one changes.
LEMMA ReplaceFields ==
  ASSUME NEW t \in Tree, NEW parent \in Ptr, NEW old, NEW new \in Ptr
  PROVE  LET t2 == ReplaceChild(t, parent, old, new)
         IN  /\ t2 \in Tree /\ t2.red = t.red
             /\ t2.root = IF parent = NULL THEN new ELSE t.root
             /\ t2.left = IF parent # NULL /\ old = t.left[parent]
                          THEN [t.left EXCEPT ![parent] = new] ELSE t.left
             /\ t2.right = IF parent # NULL /\ old # t.left[parent]
                           THEN [t.right EXCEPT ![parent] = new] ELSE t.right
<1>1. CASE parent = NULL
  BY <1>1 DEF ReplaceChild, Tree
<1>2. CASE parent # NULL
  <2>1. parent \in Node
    BY <1>2 DEF Ptr
  <2>2. CASE old = t.left[parent]
    <3>1. ReplaceChild(t, parent, old, new) = SetLeft(t, parent, new)
      BY <1>2, <2>2 DEF ReplaceChild
    <3> QED
      BY <1>2, <2>1, <2>2, <3>1, TreeFields DEF SetLeft, Tree
  <2>3. CASE old # t.left[parent]
    <3>1. ReplaceChild(t, parent, old, new) = SetRight(t, parent, new)
      BY <1>2, <2>3 DEF ReplaceChild
    <3> QED
      BY <1>2, <2>1, <2>3, <3>1, TreeFields DEF SetRight, Tree
  <2> QED
    BY <2>2, <2>3
<1> QED
  BY <1>1, <1>2

\* Swapping the colour bits exchanges the nodes in the set of red ones.
LEMMA SwapColorsIs ==
  ASSUME NEW t \in Tree, NEW v \in Node, NEW s \in Node, s # v
  PROVE  LET t2 == SwapColors(t, s, v)
         IN  /\ t2 \in Tree /\ t2.red = ExchangedSet(t.red, v, s)
             /\ t2.root = t.root /\ t2.left = t.left /\ t2.right = t.right
<1> DEFINE t2 == SwapColors(t, s, v)
<1>1. t.red \in SUBSET Node
  BY TreeFields
<1>2. CASE IsRed(t, s) = IsRed(t, v)
  <2>1. t2 = t
    BY <1>2 DEF SwapColors
  <2>2. ExchangedSet(t.red, v, s) = t.red
    BY <1>1, <1>2 DEF ExchangedSet, Swap, IsRed
  <2> QED
    BY <2>1, <2>2
<1>3. CASE IsRed(t, s) # IsRed(t, v) /\ IsRed(t, s)
  <2>1. t2 = MakeRed(MakeBlack(t, s), v)
    BY <1>3 DEF SwapColors
  <2>2. /\ t2 \in Tree /\ t2.red = (t.red \ {s}) \cup {v}
        /\ t2.root = t.root /\ t2.left = t.left /\ t2.right = t.right
    <3> DEFINE d == MakeBlack(t, s)
    <3>1. /\ d \in Tree /\ d.red = t.red \ {s}
          /\ d.root = t.root /\ d.left = t.left /\ d.right = t.right
      BY ColorFields
    <3>2. t2 = MakeRed(d, v)
      BY <2>1
    <3> HIDE DEF d, t2
    <3>3. d \in Tree /\ v \in Node
      BY <3>1
    <3>4. /\ t2 \in Tree /\ t2.red = d.red \cup {v}
          /\ t2.root = d.root /\ t2.left = d.left /\ t2.right = d.right
      BY ONLY <3>2, <3>3, ColorFields
    <3> QED
      BY <3>1, <3>4
  <2>3. ExchangedSet(t.red, v, s) = (t.red \ {s}) \cup {v}
    BY <1>1, <1>3 DEF ExchangedSet, Swap, IsRed
  <2> QED
    BY <2>2, <2>3
<1>4. CASE IsRed(t, s) # IsRed(t, v) /\ ~IsRed(t, s)
  <2>1. t2 = MakeRed(MakeBlack(t, v), s)
    BY <1>4 DEF SwapColors
  <2>2. /\ t2 \in Tree /\ t2.red = (t.red \ {v}) \cup {s}
        /\ t2.root = t.root /\ t2.left = t.left /\ t2.right = t.right
    <3> DEFINE d == MakeBlack(t, v)
    <3>1. /\ d \in Tree /\ d.red = t.red \ {v}
          /\ d.root = t.root /\ d.left = t.left /\ d.right = t.right
      BY ColorFields
    <3>2. t2 = MakeRed(d, s)
      BY <2>1
    <3> HIDE DEF d, t2
    <3>3. d \in Tree /\ s \in Node
      BY <3>1
    <3>4. /\ t2 \in Tree /\ t2.red = d.red \cup {s}
          /\ t2.root = d.root /\ t2.left = d.left /\ t2.right = d.right
      BY ONLY <3>2, <3>3, ColorFields
    <3> QED
      BY <3>1, <3>4
  <2>3. ExchangedSet(t.red, v, s) = (t.red \ {v}) \cup {s}
    BY <1>1, <1>4 DEF ExchangedSet, Swap, IsRed
  <2> QED
    BY <2>2, <2>3
<1> QED
  BY <1>2, <1>3, <1>4

\* n hangs at one place only.
LEMMA HangsOnce ==
  ASSUME NEW t \in Tree, NEW sub, NEW K, Ordering(t, sub, K),
         NEW n \in Node, NEW parent, Hangs(t, parent, n)
  PROVE  /\ parent \in Ptr /\ parent # n
         /\ parent = NULL <=> t.root = n
         /\ \A m \in Node : n \in {t.left[m], t.right[m]} => m = parent
         /\ parent # NULL => parent \in Node /\ t.left[parent] # t.right[parent]
<1>1. /\ RootedTree(t.left, t.right, t.root, sub, K) /\ n # NULL /\ NULL \notin Node
      /\ SearchTree(t.left, t.right, sub, K)
  BY NullAssumption DEF Ordering, RootedTree
<1>2. CASE parent = NULL
  <2>1. t.root = n
    BY <1>1, <1>2 DEF Hangs
  <2>2. \A m \in Node : n \notin {t.left[m], t.right[m]}
    BY <1>1, <2>1, OnlyParent
  <2> QED
    BY <1>1, <1>2, <2>1, <2>2 DEF Ptr
<1>3. CASE parent # NULL
  <2>1. parent \in Node /\ n \in {t.left[parent], t.right[parent]}
    BY <1>3 DEF Hangs
  <2>2. /\ t.root # n
        /\ \A m \in Node : n \in {t.left[m], t.right[m]} => m = parent
    BY <1>1, <2>1, OnlyParent
  <2>3. parent # n /\ t.left[parent] # t.right[parent]
    BY <1>1, <2>1, Locally
  <2> QED
    BY <1>3, <2>1, <2>2, <2>3 DEF Ptr
<1> QED
  BY <1>2, <1>3

\* "Common work" of rbtree_remove after the right child s of v was its successor.
LEMMA ExchangeChildIs ==
  ASSUME NEW t \in Tree, NEW sub, NEW K, Ordering(t, sub, K),
         NEW v \in Node, NEW s \in Node, s = t.right[v], t.left[s] = NULL,
         NEW parent, Hangs(t, parent, v)
  PROVE  LET t2 == TakePlace(SetRight(SetRight(t, v, t.right[s]), s, v), v, s, parent)
         IN  /\ t2 \in Tree /\ t2.red = ExchangedSet(t.red, v, s)
             /\ t2.root = Swap(t.root, v, s)
             /\ Exchanged(t.left, t2.left, v, s) /\ Exchanged(t.right, t2.right, v, s)
<1> DEFINE a == t.left
           b == t.right
           t1 == SetRight(SetRight(t, v, t.right[s]), s, v)
           moved == SetLeft(SetLeft(t1, s, t1.left[v]), v, NULL)
           put == ReplaceChild(moved, parent, v, s)
<1>1. /\ RootedTree(a, b, t.root, sub, K) /\ v # NULL /\ s # NULL /\ NULL \in Ptr
      /\ v \in Ptr /\ s \in Ptr /\ a \in [Node -> Ptr] /\ b \in [Node -> Ptr] /\ t.root \in Ptr
      /\ SearchTree(a, b, sub, K)
  BY NullAssumption, TreeFields DEF Ordering, Ptr, RootedTree
<1>2. /\ s # v /\ t.root # s /\ a[v] \notin {v, s} /\ b[s] \notin {v, s}
      /\ \A m \in Node : s \in {a[m], b[m]} => m = v
  <2>1. /\ t.root # s /\ v \notin sub[s]
        /\ \A m \in Node : s \in {a[m], b[m]} => m = v
    BY <1>1, OnlyParent
  <2>2. s # v /\ a[v] # v /\ (a[v] # NULL => a[v] # s) /\ b[s] # s
    BY <1>1, Locally
  <2>3. b[s] # v
    <3>1. b[s] # NULL => b[s] \in sub[s]
      BY <1>1, Locally
    <3> QED
      BY <1>1, <2>1, <3>1
  <2> QED
    BY <1>1, <2>1, <2>2, <2>3
<1>3. /\ parent \in Ptr /\ parent # v /\ parent # s /\ (parent = NULL <=> t.root = v)
      /\ \A m \in Node : v \in {a[m], b[m]} => m = parent
      /\ parent # NULL => parent \in Node /\ a[parent] # b[parent]
      /\ parent # NULL => v \in {a[parent], b[parent]}
  <2>1. parent # NULL => v \in {a[parent], b[parent]}
    BY DEF Hangs
  <2>2. v \notin {a[s], b[s]}
    BY <1>1, <1>2
  <2> QED
    BY <1>1, <2>1, <2>2, HangsOnce
<1>4. /\ t1 \in Tree /\ t1.root = t.root /\ t1.red = t.red /\ t1.left = a
      /\ t1.right = [b EXCEPT ![v] = b[s], ![s] = v]
  BY <1>1 DEF SetRight, Tree
<1> HIDE DEF t1
<1>5. /\ moved \in Tree /\ moved.root = t.root /\ moved.red = t.red
      /\ moved.left = [a EXCEPT ![s] = a[v], ![v] = NULL]
      /\ moved.right = [b EXCEPT ![v] = b[s], ![s] = v]
  BY <1>1, <1>4 DEF SetLeft, Tree
<1> HIDE DEF moved
<1>6. /\ put \in Tree /\ put.red = t.red
      /\ put.root = IF parent = NULL THEN s ELSE t.root
      /\ put.left = IF parent # NULL /\ v = moved.left[parent]
                    THEN [moved.left EXCEPT ![parent] = s] ELSE moved.left
      /\ put.right = IF parent # NULL /\ v # moved.left[parent]
                     THEN [moved.right EXCEPT ![parent] = s] ELSE moved.right
  BY <1>1, <1>3, <1>5, ReplaceFields, SMTT(30)
<1>7. parent # NULL => moved.left[parent] = a[parent]
  BY <1>1, <1>3, <1>5
<1> HIDE DEF put
<1>8. /\ TakePlace(t1, v, s, parent) = SwapColors(put, s, v)
  BY DEF TakePlace, moved, put
<1>9. put.root = Swap(t.root, v, s)
  BY <1>2, <1>3, <1>6 DEF Swap
<1>10. Exchanged(a, put.left, v, s)
  <2>1. put.left \in [Node -> Ptr]
    BY <1>6, TreeFields
  <2>2. ASSUME NEW m \in Node PROVE put.left[m] = Swap(a[Swap(m, v, s)], v, s)
    <3>1. CASE m = v
      BY <1>1, <1>2, <1>3, <1>5, <1>6, <3>1 DEF Swap
    <3>2. CASE m = s
      BY <1>1, <1>2, <1>3, <1>5, <1>6, <3>2 DEF Swap
    <3>3. CASE m \notin {v, s} /\ a[m] = v
      <4>1. m = parent /\ parent # NULL /\ v = moved.left[parent]
        BY <1>1, <1>3, <1>7, <3>3, NullAssumption
      <4>2. put.left = [moved.left EXCEPT ![parent] = s] /\ parent \in DOMAIN moved.left
        BY <1>1, <1>3, <1>5, <1>6, <4>1
      <4>3. Swap(m, v, s) = m /\ Swap(v, v, s) = s
        BY <3>3 DEF Swap
      <4> QED
        BY <3>3, <4>1, <4>2, <4>3
    <3>4. CASE m \notin {v, s} /\ a[m] # v
      BY <1>1, <1>2, <1>3, <1>5, <1>6, <1>7, <3>4 DEF Swap
    <3> QED
      BY <3>1, <3>2, <3>3, <3>4
  <2> QED
    BY <2>1, <2>2 DEF Exchanged
<1>11. Exchanged(b, put.right, v, s)
  <2>1. put.right \in [Node -> Ptr]
    BY <1>6, TreeFields
  <2>2. ASSUME NEW m \in Node PROVE put.right[m] = Swap(b[Swap(m, v, s)], v, s)
    <3>1. CASE m = v
      BY <1>1, <1>2, <1>3, <1>5, <1>6, <3>1 DEF Swap
    <3>2. CASE m = s
      BY <1>1, <1>2, <1>3, <1>5, <1>6, <3>2 DEF Swap
    <3>3. CASE m \notin {v, s} /\ b[m] = v
      <4>1. m = parent /\ parent # NULL /\ v # moved.left[parent]
        BY <1>1, <1>3, <1>7, <3>3, NullAssumption
      <4>2. put.right = [moved.right EXCEPT ![parent] = s] /\ parent \in DOMAIN moved.right
        BY <1>1, <1>3, <1>5, <1>6, <4>1
      <4>3. Swap(m, v, s) = m /\ Swap(v, v, s) = s
        BY <3>3 DEF Swap
      <4> QED
        BY <3>3, <4>1, <4>2, <4>3
    <3>4. CASE m \notin {v, s} /\ b[m] # v
      BY <1>1, <1>2, <1>3, <1>5, <1>6, <1>7, <3>4 DEF Swap
    <3> QED
      BY <3>1, <3>2, <3>3, <3>4
  <2> QED
    BY <2>1, <2>2 DEF Exchanged
<1> QED
  BY <1>2, <1>6, <1>8, <1>9, <1>10, <1>11, SwapColorsIs DEF t1

\* "Common work" after the successor s was found deeper down, under ps.
LEMMA ExchangeDeepIs ==
  ASSUME NEW t \in Tree, NEW sub, NEW K, Ordering(t, sub, K),
         NEW v \in Node, NEW s \in Node, t.left[s] = NULL, s # v,
         NEW pv, Hangs(t, pv, v), NEW ps \in Node, Hangs(t, ps, s), ps # v, ps # pv, pv # s
  PROVE  LET t1 == SetRight(SetRight(t, s, t.right[v]), v, t.right[s])
             t2 == TakePlace(ReplaceChild(t1, ps, s, v), v, s, pv)
         IN  /\ t2 \in Tree /\ t2.red = ExchangedSet(t.red, v, s)
             /\ t2.root = Swap(t.root, v, s)
             /\ Exchanged(t.left, t2.left, v, s) /\ Exchanged(t.right, t2.right, v, s)
<1> DEFINE a == t.left
           b == t.right
           t1 == SetRight(SetRight(t, s, t.right[v]), v, t.right[s])
           raised == ReplaceChild(t1, ps, s, v)
           moved == SetLeft(SetLeft(raised, s, raised.left[v]), v, NULL)
           put == ReplaceChild(moved, pv, v, s)
           b1 == [b EXCEPT ![s] = b[v], ![v] = b[s]]
<1>1. /\ RootedTree(a, b, t.root, sub, K) /\ v # NULL /\ s # NULL /\ NULL \in Ptr
      /\ v \in Ptr /\ s \in Ptr /\ ps \in Ptr /\ ps # NULL
      /\ a \in [Node -> Ptr] /\ b \in [Node -> Ptr] /\ t.root \in Ptr
      /\ SearchTree(a, b, sub, K) /\ NULL \notin Node
  BY NullAssumption, TreeFields DEF Ordering, Ptr, RootedTree
<1>2. /\ pv \in Ptr /\ pv # v /\ (pv = NULL <=> t.root = v)
      /\ \A m \in Node : v \in {a[m], b[m]} => m = pv
      /\ pv # NULL => pv \in Node /\ a[pv] # b[pv]
      /\ pv # NULL => v \in {a[pv], b[pv]}
  BY <1>1, HangsOnce DEF Hangs
<1>3. /\ ps # s /\ t.root # s
      /\ \A m \in Node : s \in {a[m], b[m]} => m = ps
      /\ a[ps] # b[ps] /\ s \in {a[ps], b[ps]}
  BY <1>1, HangsOnce DEF Hangs
<1>4. a[v] \notin {v, s} /\ b[v] \notin {v, s} /\ b[s] \notin {v, s}
  BY <1>1, <1>2, <1>3, Locally
<1>5. t1 \in Tree /\ t1.root = t.root /\ t1.red = t.red /\ t1.left = a /\ t1.right = b1
  BY <1>1 DEF SetRight, Tree
<1> HIDE DEF t1
<1>6. /\ raised \in Tree /\ raised.root = t.root /\ raised.red = t.red
      /\ raised.left = IF s = a[ps] THEN [a EXCEPT ![ps] = v] ELSE a
      /\ raised.right = IF s # a[ps] THEN [b1 EXCEPT ![ps] = v] ELSE b1
  BY <1>1, <1>5, ReplaceFields
<1> HIDE DEF raised
<1>7. raised.left[v] = a[v] /\ a[v] \in Ptr /\ raised.left \in [Node -> Ptr]
  BY <1>1, <1>6, TreeFields
<1>8. /\ moved \in Tree /\ moved.root = t.root /\ moved.red = t.red
      /\ moved.left = [raised.left EXCEPT ![s] = a[v], ![v] = NULL]
      /\ moved.right = raised.right
  BY <1>1, <1>6, <1>7 DEF SetLeft, Tree
<1> HIDE DEF moved
<1>9. /\ put \in Tree /\ put.red = t.red
      /\ put.root = IF pv = NULL THEN s ELSE t.root
      /\ put.left = IF pv # NULL /\ v = moved.left[pv]
                    THEN [moved.left EXCEPT ![pv] = s] ELSE moved.left
      /\ put.right = IF pv # NULL /\ v # moved.left[pv]
                     THEN [moved.right EXCEPT ![pv] = s] ELSE moved.right
  <2>1. /\ put \in Tree /\ put.red = moved.red
        /\ put.root = IF pv = NULL THEN s ELSE moved.root
        /\ put.left = IF pv # NULL /\ v = moved.left[pv]
                      THEN [moved.left EXCEPT ![pv] = s] ELSE moved.left
        /\ put.right = IF pv # NULL /\ v # moved.left[pv]
                       THEN [moved.right EXCEPT ![pv] = s] ELSE moved.right
    <3>1. moved \in Tree /\ pv \in Ptr /\ s \in Ptr
      BY <1>1, <1>2, <1>8
    <3> QED
      BY <3>1, ReplaceFields
  <2> QED
    BY <1>8, <2>1
<1> HIDE DEF put
<1>10. pv # NULL => moved.left[pv] = a[pv]
  <2>1. ASSUME pv # NULL PROVE moved.left[pv] = raised.left[pv] /\ raised.left[pv] = a[pv]
    BY <1>1, <1>2, <1>6, <1>7, <1>8, <2>1
  <2> QED
    BY <2>1
<1>11. TakePlace(raised, v, s, pv) = SwapColors(put, s, v)
  BY DEF TakePlace, moved, put
<1>12. put.root = Swap(t.root, v, s)
  BY <1>2, <1>3, <1>9 DEF Swap
<1>13. Swap(v, v, s) = s /\ Swap(s, v, s) = v /\ \A x : x \notin {v, s} => Swap(x, v, s) = x
  BY DEF Swap
<1>14. /\ moved.left \in [Node -> Ptr] /\ moved.right \in [Node -> Ptr] /\ b1 \in [Node -> Ptr]
       /\ put.left \in [Node -> Ptr] /\ put.right \in [Node -> Ptr] /\ raised.right \in [Node -> Ptr]
  <2>1. t1 \in Tree /\ raised \in Tree /\ moved \in Tree /\ put \in Tree
    BY <1>5, <1>6, <1>8, <1>9
  <2>2. t1.right = b1
    BY <1>5
  <2> HIDE DEF b1
  <2> QED
    BY <2>1, <2>2, TreeFields
<1>15. Exchanged(a, put.left, v, s)
  <2>1. \A m \in Node \ {pv} : put.left[m] = moved.left[m]
    BY <1>9, <1>14
  <2>2. moved.left[v] = NULL /\ moved.left[s] = a[v]
        /\ \A m \in Node \ {v, s} : moved.left[m] = raised.left[m]
    BY <1>7, <1>8
  <2>3. /\ raised.left[ps] = IF s = a[ps] THEN v ELSE a[ps]
        /\ \A m \in Node \ {ps} : raised.left[m] = a[m]
    BY <1>1, <1>6
  <2>4. pv # NULL => put.left[pv] = IF v = a[pv] THEN s ELSE a[pv]
    BY <1>2, <1>9, <1>10, <1>14
  <2>5. ASSUME NEW m \in Node PROVE put.left[m] = Swap(a[Swap(m, v, s)], v, s)
    <3>1. CASE m = v
      BY <1>1, <1>2, <1>13, <2>1, <2>2, <3>1 DEF Swap
    <3>2. CASE m = s
      BY <1>1, <1>2, <1>4, <1>13, <2>1, <2>2, <3>2
    <3>3. CASE m = pv
      <4>1. a[m] # s /\ Swap(m, v, s) = m
        BY <1>1, <1>2, <1>3, <1>13, <3>3
      <4> QED
        BY <1>1, <1>13, <2>4, <3>3, <4>1
    <3>4. CASE m = ps
      <4>1. a[m] # v /\ Swap(m, v, s) = m
        BY <1>1, <1>2, <1>3, <1>13, <3>4
      <4>2. put.left[m] = IF s = a[m] THEN v ELSE a[m]
        BY <1>2, <1>3, <2>1, <2>2, <2>3, <3>4
      <4> QED
        BY <1>13, <4>1, <4>2
    <3>5. CASE m \notin {v, s, pv, ps}
      <4>1. a[m] \notin {v, s} /\ Swap(m, v, s) = m
        BY <1>2, <1>3, <1>13, <3>5
      <4> QED
        BY <1>13, <2>1, <2>2, <2>3, <3>5, <4>1
    <3> QED
      BY <3>1, <3>2, <3>3, <3>4, <3>5
  <2> QED
    BY <1>14, <2>5 DEF Exchanged
<1>16. Exchanged(b, put.right, v, s)
  <2>1. \A m \in Node \ {pv} : put.right[m] = moved.right[m]
    BY <1>9, <1>14
  <2>2. b1[v] = b[s] /\ b1[s] = b[v] /\ \A m \in Node \ {v, s} : b1[m] = b[m]
    BY <1>1
  <2>3. /\ moved.right[ps] = IF s # a[ps] THEN v ELSE b1[ps]
        /\ \A m \in Node \ {ps} : moved.right[m] = b1[m]
    BY <1>1, <1>6, <1>8, <1>14
  <2>4. pv # NULL => put.right[pv] = IF v # a[pv] THEN s ELSE moved.right[pv]
    BY <1>2, <1>9, <1>10, <1>14
  <2>5. ASSUME NEW m \in Node PROVE put.right[m] = Swap(b[Swap(m, v, s)], v, s)
    <3>1. CASE m = v
      BY <1>1, <1>2, <1>4, <1>13, <2>1, <2>2, <2>3, <3>1
    <3>2. CASE m = s
      BY <1>1, <1>2, <1>3, <1>4, <1>13, <2>1, <2>2, <2>3, <3>2
    <3>3. CASE m = pv
      <4>1. b[m] # s /\ Swap(m, v, s) = m /\ m # ps /\ m \notin {v, s}
        BY <1>1, <1>2, <1>3, <1>13, <3>3
      <4>2. put.right[m] = IF v # a[m] THEN s ELSE b[m]
        BY <1>1, <2>2, <2>3, <2>4, <3>3, <4>1
      <4>3. v = a[m] <=> v # b[m]
        BY <1>1, <1>2, <3>3
      <4> QED
        BY <1>13, <4>1, <4>2, <4>3
    <3>4. CASE m = ps
      <4>1. b[m] # v /\ Swap(m, v, s) = m
        BY <1>1, <1>2, <1>3, <1>13, <3>4
      <4>2. put.right[m] = IF s # a[m] THEN v ELSE b[m]
        BY <1>2, <1>3, <2>1, <2>2, <2>3, <3>4
      <4>3. s = a[m] <=> s # b[m]
        BY <1>3, <3>4
      <4> QED
        BY <1>13, <4>1, <4>2, <4>3
    <3>5. CASE m \notin {v, s, pv, ps}
      <4>1. b[m] \notin {v, s} /\ Swap(m, v, s) = m
        BY <1>2, <1>3, <1>13, <3>5
      <4> QED
        BY <1>13, <2>1, <2>2, <2>3, <3>5, <4>1
    <3> QED
      BY <3>1, <3>2, <3>3, <3>4, <3>5
  <2> QED
    BY <1>14, <2>5 DEF Exchanged
<1> QED
  BY <1>9, <1>11, <1>12, <1>15, <1>16, SwapColorsIs DEF t1, raised

\* The victim v is ripped out and its only child c, or NULL, hung in its place.
LEMMA SpliceIs ==
  ASSUME NEW t \in Tree, NEW sub, NEW K, Ordering(t, sub, K),
         NEW v \in Node, NEW c \in Ptr, NEW parent, Hangs(t, parent, v)
  PROVE  LET t2 == Forget(ReplaceChild(t, parent, v, c), v)
         IN  /\ t2 \in Tree /\ t2.red = t.red \ {v}
             /\ t2.root = Renamed(t.root, v, c)
             /\ Spliced(t.left, t.right, t2.left, t2.right, v, c)
<1> DEFINE a == t.left
           b == t.right
           put == ReplaceChild(t, parent, v, c)
           t2 == Forget(put, v)
<1>1. /\ a \in [Node -> Ptr] /\ b \in [Node -> Ptr] /\ NULL \in Ptr /\ NULL \notin Node
  BY NullAssumption, TreeFields DEF Ptr
<1>2. /\ parent \in Ptr /\ parent # v /\ (parent = NULL <=> t.root = v)
      /\ \A m \in Node : v \in {a[m], b[m]} => m = parent
      /\ parent # NULL => parent \in Node /\ a[parent] # b[parent]
      /\ parent # NULL => v \in {a[parent], b[parent]}
  BY HangsOnce DEF Hangs
<1>3. /\ put \in Tree /\ put.red = t.red
      /\ put.root = IF parent = NULL THEN c ELSE t.root
      /\ put.left = IF parent # NULL /\ v = a[parent] THEN [a EXCEPT ![parent] = c] ELSE a
      /\ put.right = IF parent # NULL /\ v # a[parent] THEN [b EXCEPT ![parent] = c] ELSE b
  BY <1>2, ReplaceFields
<1> HIDE DEF put
<1>4. /\ t2 \in Tree /\ t2.red = t.red \ {v} /\ t2.root = put.root
      /\ t2.left = [put.left EXCEPT ![v] = NULL] /\ t2.right = [put.right EXCEPT ![v] = NULL]
  BY <1>1, <1>3 DEF Forget, MakeBlack, SetLeft, SetRight, Tree
<1> HIDE DEF t2
<1>5. put.left \in [Node -> Ptr] /\ put.right \in [Node -> Ptr]
  BY <1>3, TreeFields
<1>6. t2.left = [m \in Node |-> IF m = v THEN NULL ELSE Renamed(a[m], v, c)]
  <2>1. ASSUME NEW m \in Node \ {v} PROVE put.left[m] = Renamed(a[m], v, c)
    BY <1>1, <1>2, <1>3 DEF Renamed
  <2> QED
    BY <1>4, <1>5, <2>1
<1>7. t2.right = [m \in Node |-> IF m = v THEN NULL ELSE Renamed(b[m], v, c)]
  <2>1. ASSUME NEW m \in Node \ {v} PROVE put.right[m] = Renamed(b[m], v, c)
    BY <1>1, <1>2, <1>3 DEF Renamed
  <2> QED
    BY <1>4, <1>5, <2>1
<1> QED
  BY <1>2, <1>3, <1>4, <1>6, <1>7 DEF Spliced, Renamed, t2, put

\* rbtree_fini_step stores through the pointer it came by.
LEMMA FiniSpliceIs ==
  ASSUME NEW t \in Tree, NEW sub, NEW K, Ordering(t, sub, K),
         NEW v \in Node, NEW c \in Ptr, NEW parent, Hangs(t, parent, v),
         parent # NULL => t.left[parent] = v
  PROVE  LET raised == IF parent = NULL THEN [t EXCEPT !.root = c]
                       ELSE MakeBlack(SetLeft(t, parent, c), parent)
             t2 == Forget(raised, v)
         IN  /\ t2 \in Tree
             /\ t2.root = Renamed(t.root, v, c)
             /\ Spliced(t.left, t.right, t2.left, t2.right, v, c)
<1> DEFINE put == ReplaceChild(t, parent, v, c)
           raised == IF parent = NULL THEN [t EXCEPT !.root = c]
                     ELSE MakeBlack(SetLeft(t, parent, c), parent)
           t1 == Forget(put, v)
           t2 == Forget(raised, v)
<1>1. /\ t1 \in Tree /\ t1.root = Renamed(t.root, v, c)
      /\ Spliced(t.left, t.right, t1.left, t1.right, v, c)
  BY SpliceIs
<1>2. parent \in Ptr
  BY HangsOnce
<1>3. put = IF parent = NULL THEN [t EXCEPT !.root = c] ELSE SetLeft(t, parent, c)
  BY DEF ReplaceChild
<1>4. put \in Tree
  BY <1>2, ReplaceFields
<1>5. raised = put \/ raised = MakeBlack(put, parent)
  BY <1>3
<1> HIDE DEF put, raised
<1>6. /\ raised \in Tree /\ raised.root = put.root
      /\ raised.left = put.left /\ raised.right = put.right
  BY <1>4, <1>5 DEF MakeBlack, Tree
<1>7. NULL \in Ptr
  BY DEF Ptr
<1>8. /\ t2 \in Tree /\ t2.root = t1.root /\ t2.left = t1.left /\ t2.right = t1.right
  BY <1>4, <1>6, <1>7 DEF Forget, MakeBlack, SetLeft, SetRight, Tree
<1> QED
  BY <1>1, <1>8 DEF raised

-----------------------------------------------------------------------------
(* The inductive invariant.                                                *)

\* The search for key k came down p to n, the only place k can be at or below.
Leads(t, sub, p, k, n) ==
  /\ p = <<>> => n = t.root
  /\ p # <<>> =>
       LET l == p[Len(p)]
       IN  /\ \/ KeyOf[k] < KeyOf[l] /\ n = t.left[l]
              \/ KeyOf[l] < KeyOf[k] /\ n = t.right[l]
           /\ \A m \in Node : /\ l \in sub[t.left[m]] => KeyOf[k] < KeyOf[m]
                              /\ l \in sub[t.right[m]] => KeyOf[m] < KeyOf[k]

\* The walk to the least node on the right of v = p[i] came down p to n: what is
\* not below n is greater than the last entry.
Seeks(t, sub, p, i, n) ==
  /\ i \in 1 .. Len(p) /\ p[i] \in Node
  /\ t.right[p[i]] # NULL /\ t.left[t.right[p[i]]] # NULL
  /\ Len(p) = i => n = t.right[p[i]]
  /\ Len(p) > i =>
       LET l == p[Len(p)]
       IN  /\ p[i + 1] = t.right[p[i]]
           /\ l \in sub[t.right[p[i]]] /\ n = t.left[l]
           /\ \A m \in sub[t.right[p[i]]] : m \in sub[n] \/ m = l \/ KeyOf[l] < KeyOf[m]

\* The victim at the end of p has at most one child; all others are in order.
Ripe(t, sub, p) ==
  /\ p # <<>> /\ p[Len(p)] \in Node
  /\ t.left[p[Len(p)]] = NULL \/ t.right[p[Len(p)]] = NULL
  /\ AscendsBut(t.left, t.right, sub, KeyOf, p[Len(p)])
  /\ \E K : Ordering(t, sub, K)

\* rbtree_verify, with a certificate for its black heights.
Sound(t) ==
  /\ t.root \notin t.red
  /\ RedFree(t.left, t.right, t.red, NULL)
  /\ \E bh : Heights(t.left, t.right, t.red, bh, NULL, 0, 0)

\* The one flaw that rbtree_insert_fixup mends: the red node at the end of p.
InsertFlaw(t, p) ==
  /\ p # <<>> /\ p[Len(p)] \in t.red
  /\ Len(p) > 1 => t.root \notin t.red
  /\ RedFree(t.left, t.right, t.red, p[Len(p)])
  /\ \E bh : Heights(t.left, t.right, t.red, bh, NULL, 0, 0)

\* The one flaw that rbtree_remove_fixup mends: what is at the end of p is one
\* black node short, and red itself perhaps.
RemoveFlaw(t, p) ==
  LET e == FromEnd(p, 1)
      G == FromEnd(p, 2)
  IN  /\ p # <<>>
      /\ t.root \notin t.red \ {e}
      /\ RedFree(t.left, t.right, t.red \ {e}, NULL)
      /\ \E bh : Heights(t.left, t.right, t.red, bh, G,
                         IF G # NULL /\ e = t.left[G] THEN 1 ELSE 0,
                         IF G # NULL /\ e # t.left[G] THEN 1 ELSE 0)

Walk(sub) ==
  /\ pc # "disconnect" => Ordering(tree, sub, KeyOf)
  /\ pc = "disconnect" => Ripe(tree, sub, path)
  /\ pc = "lookup" /\ op # "lookup" => Leads(tree, sub, path, key, node)
  /\ pc = "leftmost" => Seeks(tree, sub, path, at, node)

Control ==
  /\ TypeOK
  /\ pc = "idle" => path = <<>>
  /\ pc = "fini" => closing
  /\ closing => pc \in {"idle", "fini"}
  /\ pc = "lookup" => key \in Node /\ op \in {"insert", "remove", "lookup"}
  /\ pc = "lookup" /\ op = "lookup" => path = <<>>
  /\ pc = "lookup" /\ op = "insert" => key \notin Linked(tree)
  /\ pc = "fini" /\ path = <<>> => node = tree.root
  /\ pc = "fini" /\ path # <<>> => node # NULL /\ node = tree.left[path[Len(path)]]
  /\ IsPath(tree.left, tree.right, tree.root, path)
  /\ pc # "remove_fixup" => path \in Seq(Node)

Colours ==
  /\ ~closing /\ pc \in {"idle", "lookup", "leftmost", "disconnect"} => Sound(tree)
  /\ pc = "insert_fixup" => InsertFlaw(tree, path)
  /\ pc = "remove_fixup" => RemoveFlaw(tree, path)

Inv == Control /\ Colours /\ \E sub : Walk(sub)

\* A call returns: its locals are gone, and the tree is what counts.
LEMMA Returned ==
  ASSUME TypeOK, NEW r \in Ptr \cup {0, -1}, Return(r),
         tree' \in Tree, closing' \in BOOLEAN,
         \E sub : Ordering(tree', sub, KeyOf), ~closing' => Sound(tree')
  PROVE  Inv'
<1>1. /\ pc' = "idle" /\ ret' = r /\ op' = "none" /\ key' = NULL /\ node' = NULL
      /\ path' = <<>> /\ at' = 0
  BY DEF Return
<1>2. TypeOK'
  BY <1>1 DEF TypeOK, LoopLabels, Ptr
<1>3. IsPath(tree'.left, tree'.right, tree'.root, path')
  BY <1>1 DEF IsPath
<1>4. Control'
  <2>1. path' \in Seq(Node)
    BY <1>1
  <2> QED
    BY <1>1, <1>2, <1>3, <2>1 DEF Control
<1>5. Colours'
  BY <1>1 DEF Colours
<1>6. \E sub : Walk(sub)'
  BY <1>1 DEF Walk
<1> QED
  BY <1>4, <1>5, <1>6 DEF Inv

\* The invariant holds of the empty tree.
LEMMA InitInv == Init => Inv
<1> SUFFICES ASSUME Init PROVE Inv
  OBVIOUS
<1>1. /\ tree.left = [n \in Node |-> NULL] /\ tree.right = [n \in Node |-> NULL]
      /\ tree.root = NULL /\ tree.red = {} /\ tree \in Tree
      /\ closing = FALSE /\ pc = "idle" /\ op = "none" /\ key = NULL /\ node = NULL
      /\ path = <<>> /\ at = 0 /\ ret = NULL
  BY DEF Init, Tree, Ptr
<1>2. /\ \E sub : Ordering(tree, sub, KeyOf)
      /\ Sound(tree)
  <2>1. NULL \in Ptr /\ {} \in SUBSET Node
    BY DEF Ptr
  <2> QED
    BY <1>1, <2>1, NoChildren DEF Ordering, Sound
<1>3. TypeOK
  <2>1. /\ tree \in Tree /\ closing = FALSE /\ pc = "idle" /\ op = "none" /\ key = NULL
        /\ node = NULL /\ path = <<>> /\ at = 0 /\ ret = NULL
    BY <1>1
  <2>2. closing \in BOOLEAN
    BY <2>1
  <2>3. path \in Seq(Ptr)
    BY <2>1
  <2> QED
    BY ONLY <2>1, <2>2, <2>3 DEF TypeOK, LoopLabels, Ptr
<1>4. IsPath(tree.left, tree.right, tree.root, path)
  BY <1>1 DEF IsPath
<1>5. Control /\ Colours
  <2>1. path \in Seq(Node)
    BY <1>1
  <2> QED
    BY <1>1, <1>2, <1>3, <1>4, <2>1 DEF Control, Colours
<1>6. \E sub : Walk(sub)
  BY <1>1, <1>2 DEF Walk
<1> QED
  BY <1>5, <1>6 DEF Inv

\* What the tree is like when no victim hangs out of order.
LEMMA OrderedTree ==
  ASSUME Inv, pc # "disconnect"
  PROVE  /\ tree \in Tree
         /\ \E sub : Walk(sub) /\ Ordering(tree, sub, KeyOf)
BY DEF Inv, Control, TypeOK, Walk

\* The k-th last entry of the path is the child of the one before it.
LEMMA PathHangs ==
  ASSUME NEW t \in Tree, NEW p, IsPath(t.left, t.right, t.root, p),
         NEW k \in Nat \ {0}, k <= Len(p), FromEnd(p, k) # NULL
  PROVE  /\ FromEnd(p, k) \in Node
         /\ Hangs(t, FromEnd(p, k + 1), FromEnd(p, k))
<1>1. /\ p \in Seq(Ptr) /\ Len(p) \in Nat /\ (p # <<>> => p[1] = t.root)
      /\ \A i \in 1 .. Len(p) - 1 : p[i] \in Node /\ p[i + 1] \in {t.left[p[i]], t.right[p[i]]}
  BY DEF IsPath
<1> DEFINE j == Len(p) - k + 1
<1>2. j \in 1 .. Len(p) /\ FromEnd(p, k) = p[j] /\ p[j] \in Ptr
  BY <1>1 DEF FromEnd
<1>3. FromEnd(p, k) \in Node
  BY <1>2 DEF Ptr
<1>4. CASE j = 1
  <2>1. FromEnd(p, k + 1) = NULL /\ p # <<>>
    BY <1>1, <1>2, <1>4 DEF FromEnd
  <2> QED
    BY <1>1, <1>2, <1>3, <1>4, <2>1 DEF Hangs
<1>5. CASE j > 1
  <2>1. FromEnd(p, k + 1) = p[j - 1] /\ j - 1 \in 1 .. Len(p) - 1 /\ (j - 1) + 1 = j
    BY <1>1, <1>2, <1>5 DEF FromEnd
  <2> QED
    BY <1>1, <1>2, <1>3, <2>1 DEF Hangs
<1> QED
  BY <1>2, <1>3, <1>4, <1>5

-----------------------------------------------------------------------------
(* The calls, and the walk of the lookups.                                 *)

\* A walk begins at the root of a tree that is as it was.
LEMMA CallStep ==
  ASSUME Inv, CallInsert \/ CallRemove \/ CallLookup \/ CallFini
  PROVE  Inv'
<1>1. PICK f, k, loop : Call(f, k, loop) /\ pc = "idle"
  BY DEF CallInsert, CallRemove, CallLookup, CallFini, Call
<1>2. /\ pc = "idle" /\ node' = tree.root /\ path' = <<>> /\ at' = 0
      /\ tree' = tree /\ ret' = ret
  BY <1>1 DEF Call
<1>3. \/ /\ pc' = "fini" /\ op' = "fini" /\ key' = NULL /\ closing' = TRUE
      \/ /\ pc' = "lookup" /\ op' \in {"insert", "remove", "lookup"} /\ key' \in Node
         /\ closing' = FALSE /\ closing = FALSE
         /\ op' = "insert" => key' \notin Linked(tree)
  BY DEF CallInsert, CallRemove, CallLookup, CallFini, Call, Inv, Control, TypeOK
<1>4. tree \in Tree /\ \E sub : Ordering(tree, sub, KeyOf)
  BY <1>2, OrderedTree
<1>5. TypeOK'
  BY <1>2, <1>3, <1>4, TreeFields DEF Inv, Control, TypeOK, LoopLabels, Ptr
<1>6. IsPath(tree'.left, tree'.right, tree'.root, path')
  BY <1>2 DEF IsPath
<1>7. Control'
  <2>1. path' \in Seq(Node)
    BY <1>2
  <2> QED
    BY <1>2, <1>3, <1>5, <1>6, <2>1 DEF Control
<1>8. Colours'
  BY <1>2, <1>3 DEF Inv, Colours
<1>9. \E sub : Walk(sub)'
  BY <1>2, <1>3, <1>4 DEF Walk, Leads
<1> QED
  BY <1>7, <1>8, <1>9 DEF Inv

\* A way down goes on to a child of its last node, or begins at the root.
LEMMA PathOn ==
  ASSUME NEW a \in [Node -> Ptr], NEW b \in [Node -> Ptr], NEW r, NEW p \in Seq(Node),
         IsPath(a, b, r, p), NEW n \in Ptr,
         p = <<>> => n = r, p # <<>> => n \in {a[p[Len(p)]], b[p[Len(p)]]}
  PROVE  IsPath(a, b, r, Append(p, n))
<1> DEFINE q == Append(p, n)
<1>1. /\ Len(p) \in Nat /\ (p # <<>> => p[1] = r) /\ \A i \in 1 .. Len(p) : p[i] \in Node
      /\ \A i \in 1 .. Len(p) - 1 : p[i + 1] \in {a[p[i]], b[p[i]]}
  BY DEF IsPath
<1>2. /\ q \in Seq(Ptr) /\ Len(q) = Len(p) + 1 /\ q[Len(p) + 1] = n
      /\ \A i \in 1 .. Len(p) : q[i] = p[i]
  <2>1. p \in Seq(Ptr)
    BY DEF IsPath
  <2> QED
    BY <2>1
<1> HIDE DEF q
<1>3. q[1] = r
  <2>1. CASE p = <<>>
    BY <1>2, <2>1
  <2>2. CASE p # <<>>
    <3>1. 1 \in 1 .. Len(p)
      BY <1>1, <2>2
    <3> QED
      BY <1>1, <1>2, <2>2, <3>1
  <2> QED
    BY <2>1, <2>2
<1>4. ASSUME NEW i \in 1 .. Len(q) - 1
      PROVE  q[i] \in Node /\ q[i + 1] \in {a[q[i]], b[q[i]]}
  <2>1. i \in 1 .. Len(p) /\ q[i] = p[i] /\ p[i] \in Node
    BY <1>1, <1>2
  <2>2. CASE i = Len(p)
    <3>1. p # <<>> /\ q[i + 1] = n
      BY <1>2, <2>1, <2>2
    <3> QED
      BY <2>1, <2>2, <3>1
  <2>3. CASE i # Len(p)
    <3>1. i \in 1 .. Len(p) - 1 /\ i + 1 \in 1 .. Len(p)
      BY <1>1, <2>1, <2>3
    <3> QED
      BY <1>1, <1>2, <2>1, <3>1
  <2> QED
    BY <2>2, <2>3
<1> QED
  BY <1>2, <1>3, <1>4 DEF IsPath, q

\* No node has the root below it but the root.
LEMMA RootOnTop ==
  ASSUME NEW a, NEW b, NEW r, NEW sub, NEW K, RootedTree(a, b, r, sub, K),
         r # NULL, NEW m \in Node
  PROVE  r \notin sub[a[m]] /\ r \notin sub[b[m]]
<1>1. /\ SearchTree(a, b, sub, K) /\ r \in Node /\ sub \in [Ptr -> SUBSET Node]
      /\ \A n \in Node \ sub[r] : a[n] = NULL /\ b[n] = NULL
      /\ sub[NULL] = {}
  BY DEF RootedTree, Ptr, SearchTree, Spans
<1>2. /\ a[m] \in Ptr /\ b[m] \in Ptr /\ m \notin sub[a[m]] /\ m \notin sub[b[m]]
  BY <1>1, Locally
<1>3. CASE m \notin sub[r]
  BY <1>1, <1>3
<1>4. CASE m \in sub[r]
  <2>1. ASSUME NEW c \in {a[m], b[m]}, r \in sub[c] PROVE FALSE
    <3>1. sub[r] \subseteq sub[c]
      BY <1>1, <1>2, <2>1, Below
    <3> QED
      BY <1>2, <1>4, <2>1, <3>1
  <2> QED
    BY <2>1
<1> QED
  BY <1>3, <1>4

\* The search goes on to the side where its key belongs.
LEMMA LeadsOn ==
  ASSUME NEW t \in Tree, NEW sub, Ordering(t, sub, KeyOf), NEW p \in Seq(Node),
         NEW k \in Node, NEW n \in Node, Leads(t, sub, p, k, n), KeyOf[k] # KeyOf[n]
  PROVE  /\ p # <<>> => n \in {t.left[p[Len(p)]], t.right[p[Len(p)]]}
         /\ Leads(t, sub, Append(p, n), k,
                  IF KeyOf[k] < KeyOf[n] THEN t.left[n] ELSE t.right[n])
<1> DEFINE a == t.left
           b == t.right
           q == Append(p, n)
           l == p[Len(p)]
           n2 == IF KeyOf[k] < KeyOf[n] THEN a[n] ELSE b[n]
<1>1. /\ RootedTree(a, b, t.root, sub, KeyOf) /\ SearchTree(a, b, sub, KeyOf) /\ t.root \in Ptr
      /\ n # NULL /\ KeyOf[k] \in Int /\ KeyOf[n] \in Int /\ n \in Ptr
  BY NullAssumption, KeyAssumption DEF Ordering, RootedTree, Ptr
<1>2. p # <<>> => l \in Node /\ n \in {a[l], b[l]}
  BY DEF Leads
<1>3. Len(q) = Len(p) + 1 /\ q[Len(q)] = n /\ q # <<>>
  OBVIOUS
<1> HIDE DEF q
<1>4. \/ KeyOf[k] < KeyOf[n] /\ n2 = a[n]
      \/ KeyOf[n] < KeyOf[k] /\ n2 = b[n]
  BY <1>1
<1>5. ASSUME NEW m \in Node
      PROVE  /\ n \in sub[a[m]] => KeyOf[k] < KeyOf[m]
             /\ n \in sub[b[m]] => KeyOf[m] < KeyOf[k]
  <2>1. CASE p = <<>>
    <3>1. n = t.root
      BY <2>1 DEF Leads
    <3> QED
      BY <1>1, <3>1, RootOnTop
  <2>2. CASE p # <<>>
    <3>1. /\ \/ KeyOf[k] < KeyOf[l] /\ n = a[l]
             \/ KeyOf[l] < KeyOf[k] /\ n = b[l]
          /\ l \in sub[a[m]] => KeyOf[k] < KeyOf[m]
          /\ l \in sub[b[m]] => KeyOf[m] < KeyOf[k]
      BY <2>2 DEF Leads
    <3>2. /\ l \in sub[t.root] /\ \A x \in Node : n \in {a[x], b[x]} => x = l
          /\ a[l] # b[l]
      BY <1>1, <1>2, <2>2, OnlyParent, Locally
    <3>3. ASSUME NEW c \in {a[m], b[m]}, n \in sub[c]
          PROVE  c = n \/ l \in sub[c]
      <4>1. c # NULL
        BY <1>1, <3>3 DEF SearchTree, Spans
      <4>2. c \in sub[t.root]
        BY <1>1, <4>1, OnlyParent
      <4> QED
        BY <1>1, <1>2, <2>2, <3>2, <3>3, <4>2, ChildBelow
    <3>4. ASSUME n \in sub[a[m]] PROVE KeyOf[k] < KeyOf[m]
      BY <3>1, <3>2, <3>3, <3>4
    <3>5. ASSUME n \in sub[b[m]] PROVE KeyOf[m] < KeyOf[k]
      BY <3>1, <3>2, <3>3, <3>5
    <3> QED
      BY <3>4, <3>5
  <2> QED
    BY <2>1, <2>2
<1> QED
  BY <1>2, <1>3, <1>4, <1>5 DEF Leads, q

\* A search takes one step down.
LEMMA LookupDescendStep ==
  ASSUME Inv, LookupDescend
  PROVE  Inv'
<1>1. /\ pc = "lookup" /\ node # NULL /\ KeyOf[key] # KeyOf[node]
      /\ path' = IF op = "lookup" THEN path ELSE Append(path, node)
      /\ node' = IF KeyOf[key] < KeyOf[node] THEN tree.left[node] ELSE tree.right[node]
      /\ UNCHANGED <<tree, closing, pc, op, key, at, ret>>
  BY DEF LookupDescend
<1>2. /\ tree \in Tree /\ node \in Node /\ key \in Node /\ TypeOK
      /\ path \in Seq(Node) /\ IsPath(tree.left, tree.right, tree.root, path)
      /\ op \in {"insert", "remove", "lookup"} /\ (op = "lookup" => path = <<>>)
      /\ tree.left \in [Node -> Ptr] /\ tree.right \in [Node -> Ptr]
  BY <1>1, TreeFields DEF Inv, Control, TypeOK, Ptr
<1>3. PICK sub : Walk(sub) /\ Ordering(tree, sub, KeyOf)
  BY <1>1, OrderedTree
<1>4. node' \in Ptr
  BY <1>1, <1>2
<1>5. /\ path' \in Seq(Node) /\ path' \in Seq(Ptr)
      /\ IsPath(tree.left, tree.right, tree.root, path')
      /\ op # "lookup" => Leads(tree, sub, path', key, node')
      /\ op = "lookup" => path' = <<>>
  <2>1. CASE op = "lookup"
    BY <1>1, <1>2, <2>1 DEF IsPath
  <2>2. CASE op # "lookup"
    <3>1. Leads(tree, sub, path, key, node)
      BY <1>1, <1>3, <2>2 DEF Walk
    <3>2. /\ path # <<>> => node \in {tree.left[path[Len(path)]], tree.right[path[Len(path)]]}
          /\ Leads(tree, sub, Append(path, node), key, node')
      BY <1>1, <1>2, <1>3, <3>1, LeadsOn
    <3>3. (path = <<>> => node = tree.root) /\ node \in Ptr
      BY <1>2, <3>1 DEF Leads, Ptr
    <3>4. IsPath(tree.left, tree.right, tree.root, Append(path, node))
      BY <1>2, <3>2, <3>3, PathOn
    <3>5. Append(path, node) \in Seq(Node) /\ Append(path, node) \in Seq(Ptr)
      BY <1>2, <3>4 DEF IsPath
    <3> QED
      BY <1>1, <2>2, <3>2, <3>4, <3>5
  <2> QED
    BY <2>1, <2>2
<1>6. TypeOK'
  BY <1>1, <1>2, <1>4, <1>5 DEF TypeOK
<1>7. Control'
  BY <1>1, <1>2, <1>5, <1>6 DEF Inv, Control
<1>8. Colours'
  BY <1>1 DEF Inv, Colours
<1>9. Walk(sub)'
  BY <1>1, <1>3, <1>5 DEF Walk
<1> QED
  BY <1>7, <1>8, <1>9 DEF Inv

\* A lookup that ends, and the calls that end with it.
LEMMA LookupEndStep ==
  ASSUME Inv, LookupReturn \/ InsertDuplicate \/ RemoveMissing
  PROVE  Inv'
<1>1. /\ pc = "lookup" /\ \E r \in {node, -1, NULL} : Return(r)
      /\ tree' = tree /\ closing' = closing
  BY DEF LookupReturn, InsertDuplicate, RemoveMissing
<1>2. PICK r \in {node, -1, NULL} : Return(r)
  BY <1>1
<1>3. r \in Ptr \cup {0, -1} /\ TypeOK /\ closing' \in BOOLEAN
  BY <1>1 DEF Inv, Control, TypeOK, Ptr
<1>4. tree' \in Tree /\ \E sub : Ordering(tree', sub, KeyOf)
  BY <1>1, OrderedTree
<1>5. ~closing' => Sound(tree')
  BY <1>1 DEF Inv, Colours
<1> QED
  BY <1>2, <1>3, <1>4, <1>5, Returned

-----------------------------------------------------------------------------
(* rbtree_remove: the victim and its successor.                            *)

\* The victim is found, and has no two children.
LEMMA RemoveInPlaceStep ==
  ASSUME Inv, RemoveInPlace
  PROVE  Inv'
<1>1. /\ pc = "lookup" /\ op = "remove" /\ node # NULL /\ at' = Len(path) + 1
      /\ tree.right[node] = NULL \/ tree.left[node] = NULL
      /\ path' = Append(path, node) /\ pc' = "disconnect"
      /\ UNCHANGED <<tree, closing, op, key, node, ret>>
  BY DEF RemoveInPlace, RemoveFound, Found
<1>2. /\ tree \in Tree /\ node \in Node /\ TypeOK /\ ~closing /\ Sound(tree)
      /\ path \in Seq(Node) /\ IsPath(tree.left, tree.right, tree.root, path)
      /\ tree.left \in [Node -> Ptr] /\ tree.right \in [Node -> Ptr]
  BY <1>1, TreeFields DEF Inv, Control, Colours, TypeOK, Ptr
<1>3. PICK sub : Walk(sub) /\ Ordering(tree, sub, KeyOf)
  BY <1>1, OrderedTree
<1>4. /\ path' \in Seq(Node) /\ path' # <<>> /\ path'[Len(path')] = node
      /\ at' \in Nat
  BY <1>1, <1>2
<1>5. IsPath(tree.left, tree.right, tree.root, path')
  <2>1. Leads(tree, sub, path, key, node)
    BY <1>1, <1>3 DEF Walk
  <2>2. /\ path = <<>> => node = tree.root
        /\ path # <<>> => node \in {tree.left[path[Len(path)]], tree.right[path[Len(path)]]}
        /\ node \in Ptr
    BY <1>2, <2>1 DEF Leads, Ptr
  <2> QED
    BY <1>1, <1>2, <2>2, PathOn
<1>6. path' \in Seq(Ptr)
  BY <1>5 DEF IsPath
<1>7. TypeOK'
  BY <1>1, <1>2, <1>4, <1>6 DEF TypeOK, LoopLabels
<1>8. Ripe(tree, sub, path')
  <2>1. AscendsBut(tree.left, tree.right, sub, KeyOf, node)
    BY <1>3 DEF Ordering, RootedTree, SearchTree, Ascends, AscendsBut
  <2> QED
    BY <1>1, <1>2, <1>3, <1>4, <2>1 DEF Ripe
<1>9. Control'
  BY <1>1, <1>2, <1>4, <1>5, <1>7 DEF Control
<1>10. Colours' /\ Walk(sub)'
  BY <1>1, <1>2, <1>8 DEF Colours, Walk
<1> QED
  BY <1>9, <1>10 DEF Inv

\* The victim has two children, and its successor is not the right one.
LEMMA RemoveSeekStep ==
  ASSUME Inv, RemoveSeekSuccessor
  PROVE  Inv'
<1>1. /\ pc = "lookup" /\ op = "remove" /\ node # NULL /\ at' = Len(path) + 1
      /\ tree.right[node] # NULL /\ tree.left[tree.right[node]] # NULL
      /\ path' = Append(path, node) /\ node' = tree.right[node] /\ pc' = "leftmost"
      /\ UNCHANGED <<tree, closing, op, key, ret>>
  BY DEF RemoveSeekSuccessor, RemoveFound, Found
<1>2. /\ tree \in Tree /\ node \in Node /\ TypeOK /\ ~closing /\ Sound(tree)
      /\ path \in Seq(Node) /\ IsPath(tree.left, tree.right, tree.root, path)
      /\ tree.left \in [Node -> Ptr] /\ tree.right \in [Node -> Ptr]
  BY <1>1, TreeFields DEF Inv, Control, Colours, TypeOK, Ptr
<1>3. PICK sub : Walk(sub) /\ Ordering(tree, sub, KeyOf)
  BY <1>1, OrderedTree
<1>4. /\ path' \in Seq(Node) /\ path' # <<>> /\ path'[Len(path')] = node
      /\ at' \in Nat /\ at' = Len(path') /\ at' \in 1 .. Len(path') /\ node' \in Ptr
  BY <1>1, <1>2
<1>5. IsPath(tree.left, tree.right, tree.root, path')
  <2>1. Leads(tree, sub, path, key, node)
    BY <1>1, <1>3 DEF Walk
  <2>2. /\ path = <<>> => node = tree.root
        /\ path # <<>> => node \in {tree.left[path[Len(path)]], tree.right[path[Len(path)]]}
        /\ node \in Ptr
    BY <1>2, <2>1 DEF Leads, Ptr
  <2> QED
    BY <1>1, <1>2, <2>2, PathOn
<1>6. path' \in Seq(Ptr)
  BY <1>5 DEF IsPath
<1>7. TypeOK'
  BY <1>1, <1>2, <1>4, <1>6 DEF TypeOK, LoopLabels
<1>8. Seeks(tree, sub, path', at', node')
  BY <1>1, <1>2, <1>4 DEF Seeks
<1>9. Control'
  BY <1>1, <1>2, <1>4, <1>5, <1>7 DEF Control
<1>10. Colours' /\ Walk(sub)'
  BY <1>1, <1>2, <1>3, <1>8 DEF Colours, Walk
<1> QED
  BY <1>9, <1>10 DEF Inv

\* One step further to the left, what is passed by is greater.
LEMMA SeeksOn ==
  ASSUME NEW t \in Tree, NEW sub, Ordering(t, sub, KeyOf), NEW p \in Seq(Node),
         NEW i, NEW n \in Node, Seeks(t, sub, p, i, n)
  PROVE  /\ p # <<>> /\ n \in {t.left[p[Len(p)]], t.right[p[Len(p)]]}
         /\ Seeks(t, sub, Append(p, n), i, t.left[n])
<1> DEFINE a == t.left
           b == t.right
           q == Append(p, n)
           l == p[Len(p)]
           top == b[p[i]]
<1>1. /\ SearchTree(a, b, sub, KeyOf) /\ a \in [Node -> Ptr] /\ b \in [Node -> Ptr]
      /\ sub \in [Ptr -> SUBSET Node] /\ \A m \in Node : KeyOf[m] \in Int
  BY KeyAssumption DEF Ordering, RootedTree, SearchTree, Spans
<1>2. /\ i \in 1 .. Len(p) /\ p[i] \in Node /\ Len(p) \in Nat /\ l \in Node
      /\ top \in Node /\ a[top] # NULL
  BY <1>1 DEF Seeks, Ptr
<1>3. /\ Len(q) = Len(p) + 1 /\ q[Len(q)] = n /\ q \in Seq(Node)
      /\ \A j \in 1 .. Len(p) : q[j] = p[j]
  OBVIOUS
<1> HIDE DEF q
<1>4. /\ sub[n] = {n} \cup sub[a[n]] \cup sub[b[n]]
      /\ \A m \in sub[b[n]] : KeyOf[n] < KeyOf[m]
  BY <1>1 DEF SearchTree, Spans, Ascends
<1>5. CASE Len(p) = i
  <2>1. n = top /\ l = p[i]
    BY <1>5 DEF Seeks
  <2>2. n \in sub[top] /\ \A m \in sub[top] : m \in sub[a[n]] \/ m = n \/ KeyOf[n] < KeyOf[m]
    BY <1>1, <1>4, <2>1
  <2>3. q[i + 1] = top /\ q[i] = p[i] /\ i \in 1 .. Len(q)
    BY <1>2, <1>3, <1>5, <2>1
  <2>4. Seeks(t, sub, q, i, a[n])
    <3>1. Len(q) > i /\ Len(q) # i
      BY <1>2, <1>3, <1>5
    <3> QED
      BY <1>2, <1>3, <2>2, <2>3, <3>1 DEF Seeks
  <2> QED
    BY <1>2, <2>1, <2>4 DEF q
<1>6. CASE Len(p) # i
  <2>1. /\ Len(p) > i /\ p[i + 1] = top /\ l \in sub[top] /\ n = a[l]
        /\ \A m \in sub[top] : m \in sub[n] \/ m = l \/ KeyOf[l] < KeyOf[m]
    BY <1>2, <1>6 DEF Seeks
  <2>2. n \in sub[l] /\ KeyOf[n] < KeyOf[l] /\ sub[l] \subseteq sub[top] /\ sub[top] \subseteq Node
    <3>1. n \in sub[a[l]] /\ n \in sub[l]
      <4>1. sub[l] = {l} \cup sub[a[l]] \cup sub[b[l]] /\ (a[l] # NULL => a[l] \in sub[a[l]])
        BY <1>1, <1>2, Locally
      <4>2. a[l] # NULL
        BY <2>1, NullAssumption
      <4> QED
        BY <2>1, <4>1, <4>2
    <3>2. KeyOf[n] < KeyOf[l]
      BY <1>1, <1>2, <3>1 DEF SearchTree, Ascends
    <3>3. top \in Ptr
      BY <1>2 DEF Ptr
    <3>4. sub[l] \subseteq sub[top]
      BY <1>1, <2>1, <3>3, Below
    <3> QED
      BY <1>1, <3>1, <3>2, <3>3, <3>4
  <2>3. ASSUME NEW m \in sub[top]
        PROVE  m \in sub[a[n]] \/ m = n \/ KeyOf[n] < KeyOf[m]
    <3>1. m \in Node /\ KeyOf[m] \in Int /\ KeyOf[l] \in Int /\ KeyOf[n] \in Int
      BY <1>1, <1>2, <2>2
    <3> QED
      BY <1>4, <2>1, <2>2, <3>1, SMTT(30)
  <2>4. /\ q[i + 1] = top /\ q[i] = p[i] /\ i \in 1 .. Len(q) /\ Len(q) > i /\ Len(q) # i
    BY <1>2, <1>3, <2>1
  <2>5. Seeks(t, sub, q, i, a[n])
    BY <1>2, <1>3, <2>1, <2>2, <2>3, <2>4 DEF Seeks
  <2> QED
    BY <1>2, <2>1, <2>5 DEF q
<1> QED
  BY <1>5, <1>6

\* rbtree_leftmost_path takes one step down.
LEMMA LeftmostDescendStep ==
  ASSUME Inv, LeftmostDescend
  PROVE  Inv'
<1>1. /\ pc = "leftmost" /\ node # NULL
      /\ path' = Append(path, node) /\ node' = tree.left[node]
      /\ UNCHANGED <<tree, closing, pc, op, key, at, ret>>
  BY DEF LeftmostDescend
<1>2. /\ tree \in Tree /\ node \in Node /\ TypeOK
      /\ path \in Seq(Node) /\ IsPath(tree.left, tree.right, tree.root, path)
      /\ tree.left \in [Node -> Ptr] /\ tree.right \in [Node -> Ptr] /\ node \in Ptr
  BY <1>1, TreeFields DEF Inv, Control, TypeOK, Ptr
<1>3. PICK sub : Walk(sub) /\ Ordering(tree, sub, KeyOf)
  BY <1>1, OrderedTree
<1>4. Seeks(tree, sub, path, at, node)
  BY <1>1, <1>3 DEF Walk
<1>5. /\ path # <<>> /\ node \in {tree.left[path[Len(path)]], tree.right[path[Len(path)]]}
      /\ Seeks(tree, sub, path', at, node')
  BY <1>1, <1>2, <1>3, <1>4, SeeksOn
<1>6. IsPath(tree.left, tree.right, tree.root, path')
  BY <1>1, <1>2, <1>5, PathOn
<1>7. path' \in Seq(Node) /\ path' \in Seq(Ptr) /\ node' \in Ptr
  BY <1>1, <1>2, <1>6 DEF IsPath
<1>8. TypeOK'
  BY <1>1, <1>2, <1>7 DEF TypeOK
<1>9. Control'
  BY <1>1, <1>2, <1>6, <1>7, <1>8 DEF Inv, Control
<1>10. Colours' /\ Walk(sub)'
  BY <1>1, <1>3, <1>5 DEF Inv, Colours, Walk
<1> QED
  BY <1>9, <1>10 DEF Inv

\* The victim v and its successor s have changed places and colours.
LEMMA PlacesTaken ==
  ASSUME NEW t \in Tree, NEW sub, Ordering(t, sub, KeyOf), Sound(t),
         NEW v \in sub[t.root], v \in Node, NEW s \in sub[t.right[v]], s \in Node,
         t.left[s] = NULL,
         \A m \in sub[t.right[v]] \ {s} : KeyOf[s] < KeyOf[m],
         NEW t2 \in Tree, t2.red = ExchangedSet(t.red, v, s), t2.root = Swap(t.root, v, s),
         Exchanged(t.left, t2.left, v, s), Exchanged(t.right, t2.right, v, s)
  PROVE  /\ Sound(t2) /\ t2.left[v] = NULL
         /\ \E sub2 : /\ AscendsBut(t2.left, t2.right, sub2, KeyOf, v)
                      /\ \E K : Ordering(t2, sub2, K)
         /\ Linked(t2) = Linked(t)
<1>1. /\ t.left \in [Node -> Ptr] /\ t.right \in [Node -> Ptr] /\ t.red \in SUBSET Node
      /\ t.root \in Ptr /\ v # NULL /\ s # NULL
      /\ RootedTree(t.left, t.right, t.root, sub, KeyOf)
  BY NullAssumption, TreeFields DEF Ordering
<1>2. Sound(t2)
  <2>1. PICK bh : Heights(t.left, t.right, t.red, bh, NULL, 0, 0)
    BY DEF Sound
  <2>2. RedFree(t.left, t.right, t.red, NULL)
    BY DEF Sound
  <2>3. /\ \E bh2 : Heights(t2.left, t2.right, t2.red, bh2, NULL, 0, 0)
        /\ RedFree(t2.left, t2.right, t2.red, NULL)
    BY <1>1, <2>1, <2>2, ExchangedColors
  <2>4. t2.root \notin t2.red
    <3>1. t.root \notin t.red
      BY DEF Sound
    <3> QED
      BY <3>1 DEF ExchangedSet, Swap
  <2> QED
    BY <2>3, <2>4 DEF Sound
<1>3. t2.left[v] = NULL
  BY <1>1 DEF Exchanged, Swap
<1>4. \E sub2, K2 : /\ RootedTree(t2.left, t2.right, Swap(t.root, v, s), sub2, K2)
                    /\ AscendsBut(t2.left, t2.right, sub2, KeyOf, v)
                    /\ sub2[Swap(t.root, v, s)] = sub[t.root]
  BY <1>1, ExchangedTree
<1>5. Linked(t2) = Linked(t)
  <2>1. PICK sub2, K2 : /\ RootedTree(t2.left, t2.right, t2.root, sub2, K2)
                        /\ sub2[t2.root] = sub[t.root]
    BY <1>4
  <2> QED
    BY <1>1, <2>1, LinkedBelow
<1> QED
  BY <1>2, <1>3, <1>4, <1>5 DEF Ordering

\* The successor is the victim's right child.
LEMMA RemoveSwapChildStep ==
  ASSUME Inv, RemoveSwapChild
  PROVE  Inv' /\ Linked(tree') = Linked(tree)
<1> DEFINE s == tree.right[node]
           t1 == SetRight(SetRight(tree, node, tree.right[s]), s, node)
<1>1. /\ pc = "lookup" /\ op = "remove" /\ node # NULL /\ at' = Len(path) + 1
      /\ s # NULL /\ tree.left[s] = NULL /\ tree.left[node] # NULL
      /\ tree' = TakePlace(t1, node, s, FromEnd(path, 1))
      /\ path' = path \o <<s, node>> /\ pc' = "disconnect"
      /\ UNCHANGED <<closing, op, key, node, ret>>
  BY DEF RemoveSwapChild, RemoveFound, Found
<1>2. /\ tree \in Tree /\ node \in Node /\ TypeOK /\ ~closing /\ Sound(tree)
      /\ path \in Seq(Node) /\ IsPath(tree.left, tree.right, tree.root, path)
      /\ tree.left \in [Node -> Ptr] /\ tree.right \in [Node -> Ptr] /\ node \in Ptr
      /\ s \in Node /\ s \in Ptr /\ s # NULL
  BY <1>1, TreeFields DEF Inv, Control, Colours, TypeOK, Ptr
<1>3. PICK sub : Walk(sub) /\ Ordering(tree, sub, KeyOf)
  BY <1>1, OrderedTree
<1>4. /\ RootedTree(tree.left, tree.right, tree.root, sub, KeyOf)
      /\ SearchTree(tree.left, tree.right, sub, KeyOf)
  BY <1>3 DEF Ordering, RootedTree
<1> DEFINE p1 == Append(path, node)
           p2 == Append(p1, s)
<1>5. IsPath(tree.left, tree.right, tree.root, p1)
  <2>1. Leads(tree, sub, path, key, node)
    BY <1>1, <1>3 DEF Walk
  <2>2. /\ path = <<>> => node = tree.root
        /\ path # <<>> => node \in {tree.left[path[Len(path)]], tree.right[path[Len(path)]]}
    BY <2>1 DEF Leads
  <2> QED
    BY <1>2, <2>2, PathOn
<1>6. /\ p1 \in Seq(Node) /\ Len(p1) = Len(path) + 1 /\ p1[Len(p1)] = node /\ p1 # <<>>
      /\ \A i \in 1 .. Len(path) : p1[i] = path[i]
      /\ FromEnd(p1, 1) = node /\ FromEnd(p1, 2) = FromEnd(path, 1)
      /\ Len(path) \in Nat
  BY <1>2 DEF FromEnd
<1> HIDE DEF p1
<1>7. IsPath(tree.left, tree.right, tree.root, p2)
  BY <1>2, <1>5, <1>6, PathOn
<1>8. /\ p2 \in Seq(Node) /\ Len(p2) = Len(path) + 2
      /\ p2[Len(path) + 1] = node /\ p2[Len(path) + 2] = s
      /\ \A i \in 1 .. Len(path) : p2[i] = path[i]
  <2>1. \A i \in 1 .. Len(p1) : p2[i] = p1[i]
    BY <1>2, <1>6
  <2>2. p2 \in Seq(Node) /\ Len(p2) = Len(p1) + 1 /\ p2[Len(p1) + 1] = s
    BY <1>2, <1>6
  <2>3. \A i \in 1 .. Len(path) : i \in 1 .. Len(p1)
    BY <1>6
  <2>4. Len(p1) \in 1 .. Len(p1)
    BY <1>6
  <2> QED
    BY <1>6, <2>1, <2>2, <2>3, <2>4
<1> HIDE DEF p2
<1>9. /\ node \in sub[tree.root] /\ s # node
      /\ \A i \in 1 .. Len(path) : path[i] \notin {node, s}
  <2>1. \A j \in 1 .. Len(p2) : p2[j] # NULL =>
           /\ p2[j] \in sub[tree.root]
           /\ \A i \in 1 .. j - 1 : p2[i] # p2[j]
    BY <1>4, <1>7, PathBelow
  <2>2. /\ Len(path) + 1 \in 1 .. Len(p2) /\ Len(path) + 2 \in 1 .. Len(p2)
        /\ Len(path) + 1 \in 1 .. (Len(path) + 2) - 1
        /\ \A i \in 1 .. Len(path) : /\ i \in 1 .. (Len(path) + 1) - 1
                                     /\ i \in 1 .. (Len(path) + 2) - 1
    BY <1>6, <1>8
  <2>3. /\ node \in sub[tree.root]
        /\ \A i \in 1 .. (Len(path) + 1) - 1 : p2[i] # node
    BY <1>1, <1>8, <2>1, <2>2
  <2>4. \A i \in 1 .. (Len(path) + 2) - 1 : p2[i] # s
    BY <1>2, <1>8, <2>1, <2>2
  <2> QED
    BY <1>8, <2>2, <2>3, <2>4
<1>10. Hangs(tree, FromEnd(path, 1), node)
  <2>1. 1 \in Nat \ {0} /\ 1 <= Len(p1) /\ 1 + 1 = 2
    BY <1>6
  <2> QED
    BY <1>1, <1>2, <1>5, <1>6, <2>1, PathHangs
<1>11. /\ tree' \in Tree /\ tree'.red = ExchangedSet(tree.red, node, s)
       /\ tree'.root = Swap(tree.root, node, s)
       /\ Exchanged(tree.left, tree'.left, node, s)
       /\ Exchanged(tree.right, tree'.right, node, s)
  BY <1>1, <1>2, <1>3, <1>10, ExchangeChildIs
<1>12. /\ s \in sub[tree.right[node]]
       /\ \A m \in sub[tree.right[node]] \ {s} : KeyOf[s] < KeyOf[m]
  <2>1. sub[s] = {s} \cup sub[tree.left[s]] \cup sub[tree.right[s]] /\ sub[NULL] = {}
    BY <1>2, <1>4 DEF SearchTree, Spans
  <2>2. \A m \in sub[tree.right[s]] : KeyOf[s] < KeyOf[m]
    BY <1>2, <1>4 DEF SearchTree, Ascends
  <2> QED
    BY <1>1, <2>1, <2>2
<1>13. /\ Sound(tree') /\ tree'.left[node] = NULL
       /\ \E sub2 : /\ AscendsBut(tree'.left, tree'.right, sub2, KeyOf, node)
                    /\ \E K : Ordering(tree', sub2, K)
       /\ Linked(tree') = Linked(tree)
  <2>1. /\ tree \in Tree /\ Ordering(tree, sub, KeyOf) /\ Sound(tree)
        /\ node \in sub[tree.root] /\ node \in Node /\ s \in Node /\ tree.left[s] = NULL
    BY <1>1, <1>2, <1>3, <1>9
  <2> QED
    BY ONLY <1>11, <1>12, <2>1, PlacesTaken, SMTT(30)
<1>14. /\ path' \in Seq(Node) /\ path' \in Seq(Ptr) /\ path' # <<>>
       /\ Len(path') = Len(path) + 2 /\ path'[Len(path')] = node
       /\ \A i \in 1 .. Len(p2) : path'[i] = Swap(p2[i], node, s)
  <2>1. path' \in Seq(Node) /\ Len(path') = Len(path) + 2
    BY <1>1, <1>2
  <2>2. path' \in Seq(Ptr)
    <3>1. path \in Seq(Ptr)
      BY <1>2 DEF IsPath
    <3> QED
      BY <1>1, <1>2, <3>1
  <2>3. /\ path'[Len(path) + 1] = s /\ path'[Len(path) + 2] = node
        /\ \A i \in 1 .. Len(path) : path'[i] = path[i]
    BY <1>1, <1>2, <1>6
  <2>4. ASSUME NEW i \in 1 .. Len(p2) PROVE path'[i] = Swap(p2[i], node, s)
    <3>1. i \in 1 .. Len(path) \/ i = Len(path) + 1 \/ i = Len(path) + 2
      BY <1>6, <1>8
    <3>2. CASE i \in 1 .. Len(path)
      BY <1>8, <1>9, <2>3, <3>2 DEF Swap
    <3>3. CASE i = Len(path) + 1
      BY <1>8, <2>3, <3>3 DEF Swap
    <3>4. CASE i = Len(path) + 2
      BY <1>8, <1>9, <2>3, <3>4 DEF Swap
    <3> QED
      BY <3>1, <3>2, <3>3, <3>4
  <2> QED
    BY <1>6, <2>1, <2>2, <2>3, <2>4
<1>15. IsPath(tree'.left, tree'.right, tree'.root, path')
  <2>1. IsPath(tree'.left, tree'.right, Swap(tree.root, node, s), path')
    <3>1. ExchangedSeq(p2, path', node, s)
      BY <1>8, <1>14 DEF ExchangedSeq
    <3> HIDE DEF s
    <3> QED
      BY <1>2, <1>7, <1>8, <1>11, <1>14, <3>1, ExchangedPath
  <2> QED
    BY <1>11, <2>1
<1>16. TypeOK'
  BY <1>1, <1>2, <1>6, <1>11, <1>14 DEF TypeOK, LoopLabels
<1>17. Control'
  BY <1>1, <1>2, <1>14, <1>15, <1>16 DEF Control
<1>18. Colours'
  BY <1>1, <1>13 DEF Colours
<1>19. \E sub2 : Walk(sub2)'
  <2>1. PICK sub2 : /\ AscendsBut(tree'.left, tree'.right, sub2, KeyOf, node)
                    /\ \E K : Ordering(tree', sub2, K)
    BY <1>13
  <2>2. Ripe(tree', sub2, path')
    BY <1>2, <1>13, <1>14, <2>1 DEF Ripe
  <2> QED
    BY <1>1, <2>2 DEF Walk
<1> QED
  BY <1>13, <1>17, <1>18, <1>19 DEF Inv

\* The successor was found deeper down.
LEMMA RemoveSwapSuccessorStep ==
  ASSUME Inv, RemoveSwapSuccessor
  PROVE  Inv' /\ Linked(tree') = Linked(tree)
<1> DEFINE v == path[at]
           s == FromEnd(path, 1)
           ps == FromEnd(path, 2)
           pv == IF at > 1 THEN path[at - 1] ELSE NULL
           t1 == SetRight(SetRight(tree, s, tree.right[v]), v, tree.right[s])
           n == Len(path)
<1>1. /\ pc = "leftmost" /\ node = NULL
      /\ tree' = TakePlace(ReplaceChild(t1, ps, s, v), v, s, pv)
      /\ path' = [path EXCEPT ![at] = s, ![n] = v] /\ pc' = "disconnect"
      /\ UNCHANGED <<closing, op, key, node, at, ret>>
  BY DEF RemoveSwapSuccessor
<1>2. /\ tree \in Tree /\ TypeOK /\ ~closing /\ Sound(tree)
      /\ path \in Seq(Node) /\ IsPath(tree.left, tree.right, tree.root, path) /\ n \in Nat
      /\ \A i \in 1 .. n : path[i] \in Node /\ path[i] # NULL
      /\ tree.left \in [Node -> Ptr] /\ tree.right \in [Node -> Ptr]
  BY <1>1, TreeFields, NullAssumption DEF Inv, Control, Colours, TypeOK
<1>3. PICK sub : Walk(sub) /\ Ordering(tree, sub, KeyOf)
  BY <1>1, OrderedTree
<1>4. /\ RootedTree(tree.left, tree.right, tree.root, sub, KeyOf)
      /\ sub[NULL] = {}
  BY <1>3 DEF Ordering, RootedTree, SearchTree, Spans
<1>5. Seeks(tree, sub, path, at, node)
  BY <1>1, <1>3 DEF Walk
<1>6. /\ at \in 1 .. n /\ v \in Node /\ at > 0 /\ at \in Nat
      /\ tree.right[v] # NULL /\ tree.left[tree.right[v]] # NULL
      /\ n > at /\ path[at + 1] = tree.right[v]
      /\ path[n] \in sub[tree.right[v]] /\ tree.left[path[n]] = NULL
      /\ \A m \in sub[tree.right[v]] \ {path[n]} : KeyOf[path[n]] < KeyOf[m]
  BY <1>1, <1>2, <1>4, <1>5 DEF Seeks
<1>7. /\ n > at + 1 /\ n >= 2 /\ s = path[n] /\ ps = path[n - 1]
      /\ n \in 1 .. n /\ n - 1 \in 1 .. n /\ s \in Node /\ ps \in Node /\ s # NULL
  <2>1. n # at + 1
    BY <1>6
  <2>2. n > at + 1 /\ n >= 2 /\ n \in 1 .. n /\ n - 1 \in 1 .. n
    BY <1>2, <1>6, <2>1
  <2>3. s = path[n] /\ ps = path[n - 1]
    <3>1. n - 1 + 1 = n /\ n - 2 + 1 = n - 1
      BY <1>2
    <3> QED
      BY <2>2, <3>1 DEF FromEnd
  <2> QED
    BY <1>2, <2>2, <2>3
<1>8. \A j \in 1 .. n : /\ path[j] \in sub[tree.root]
                        /\ \A i \in 1 .. j - 1 : path[i] # path[j]
  BY <1>2, <1>4, PathBelow
<1>9. \A i, j \in 1 .. n : path[i] = path[j] => i = j
  <2>1. ASSUME NEW i \in 1 .. n, NEW j \in 1 .. n, path[i] = path[j], i # j PROVE FALSE
    <3>1. i \in 1 .. j - 1 \/ j \in 1 .. i - 1
      BY <1>2, <2>1
    <3> QED
      BY <1>8, <2>1, <3>1
  <2> QED
    BY <2>1
<1>10. /\ Hangs(tree, pv, v) /\ Hangs(tree, ps, s)
       /\ s # v /\ ps # v /\ ps # pv /\ pv # s
  <2>1. s # v /\ ps # v
    BY <1>2, <1>6, <1>7, <1>9
  <2>2. Hangs(tree, ps, s)
    <3>1. 1 \in Nat \ {0} /\ 1 <= n /\ 1 + 1 = 2
      BY <1>7
    <3> QED
      BY <1>2, <1>7, <3>1, PathHangs
  <2>3. Hangs(tree, pv, v)
    <3> DEFINE k == n - at + 1
    <3>1. k \in Nat \ {0} /\ k <= n /\ n - k + 1 = at /\ (n >= k + 1 <=> at > 1)
          /\ n - (k + 1) + 1 = at - 1
      BY <1>2, <1>6
    <3>2. FromEnd(path, k) = v /\ FromEnd(path, k + 1) = pv
      BY <3>1 DEF FromEnd
    <3>3. v # NULL
      BY <1>2, <1>6
    <3> HIDE DEF k, pv, v
    <3> QED
      BY <1>2, <3>1, <3>2, <3>3, PathHangs
  <2>4. ps # pv /\ pv # s
    <3>1. CASE at > 1
      <4>1. at - 1 \in 1 .. n /\ at - 1 # n - 1 /\ at - 1 # n /\ pv = path[at - 1]
        BY <1>2, <1>6, <1>7, <3>1
      <4> QED
        BY <1>7, <1>9, <4>1
    <3>2. CASE ~(at > 1)
      BY <1>2, <1>7, <3>2
    <3> QED
      BY <3>1, <3>2
  <2> QED
    BY <2>1, <2>2, <2>3, <2>4
<1>11. /\ tree' \in Tree /\ tree'.red = ExchangedSet(tree.red, v, s)
       /\ tree'.root = Swap(tree.root, v, s)
       /\ Exchanged(tree.left, tree'.left, v, s)
       /\ Exchanged(tree.right, tree'.right, v, s)
  <2>1. tree.left[s] = NULL
    BY <1>6, <1>7
  <2> HIDE DEF v, s, ps, pv
  <2> QED
    BY <1>1, <1>2, <1>3, <1>6, <1>7, <1>10, <2>1, ExchangeDeepIs
<1>12. /\ Sound(tree') /\ tree'.left[v] = NULL
       /\ \E sub2 : /\ AscendsBut(tree'.left, tree'.right, sub2, KeyOf, v)
                    /\ \E K : Ordering(tree', sub2, K)
       /\ Linked(tree') = Linked(tree)
  <2>1. /\ s \in sub[tree.right[v]] /\ tree.left[s] = NULL /\ v \in sub[tree.root]
        /\ \A m \in sub[tree.right[v]] \ {s} : KeyOf[s] < KeyOf[m]
    BY <1>6, <1>7, <1>8
  <2> HIDE DEF v, s
  <2> QED
    BY <1>2, <1>3, <1>6, <1>7, <1>11, <2>1, PlacesTaken
<1>13. /\ path' \in Seq(Node) /\ Len(path') = n /\ path' # <<>> /\ path'[Len(path')] = v
       /\ \A i \in 1 .. n : path'[i] = Swap(path[i], v, s)
  <2>1. path' \in Seq(Node) /\ Len(path') = n
    BY <1>1, <1>2, <1>6, <1>7
  <2>2. \A i \in 1 .. n : path'[i] = IF i = n THEN v ELSE IF i = at THEN s ELSE path[i]
    BY <1>1, <1>2, <1>6, <1>7
  <2>3. path'[n] = v
    BY <1>7, <2>2
  <2>4. ASSUME NEW i \in 1 .. n PROVE path'[i] = Swap(path[i], v, s)
    <3>1. CASE i = n
      BY <1>7, <1>10, <2>2, <3>1 DEF Swap
    <3>2. CASE i = at
      BY <1>6, <2>2, <3>2 DEF Swap
    <3>3. CASE i # n /\ i # at
      <4>1. path[i] # v /\ path[i] # s
        BY <1>6, <1>7, <1>9, <3>3
      <4> QED
        BY <2>2, <3>3, <4>1 DEF Swap
    <3> QED
      BY <3>1, <3>2, <3>3
  <2>5. path' # <<>>
    BY <1>7, <2>1
  <2> QED
    BY <2>1, <2>3, <2>4, <2>5
<1>14. path' \in Seq(Ptr)
  <2>1. path \in Seq(Ptr) /\ v \in Ptr /\ s \in Ptr
    BY <1>2, <1>6, <1>7 DEF IsPath, Ptr
  <2> QED
    BY <1>1, <1>2, <1>6, <1>7, <2>1
<1>15. IsPath(tree'.left, tree'.right, tree'.root, path')
  <2> HIDE DEF v, s
  <2>1. IsPath(tree'.left, tree'.right, Swap(tree.root, v, s), path')
    <3>1. ExchangedSeq(path, path', v, s)
      BY <1>13 DEF ExchangedSeq
    <3> QED
      BY <1>2, <1>6, <1>7, <1>11, <1>13, <1>14, <3>1, ExchangedPath
  <2> QED
    BY <1>11, <2>1
<1>16. TypeOK'
  BY <1>1, <1>2, <1>11, <1>14 DEF TypeOK, LoopLabels
<1>17. Control'
  BY <1>1, <1>2, <1>13, <1>15, <1>16 DEF Control
<1>18. Colours'
  BY <1>1, <1>12 DEF Colours
<1>19. \E sub2 : Walk(sub2)'
  <2>1. PICK sub2 : /\ AscendsBut(tree'.left, tree'.right, sub2, KeyOf, v)
                    /\ \E K : Ordering(tree', sub2, K)
    BY <1>12
  <2>2. Ripe(tree', sub2, path')
    <3> HIDE DEF v
    <3> QED
      BY <1>6, <1>12, <1>13, <2>1 DEF Ripe
  <2> QED
    BY <1>1, <2>2 DEF Walk
<1> QED
  BY <1>12, <1>17, <1>18, <1>19 DEF Inv

-----------------------------------------------------------------------------
(* rbtree_insert.                                                          *)

\* The nodes of p up to the j-th have the children they had.
SameAbove(a, b, a2, b2, p, j) ==
  \A i \in 1 .. j : a2[p[i]] = a[p[i]] /\ b2[p[i]] = b[p[i]]

\* A way down without its last k entries.
LEMMA PathKept ==
  ASSUME NEW a, NEW b, NEW r, NEW p, IsPath(a, b, r, p), NEW k \in Nat, k <= Len(p),
         NEW a2, NEW b2, NEW r2, k < Len(p) => r2 = r,
         SameAbove(a, b, a2, b2, p, Len(p) - k - 1)
  PROVE  /\ IsPath(a2, b2, r2, Shorten(p, k))
         /\ Len(Shorten(p, k)) = Len(p) - k
         /\ \A i \in 1 .. Len(p) - k : Shorten(p, k)[i] = p[i]
         /\ k >= 1 => Shorten(p, k) \in Seq(Node)
<1> DEFINE q == Shorten(p, k)
           n == Len(p) - k
<1>1. /\ p \in Seq(Ptr) /\ Len(p) \in Nat /\ (p # <<>> => p[1] = r)
      /\ \A i \in 1 .. Len(p) - 1 : p[i] \in Node /\ p[i + 1] \in {a[p[i]], b[p[i]]}
  BY SMTT(30) DEF IsPath
<1>2. n \in Nat /\ q \in Seq(Ptr) /\ Len(q) = n /\ \A i \in 1 .. n : q[i] = p[i]
  BY <1>1 DEF Shorten
<1> HIDE DEF q
<1>3. q # <<>> => q[1] = r2
  <2>1. q # <<>> => n >= 1
    BY <1>2
  <2> QED
    BY <1>1, <1>2, <2>1
<1>4. ASSUME NEW i \in 1 .. Len(q) - 1
      PROVE  q[i] \in Node /\ q[i + 1] \in {a2[q[i]], b2[q[i]]}
  <2>1. i \in 1 .. n /\ i + 1 \in 1 .. n /\ i \in 1 .. Len(p) - 1 /\ i \in 1 .. n - 1
    BY <1>1, <1>2
  <2>2. a2[p[i]] = a[p[i]] /\ b2[p[i]] = b[p[i]]
    BY <2>1 DEF SameAbove
  <2> QED
    BY <1>1, <1>2, <2>1, <2>2
<1>5. k >= 1 => q \in Seq(Node)
  <2>1. ASSUME k >= 1 PROVE \A i \in 1 .. Len(q) : q[i] \in Node
    BY <1>1, <1>2, <2>1
  <2> QED
    BY <1>2, <2>1
<1> QED
  BY <1>2, <1>3, <1>4, <1>5 DEF IsPath, q

\* By its key k belongs on the side a of l, and l's ancestors agree.
Fits(a, b, sub, K, k, l) ==
  /\ K[k] < K[l]
  /\ \A n \in Node : /\ l \in sub[a[n]] => K[k] < K[n]
                     /\ l \in sub[b[n]] => K[n] < K[k]

\* k was stored as the child of l on the side a.
Stored(a, a2, l, k) == a2 = [a EXCEPT ![l] = k]

\* k becomes a red leaf on the side a of l, at the end of the way down p.
LEMMA LeafPut ==
  ASSUME NEW a, NEW b, NEW r, NEW sub, NEW K, RootedTree(a, b, r, sub, K),
         NEW p \in Seq(Node), p # <<>>, IsPath(a, b, r, p), NEW l, l = p[Len(p)], a[l] = NULL,
         NEW k \in Node \ sub[r], Fits(a, b, sub, K, k, l),
         NEW red \in SUBSET Node, RedFree(a, b, red, NULL),
         NEW bh, Heights(a, b, red, bh, NULL, 0, 0),
         NEW a2, Stored(a, a2, l, k)
  PROVE  /\ \E sub2 : RootedTree(a2, b, r, sub2, K)
         /\ \E bh2 : Heights(a2, b, red \cup {k}, bh2, NULL, 0, 0)
         /\ RedFree(a2, b, red \cup {k}, k)
         /\ IsPath(a2, b, r, Append(p, k))
         /\ r # k
<1>1. /\ a \in [Node -> Ptr] /\ b \in [Node -> Ptr] /\ r \in Ptr /\ Len(p) \in Nat
      /\ \A n \in Node : n \in sub[n]
      /\ k # NULL /\ k \in Ptr
  <2>1. SearchTree(a, b, sub, K) /\ r \in Ptr
    BY DEF RootedTree
  <2>2. \A n \in Node : n \in sub[n]
    BY <2>1 DEF SearchTree, Spans
  <2> QED
    BY <2>1, <2>2, NullAssumption DEF SearchTree, Ptr
<1>2. Len(p) \in 1 .. Len(p) /\ l \in Node /\ l # NULL
  BY <1>1, NullAssumption
<1>3. /\ l \in sub[r]
      /\ \A i \in 1 .. Len(p) - 1 : p[i] # l
  BY <1>2, PathBelow
<1>4. k # l
  BY <1>3
<1>5. /\ \E sub2 : RootedTree(a2, b, r, sub2, K)
      /\ \E bh2 : Heights(a2, b, red \cup {k}, bh2, NULL, 0, 0)
      /\ RedFree(a2, b, red \cup {k}, k)
  <2>1. \E sub2 : RootedTree(a2, b, r, sub2, K)
    BY <1>2, <1>3, AddedTree DEF Fits, Stored
  <2> QED
    BY <1>2, <1>3, <1>4, <2>1, LeafColors DEF Stored
<1>6. IsPath(a2, b, r, p)
  <2>1. SameAbove(a, b, a2, b, p, Len(p) - 0 - 1)
    <3>1. ASSUME NEW i \in 1 .. Len(p) - 0 - 1 PROVE a2[p[i]] = a[p[i]]
      BY <1>1, <1>2, <1>3 DEF Stored
    <3> QED
      BY <3>1 DEF SameAbove
  <2>2. 0 \in Nat /\ 0 <= Len(p)
    BY <1>1
  <2>3. IsPath(a2, b, r, Shorten(p, 0))
    BY <2>1, <2>2, PathKept
  <2>4. Shorten(p, 0) = p
    BY DEF Shorten
  <2> QED
    BY <2>3, <2>4
<1>7. a2 \in [Node -> Ptr] /\ a2[l] = k
  BY <1>1, <1>2 DEF Stored
<1>8. IsPath(a2, b, r, Append(p, k))
  BY <1>1, <1>2, <1>6, <1>7, PathOn
<1>9. r # k
  BY <1>1 DEF Ptr
<1> QED
  BY <1>5, <1>8, <1>9

\* The node becomes a red leaf.
LEMMA InsertLinkStep ==
  ASSUME Inv, InsertLink
  PROVE  Inv' /\ Linked(tree') = Linked(tree) \cup {key}
<1> DEFINE parent == FromEnd(path, 1)
           leaf == MakeRed(SetRight(SetLeft(tree, key, NULL), key, NULL), key)
           L == [m \in Node |-> -KeyOf[m]]
<1>1. /\ pc = "lookup" /\ op = "insert" /\ node = NULL
      /\ tree' = IF parent = NULL THEN [leaf EXCEPT !.root = key]
                 ELSE IF KeyOf[key] < KeyOf[parent] THEN SetLeft(leaf, parent, key)
                 ELSE SetRight(leaf, parent, key)
      /\ path' = Append(path, key) /\ pc' = "insert_fixup" /\ ret' = 0
      /\ UNCHANGED <<closing, op, key, node, at>>
  BY DEF InsertLink
<1>2. /\ tree \in Tree /\ key \in Node /\ TypeOK /\ ~closing /\ Sound(tree)
      /\ path \in Seq(Node) /\ IsPath(tree.left, tree.right, tree.root, path)
      /\ key \notin Linked(tree) /\ Len(path) \in Nat
      /\ tree.left \in [Node -> Ptr] /\ tree.right \in [Node -> Ptr]
      /\ tree.red \in SUBSET Node /\ NULL \in Ptr /\ key \in Ptr /\ key # NULL
  BY <1>1, TreeFields, NullAssumption DEF Inv, Control, Colours, TypeOK, Ptr
<1>3. PICK sub : Walk(sub) /\ Ordering(tree, sub, KeyOf)
  BY <1>1, OrderedTree
<1>4. /\ RootedTree(tree.left, tree.right, tree.root, sub, KeyOf)
      /\ RootedTree(tree.right, tree.left, tree.root, sub, L)
      /\ key \notin sub[tree.root] /\ key \in Node \ sub[tree.root]
      /\ tree.left[key] = NULL /\ tree.right[key] = NULL
  <2>1. RootedTree(tree.left, tree.right, tree.root, sub, KeyOf)
    BY <1>3 DEF Ordering
  <2>2. key \notin sub[tree.root]
    BY <1>2, <2>1, LinkedBelow
  <2>3. RootedTree(tree.right, tree.left, tree.root, sub, L)
    BY <2>1, MirroredRooted
  <2> HIDE DEF L
  <2> QED
    BY <1>2, <2>1, <2>2, <2>3 DEF RootedTree
<1>5. /\ leaf \in Tree /\ leaf.root = tree.root /\ leaf.red = tree.red \cup {key}
      /\ leaf.left = tree.left /\ leaf.right = tree.right
  <2>1. /\ [tree.left EXCEPT ![key] = NULL] = tree.left
        /\ [tree.right EXCEPT ![key] = NULL] = tree.right
    BY <1>2, <1>4
  <2> QED
    BY <1>2, <2>1 DEF SetLeft, SetRight, MakeRed, Tree
<1> HIDE DEF leaf
<1>6. Leads(tree, sub, path, key, node)
  BY <1>1, <1>3 DEF Walk
<1>7. PICK bh : Heights(tree.left, tree.right, tree.red, bh, NULL, 0, 0)
  BY <1>2 DEF Sound
<1>8. tree.root \notin tree.red /\ RedFree(tree.left, tree.right, tree.red, NULL)
  BY <1>2 DEF Sound
<1>9. /\ path' \in Seq(Node) /\ path' \in Seq(Ptr) /\ path' # <<>> /\ Len(path') = Len(path) + 1
      /\ path'[Len(path')] = key
  <2>1. path \in Seq(Ptr)
    BY <1>2 DEF IsPath
  <2> QED
    BY <1>1, <1>2, <2>1
<1>10. /\ tree' \in Tree /\ tree'.red = tree.red \cup {key}
       /\ \E sub2 : Ordering(tree', sub2, KeyOf)
       /\ \E bh2 : Heights(tree'.left, tree'.right, tree'.red, bh2, NULL, 0, 0)
       /\ RedFree(tree'.left, tree'.right, tree'.red, key)
       /\ IsPath(tree'.left, tree'.right, tree'.root, path')
       /\ path # <<>> => tree'.root \notin tree'.red
       /\ Linked(tree') = Linked(tree) \cup {key}
  <2>1. CASE path = <<>>
    <3>1. parent = NULL /\ tree.root = NULL /\ path' = <<key>>
      BY <1>1, <1>6, <2>1 DEF FromEnd, Leads
    <3>2. tree' = [leaf EXCEPT !.root = key]
      BY <1>1, <3>1
    <3>3. /\ tree' \in Tree /\ tree'.root = key /\ tree'.red = tree.red \cup {key}
          /\ tree'.left = tree.left /\ tree'.right = tree.right
      BY <1>2, <1>5, <3>2, RootFields
    <3>4. /\ tree.left = [n \in Node |-> NULL] /\ tree.right = [n \in Node |-> NULL]
      <4>1. sub[NULL] = {}
        BY <1>4 DEF RootedTree, SearchTree, Spans
      <4>2. \A n \in Node : tree.left[n] = NULL /\ tree.right[n] = NULL
        BY <1>4, <3>1, <4>1 DEF RootedTree
      <4> QED
        BY <1>2, <4>2
    <3>5. tree.red \cup {key} \in SUBSET Node
      BY <1>2
    <3>6. /\ \E sub2 : RootedTree(tree.left, tree.right, key, sub2, KeyOf)
          /\ \E bh2 : Heights(tree.left, tree.right, tree.red \cup {key}, bh2, NULL, 0, 0)
          /\ RedFree(tree.left, tree.right, tree.red \cup {key}, key)
      BY <1>2, <3>4, <3>5, NoChildren
    <3>7. IsPath(tree.left, tree.right, key, path')
      BY <1>9, <3>1 DEF IsPath
    <3>8. Linked(tree') = Linked(tree) \cup {key}
      <4>1. Linked(tree) = {} /\ Linked(tree') = {key}
        BY <1>2, <3>1, <3>3, <3>4, NullAssumption DEF Linked
      <4> QED
        BY <4>1
    <3> QED
      BY <2>1, <3>3, <3>6, <3>7, <3>8 DEF Ordering
  <2>2. CASE path # <<>>
    <3>1. /\ parent = path[Len(path)] /\ parent \in Node /\ parent # NULL /\ parent \in Ptr
          /\ Len(path) \in 1 .. Len(path)
      BY <1>2, <2>2, NullAssumption DEF FromEnd, Ptr
    <3>2. /\ \/ KeyOf[key] < KeyOf[parent] /\ tree.left[parent] = NULL
             \/ KeyOf[parent] < KeyOf[key] /\ tree.right[parent] = NULL
          /\ \A m \in Node : /\ parent \in sub[tree.left[m]] => KeyOf[key] < KeyOf[m]
                             /\ parent \in sub[tree.right[m]] => KeyOf[m] < KeyOf[key]
      BY <1>1, <1>6, <2>2, <3>1 DEF Leads
    <3>3. KeyOf[key] \in Int /\ KeyOf[parent] \in Int /\ \A m \in Node : KeyOf[m] \in Int
      BY <1>2, <3>1, KeyAssumption
    <3> HIDE DEF parent
    <3>4. CASE KeyOf[key] < KeyOf[parent]
      <4>1. tree' = SetLeft(leaf, parent, key) /\ tree.left[parent] = NULL
        BY <1>1, <3>1, <3>2, <3>3, <3>4
      <4>2. /\ tree' \in Tree /\ tree'.root = tree.root /\ tree'.red = tree.red \cup {key}
            /\ tree'.left = [tree.left EXCEPT ![parent] = key] /\ tree'.right = tree.right
        BY <1>2, <1>5, <3>1, <4>1, TreeFields DEF SetLeft, Tree
      <4>3. /\ \E sub2 : RootedTree(tree'.left, tree.right, tree.root, sub2, KeyOf)
            /\ \E bh2 : Heights(tree'.left, tree.right, tree.red \cup {key}, bh2, NULL, 0, 0)
            /\ RedFree(tree'.left, tree.right, tree.red \cup {key}, key)
            /\ IsPath(tree'.left, tree.right, tree.root, Append(path, key))
            /\ tree.root # key
        <5>1. Fits(tree.left, tree.right, sub, KeyOf, key, parent)
          BY <3>2, <3>4 DEF Fits
        <5>2. /\ RootedTree(tree.left, tree.right, tree.root, sub, KeyOf)
              /\ path \in Seq(Node) /\ path # <<>>
              /\ IsPath(tree.left, tree.right, tree.root, path)
              /\ parent = path[Len(path)] /\ tree.left[parent] = NULL
              /\ key \in Node \ sub[tree.root]
              /\ tree.red \in SUBSET Node /\ RedFree(tree.left, tree.right, tree.red, NULL)
              /\ Heights(tree.left, tree.right, tree.red, bh, NULL, 0, 0)
              /\ Stored(tree.left, tree'.left, parent, key)
          BY <1>2, <1>4, <1>7, <1>8, <2>2, <3>1, <4>1, <4>2 DEF Stored
        <5> QED
          BY ONLY <5>1, <5>2, LeafPut
      <4>4. Linked(tree') = Linked(tree) \cup {key}
        BY <1>2, <3>1, <4>1, <4>2, NullAssumption DEF Linked
      <4> QED
        BY <1>1, <1>8, <4>2, <4>3, <4>4 DEF Ordering
    <3>5. CASE ~(KeyOf[key] < KeyOf[parent])
      <4>1. /\ tree' = SetRight(leaf, parent, key) /\ tree.right[parent] = NULL
            /\ KeyOf[parent] < KeyOf[key]
        BY <1>1, <3>1, <3>2, <3>3, <3>5
      <4>2. /\ tree' \in Tree /\ tree'.root = tree.root /\ tree'.red = tree.red \cup {key}
            /\ tree'.right = [tree.right EXCEPT ![parent] = key] /\ tree'.left = tree.left
        BY <1>2, <1>5, <3>1, <4>1, TreeFields DEF SetRight, Tree
      <4>3. Fits(tree.right, tree.left, sub, L, key, parent)
        BY <1>2, <3>1, <3>2, <3>3, <4>1 DEF Fits
      <4>4. /\ IsPath(tree.right, tree.left, tree.root, path)
            /\ RedFree(tree.right, tree.left, tree.red, NULL)
            /\ Heights(tree.right, tree.left, tree.red, bh, NULL, 0, 0)
        BY <1>2, <1>7, <1>8, MirroredHeights DEF IsPath, RedFree
      <4> HIDE DEF L
      <4>5. /\ \E sub2 : RootedTree(tree'.right, tree.left, tree.root, sub2, L)
            /\ \E bh2 : Heights(tree'.right, tree.left, tree.red \cup {key}, bh2, NULL, 0, 0)
            /\ RedFree(tree'.right, tree.left, tree.red \cup {key}, key)
            /\ IsPath(tree'.right, tree.left, tree.root, Append(path, key))
            /\ tree.root # key
        <5>1. Stored(tree.right, tree'.right, parent, key)
          BY <4>2 DEF Stored
        <5>2. /\ RootedTree(tree.right, tree.left, tree.root, sub, L)
              /\ path \in Seq(Node) /\ path # <<>>
              /\ parent = path[Len(path)] /\ tree.right[parent] = NULL
              /\ key \in Node \ sub[tree.root] /\ tree.red \in SUBSET Node
          BY <1>2, <1>4, <2>2, <3>1, <4>1
        <5> QED
          BY ONLY <4>3, <4>4, <5>1, <5>2, LeafPut
      <4>6. \E sub2 : Ordering(tree', sub2, KeyOf)
        <5>1. PICK sub2 : RootedTree(tree'.right, tree.left, tree.root, sub2, L)
          BY <4>5
        <5>2. RootedTree(tree.left, tree'.right, tree.root, sub2, KeyOf)
          BY <5>1, KeyAssumption, MirroredBack DEF L
        <5> QED
          BY <4>2, <5>2 DEF Ordering
      <4>7. \E bh2 : Heights(tree.left, tree'.right, tree.red \cup {key}, bh2, NULL, 0, 0)
        <5>1. tree'.right \in [Node -> Ptr]
          BY <4>2, TreeFields
        <5> QED
          BY <1>2, <4>5, <5>1, MirroredHeights
      <4>8. /\ RedFree(tree.left, tree'.right, tree.red \cup {key}, key)
            /\ IsPath(tree.left, tree'.right, tree.root, Append(path, key))
        BY <4>5 DEF RedFree, IsPath
      <4>9. Linked(tree') = Linked(tree) \cup {key}
        BY <1>2, <3>1, <4>1, <4>2, NullAssumption DEF Linked
      <4> QED
        BY <1>1, <1>8, <4>2, <4>5, <4>6, <4>7, <4>8, <4>9
    <3> QED
      BY <3>4, <3>5
  <2> QED
    BY <2>1, <2>2
<1>11. TypeOK'
  BY <1>1, <1>2, <1>9, <1>10 DEF TypeOK, LoopLabels
<1>12. Control'
  BY <1>1, <1>2, <1>9, <1>10, <1>11 DEF Control
<1>13. Colours'
  <2>1. InsertFlaw(tree', path')
    <3>1. Len(path') > 1 => path # <<>>
      BY <1>9
    <3> QED
      BY <1>9, <1>10, <3>1 DEF InsertFlaw
  <2> QED
    BY <1>1, <1>2, <2>1 DEF Colours
<1>14. \E sub2 : Walk(sub2)'
  <2>1. PICK sub2 : Ordering(tree', sub2, KeyOf)
    BY <1>10
  <2> QED
    BY <1>1, <2>1 DEF Walk
<1> QED
  BY <1>10, <1>12, <1>13, <1>14 DEF Inv

-----------------------------------------------------------------------------
(* rbtree_insert_fixup.                                                    *)

\* t is in order, and the nodes it holds are those of S.
Covers(t, sub, S) == Ordering(t, sub, KeyOf) /\ sub[t.root] = S

\* A rotation to the left keeps the nodes and their order, and a node that is
\* not rotated hangs where it hung.
LEMMA TurnLeft ==
  ASSUME NEW t \in Tree, NEW sub, NEW S, Covers(t, sub, S),
         NEW n \in Node, t.right[n] # NULL, NEW parent, Hangs(t, parent, n),
         NEW t2, t2 = RotateLeft(t, parent, n)
  PROVE  /\ t2 \in Tree /\ t2.red = t.red /\ t2.root = Renamed(t.root, n, t.right[n])
         /\ Rotated(t.left, t.right, t2.left, t2.right, n)
         /\ \E sub2 : Covers(t2, sub2, S)
         /\ \A q, g : Hangs(t, q, g) /\ q \notin {n, t.right[n]} /\ g \notin {n, t.right[n]}
                        => Hangs(t2, q, g)
<1>1. Ordering(t, sub, KeyOf) /\ sub[t.root] = S
  BY DEF Covers
<1>2. /\ t2 \in Tree /\ t2.red = t.red /\ t2.root = Renamed(t.root, n, t.right[n])
      /\ Rotated(t.left, t.right, t2.left, t2.right, n)
  BY <1>1, RotateLeftIs
<1>3. RootedTree(t.left, t.right, t.root, sub, KeyOf)
  BY <1>1 DEF Ordering
<1>4. PICK sub2 : /\ RootedTree(t2.left, t2.right, Renamed(t.root, n, t.right[n]), sub2, KeyOf)
                  /\ sub2[Renamed(t.root, n, t.right[n])] = sub[t.root]
  BY <1>2, <1>3, RotatedTree
<1>5. Covers(t2, sub2, S)
  BY <1>1, <1>2, <1>4 DEF Covers, Ordering
<1>6. \A m \in Node \ {n, t.right[n]} :
         t2.left[m] = Renamed(t.left[m], n, t.right[n]) /\ t2.right[m] = Renamed(t.right[m], n, t.right[n])
  BY <1>2, <1>3, RotatedPointers
<1>7. ASSUME NEW q, NEW g, Hangs(t, q, g), q \notin {n, t.right[n]}, g \notin {n, t.right[n]}
      PROVE  Hangs(t2, q, g)
  <2>1. CASE q = NULL /\ g = t.root
    BY <1>2, <1>7, <2>1 DEF Hangs, Renamed
  <2>2. CASE q \in Node /\ g \in {t.left[q], t.right[q]}
    BY <1>6, <1>7, <2>2 DEF Hangs, Renamed
  <2> QED
    BY <1>7, <2>1, <2>2 DEF Hangs
<1> QED
  BY <1>2, <1>5, <1>7

\* A rotation to the right does as well.
LEMMA TurnRight ==
  ASSUME NEW t \in Tree, NEW sub, NEW S, Covers(t, sub, S),
         NEW n \in Node, t.left[n] # NULL, NEW parent, Hangs(t, parent, n),
         NEW t2, t2 = RotateRight(t, parent, n)
  PROVE  /\ t2 \in Tree /\ t2.red = t.red /\ t2.root = Renamed(t.root, n, t.left[n])
         /\ Rotated(t.right, t.left, t2.right, t2.left, n)
         /\ \E sub2 : Covers(t2, sub2, S)
         /\ \A q, g : Hangs(t, q, g) /\ q \notin {n, t.left[n]} /\ g \notin {n, t.left[n]}
                        => Hangs(t2, q, g)
<1> DEFINE L == [m \in Node |-> -KeyOf[m]]
<1>1. Ordering(t, sub, KeyOf) /\ sub[t.root] = S
  BY DEF Covers
<1>2. /\ t2 \in Tree /\ t2.red = t.red /\ t2.root = Renamed(t.root, n, t.left[n])
      /\ Rotated(t.right, t.left, t2.right, t2.left, n)
  BY <1>1, RotateRightIs
<1>3. RootedTree(t.right, t.left, t.root, sub, L)
  BY <1>1, MirroredRooted DEF Ordering
<1>4. PICK sub2 : /\ RootedTree(t2.right, t2.left, Renamed(t.root, n, t.left[n]), sub2, L)
                  /\ sub2[Renamed(t.root, n, t.left[n])] = sub[t.root]
  <2> HIDE DEF L
  <2> QED
    BY <1>2, <1>3, RotatedTree
<1>5. Covers(t2, sub2, S)
  <2>1. RootedTree(t2.left, t2.right, Renamed(t.root, n, t.left[n]), sub2, KeyOf)
    BY <1>4, KeyAssumption, MirroredBack
  <2> QED
    BY <1>1, <1>2, <1>4, <2>1 DEF Covers, Ordering
<1>6. \A m \in Node \ {n, t.left[n]} :
         t2.left[m] = Renamed(t.left[m], n, t.left[n]) /\ t2.right[m] = Renamed(t.right[m], n, t.left[n])
  <2> HIDE DEF L
  <2> QED
    BY <1>2, <1>3, RotatedPointers
<1>7. ASSUME NEW q, NEW g, Hangs(t, q, g), q \notin {n, t.left[n]}, g \notin {n, t.left[n]}
      PROVE  Hangs(t2, q, g)
  <2>1. CASE q = NULL /\ g = t.root
    BY <1>2, <1>7, <2>1 DEF Hangs, Renamed
  <2>2. CASE q \in Node /\ g \in {t.left[q], t.right[q]}
    BY <1>6, <1>7, <2>2 DEF Hangs, Renamed
  <2> QED
    BY <1>7, <2>1, <2>2 DEF Hangs
<1> QED
  BY <1>2, <1>5, <1>7

\* A tree with colours only changed is in order as it was.
LEMMA Painted ==
  ASSUME NEW t, NEW t2, t2.root = t.root, t2.left = t.left, t2.right = t.right,
         NEW S, NEW sub, Covers(t, sub, S)
  PROVE  Covers(t2, sub, S)
BY DEF Covers, Ordering

\* What is known while rbtree_insert_fixup runs.
LEMMA InsertFixupFacts ==
  ASSUME Inv, pc = "insert_fixup"
  PROVE  /\ tree \in Tree /\ TypeOK /\ ~closing
         /\ tree.left \in [Node -> Ptr] /\ tree.right \in [Node -> Ptr]
         /\ tree.red \in SUBSET Node
         /\ path \in Seq(Node) /\ Len(path) \in Nat /\ Len(path) >= 1
         /\ IsPath(tree.left, tree.right, tree.root, path)
         /\ InsertFlaw(tree, path)
         /\ FromEnd(path, 1) = path[Len(path)] /\ FromEnd(path, 1) \in Node
         /\ Len(path) = 1 <=> FromEnd(path, 2) = NULL
         /\ Len(path) = 1 => FromEnd(path, 1) = tree.root
         /\ \E sub : Ordering(tree, sub, KeyOf) /\ Covers(tree, sub, Linked(tree))
<1>1. /\ tree \in Tree /\ TypeOK /\ path \in Seq(Node) /\ Len(path) \in Nat
      /\ IsPath(tree.left, tree.right, tree.root, path) /\ InsertFlaw(tree, path)
      /\ closing \in BOOLEAN /\ ~closing
  BY DEF Inv, Control, TypeOK, Colours
<1>2. Len(path) >= 1 /\ Len(path) \in 1 .. Len(path)
  BY <1>1 DEF InsertFlaw
<1>3. FromEnd(path, 1) = path[Len(path)] /\ FromEnd(path, 1) \in Node
  BY <1>1, <1>2 DEF FromEnd
<1>4. Len(path) = 1 <=> FromEnd(path, 2) = NULL
  <2>1. CASE Len(path) = 1
    BY <2>1 DEF FromEnd
  <2>2. CASE Len(path) # 1
    <3> DEFINE l == Len(path)
    <3>0. l \in Nat /\ l >= 1 /\ l # 1
      BY <1>1, <1>2, <2>2
    <3> HIDE DEF l
    <3>1. l >= 2 /\ l - 2 + 1 \in 1 .. l
      BY ONLY <3>0
    <3>2. FromEnd(path, 2) = path[l - 2 + 1] /\ path[l - 2 + 1] \in Node
      BY <1>1, <3>1 DEF FromEnd, l
    <3> QED
      BY <2>2, <3>2, NullAssumption
  <2> QED
    BY <2>1, <2>2
<1>5. Len(path) = 1 => FromEnd(path, 1) = tree.root
  BY <1>1, <1>2, <1>3 DEF IsPath
<1>6. PICK sub : Ordering(tree, sub, KeyOf)
  BY OrderedTree
<1>7. Covers(tree, sub, Linked(tree))
  BY <1>6, LinkedBelow DEF Covers, Ordering
<1> QED
  BY <1>1, <1>2, <1>3, <1>4, <1>5, <1>6, <1>7, TreeFields

\* A fixup ends with a tree that has the nodes it had.
LEMMA FixupReturned ==
  ASSUME TypeOK, ~closing, Return(ret), UNCHANGED closing,
         tree' \in Tree, Sound(tree'), NEW sub, Covers(tree', sub, Linked(tree))
  PROVE  Inv' /\ Linked(tree)' = Linked(tree)
<1>1. Ordering(tree', sub, KeyOf) /\ sub[tree'.root] = Linked(tree)
  BY DEF Covers
<1>2. Linked(tree') = sub[tree'.root]
  BY <1>1, LinkedBelow DEF Ordering
<1>3. ret \in Ptr \cup {0, -1} /\ closing' \in BOOLEAN
  BY DEF TypeOK
<1>4. Inv'
  BY <1>1, <1>3, Returned
<1> QED
  BY <1>1, <1>2, <1>4

\* The red node is the root and turns black.
LEMMA InsertFixupRootStep ==
  ASSUME Inv, InsertFixupRoot
  PROVE  Inv' /\ Linked(tree)' = Linked(tree)
<1> DEFINE n == FromEnd(path, 1)
<1>1. /\ pc = "insert_fixup" /\ FromEnd(path, 2) = NULL /\ Return(ret) /\ UNCHANGED closing
      /\ tree' = [MakeBlack(tree, n) EXCEPT !.root = n]
  BY DEF InsertFixupRoot
<1>2. /\ tree \in Tree /\ TypeOK /\ ~closing /\ n \in Node /\ n = tree.root
      /\ tree.red \in SUBSET Node /\ n = path[Len(path)]
      /\ InsertFlaw(tree, path)
  BY <1>1, InsertFixupFacts
<1>3. PICK sub : Ordering(tree, sub, KeyOf) /\ Covers(tree, sub, Linked(tree))
  BY <1>1, InsertFixupFacts
<1> HIDE DEF n
<1>4. /\ tree' \in Tree /\ tree'.root = tree.root /\ tree'.red = tree.red \ {n}
      /\ tree'.left = tree.left /\ tree'.right = tree.right
  BY <1>1, <1>2 DEF MakeBlack, Tree, Ptr
<1>5. Sound(tree')
  <2>1. /\ n \in tree.red /\ RedFree(tree.left, tree.right, tree.red, n)
    BY <1>2 DEF InsertFlaw
  <2>2. PICK bh : Heights(tree.left, tree.right, tree.red, bh, NULL, 0, 0)
    BY <1>2 DEF InsertFlaw
  <2>3. Lent(tree.left, tree.right, n, NULL, 0, 0)
    <3>1. RootedTree(tree.left, tree.right, tree.root, sub, KeyOf) /\ n # NULL
      BY <1>2, <1>3, NullAssumption DEF Ordering
    <3>2. \A m \in Node : n \notin {tree.left[m], tree.right[m]}
      BY <1>2, <3>1, OnlyParent
    <3> QED
      BY <3>2 DEF Lent
  <2>4. \E bh2 : Heights(tree.left, tree.right, tree.red \ {n}, bh2, NULL, 0, 0)
    <3>1. RootedTree(tree.left, tree.right, tree.root, sub, KeyOf)
      BY <1>3 DEF Ordering
    <3> QED
      BY <1>2, <2>1, <2>2, <2>3, <3>1, BlackenColors
  <2>5. RedFree(tree.left, tree.right, tree.red \ {n}, NULL)
    BY <2>1 DEF RedFree
  <2> QED
    BY <1>2, <1>4, <2>4, <2>5 DEF Sound
<1>6. Covers(tree', sub, Linked(tree))
  BY <1>3, <1>4, Painted
<1> QED
  BY <1>1, <1>2, <1>4, <1>5, <1>6, FixupReturned

\* The parent is black: nothing was wrong.
LEMMA InsertFixupBlackParentStep ==
  ASSUME Inv, InsertFixupBlackParent
  PROVE  Inv' /\ Linked(tree)' = Linked(tree)
<1> DEFINE n == FromEnd(path, 1)
           p == FromEnd(path, 2)
<1>1. /\ pc = "insert_fixup" /\ p # NULL /\ p \notin tree.red
      /\ Return(ret) /\ UNCHANGED closing /\ tree' = tree
  BY DEF InsertFixupBlackParent, IsBlack
<1>2. /\ tree \in Tree /\ TypeOK /\ ~closing /\ n \in Node /\ n = path[Len(path)]
      /\ InsertFlaw(tree, path) /\ Len(path) > 1 /\ Len(path) \in Nat
      /\ IsPath(tree.left, tree.right, tree.root, path)
  <2>1. /\ tree \in Tree /\ TypeOK /\ ~closing /\ n \in Node /\ n = path[Len(path)]
        /\ InsertFlaw(tree, path) /\ Len(path) \in Nat /\ Len(path) >= 1
        /\ IsPath(tree.left, tree.right, tree.root, path)
        /\ Len(path) = 1 <=> p = NULL
    BY <1>1, InsertFixupFacts
  <2>2. Len(path) # 1
    BY <1>1, <2>1
  <2>3. Len(path) > 1
    <3> DEFINE l == Len(path)
    <3>1. l \in Nat /\ l >= 1 /\ l # 1
      BY <2>1, <2>2
    <3> HIDE DEF l
    <3>2. l > 1
      BY ONLY <3>1
    <3> QED
      BY <3>2 DEF l
  <2> HIDE DEF n, p
  <2> QED
    BY <2>1, <2>3
<1>3. PICK sub : Ordering(tree, sub, KeyOf) /\ Covers(tree, sub, Linked(tree))
  BY <1>1, InsertFixupFacts
<1>4. \A m \in Node : n \in {tree.left[m], tree.right[m]} => m = p
  <2>1. Hangs(tree, p, n)
    <3>1. 1 \in Nat \ {0} /\ 1 <= Len(path) /\ 1 + 1 = 2 /\ n # NULL
      BY <1>2, NullAssumption
    <3> QED
      BY <1>2, <3>1, PathHangs
  <2> HIDE DEF n, p
  <2> QED
    BY <1>2, <1>3, <2>1, HangsOnce
<1> HIDE DEF n, p
<1>5. Sound(tree)
  <2>1. /\ RedFree(tree.left, tree.right, tree.red, n) /\ tree.root \notin tree.red
        /\ \E bh : Heights(tree.left, tree.right, tree.red, bh, NULL, 0, 0)
        /\ tree.red \in SUBSET Node
    BY <1>2, TreeFields DEF InsertFlaw
  <2>2. RedFree(tree.left, tree.right, tree.red, NULL)
    BY <1>1, <1>4, <2>1 DEF RedFree
  <2> QED
    BY <2>1, <2>2 DEF Sound
<1> QED
  BY <1>1, <1>2, <1>3, <1>5, FixupReturned

\* The last entries of a path of nodes, taken from its end.
LEMMA PathEnd ==
  ASSUME NEW p \in Seq(Node), NEW k \in Nat \ {0}
  PROVE  /\ Len(p) >= k <=> FromEnd(p, k) # NULL
         /\ Len(p) >= k => /\ FromEnd(p, k) \in Node /\ FromEnd(p, k) = p[Len(p) - k + 1]
                           /\ Len(p) - k + 1 \in 1 .. Len(p)
<1> DEFINE l == Len(p)
<1>1. l \in Nat
  OBVIOUS
<1>2. CASE l >= k
  <2>1. l - k + 1 \in 1 .. l
    BY <1>1, <1>2
  <2>2. FromEnd(p, k) = p[l - k + 1] /\ p[l - k + 1] \in Node
    BY <1>2, <2>1 DEF FromEnd
  <2> QED
    BY <1>2, <2>1, <2>2, NullAssumption
<1>3. CASE ~(l >= k)
  BY <1>3 DEF FromEnd
<1> QED
  BY <1>2, <1>3

\* "Note grandparent has to exist and be black": the root is black, and no red
\* node but the last of path has a red parent.
LEMMA DoubleRedFacts ==
  ASSUME Inv, DoubleRed, NEW n, n = FromEnd(path, 1), NEW p, p = FromEnd(path, 2),
         NEW g, g = FromEnd(path, 3), NEW gg, gg = FromEnd(path, 4)
  PROVE  /\ Len(path) >= 3 /\ g = Grandparent
         /\ n \in Node /\ p \in Node /\ g \in Node
         /\ n \in tree.red /\ p \in tree.red /\ g \notin tree.red
         /\ Hangs(tree, p, n) /\ Hangs(tree, g, p) /\ Hangs(tree, gg, g)
         /\ gg \notin {g, p, n} /\ p # n /\ p # g /\ g # n
         /\ tree.root \notin tree.red /\ tree.root # p /\ tree.root # n
<1>1. /\ pc = "insert_fixup" /\ p # NULL /\ p \in tree.red
  BY DEF DoubleRed, IsRed
<1>2. /\ tree \in Tree /\ path \in Seq(Node) /\ Len(path) \in Nat
      /\ tree.left \in [Node -> Ptr] /\ tree.right \in [Node -> Ptr]
      /\ IsPath(tree.left, tree.right, tree.root, path) /\ InsertFlaw(tree, path)
  BY <1>1, InsertFixupFacts
<1>3. PICK sub : Ordering(tree, sub, KeyOf)
  BY <1>1, InsertFixupFacts
<1>4. RootedTree(tree.left, tree.right, tree.root, sub, KeyOf)
  BY <1>3 DEF Ordering
<1> DEFINE l == Len(path)
<1>5. l >= 2 /\ p = path[l - 1] /\ n = path[l] /\ n \in Node /\ p \in Node /\ n # NULL
  <2>1. l >= 2 /\ p = path[l - 2 + 1] /\ p \in Node
    BY <1>1, <1>2, PathEnd
  <2>2. l >= 1
    BY <1>2, <2>1
  <2>3. n = path[l - 1 + 1] /\ n \in Node
    BY <1>2, <2>2, PathEnd
  <2> QED
    BY <1>2, <2>1, <2>3, NullAssumption
<1>6. n \in tree.red /\ tree.root \notin tree.red /\ RedFree(tree.left, tree.right, tree.red, n)
  BY <1>2, <1>5 DEF InsertFlaw
<1>7. l >= 3
  <2>1. ASSUME l = 2 PROVE FALSE
    <3>1. p = path[1] /\ path # <<>>
      <4>1. l = 2 /\ p = path[l - 1] /\ 2 - 1 = 1
        BY <1>5, <2>1
      <4>2. path # <<>>
        BY <1>2, <1>5
      <4> HIDE DEF l
      <4> QED
        BY ONLY <4>1, <4>2
    <3>2. p = tree.root
      BY <1>2, <3>1 DEF IsPath
    <3> QED
      BY <1>1, <1>6, <3>2
  <2>2. l \in Nat /\ l >= 2 /\ l # 2
    BY <1>2, <1>5, <2>1
  <2> HIDE DEF l
  <2> QED
    BY ONLY <2>2
<1>8. g = path[l - 2] /\ g \in Node /\ g = Grandparent /\ g # NULL
  <2>1. g = path[l - 3 + 1] /\ g \in Node
    BY <1>2, <1>7, PathEnd
  <2> QED
    BY <1>2, <1>7, <2>1, NullAssumption DEF Grandparent
<1>9. Hangs(tree, p, n) /\ Hangs(tree, g, p) /\ Hangs(tree, gg, g)
  <2>1. /\ 1 \in Nat \ {0} /\ 1 <= l /\ 1 + 1 = 2
        /\ 2 \in Nat \ {0} /\ 2 <= l /\ 2 + 1 = 3
        /\ 3 \in Nat \ {0} /\ 3 <= l /\ 3 + 1 = 4
    BY <1>2, <1>7
  <2> HIDE DEF l
  <2>2. Hangs(tree, FromEnd(path, 2), FromEnd(path, 1))
    BY <1>2, <1>5, <2>1, PathHangs DEF l
  <2>3. Hangs(tree, FromEnd(path, 3), FromEnd(path, 2))
    BY <1>1, <1>2, <2>1, PathHangs DEF l
  <2>4. Hangs(tree, FromEnd(path, 4), FromEnd(path, 3))
    BY <1>2, <1>8, <2>1, PathHangs DEF l
  <2> QED
    BY <2>2, <2>3, <2>4
<1>10. /\ p # n /\ g # p /\ g # n
       /\ l >= 4 => gg = path[l - 3] /\ gg \notin {g, p, n}
       /\ l < 4 => gg = NULL
  <2>1. \A j \in 1 .. l : \A i \in 1 .. j - 1 : path[i] # path[j]
    <3>1. \A j \in 1 .. l : path[j] # NULL
      BY <1>2, NullAssumption
    <3> QED
      BY <1>2, <1>4, <3>1, PathBelow
  <2>2. p # n /\ g # p /\ g # n
    <3>1. /\ l \in 1 .. l /\ l - 1 \in 1 .. l /\ l - 1 \in 1 .. l - 1
          /\ l - 2 \in 1 .. l - 1 /\ l - 2 \in 1 .. (l - 1) - 1
      BY <1>2, <1>7
    <3> QED
      BY <1>5, <1>8, <2>1, <3>1
  <2>3. l < 4 => gg = NULL
    BY <1>2 DEF FromEnd
  <2>4. ASSUME l >= 4 PROVE gg = path[l - 3] /\ gg \notin {g, p, n}
    <3>1. gg = path[l - 4 + 1]
      BY <1>2, <2>4, PathEnd
    <3>2. /\ l \in 1 .. l /\ l - 1 \in 1 .. l /\ l - 2 \in 1 .. l /\ l - 4 + 1 = l - 3
          /\ l - 3 \in 1 .. l - 1 /\ l - 3 \in 1 .. (l - 1) - 1 /\ l - 3 \in 1 .. (l - 2) - 1
      BY <1>2, <2>4
    <3> QED
      BY <1>5, <1>8, <2>1, <3>1, <3>2
  <2> QED
    BY <2>2, <2>3, <2>4
<1>11. gg \notin {g, p, n}
  <2>1. l >= 4 \/ l < 4
    BY <1>2
  <2>2. g # NULL /\ p # NULL /\ n # NULL
    BY <1>5, <1>8, NullAssumption
  <2> QED
    BY <1>10, <2>1, <2>2
<1>12. g \notin tree.red
  <2>1. p \in {tree.left[g], tree.right[g]}
    BY <1>8, <1>9 DEF Hangs
  <2> QED
    BY <1>1, <1>6, <1>10, <2>1 DEF RedFree
<1> QED
  BY <1>1, <1>5, <1>6, <1>7, <1>8, <1>9, <1>10, <1>11, <1>12

\* Uncle and father are red: both turn black, the grandparent red.
LEMMA InsertFixupRecolorStep ==
  ASSUME Inv, InsertFixupRecolor
  PROVE  Inv' /\ Linked(tree)' = Linked(tree)
<1> DEFINE n == FromEnd(path, 1)
           p == FromEnd(path, 2)
           g == FromEnd(path, 3)
           u == Uncle
           L == [m \in Node |-> -KeyOf[m]]
           red2 == (tree.red \ {p, u}) \cup {g}
<1>1. /\ DoubleRed /\ pc = "insert_fixup" /\ ~NullOrBlack(tree, u)
      /\ tree' = MakeRed(MakeBlack(MakeBlack(tree, p), u), Grandparent)
      /\ path' = Shorten(path, 2)
      /\ UNCHANGED <<closing, pc, op, key, node, at, ret>>
  BY DEF InsertFixupRecolor, DoubleRed
<1>2. /\ Len(path) >= 3 /\ g = Grandparent
      /\ n \in Node /\ p \in Node /\ g \in Node
      /\ n \in tree.red /\ p \in tree.red /\ g \notin tree.red
      /\ Hangs(tree, p, n) /\ Hangs(tree, g, p) /\ p # g
      /\ tree.root \notin tree.red /\ tree.root # p
  BY <1>1, DoubleRedFacts
<1>3. /\ tree \in Tree /\ TypeOK /\ ~closing /\ InsertFlaw(tree, path)
      /\ tree.left \in [Node -> Ptr] /\ tree.right \in [Node -> Ptr]
      /\ tree.red \in SUBSET Node /\ Len(path) \in Nat /\ path \in Seq(Node)
      /\ IsPath(tree.left, tree.right, tree.root, path)
  BY <1>1, InsertFixupFacts
<1>4. PICK sub : Ordering(tree, sub, KeyOf) /\ Covers(tree, sub, Linked(tree))
  BY <1>1, InsertFixupFacts
<1>5. /\ RootedTree(tree.left, tree.right, tree.root, sub, KeyOf)
      /\ RootedTree(tree.right, tree.left, tree.root, sub, L)
  BY <1>4, MirroredRooted DEF Ordering
<1>6. PICK bh : Heights(tree.left, tree.right, tree.red, bh, NULL, 0, 0)
  BY <1>3 DEF InsertFlaw
<1>7. /\ u = IF p = tree.left[g] THEN tree.right[g] ELSE tree.left[g]
      /\ u \in tree.red /\ u \in Node
  BY <1>1, <1>2, <1>3 DEF Uncle, NullOrBlack, IsBlack
<1>8. /\ n \in {tree.left[p], tree.right[p]} /\ p \in {tree.left[g], tree.right[g]}
      /\ RedFree(tree.left, tree.right, tree.red, n)
  <2>1. RedFree(tree.left, tree.right, tree.red, path[Len(path)])
    BY <1>3 DEF InsertFlaw
  <2>2. n = path[Len(path)]
    BY <1>1, InsertFixupFacts
  <2> HIDE DEF n, p, g
  <2> QED
    BY <1>2, <2>1, <2>2, NullAssumption DEF Hangs
<1>9. /\ Len(path') = Len(path) - 2 /\ path' \in Seq(Node) /\ path' \in Seq(Ptr)
      /\ IsPath(tree.left, tree.right, tree.root, path')
      /\ path' # <<>> /\ path'[Len(path')] = g
      /\ Len(path') > 1 => tree.root # g
  <2>1. 2 \in Nat /\ 2 <= Len(path) /\ 2 >= 1
    BY <1>2, <1>3
  <2>2. SameAbove(tree.left, tree.right, tree.left, tree.right, path, Len(path) - 2 - 1)
    BY DEF SameAbove
  <2>3. /\ IsPath(tree.left, tree.right, tree.root, path')
        /\ Len(path') = Len(path) - 2 /\ path' \in Seq(Node)
        /\ \A i \in 1 .. Len(path) - 2 : path'[i] = path[i]
    BY <1>1, <1>3, <2>1, <2>2, PathKept, SMTT(30)
  <2>4. g = path[Len(path) - 2]
    BY <1>2 DEF Grandparent
  <2>5. Len(path) - 2 \in 1 .. Len(path) - 2
    BY <1>2, <1>3
  <2>6. path' # <<>> /\ path'[Len(path')] = g
    BY <2>3, <2>4, <2>5
  <2>7. ASSUME Len(path') > 1 PROVE tree.root # g
    <3>1. /\ Len(path) - 2 \in 1 .. Len(path) /\ 1 \in 1 .. (Len(path) - 2) - 1
          /\ path # <<>>
      BY <1>2, <1>3, <2>3, <2>7
    <3>2. path[1] # path[Len(path) - 2]
      <4>1. path[Len(path) - 2] # NULL
        BY <1>3, <3>1, NullAssumption
      <4> QED
        BY <1>3, <1>5, <3>1, <4>1, PathBelow
    <3> QED
      BY <1>3, <2>4, <3>1, <3>2 DEF IsPath
  <2>8. path' \in Seq(Ptr)
    BY <2>3 DEF IsPath
  <2> QED
    BY <2>3, <2>6, <2>7, <2>8
<1> HIDE DEF n, p, g, u, L
<1>10. /\ tree' \in Tree /\ tree'.root = tree.root /\ tree'.red = red2
       /\ tree'.left = tree.left /\ tree'.right = tree.right
  BY <1>1, <1>2, <1>3, <1>7 DEF MakeBlack, MakeRed, Tree
<1>11. /\ \E bh2 : Heights(tree.left, tree.right, red2, bh2, NULL, 0, 0)
       /\ RedFree(tree.left, tree.right, red2, g)
  <2> HIDE DEF red2
  <2>1. CASE p = tree.left[g]
    <3>1. u = tree.right[g]
      BY <1>7, <2>1
    <3> QED
      BY <1>2, <1>3, <1>5, <1>6, <1>7, <1>8, <2>1, <3>1, RecolorColors DEF red2
  <2>2. CASE p # tree.left[g]
    <3>1. u = tree.left[g] /\ p = tree.right[g]
      BY <1>7, <1>8, <2>2
    <3>2. /\ RedFree(tree.right, tree.left, tree.red, n)
          /\ Heights(tree.right, tree.left, tree.red, bh, NULL, 0, 0)
          /\ n \in {tree.right[p], tree.left[p]}
      BY <1>3, <1>6, <1>8, MirroredHeights DEF RedFree
    <3>3. /\ \E bh2 : Heights(tree.right, tree.left, red2, bh2, NULL, 0, 0)
          /\ RedFree(tree.right, tree.left, red2, g)
      BY <1>2, <1>3, <1>5, <1>7, <3>1, <3>2, RecolorColors DEF red2
    <3>4. \E bh2 : Heights(tree.left, tree.right, red2, bh2, NULL, 0, 0)
      BY <1>3, <3>3, MirroredHeights
    <3> QED
      BY <3>3, <3>4 DEF RedFree
  <2> QED
    BY <2>1, <2>2
<1>12. InsertFlaw(tree', path')
  <2>1. Len(path') > 1 => tree'.root \notin tree'.red
    BY <1>2, <1>9, <1>10
  <2> QED
    BY <1>9, <1>10, <1>11, <2>1 DEF InsertFlaw
<1>13. TypeOK' /\ Control'
  <2>1. TypeOK'
    BY <1>1, <1>3, <1>9, <1>10 DEF TypeOK
  <2> QED
    BY <1>1, <1>3, <1>9, <1>10, <2>1 DEF Control
<1>14. Colours'
  BY <1>1, <1>3, <1>12 DEF Colours
<1>15. Covers(tree', sub, Linked(tree))
  BY <1>4, <1>10, Painted
<1>16. Ordering(tree', sub, KeyOf) /\ Linked(tree') = Linked(tree)
  BY <1>15, LinkedBelow DEF Covers, Ordering
<1>17. Walk(sub)'
  BY <1>1, <1>16 DEF Walk
<1> QED
  BY <1>13, <1>14, <1>16, <1>17 DEF Inv

\* The black grandparent g, its red child p and the red n below p: the only fault
\* of the tree.
RedUnderRed(t, g, p, n) ==
  /\ p \in t.red /\ n \in t.red /\ g \notin t.red /\ t.root \notin t.red
  /\ RedFree(t.left, t.right, t.red, n)
  /\ \E bh : Heights(t.left, t.right, t.red, bh, NULL, 0, 0)

\* The outer rotation when p and n are left children.
LEMMA OuterLeft ==
  ASSUME NEW t \in Tree, NEW sub, NEW S, Covers(t, sub, S),
         NEW g \in Node, NEW p \in Node, NEW n \in Node, p = t.left[g], n = t.left[p],
         NEW gg, Hangs(t, gg, g), NullOrBlack(t, t.right[g]), RedUnderRed(t, g, p, n),
         NEW t2, t2 = MakeRed(MakeBlack(RotateRight(t, gg, g), p), g)
  PROVE  t2 \in Tree /\ Sound(t2) /\ \E sub2 : Covers(t2, sub2, S)
<1> DEFINE up == RotateRight(t, gg, g)
           red2 == (t.red \ {p}) \cup {g}
<1>1. /\ t.left \in [Node -> Ptr] /\ t.right \in [Node -> Ptr] /\ t.red \in SUBSET Node
      /\ t.left[g] # NULL
      /\ t.right[g] = NULL \/ t.right[g] \notin t.red
  BY TreeFields, NullAssumption DEF NullOrBlack, IsBlack
<1>2. /\ up \in Tree /\ up.red = t.red /\ up.root = Renamed(t.root, g, p)
      /\ Rotated(t.right, t.left, up.right, up.left, g)
  BY <1>1, TurnRight
<1>3. PICK sub2 : Covers(up, sub2, S)
  BY <1>1, TurnRight
<1> HIDE DEF up
<1>4. /\ t2 \in Tree /\ t2.root = up.root /\ t2.red = red2
      /\ t2.left = up.left /\ t2.right = up.right
  BY <1>2, ColorFields DEF up, MakeRed, MakeBlack, Tree
<1>5. /\ p \in t.red /\ n \in t.red /\ g \notin t.red /\ t.root \notin t.red
      /\ RedFree(t.left, t.right, t.red, n) /\ RedFree(t.right, t.left, t.red, n)
  BY DEF RedUnderRed, RedFree
<1>6. PICK bh : /\ Heights(t.left, t.right, t.red, bh, NULL, 0, 0)
                /\ Heights(t.right, t.left, t.red, bh, NULL, 0, 0)
  BY <1>1, MirroredHeights DEF RedUnderRed
<1>7. PICK K : RootedTree(t.left, t.right, t.root, sub, K)
  BY MirroredRooted DEF Covers, Ordering
<1>8. /\ \E bh2 : Heights(up.left, up.right, red2, bh2, NULL, 0, 0)
      /\ RedFree(up.left, up.right, red2, NULL)
  BY <1>1, <1>2, <1>5, <1>6, <1>7, OuterColors
<1>9. Sound(t2)
  <2>1. t2.root \notin t2.red
    BY <1>2, <1>4, <1>5 DEF Renamed
  <2> QED
    BY <1>4, <1>8, <2>1 DEF Sound
<1> QED
  BY <1>3, <1>4, <1>9, Painted

\* The outer rotation when they are right children.
LEMMA OuterRight ==
  ASSUME NEW t \in Tree, NEW sub, NEW S, Covers(t, sub, S),
         NEW g \in Node, NEW p \in Node, NEW n \in Node, p = t.right[g], n = t.right[p],
         NEW gg, Hangs(t, gg, g), NullOrBlack(t, t.left[g]), RedUnderRed(t, g, p, n),
         NEW t2, t2 = MakeRed(MakeBlack(RotateLeft(t, gg, g), p), g)
  PROVE  t2 \in Tree /\ Sound(t2) /\ \E sub2 : Covers(t2, sub2, S)
<1> DEFINE up == RotateLeft(t, gg, g)
           red2 == (t.red \ {p}) \cup {g}
<1>1. /\ t.left \in [Node -> Ptr] /\ t.right \in [Node -> Ptr] /\ t.red \in SUBSET Node
      /\ t.right[g] # NULL
      /\ t.left[g] = NULL \/ t.left[g] \notin t.red
  BY TreeFields, NullAssumption DEF NullOrBlack, IsBlack
<1>2. /\ up \in Tree /\ up.red = t.red /\ up.root = Renamed(t.root, g, p)
      /\ Rotated(t.left, t.right, up.left, up.right, g)
  BY <1>1, TurnLeft
<1>3. PICK sub2 : Covers(up, sub2, S)
  BY <1>1, TurnLeft
<1> HIDE DEF up
<1>4. /\ t2 \in Tree /\ t2.root = up.root /\ t2.red = red2
      /\ t2.left = up.left /\ t2.right = up.right
  BY <1>2, ColorFields DEF up, MakeRed, MakeBlack, Tree
<1>5. /\ p \in t.red /\ n \in t.red /\ g \notin t.red /\ t.root \notin t.red
      /\ RedFree(t.left, t.right, t.red, n) /\ RedFree(t.right, t.left, t.red, n)
  BY DEF RedUnderRed, RedFree
<1>6. PICK bh : /\ Heights(t.left, t.right, t.red, bh, NULL, 0, 0)
                /\ Heights(t.right, t.left, t.red, bh, NULL, 0, 0)
  BY <1>1, MirroredHeights DEF RedUnderRed
<1>7. PICK K : RootedTree(t.right, t.left, t.root, sub, K)
  BY MirroredRooted DEF Covers, Ordering
<1>8. /\ \E bh2 : Heights(up.right, up.left, red2, bh2, NULL, 0, 0)
      /\ RedFree(up.right, up.left, red2, NULL)
  BY <1>1, <1>2, <1>5, <1>6, <1>7, OuterColors
<1>9. /\ \E bh2 : Heights(up.left, up.right, red2, bh2, NULL, 0, 0)
      /\ RedFree(up.left, up.right, red2, NULL)
  <2>1. up.left \in [Node -> Ptr] /\ up.right \in [Node -> Ptr]
    BY <1>2, TreeFields
  <2> HIDE DEF red2
  <2> QED
    BY <1>8, <2>1, MirroredHeights DEF RedFree
<1>10. Sound(t2)
  <2>1. t2.root \notin t2.red
    BY <1>2, <1>4, <1>5 DEF Renamed
  <2> QED
    BY <1>4, <1>9, <2>1 DEF Sound
<1> QED
  BY <1>3, <1>4, <1>10, Painted

\* Both rotations when p is the left child and n its right one.
LEMMA InnerLeft ==
  ASSUME NEW t \in Tree, NEW sub, NEW S, Covers(t, sub, S),
         NEW g \in Node, NEW p \in Node, NEW n \in Node, p = t.left[g], n = t.right[p],
         NEW gg, Hangs(t, gg, g), gg \notin {p, n}, g \notin {p, n},
         NullOrBlack(t, t.right[g]), RedUnderRed(t, g, p, n),
         NEW t1, t1 = RotateLeft(t, g, p),
         NEW t2, t2 = MakeRed(MakeBlack(RotateRight(t1, gg, g), n), g)
  PROVE  t1.left[n] = p /\ t2 \in Tree /\ Sound(t2) /\ \E sub2 : Covers(t2, sub2, S)
<1> DEFINE up == RotateRight(t1, gg, g)
           red2 == (t.red \ {n}) \cup {g}
<1>1. /\ t.left \in [Node -> Ptr] /\ t.right \in [Node -> Ptr] /\ t.red \in SUBSET Node
      /\ t.right[p] # NULL /\ n # NULL
      /\ t.right[g] = NULL \/ t.right[g] \notin t.red
      /\ Hangs(t, g, p)
  BY TreeFields, NullAssumption DEF NullOrBlack, IsBlack, Hangs
<1>2. /\ t1 \in Tree /\ t1.red = t.red /\ t1.root = Renamed(t.root, p, n)
      /\ Rotated(t.left, t.right, t1.left, t1.right, p)
      /\ Hangs(t1, gg, g)
  BY <1>1, TurnLeft
<1>3. PICK sub1 : Covers(t1, sub1, S)
  BY <1>1, TurnLeft
<1>4. PICK K : RootedTree(t.left, t.right, t.root, sub, K)
  BY MirroredRooted DEF Covers, Ordering
<1>5. t1.left[g] = n /\ t1.left[n] = p
  BY <1>1, <1>2, <1>4, RotatedPointers DEF Renamed
<1>6. /\ up \in Tree /\ up.red = t1.red /\ up.root = Renamed(t1.root, g, n)
      /\ Rotated(t1.right, t1.left, up.right, up.left, g)
  BY <1>1, <1>2, <1>3, <1>5, TurnRight
<1>7. PICK sub2 : Covers(up, sub2, S)
  BY <1>1, <1>2, <1>3, <1>5, TurnRight
<1> HIDE DEF up
<1>8. /\ t2 \in Tree /\ t2.root = up.root /\ t2.red = red2
      /\ t2.left = up.left /\ t2.right = up.right
  <2>1. t2 = MakeRed(MakeBlack(up, n), g)
    BY DEF up
  <2>2. up \in Tree /\ up.red = t.red /\ n \in Node /\ g \in Node
    BY <1>2, <1>6
  <2>3. /\ t2 \in Tree /\ t2.root = up.root
        /\ t2.left = up.left /\ t2.right = up.right
        /\ t2.red = (up.red \ {n}) \cup {g}
    BY ONLY <2>1, <2>2 DEF MakeRed, MakeBlack, Tree
  <2> QED
    BY <2>2, <2>3
<1>9. /\ p \in t.red /\ n \in t.red /\ g \notin t.red /\ t.root \notin t.red
      /\ RedFree(t.left, t.right, t.red, n) /\ RedFree(t.right, t.left, t.red, n)
  BY DEF RedUnderRed, RedFree
<1>10. PICK bh : /\ Heights(t.left, t.right, t.red, bh, NULL, 0, 0)
                 /\ Heights(t.right, t.left, t.red, bh, NULL, 0, 0)
  BY <1>1, MirroredHeights DEF RedUnderRed
<1>11. /\ \E bh2 : Heights(up.left, up.right, red2, bh2, NULL, 0, 0)
       /\ RedFree(up.left, up.right, red2, NULL)
  BY <1>1, <1>2, <1>4, <1>6, <1>9, <1>10, InnerColors
<1>12. /\ \E bh2 : Heights(up.left, up.right, red2, bh2, NULL, 0, 0)
       /\ RedFree(up.left, up.right, red2, NULL)
  <2>1. up.left \in [Node -> Ptr] /\ up.right \in [Node -> Ptr]
    BY <1>6, TreeFields
  <2> HIDE DEF red2
  <2> QED
    BY <1>11, <2>1, MirroredHeights DEF RedFree
<1>13. Sound(t2)
  <2>1. t2.root \notin t2.red
    BY <1>2, <1>6, <1>8, <1>9 DEF Renamed
  <2> QED
    BY <1>8, <1>12, <2>1 DEF Sound
<1> QED
  BY <1>5, <1>7, <1>8, <1>13, Painted

\* Both rotations when p is the right child and n its left one.
LEMMA InnerRight ==
  ASSUME NEW t \in Tree, NEW sub, NEW S, Covers(t, sub, S),
         NEW g \in Node, NEW p \in Node, NEW n \in Node, p = t.right[g], n = t.left[p],
         NEW gg, Hangs(t, gg, g), gg \notin {p, n}, g \notin {p, n},
         NullOrBlack(t, t.left[g]), RedUnderRed(t, g, p, n),
         NEW t1, t1 = RotateRight(t, g, p),
         NEW t2, t2 = MakeRed(MakeBlack(RotateLeft(t1, gg, g), n), g)
  PROVE  t1.right[n] = p /\ t2 \in Tree /\ Sound(t2) /\ \E sub2 : Covers(t2, sub2, S)
<1> DEFINE up == RotateLeft(t1, gg, g)
           red2 == (t.red \ {n}) \cup {g}
<1>1. /\ t.left \in [Node -> Ptr] /\ t.right \in [Node -> Ptr] /\ t.red \in SUBSET Node
      /\ t.left[p] # NULL /\ n # NULL
      /\ t.left[g] = NULL \/ t.left[g] \notin t.red
      /\ Hangs(t, g, p)
  BY TreeFields, NullAssumption DEF NullOrBlack, IsBlack, Hangs
<1>2. /\ t1 \in Tree /\ t1.red = t.red /\ t1.root = Renamed(t.root, p, n)
      /\ Rotated(t.right, t.left, t1.right, t1.left, p)
      /\ Hangs(t1, gg, g)
  BY <1>1, TurnRight
<1>3. PICK sub1 : Covers(t1, sub1, S)
  BY <1>1, TurnRight
<1>4. PICK K : RootedTree(t.right, t.left, t.root, sub, K)
  BY MirroredRooted DEF Covers, Ordering
<1>5. t1.right[g] = n /\ t1.right[n] = p
  BY <1>1, <1>2, <1>4, RotatedPointers DEF Renamed
<1>6. /\ up \in Tree /\ up.red = t1.red /\ up.root = Renamed(t1.root, g, n)
      /\ Rotated(t1.left, t1.right, up.left, up.right, g)
  BY <1>1, <1>2, <1>3, <1>5, TurnLeft
<1>7. PICK sub2 : Covers(up, sub2, S)
  BY <1>1, <1>2, <1>3, <1>5, TurnLeft
<1> HIDE DEF up
<1>8. /\ t2 \in Tree /\ t2.root = up.root /\ t2.red = red2
      /\ t2.left = up.left /\ t2.right = up.right
  <2>1. t2 = MakeRed(MakeBlack(up, n), g)
    BY DEF up
  <2>2. up \in Tree /\ up.red = t.red /\ n \in Node /\ g \in Node
    BY <1>2, <1>6
  <2>3. /\ t2 \in Tree /\ t2.root = up.root
        /\ t2.left = up.left /\ t2.right = up.right
        /\ t2.red = (up.red \ {n}) \cup {g}
    BY ONLY <2>1, <2>2 DEF MakeRed, MakeBlack, Tree
  <2> QED
    BY <2>2, <2>3
<1>9. /\ p \in t.red /\ n \in t.red /\ g \notin t.red /\ t.root \notin t.red
      /\ RedFree(t.left, t.right, t.red, n) /\ RedFree(t.right, t.left, t.red, n)
  BY DEF RedUnderRed, RedFree
<1>10. PICK bh : /\ Heights(t.left, t.right, t.red, bh, NULL, 0, 0)
                 /\ Heights(t.right, t.left, t.red, bh, NULL, 0, 0)
  BY <1>1, MirroredHeights DEF RedUnderRed
<1>11. /\ \E bh2 : Heights(up.right, up.left, red2, bh2, NULL, 0, 0)
       /\ RedFree(up.right, up.left, red2, NULL)
  BY <1>1, <1>2, <1>4, <1>6, <1>9, <1>10, InnerColors
<1>12. /\ \E bh2 : Heights(up.left, up.right, red2, bh2, NULL, 0, 0)
       /\ RedFree(up.left, up.right, red2, NULL)
  <2>1. up.left \in [Node -> Ptr] /\ up.right \in [Node -> Ptr]
    BY <1>6, TreeFields
  <2> HIDE DEF red2
  <2> QED
    BY <1>11, <2>1, MirroredHeights DEF RedFree
<1>13. Sound(t2)
  <2>1. t2.root \notin t2.red
    BY <1>2, <1>6, <1>8, <1>9 DEF Renamed
  <2> QED
    BY <1>8, <1>12, <2>1 DEF Sound
<1> QED
  BY <1>5, <1>7, <1>8, <1>13, Painted

\* Father red and uncle black: one rotation or two, and a valid tree again.
LEMMA InsertFixupRotateStep ==
  ASSUME Inv, InsertFixupRotate
  PROVE  Inv' /\ Linked(tree)' = Linked(tree)
<1> DEFINE n == FromEnd(path, 1)
           p == FromEnd(path, 2)
           g == FromEnd(path, 3)
           gg == FromEnd(path, 4)
           tl == RotateLeft(tree, g, p)
           tr == RotateRight(tree, g, p)
<1>1. /\ DoubleRed /\ pc = "insert_fixup" /\ NullOrBlack(tree, Uncle)
      /\ Return(ret) /\ UNCHANGED closing
  BY DEF InsertFixupRotate, DoubleRed
<1>2. /\ Len(path) >= 3 /\ g = Grandparent
      /\ n \in Node /\ p \in Node /\ g \in Node
      /\ n \in tree.red /\ p \in tree.red /\ g \notin tree.red
      /\ Hangs(tree, p, n) /\ Hangs(tree, g, p) /\ Hangs(tree, gg, g)
      /\ gg \notin {g, p, n} /\ p # n /\ p # g /\ g # n
      /\ tree.root \notin tree.red
  BY <1>1, DoubleRedFacts
<1>3. tree' = IF tree.left[g] # NULL /\ n = tree.right[tree.left[g]]
              THEN OuterRotation(tl, gg, g, tl.left[n], n)
              ELSE IF tree.right[g] # NULL /\ n = tree.left[tree.right[g]]
              THEN OuterRotation(tr, gg, g, tr.right[n], n)
              ELSE OuterRotation(tree, gg, g, n, p)
  BY <1>2 DEF InsertFixupRotate
<1>4. /\ tree \in Tree /\ TypeOK /\ ~closing /\ InsertFlaw(tree, path) /\ n = path[Len(path)]
      /\ tree.left \in [Node -> Ptr] /\ tree.right \in [Node -> Ptr]
  BY <1>1, InsertFixupFacts
<1>5. PICK sub : Ordering(tree, sub, KeyOf) /\ Covers(tree, sub, Linked(tree))
  BY <1>1, InsertFixupFacts
<1>6. Uncle = IF p = tree.left[g] THEN tree.right[g] ELSE tree.left[g]
  BY <1>2 DEF Uncle
<1> HIDE DEF n, p, g, gg
<1>7. RedUnderRed(tree, g, p, n)
  BY <1>2, <1>4 DEF InsertFlaw, RedUnderRed
<1>8. /\ n \in {tree.left[p], tree.right[p]} /\ p \in {tree.left[g], tree.right[g]}
      /\ p # NULL /\ n # NULL /\ tree.left[g] # tree.right[g] /\ tree.left[p] # tree.right[p]
      /\ \A m \in Node : n \in {tree.left[m], tree.right[m]} => m = p
  <2>1. p # NULL /\ n # NULL /\ g # NULL
    BY <1>2, NullAssumption
  <2>2. /\ \A m \in Node : n \in {tree.left[m], tree.right[m]} => m = p
        /\ tree.left[p] # tree.right[p]
    BY <1>2, <1>4, <1>5, <2>1, HangsOnce
  <2>3. tree.left[g] # tree.right[g]
    BY <1>2, <1>4, <1>5, <2>1, HangsOnce
  <2> QED
    BY <1>2, <2>1, <2>2, <2>3 DEF Hangs
<1>9. tree' \in Tree /\ Sound(tree') /\ \E sub2 : Covers(tree', sub2, Linked(tree))
  <2>1. CASE p = tree.left[g] /\ n = tree.right[p]
    <3> HIDE DEF tl, tr
    <3>1. tree' = OuterRotation(tl, gg, g, tl.left[n], n)
      BY <1>3, <1>8, <2>1
    <3>2. tree' = MakeRed(MakeBlack(RotateRight(tl, gg, g), n), g)
      BY <3>1 DEF OuterRotation
    <3>3. NullOrBlack(tree, tree.right[g])
      BY <1>1, <1>6, <2>1
    <3>4. gg \notin {p, n} /\ g \notin {p, n}
      BY <1>2
    <3> QED
      BY <1>2, <1>4, <1>5, <1>7, <2>1, <3>2, <3>3, <3>4, InnerLeft DEF tl
  <2>2. CASE p = tree.right[g] /\ n = tree.left[p]
    <3>1. NullOrBlack(tree, tree.left[g]) /\ p # tree.left[g]
      BY <1>1, <1>6, <1>8, <2>2
    <3>2. gg \notin {p, n} /\ g \notin {p, n}
      BY <1>2
    <3>3. ~(tree.left[g] # NULL /\ n = tree.right[tree.left[g]])
      <4>1. ASSUME tree.left[g] # NULL, n = tree.right[tree.left[g]] PROVE FALSE
        <5>1. tree.left[g] \in Node
          BY <1>2, <1>4, <4>1 DEF Ptr
        <5> QED
          BY <1>8, <3>1, <4>1, <5>1
      <4> QED
        BY <4>1
    <3> HIDE DEF tl, tr
    <3>4. tree' = OuterRotation(tr, gg, g, tr.right[n], n)
      BY <1>3, <1>8, <2>2, <3>3
    <3> DEFINE t2 == MakeRed(MakeBlack(RotateLeft(tr, gg, g), n), g)
    <3>5. tr.right[n] = p /\ t2 \in Tree /\ Sound(t2) /\ \E sub2 : Covers(t2, sub2, Linked(tree))
      BY <1>2, <1>4, <1>5, <1>7, <2>2, <3>1, <3>2, InnerRight DEF tr
    <3>6. tr.right[n] # tr.left[n]
      <4>1. /\ tr \in Tree /\ tr.right[n] = p /\ \E sub1 : Covers(tr, sub1, Linked(tree))
        BY <1>2, <1>4, <1>5, <1>8, <2>2, <3>5, TurnRight DEF tr
      <4> QED
        BY <1>2, <1>8, <4>1, Locally DEF Covers, Ordering, RootedTree
    <3>7. tree' = t2
      BY <3>4, <3>6 DEF OuterRotation
    <3> HIDE DEF t2
    <3> QED
      BY <3>5, <3>7
  <2>3. CASE p = tree.left[g] /\ n = tree.left[p]
    <3>1. NullOrBlack(tree, tree.right[g]) /\ n # tree.right[p]
      BY <1>1, <1>6, <1>8, <2>3
    <3>2. ~(tree.right[g] # NULL /\ n = tree.left[tree.right[g]])
      <4>1. ASSUME tree.right[g] # NULL, n = tree.left[tree.right[g]] PROVE FALSE
        <5>1. tree.right[g] \in Node
          BY <1>2, <1>4, <4>1 DEF Ptr
        <5> QED
          BY <1>8, <2>3, <4>1, <5>1
      <4> QED
        BY <4>1
    <3> HIDE DEF tl, tr
    <3>3. tree' = OuterRotation(tree, gg, g, n, p)
      BY <1>3, <2>3, <3>1, <3>2
    <3>4. tree' = MakeRed(MakeBlack(RotateRight(tree, gg, g), p), g)
      BY <2>3, <3>3 DEF OuterRotation
    <3> QED
      BY <1>2, <1>4, <1>5, <1>7, <2>3, <3>1, <3>4, OuterLeft
  <2>4. CASE p = tree.right[g] /\ n = tree.right[p]
    <3>1. NullOrBlack(tree, tree.left[g]) /\ n # tree.left[p] /\ p # tree.left[g]
      BY <1>1, <1>6, <1>8, <2>4
    <3>2. ~(tree.left[g] # NULL /\ n = tree.right[tree.left[g]])
      <4>1. ASSUME tree.left[g] # NULL, n = tree.right[tree.left[g]] PROVE FALSE
        <5>1. tree.left[g] \in Node
          BY <1>2, <1>4, <4>1 DEF Ptr
        <5> QED
          BY <1>8, <3>1, <4>1, <5>1
      <4> QED
        BY <4>1
    <3> HIDE DEF tl, tr
    <3>3. tree' = OuterRotation(tree, gg, g, n, p)
      BY <1>3, <2>4, <3>1, <3>2
    <3>4. tree' = MakeRed(MakeBlack(RotateLeft(tree, gg, g), p), g)
      BY <3>1, <3>3 DEF OuterRotation
    <3> QED
      BY <1>2, <1>4, <1>5, <1>7, <2>4, <3>1, <3>4, OuterRight
  <2> QED
    BY <1>8, <2>1, <2>2, <2>3, <2>4
<1> QED
  BY <1>1, <1>4, <1>9, FixupReturned

-----------------------------------------------------------------------------
(* rbtree_remove: the victim is ripped out.                                *)

\* How much is lent on the sides of G when e below it is one black node short.
LentLeft(t, G, e) == IF G # NULL /\ e = t.left[G] THEN 1 ELSE 0
LentRight(t, G, e) == IF G # NULL /\ e # t.left[G] THEN 1 ELSE 0

\* A node has one parent, so the black node it lacks is lent at one place only.
LEMMA LentAt ==
  ASSUME NEW t \in Tree, NEW sub, NEW K, Ordering(t, sub, K),
         NEW e \in Node, NEW G, Hangs(t, G, e)
  PROVE  /\ Lent(t.left, t.right, e, G, LentLeft(t, G, e), LentRight(t, G, e))
         /\ Lent(t.right, t.left, e, G, LentRight(t, G, e), LentLeft(t, G, e))
         /\ LentLeft(t, G, e) \in Nat /\ LentRight(t, G, e) \in Nat
<1>1. /\ G \in Ptr /\ (G = NULL <=> t.root = e) /\ NULL \notin Node
      /\ \A m \in Node : e \in {t.left[m], t.right[m]} => m = G
      /\ G # NULL => G \in Node /\ e \in {t.left[G], t.right[G]}
  BY HangsOnce, NullAssumption DEF Hangs
<1>2. CASE G = NULL
  BY <1>1, <1>2 DEF Lent, LentLeft, LentRight
<1>3. CASE G # NULL
  BY <1>1, <1>3 DEF Lent, LentLeft, LentRight
<1> QED
  BY <1>2, <1>3

\* What takes the place of a node with at most one child.
OnlyChild(t, v) == IF t.left[v] # NULL THEN t.left[v] ELSE t.right[v]

\* The victim v hangs below G and has at most one child c.
LEMMA SpliceOut ==
  ASSUME NEW t \in Tree, NEW sub, NEW v \in Node, t.left[v] = NULL \/ t.right[v] = NULL,
         AscendsBut(t.left, t.right, sub, KeyOf, v), NEW K, Ordering(t, sub, K), Sound(t),
         NEW G, Hangs(t, G, v),
         NEW c, c = OnlyChild(t, v),
         NEW t2, t2 = Forget(ReplaceChild(t, G, v, c), v)
  PROVE  /\ t2 \in Tree /\ t2.red = t.red \ {v} /\ t2.root = Renamed(t.root, v, c)
         /\ c \in Ptr
         /\ Spliced(t.left, t.right, t2.left, t2.right, v, c)
         /\ \E sub2 : Ordering(t2, sub2, KeyOf)
         /\ Linked(t2) = Linked(t) \ {v}
         /\ Relieved(t2.left, t2.right, t.red, v, c, G, LentLeft(t, G, v), LentRight(t, G, v))
<1> DEFINE L == [n \in Node |-> -KeyOf[n]]
           dl == LentLeft(t, G, v)
           dr == LentRight(t, G, v)
<1>1. /\ t.left \in [Node -> Ptr] /\ t.right \in [Node -> Ptr] /\ t.red \in SUBSET Node
      /\ c \in Ptr
  BY TreeFields DEF OnlyChild
<1>2. /\ t2 \in Tree /\ t2.red = t.red \ {v} /\ t2.root = Renamed(t.root, v, c)
      /\ Spliced(t.left, t.right, t2.left, t2.right, v, c)
  BY <1>1, SpliceIs
<1>3. t2.left \in [Node -> Ptr] /\ t2.right \in [Node -> Ptr]
  BY <1>2, TreeFields
<1>4. /\ Lent(t.left, t.right, v, G, dl, dr) /\ Lent(t.right, t.left, v, G, dr, dl)
      /\ dl \in Nat /\ dr \in Nat
  BY LentAt
<1>5. PICK bh : Heights(t.left, t.right, t.red, bh, NULL, 0, 0)
  BY DEF Sound
<1>6. RedFree(t.left, t.right, t.red, NULL)
  BY DEF Sound
<1>7. PICK M : RootedTree(t.right, t.left, t.root, sub, M)
  BY MirroredRooted DEF Ordering
<1>8. RootedTree(t.left, t.right, t.root, sub, K)
  BY DEF Ordering
<1> HIDE DEF dl, dr
<1>9. /\ \E sub2 : /\ RootedTree(t2.left, t2.right, Renamed(t.root, v, c), sub2, KeyOf)
                   /\ sub2[Renamed(t.root, v, c)] = sub[t.root] \ {v}
      /\ Relieved(t2.left, t2.right, t.red, v, c, G, dl, dr)
  <2>1. CASE t.left[v] = NULL
    <3>1. c = t.right[v]
      BY <2>1 DEF OnlyChild
    <3>2. Spliced(t.left, t.right, t2.left, t2.right, v, t.right[v])
      BY <1>2, <3>1
    <3>3. \E sub2 : /\ RootedTree(t2.left, t2.right, Renamed(t.root, v, t.right[v]), sub2, KeyOf)
                    /\ sub2[Renamed(t.root, v, t.right[v])] = sub[t.root] \ {v}
      BY <1>8, <2>1, <3>2, KeyAssumption, SplicedTree
    <3>4. Relieved(t2.left, t2.right, t.red, v, t.right[v], G, dl, dr)
      BY <1>1, <1>4, <1>5, <1>6, <1>8, <2>1, <3>2, SpliceColors
    <3> QED
      BY <3>1, <3>3, <3>4
  <2>2. CASE t.left[v] # NULL
    <3>1. c = t.left[v] /\ t.right[v] = NULL
      BY <2>2 DEF OnlyChild
    <3>2. /\ L \in [Node -> Int] /\ AscendsBut(t.right, t.left, sub, L, v)
      <4>1. \A n \in Node : KeyOf[n] \in Int /\ L[n] = -KeyOf[n]
        BY KeyAssumption
      <4>2. \A n \in Node : sub[t.left[n]] \subseteq Node /\ sub[t.right[n]] \subseteq Node
        BY <1>8, Locally DEF RootedTree
      <4>3. L \in [Node -> Int]
        BY <4>1
      <4> HIDE DEF L
      <4> QED
        BY <4>1, <4>2, <4>3 DEF AscendsBut
    <3>3. /\ Spliced(t.right, t.left, t2.right, t2.left, v, c)
          /\ RedFree(t.right, t.left, t.red, NULL)
          /\ Heights(t.right, t.left, t.red, bh, NULL, 0, 0)
      BY <1>1, <1>2, <1>5, <1>6, MirroredHeights DEF Spliced, RedFree
    <3> HIDE DEF L
    <3>4. Spliced(t.right, t.left, t2.right, t2.left, v, t.left[v])
      BY <3>1, <3>3
    <3>5. \E sub2 : /\ RootedTree(t2.left, t2.right, Renamed(t.root, v, c), sub2, KeyOf)
                    /\ sub2[Renamed(t.root, v, c)] = sub[t.root] \ {v}
      <4>1. PICK sub2 : /\ RootedTree(t2.right, t2.left, Renamed(t.root, v, t.left[v]), sub2, L)
                        /\ sub2[Renamed(t.root, v, t.left[v])] = sub[t.root] \ {v}
        BY <1>7, <3>1, <3>2, <3>4, SplicedTree
      <4>2. RootedTree(t2.left, t2.right, Renamed(t.root, v, t.left[v]), sub2, KeyOf)
        BY <4>1, KeyAssumption, MirroredBack DEF L
      <4> QED
        BY <3>1, <4>1, <4>2
    <3>6. Relieved(t2.right, t2.left, t.red, v, t.left[v], G, dr, dl)
      BY <1>1, <1>4, <1>7, <3>1, <3>3, <3>4, SpliceColors
    <3>7. Relieved(t2.left, t2.right, t.red, v, c, G, dl, dr)
      <4>1. RedFree(t2.left, t2.right, t.red \ {v, c}, NULL)
        BY <3>1, <3>6 DEF Relieved, RedFree
      <4>2. v \in t.red => \E bh2 : Heights(t2.left, t2.right, t.red \ {v}, bh2, NULL, 0, 0)
        BY <1>3, <3>6, MirroredHeights DEF Relieved
      <4>3. v \notin t.red => \E bh2 : Heights(t2.left, t2.right, t.red \ {v}, bh2, G, dl, dr)
        BY <1>3, <1>4, <3>6, MirroredHeights DEF Relieved
      <4> QED
        BY <3>1, <3>6, <4>1, <4>2, <4>3 DEF Relieved
    <3> QED
      BY <3>5, <3>7
  <2> QED
    BY <2>1, <2>2
<1>10. Linked(t2) = Linked(t) \ {v}
  <2>1. PICK sub2 : /\ RootedTree(t2.left, t2.right, t2.root, sub2, KeyOf)
                    /\ sub2[t2.root] = sub[t.root] \ {v}
    BY <1>2, <1>9
  <2> QED
    BY <1>8, <2>1, LinkedBelow
<1> QED
  BY <1>1, <1>2, <1>9, <1>10 DEF Ordering, dl, dr

\* A sequence is known by its length and its entries.
LEMMA SameEntries ==
  ASSUME NEW p \in Seq(Ptr), NEW q \in Seq(Ptr), Len(p) = Len(q),
         \A i \in 1 .. Len(p) : p[i] = q[i]
  PROVE  p = q
<1>1. p = [i \in 1 .. Len(p) |-> p[i]] /\ q = [i \in 1 .. Len(q) |-> q[i]]
  OBVIOUS
<1> QED
  BY <1>1

\* q is p with c at its end.
Ended(p, q, c) == q = [p EXCEPT ![Len(p)] = c]

\* The way to the removed node now ends with what took its place.
LEMMA SplicedPath ==
  ASSUME NEW t \in Tree, NEW sub, NEW K, Ordering(t, sub, K),
         NEW p \in Seq(Node), p # <<>>, IsPath(t.left, t.right, t.root, p),
         NEW v, v = p[Len(p)], NEW G, G = FromEnd(p, 2), NEW c \in Ptr,
         NEW t2 \in Tree, t2.root = Renamed(t.root, v, c),
         Spliced(t.left, t.right, t2.left, t2.right, v, c),
         NEW q, Ended(p, q, c)
  PROVE  /\ IsPath(t2.left, t2.right, t2.root, q)
         /\ Len(q) = Len(p) /\ FromEnd(q, 1) = c /\ FromEnd(q, 2) = G
<1> DEFINE a == t.left
           b == t.right
           r == t.root
           l == Len(p)
           h == Shorten(p, 1)
<1>1. /\ RootedTree(a, b, r, sub, K) /\ a \in [Node -> Ptr] /\ b \in [Node -> Ptr]
      /\ t2.left \in [Node -> Ptr] /\ t2.right \in [Node -> Ptr]
      /\ t2.left = [m \in Node |-> IF m = v THEN NULL ELSE Renamed(a[m], v, c)]
      /\ t2.right = [m \in Node |-> IF m = v THEN NULL ELSE Renamed(b[m], v, c)]
  BY TreeFields DEF Ordering, Spliced
<1>2. /\ l \in Nat /\ l >= 1 /\ l \in 1 .. l /\ v \in Node /\ v # NULL /\ v \in Ptr
      /\ \A i \in 1 .. l : p[i] \in Node
  <2>1. l \in Nat /\ l # 0
    OBVIOUS
  <2>2. l >= 1 /\ l \in 1 .. l
    <3> HIDE DEF l
    <3> QED
      BY <2>1
  <2>3. \A i \in 1 .. l : p[i] \in Node
    OBVIOUS
  <2> QED
    BY <2>1, <2>2, <2>3, NullAssumption DEF Ptr
<1>3. \A i \in 1 .. l - 1 : p[i] # v
  BY <1>1, <1>2, PathBelow
<1>4. p[1] = r /\ \A i \in 1 .. l - 1 : p[i + 1] \in {a[p[i]], b[p[i]]}
  BY DEF IsPath
<1> HIDE DEF a, b, r
<1>5. l = 1 => G = NULL /\ r = v
  <2>1. ASSUME l = 1 PROVE G = NULL
    BY <2>1 DEF FromEnd
  <2>2. ASSUME l = 1 PROVE r = v
    BY <1>4, <2>2
  <2> QED
    BY <2>1, <2>2
<1>6. l > 1 => G = p[l - 1] /\ l - 1 \in 1 .. l /\ l - 1 \in 1 .. l - 1 /\ v \in {a[G], b[G]} /\ r # v
  <2>1. ASSUME l > 1
        PROVE  G = p[l - 1] /\ l - 1 \in 1 .. l /\ l - 1 \in 1 .. l - 1 /\ (l - 1) + 1 = l
               /\ 1 \in 1 .. l - 1
    <3>1. l >= 2 /\ l - 2 + 1 = l - 1
      BY <1>2, <2>1
    <3>2. G = p[l - 1]
      BY <3>1 DEF FromEnd
    <3> HIDE DEF l
    <3> QED
      BY <1>2, <2>1, <3>2
  <2>2. ASSUME l > 1 PROVE v \in {a[G], b[G]} /\ r # v
    <3> HIDE DEF l
    <3> QED
      BY <1>3, <1>4, <2>1, <2>2 DEF l
  <2> QED
    BY <2>1, <2>2
<1>7. \A m \in Node : v \in {a[m], b[m]} => m = G
  <2>1. CASE l = 1
    BY <1>1, <1>2, <1>5, <2>1, OnlyParent
  <2>2. CASE l > 1
    <3>1. G \in Node
      BY <1>2, <1>6, <2>2
    <3> QED
      BY <1>1, <1>2, <1>6, <2>2, <3>1, OnlyParent
  <2>3. l = 1 \/ l > 1
    <3> HIDE DEF l
    <3> QED
      BY <1>2
  <2> QED
    BY <2>1, <2>2, <2>3
<1>8. /\ IsPath(t2.left, t2.right, t2.root, h) /\ Len(h) = l - 1 /\ h \in Seq(Node)
      /\ \A i \in 1 .. l - 1 : h[i] = p[i]
  <2>1. SameAbove(a, b, t2.left, t2.right, p, l - 1 - 1)
    <3>1. ASSUME NEW i \in 1 .. l - 1 - 1
          PROVE  t2.left[p[i]] = a[p[i]] /\ t2.right[p[i]] = b[p[i]]
      <4>1. i \in 1 .. l /\ i \in 1 .. l - 1 /\ l > 1 /\ i \in 1 .. (l - 1) - 1
        BY <1>2
      <4>2. p[i] # G
        <5>1. p[l - 1] # NULL
          BY <1>2, <1>6, <4>1, NullAssumption
        <5>2. p[i] # p[l - 1]
          <6>1. l - 1 \in 1 .. Len(p) /\ i \in 1 .. (l - 1) - 1 /\ p[l - 1] # NULL
            BY <1>6, <4>1, <5>1
          <6>2. RootedTree(a, b, r, sub, K) /\ IsPath(a, b, r, p)
            BY <1>1 DEF a, b, r
          <6> QED
            BY ONLY <6>1, <6>2, PathBelow
        <5> QED
          BY <1>6, <4>1, <5>2
      <4> QED
        BY <1>1, <1>2, <1>3, <1>7, <4>1, <4>2 DEF Renamed
    <3> QED
      BY <3>1 DEF SameAbove
  <2>2. 1 \in Nat /\ 1 <= l /\ 1 >= 1
    BY <1>2
  <2>3. 1 < l => t2.root = r
    BY <1>6 DEF Renamed, r
  <2> QED
    BY <2>1, <2>2, <2>3, PathKept DEF a, b, r
<1>9. q = Append(h, c)
  <2>1. p \in Seq(Ptr)
    BY DEF IsPath
  <2>2. q \in Seq(Ptr) /\ Len(q) = l /\ q[l] = c /\ \A i \in 1 .. l - 1 : q[i] = p[i]
    BY <1>2, <2>1 DEF Ended
  <2>3. h \in Seq(Ptr)
    BY <1>8 DEF IsPath
  <2>4. /\ Append(h, c) \in Seq(Ptr) /\ Len(Append(h, c)) = l /\ Append(h, c)[l] = c
        /\ \A i \in 1 .. l - 1 : Append(h, c)[i] = h[i]
    BY <1>2, <1>8, <2>3
  <2>5. ASSUME NEW i \in 1 .. l PROVE q[i] = Append(h, c)[i]
    <3>1. i \in 1 .. l - 1 \/ i = l
      BY <1>2
    <3> QED
      BY <1>8, <2>2, <2>4, <3>1
  <2> HIDE DEF h
  <2> QED
    BY <2>2, <2>4, <2>5, SameEntries
<1>10. /\ h = <<>> => c = t2.root
       /\ h # <<>> => c \in {t2.left[h[Len(h)]], t2.right[h[Len(h)]]}
  <2>1. ASSUME h = <<>> PROVE c = t2.root
    <3>1. l = 1
      BY <1>2, <1>8, <2>1
    <3> QED
      BY <1>5, <3>1 DEF Renamed, r
  <2>2. ASSUME h # <<>> PROVE c \in {t2.left[h[Len(h)]], t2.right[h[Len(h)]]}
    <3>1. l > 1 /\ h[Len(h)] = p[l - 1]
      <4>1. l - 1 # 0
        BY <1>8, <2>2
      <4>2. l > 1 /\ l - 1 \in 1 .. l - 1
        <5> HIDE DEF l
        <5> QED
          BY <1>2, <4>1
      <4> QED
        BY <1>8, <4>2
    <3>2. G \in Node /\ G # v /\ h[Len(h)] = G
      BY <1>2, <1>3, <1>6, <3>1
    <3> QED
      BY <1>1, <1>6, <3>1, <3>2 DEF Renamed
  <2> QED
    BY <2>1, <2>2
<1>11. IsPath(t2.left, t2.right, t2.root, q)
  <2>1. IsPath(t2.left, t2.right, t2.root, Append(h, c))
    <3> HIDE DEF h
    <3> QED
      BY <1>1, <1>8, <1>10, PathOn
  <2> QED
    BY <1>9, <2>1
<1>12. Len(q) = l /\ FromEnd(q, 1) = c /\ FromEnd(q, 2) = G
  <2>1. p \in Seq(Ptr)
    BY DEF IsPath
  <2>2. Len(q) = l /\ q[l] = c /\ \A i \in 1 .. l - 1 : q[i] = p[i]
    BY <1>2, <2>1 DEF Ended
  <2>3. FromEnd(q, 1) = c
    <3>1. l - 1 + 1 = l
      BY <1>2
    <3> QED
      BY <1>2, <2>2, <3>1 DEF FromEnd
  <2>4. CASE l > 1
    <3>1. l >= 2 /\ l - 2 + 1 = l - 1
      BY <1>2, <2>4
    <3> QED
      BY <1>6, <2>2, <2>3, <2>4, <3>1 DEF FromEnd
  <2>5. CASE ~(l > 1)
    <3>1. l = 1 /\ ~(l >= 2)
      <4> HIDE DEF l
      <4> QED
        BY <1>2, <2>5
    <3> QED
      BY <1>5, <2>2, <2>3, <3>1 DEF FromEnd
  <2> QED
    BY <2>4, <2>5
<1> QED
  BY <1>11, <1>12

\* A red victim leaves nothing behind, a black one a subtree that is one black
\* node short.
LEMMA RemoveDisconnectStep ==
  ASSUME Inv, RemoveDisconnect
  PROVE  Inv' /\ Linked(tree') = Linked(tree) \ {FromEnd(path, 1)}
<1> DEFINE v == FromEnd(path, 1)
           G == FromEnd(path, 2)
           c == OnlyChild(tree, v)
<1>1. /\ pc = "disconnect" /\ tree' = Forget(ReplaceChild(tree, G, v, c), v)
      /\ closing' = closing
      /\ IsBlack(tree, v) => /\ pc' = "remove_fixup" /\ path' = [path EXCEPT ![Len(path)] = c]
                             /\ ret' = v /\ UNCHANGED <<op, key, node, at>>
      /\ ~IsBlack(tree, v) => Return(v)
  BY DEF RemoveDisconnect, OnlyChild
<1>2. /\ tree \in Tree /\ TypeOK /\ ~closing /\ Sound(tree) /\ closing \in BOOLEAN
      /\ path \in Seq(Node) /\ IsPath(tree.left, tree.right, tree.root, path)
      /\ tree.red \in SUBSET Node
  BY <1>1, TreeFields DEF Inv, Control, Colours, TypeOK
<1>3. PICK sub : Ripe(tree, sub, path)
  BY <1>1 DEF Inv, Walk
<1>4. /\ path # <<>> /\ v = path[Len(path)] /\ v \in Node /\ v # NULL /\ v \in Ptr
      /\ tree.left[v] = NULL \/ tree.right[v] = NULL
      /\ AscendsBut(tree.left, tree.right, sub, KeyOf, v)
      /\ Len(path) >= 1
  <2>1. Len(path) \in Nat /\ Len(path) # 0
    BY <1>2, <1>3 DEF Ripe
  <2>2. Len(path) >= 1
    BY <2>1
  <2>3. v = path[Len(path)]
    BY <1>2, <2>2, PathEnd
  <2> HIDE DEF v
  <2> QED
    BY <1>3, <2>2, <2>3, NullAssumption DEF Ripe, Ptr
<1>5. PICK K : Ordering(tree, sub, K)
  BY <1>3 DEF Ripe
<1>6. Hangs(tree, G, v)
  <2>1. 1 \in Nat \ {0} /\ 1 <= Len(path) /\ 1 + 1 = 2
    BY <1>2, <1>4
  <2> QED
    BY <1>2, <1>4, <2>1, PathHangs
<1>7. G = NULL <=> tree.root = v
  <2> HIDE DEF v, G
  <2> QED
    BY <1>2, <1>4, <1>5, <1>6, HangsOnce
<1>8. /\ tree' \in Tree /\ tree'.red = tree.red \ {v} /\ tree'.root = Renamed(tree.root, v, c)
      /\ c \in Ptr
      /\ Spliced(tree.left, tree.right, tree'.left, tree'.right, v, c)
      /\ \E sub2 : Ordering(tree', sub2, KeyOf)
      /\ Linked(tree') = Linked(tree) \ {v}
      /\ Relieved(tree'.left, tree'.right, tree.red, v, c, G,
                  LentLeft(tree, G, v), LentRight(tree, G, v))
  <2>1. c = OnlyChild(tree, v) /\ tree' = Forget(ReplaceChild(tree, G, v, c), v)
    BY <1>1
  <2> HIDE DEF v, G, c
  <2>2. /\ tree \in Tree /\ v \in Node /\ Sound(tree)
        /\ tree.left[v] = NULL \/ tree.right[v] = NULL
        /\ AscendsBut(tree.left, tree.right, sub, KeyOf, v)
        /\ Ordering(tree, sub, K) /\ Hangs(tree, G, v)
    BY <1>2, <1>4, <1>5, <1>6
  <2> QED
    BY ONLY <2>1, <2>2, SpliceOut
<1> HIDE DEF v, G, c
<1>9. Linked(tree') = Linked(tree) \ {FromEnd(path, 1)}
  BY <1>8 DEF v
<1> SUFFICES Inv'
  BY <1>9
<1>10. CASE ~IsBlack(tree, v)
  <2>1. v \in tree.red /\ tree.root \notin tree.red
    BY <1>2, <1>10 DEF IsBlack, Sound
  <2>2. /\ c = NULL /\ \E bh : Heights(tree'.left, tree'.right, tree.red \ {v}, bh, NULL, 0, 0)
        /\ RedFree(tree'.left, tree'.right, tree.red \ {v, c}, NULL)
    BY <1>8, <2>1 DEF Relieved
  <2>3. tree.red \ {v, c} = tree.red \ {v}
    BY <1>2, <2>2, NullAssumption
  <2>4. tree'.root \notin tree'.red
    BY <1>2, <1>8, <2>1, <2>2, NullAssumption DEF Renamed
  <2>5. Sound(tree')
    BY <1>8, <2>2, <2>3, <2>4 DEF Sound
  <2>6. v \in Ptr \cup {0, -1} /\ closing' \in BOOLEAN
    BY <1>1, <1>2, <1>4
  <2> QED
    BY <1>1, <1>2, <1>8, <1>10, <2>5, <2>6, Returned
<1>11. CASE IsBlack(tree, v)
  <2>1. /\ pc' = "remove_fixup" /\ path' = [path EXCEPT ![Len(path)] = c]
        /\ ret' = v /\ UNCHANGED <<op, key, node, at>>
    BY <1>1, <1>11
  <2>2. /\ IsPath(tree'.left, tree'.right, tree'.root, path')
        /\ Len(path') = Len(path) /\ FromEnd(path', 1) = c /\ FromEnd(path', 2) = G
    <3>1. /\ tree \in Tree /\ Ordering(tree, sub, K) /\ path \in Seq(Node) /\ path # <<>>
          /\ IsPath(tree.left, tree.right, tree.root, path) /\ v = path[Len(path)]
          /\ c \in Ptr /\ tree' \in Tree /\ tree'.root = Renamed(tree.root, v, c)
          /\ Spliced(tree.left, tree.right, tree'.left, tree'.right, v, c)
      BY <1>2, <1>4, <1>5, <1>8
    <3>2. G = FromEnd(path, 2) /\ Ended(path, path', c)
      BY <2>1 DEF G, Ended
    <3> QED
      BY ONLY <3>1, <3>2, SplicedPath
  <2>3. path' \in Seq(Ptr)
    BY <2>2 DEF IsPath
  <2>4. RemoveFlaw(tree', path')
    <3>1. /\ \E bh : Heights(tree'.left, tree'.right, tree'.red, bh, G,
                             LentLeft(tree, G, v), LentRight(tree, G, v))
          /\ G # NULL => tree'.left[G] # tree'.right[G]
          /\ RedFree(tree'.left, tree'.right, tree.red \ {v, c}, NULL)
          /\ v \notin tree.red
      BY <1>8, <1>11 DEF Relieved, IsBlack
    <3>2. /\ LentLeft(tree, G, v) = IF G # NULL /\ c = tree'.left[G] THEN 1 ELSE 0
          /\ LentRight(tree, G, v) = IF G # NULL /\ c # tree'.left[G] THEN 1 ELSE 0
      <4>1. CASE G = NULL
        BY <4>1 DEF LentLeft, LentRight
      <4>2. CASE G # NULL
        <5>1. G \in Node /\ v \in {tree.left[G], tree.right[G]} /\ G # v
          BY <1>2, <1>4, <1>5, <1>6, <4>2, HangsOnce DEF Hangs
        <5>2. /\ tree'.left[G] = Renamed(tree.left[G], v, c)
              /\ tree'.right[G] = Renamed(tree.right[G], v, c)
          BY <1>8, <5>1 DEF Spliced
        <5>3. v = tree.left[G] <=> c = tree'.left[G]
          BY <3>1, <4>2, <5>1, <5>2 DEF Renamed
        <5> QED
          BY <4>2, <5>3 DEF LentLeft, LentRight
      <4> QED
        BY <4>1, <4>2
    <3>3. tree'.root \notin tree'.red \ {c} /\ tree'.red \ {c} = tree.red \ {v, c}
      <4>1. tree.root \notin tree.red
        BY <1>2 DEF Sound
      <4> QED
        BY <1>8, <4>1 DEF Renamed
    <3>4. path' # <<>>
      <4>1. Len(path') >= 1
        BY <1>4, <2>2
      <4> QED
        BY <4>1
    <3> QED
      BY <2>2, <3>1, <3>2, <3>3, <3>4 DEF RemoveFlaw
  <2>5. TypeOK'
    BY <1>1, <1>2, <1>4, <1>8, <2>1, <2>3 DEF TypeOK, LoopLabels
  <2>6. Control'
    BY <1>1, <1>2, <2>1, <2>2, <2>5 DEF Control
  <2>7. Colours'
    BY <1>1, <1>2, <2>1, <2>4 DEF Colours
  <2>8. \E sub2 : Walk(sub2)'
    BY <1>8, <2>1 DEF Walk
  <2> QED
    BY <2>6, <2>7, <2>8 DEF Inv
<1> QED
  BY <1>10, <1>11

\* The entries of a path above its end, taken from the end: all are nodes.
LEMMA PathUp ==
  ASSUME NEW t \in Tree, NEW p, IsPath(t.left, t.right, t.root, p),
         NEW k \in Nat, k >= 2
  PROVE  /\ Len(p) >= k <=> FromEnd(p, k) # NULL
         /\ Len(p) >= k => /\ FromEnd(p, k) \in Node /\ FromEnd(p, k) = p[Len(p) - k + 1]
                           /\ Len(p) - k + 1 \in 1 .. Len(p) - 1
<1>1. Len(p) \in Nat /\ \A i \in 1 .. Len(p) - 1 : p[i] \in Node
  BY DEF IsPath
<1>2. CASE Len(p) >= k
  <2>1. Len(p) - k + 1 \in 1 .. Len(p) - 1
    BY <1>1, <1>2
  <2>2. p[Len(p) - k + 1] \in Node
    BY <1>1, <2>1
  <2>3. FromEnd(p, k) = p[Len(p) - k + 1]
    BY <1>2 DEF FromEnd
  <2> QED
    BY <1>2, <2>1, <2>2, <2>3, NullAssumption
<1>3. CASE ~(Len(p) >= k)
  BY <1>3 DEF FromEnd
<1> QED
  BY <1>2, <1>3

\* What rbtree_remove_fixup finds: e ends the path, P is above it.
LEMMA RemoveFixupFacts ==
  ASSUME Inv, pc = "remove_fixup", NEW e, e = FromEnd(path, 1), NEW P, P = FromEnd(path, 2)
  PROVE  /\ tree \in Tree /\ TypeOK /\ ~closing
         /\ tree.left \in [Node -> Ptr] /\ tree.right \in [Node -> Ptr]
         /\ tree.red \in SUBSET Node
         /\ Len(path) \in Nat /\ Len(path) >= 1 /\ path \in Seq(Ptr)
         /\ IsPath(tree.left, tree.right, tree.root, path)
         /\ e = path[Len(path)] /\ e \in Ptr
         /\ Len(path) = 1 => e = tree.root
         /\ tree.root \notin tree.red \ {e}
         /\ RedFree(tree.left, tree.right, tree.red \ {e}, NULL)
         /\ \E bh : Heights(tree.left, tree.right, tree.red, bh, P,
                            LentLeft(tree, P, e), LentRight(tree, P, e))
         /\ \E sub : Ordering(tree, sub, KeyOf) /\ Covers(tree, sub, Linked(tree))
<1>1. /\ tree \in Tree /\ TypeOK /\ path \in Seq(Ptr)
      /\ IsPath(tree.left, tree.right, tree.root, path) /\ RemoveFlaw(tree, path)
      /\ closing \in BOOLEAN /\ ~closing
  BY DEF Inv, Control, TypeOK, Colours
<1>2. /\ path # <<>>
      /\ tree.root \notin tree.red \ {e}
      /\ RedFree(tree.left, tree.right, tree.red \ {e}, NULL)
      /\ \E bh : Heights(tree.left, tree.right, tree.red, bh, P,
                         LentLeft(tree, P, e), LentRight(tree, P, e))
  BY <1>1 DEF RemoveFlaw, LentLeft, LentRight
<1>3. Len(path) \in Nat /\ Len(path) # 0
  BY <1>1, <1>2
<1>4. Len(path) >= 1 /\ Len(path) \in 1 .. Len(path)
  BY <1>3
<1>5. e = path[Len(path)] /\ e \in Ptr
  <2>1. FromEnd(path, 1) = path[Len(path) - 1 + 1] /\ Len(path) - 1 + 1 = Len(path)
    BY <1>3, <1>4 DEF FromEnd
  <2> QED
    BY <1>1, <1>4, <2>1
<1>6. Len(path) = 1 => e = tree.root
  BY <1>1, <1>2, <1>5 DEF IsPath
<1>7. PICK sub : Ordering(tree, sub, KeyOf)
  BY OrderedTree
<1>8. Covers(tree, sub, Linked(tree))
  BY <1>7, LinkedBelow DEF Covers, Ordering
<1> QED
  BY <1>1, <1>2, <1>3, <1>4, <1>5, <1>6, <1>7, <1>8, TreeFields

\* A red node at the end of the path that turns black leaves a valid tree.
LEMMA Blackened ==
  ASSUME Inv, pc = "remove_fixup", NEW e, e = FromEnd(path, 1), ~NullOrBlack(tree, e),
         NEW t, t = MakeBlack(tree, e)
  PROVE  t \in Tree /\ Sound(t) /\ \E sub : Covers(t, sub, Linked(tree))
<1> DEFINE P == FromEnd(path, 2)
<1>1. P = FromEnd(path, 2)
  OBVIOUS
<1>2. /\ tree \in Tree
      /\ tree.left \in [Node -> Ptr] /\ tree.right \in [Node -> Ptr]
      /\ tree.red \in SUBSET Node
      /\ Len(path) \in Nat /\ Len(path) >= 1
      /\ IsPath(tree.left, tree.right, tree.root, path)
      /\ e = path[Len(path)] /\ e \in Ptr
      /\ tree.root \notin tree.red \ {e}
      /\ RedFree(tree.left, tree.right, tree.red \ {e}, NULL)
      /\ \E bh : Heights(tree.left, tree.right, tree.red, bh, P,
                         LentLeft(tree, P, e), LentRight(tree, P, e))
      /\ \E sub : Ordering(tree, sub, KeyOf) /\ Covers(tree, sub, Linked(tree))
  BY RemoveFixupFacts
<1>3. PICK sub : Ordering(tree, sub, KeyOf) /\ Covers(tree, sub, Linked(tree))
  BY <1>2
<1>4. Hangs(tree, P, e)
  <2>1. 1 \in Nat \ {0} /\ 1 <= Len(path) /\ 1 + 1 = 2 /\ e # NULL
    BY <1>2 DEF NullOrBlack
  <2> QED
    BY <1>2, <2>1, PathHangs
<1> HIDE DEF P
<1>5. e \in tree.red /\ e \in Node
  BY <1>2 DEF NullOrBlack, IsBlack
<1>6. /\ t \in Tree /\ t.root = tree.root /\ t.red = tree.red \ {e}
      /\ t.left = tree.left /\ t.right = tree.right
  BY <1>2, <1>5 DEF MakeBlack, Tree
<1>7. Lent(tree.left, tree.right, e, P, LentLeft(tree, P, e), LentRight(tree, P, e))
  BY <1>2, <1>3, <1>4, <1>5, LentAt
<1>8. \E bh2 : Heights(tree.left, tree.right, tree.red \ {e}, bh2, NULL, 0, 0)
  <2>1. RootedTree(tree.left, tree.right, tree.root, sub, KeyOf)
    BY <1>3 DEF Ordering
  <2> QED
    BY <1>2, <1>5, <1>7, <2>1, BlackenColors
<1>9. Sound(t)
  BY <1>2, <1>6, <1>8 DEF Sound
<1>10. Covers(t, sub, Linked(tree))
  BY <1>3, <1>6, Painted
<1> QED
  BY <1>6, <1>9, <1>10

\* A red node that came up in place of the removed one turns black.
LEMMA RemoveFixupRedStep ==
  ASSUME Inv, RemoveFixupRed
  PROVE  Inv' /\ Linked(tree)' = Linked(tree)
<1>1. /\ pc = "remove_fixup" /\ ~NullOrBlack(tree, FromEnd(path, 1))
      /\ tree' = MakeBlack(tree, FromEnd(path, 1))
      /\ Return(ret) /\ UNCHANGED closing
  BY DEF RemoveFixupRed
<1>2. TypeOK /\ ~closing
  BY <1>1, RemoveFixupFacts
<1>3. tree' \in Tree /\ Sound(tree')
  BY <1>1, Blackened
<1>4. PICK sub : Covers(tree', sub, Linked(tree))
  BY <1>1, Blackened
<1> QED
  BY <1>1, <1>2, <1>3, <1>4, FixupReturned

\* At the root the deficit is everybody's.
LEMMA RemoveFixupRootStep ==
  ASSUME Inv, RemoveFixupRoot
  PROVE  Inv' /\ Linked(tree)' = Linked(tree)
<1> DEFINE e == FromEnd(path, 1)
           P == FromEnd(path, 2)
<1>1. /\ pc = "remove_fixup" /\ NullOrBlack(tree, e) /\ tree' = tree
      /\ Len(path) <= 1 /\ Return(ret) /\ UNCHANGED closing
  BY DEF RemoveFixupRoot
<1>2. /\ tree \in Tree /\ TypeOK /\ ~closing
      /\ tree.red \in SUBSET Node
      /\ Len(path) \in Nat /\ Len(path) >= 1
      /\ tree.root \notin tree.red \ {e}
      /\ RedFree(tree.left, tree.right, tree.red \ {e}, NULL)
      /\ \E bh : Heights(tree.left, tree.right, tree.red, bh, P,
                         LentLeft(tree, P, e), LentRight(tree, P, e))
      /\ \E sub : Ordering(tree, sub, KeyOf) /\ Covers(tree, sub, Linked(tree))
  BY <1>1, RemoveFixupFacts
<1>3. PICK sub : Covers(tree, sub, Linked(tree))
  BY <1>2
<1>4. P = NULL
  BY <1>1, <1>2 DEF FromEnd
<1> HIDE DEF e, P
<1>5. tree.red \ {e} = tree.red
  BY <1>1, <1>2, NullAssumption DEF NullOrBlack, IsBlack
<1>6. \E bh : Heights(tree.left, tree.right, tree.red, bh, NULL, 0, 0)
  BY <1>2, <1>4 DEF LentLeft, LentRight
<1>7. Sound(tree)
  BY <1>2, <1>5, <1>6 DEF Sound
<1> QED
  BY <1>1, <1>2, <1>3, <1>7, FixupReturned

\* Where a subtree is one black node short, its neighbour is a node.
LEMMA OtherChild ==
  ASSUME NEW a \in [Node -> Ptr], NEW b \in [Node -> Ptr], NEW red, NEW P \in Node,
         \E bh : Heights(a, b, red, bh, P, 1, 0)
  PROVE  b[P] \in Node /\ b[P] # a[P]
<1>1. PICK bh : Heights(a, b, red, bh, P, 1, 0)
  OBVIOUS
<1> QED
  BY <1>1, OtherSide

\* The only fault of the tree is that what hangs on the left (right) of P is one
\* black node short.
ShortOnLeft(t, P) ==
  /\ t.root \notin t.red /\ RedFree(t.left, t.right, t.red, NULL)
  /\ \E bh : Heights(t.left, t.right, t.red, bh, P, 1, 0)
ShortOnRight(t, P) ==
  /\ t.root \notin t.red /\ RedFree(t.left, t.right, t.red, NULL)
  /\ \E bh : Heights(t.left, t.right, t.red, bh, P, 0, 1)

\* The deficit is below P: its other child s is there, and nothing else is wrong.
LEMMA DeficitFacts ==
  ASSUME Inv, Deficit, NEW e, e = FromEnd(path, 1), NEW P, P = FromEnd(path, 2),
         NEW G, G = FromEnd(path, 3), NEW s, s = Sibling
  PROVE  /\ Len(path) >= 2 /\ P = Parent /\ P \in Node /\ NullOrBlack(tree, e)
         /\ Hangs(tree, G, P) /\ s \in Node
         /\ IsLeftChild => /\ e = tree.left[P] /\ s = tree.right[P] /\ e # s
                           /\ ShortOnLeft(tree, P)
         /\ ~IsLeftChild => /\ e = tree.right[P] /\ s = tree.left[P] /\ e # s
                            /\ ShortOnRight(tree, P)
<1>1. pc = "remove_fixup" /\ NullOrBlack(tree, e) /\ Len(path) > 1
  BY DEF Deficit
<1>2. /\ tree \in Tree
      /\ tree.left \in [Node -> Ptr] /\ tree.right \in [Node -> Ptr]
      /\ tree.red \in SUBSET Node
      /\ Len(path) \in Nat /\ path \in Seq(Ptr)
      /\ IsPath(tree.left, tree.right, tree.root, path)
      /\ e = path[Len(path)] /\ e \in Ptr
      /\ tree.root \notin tree.red \ {e}
      /\ RedFree(tree.left, tree.right, tree.red \ {e}, NULL)
      /\ \E bh : Heights(tree.left, tree.right, tree.red, bh, P,
                         LentLeft(tree, P, e), LentRight(tree, P, e))
  BY <1>1, RemoveFixupFacts
<1>3. /\ Len(path) >= 2 /\ P \in Node /\ P # NULL /\ P = path[Len(path) - 1]
      /\ Len(path) - 1 \in 1 .. Len(path) - 1 /\ Len(path) - 1 + 1 = Len(path)
  <2> DEFINE l == Len(path)
  <2>1. l >= 2 /\ l - 2 + 1 = l - 1 /\ l - 1 \in 1 .. l - 1 /\ l - 1 + 1 = l
    <3>1. l \in Nat /\ l > 1
      BY <1>1, <1>2
    <3> HIDE DEF l
    <3> QED
      BY ONLY <3>1
  <2>2. 2 \in Nat /\ 2 >= 2
    OBVIOUS
  <2> HIDE DEF l
  <2>3. P \in Node /\ P = path[l - 2 + 1]
    BY <1>2, <2>1, <2>2, PathUp DEF l
  <2> QED
    BY <2>1, <2>3, NullAssumption DEF l
<1>4. e \in {tree.left[P], tree.right[P]}
  BY <1>2, <1>3 DEF IsPath
<1>5. Hangs(tree, G, P)
  <2>1. 2 \in Nat \ {0} /\ 2 <= Len(path) /\ 2 + 1 = 3
    BY <1>3
  <2> QED
    BY <1>2, <1>3, <2>1, PathHangs
<1>6. P = Parent /\ (IsLeftChild <=> e = tree.left[P])
  BY DEF Parent, IsLeftChild
<1>7. tree.red \ {e} = tree.red
  BY <1>1, <1>2, NullAssumption DEF NullOrBlack, IsBlack
<1>8. CASE IsLeftChild
  <2>1. e = tree.left[P] /\ s = tree.right[P]
    BY <1>6, <1>8 DEF Sibling
  <2>2. PICK bh : Heights(tree.left, tree.right, tree.red, bh, P, 1, 0)
    BY <1>2, <1>3, <2>1 DEF LentLeft, LentRight
  <2>3. tree.right[P] \in Node /\ tree.right[P] # tree.left[P]
    <3>1. /\ tree.left \in [Node -> Ptr] /\ tree.right \in [Node -> Ptr] /\ P \in Node
          /\ \E h : Heights(tree.left, tree.right, tree.red, h, P, 1, 0)
      BY <1>2, <1>3, <2>2
    <3> QED
      BY ONLY <3>1, OtherChild
  <2> QED
    BY <1>1, <1>2, <1>3, <1>5, <1>6, <1>7, <1>8, <2>1, <2>2, <2>3 DEF ShortOnLeft
<1>9. CASE ~IsLeftChild
  <2>1. e = tree.right[P] /\ e # tree.left[P] /\ s = tree.left[P]
    BY <1>4, <1>6, <1>9 DEF Sibling
  <2>2. PICK bh : Heights(tree.left, tree.right, tree.red, bh, P, 0, 1)
    BY <1>2, <1>3, <2>1 DEF LentLeft, LentRight
  <2>3. Heights(tree.right, tree.left, tree.red, bh, P, 1, 0)
    <3>1. 0 \in Nat /\ 1 \in Nat
      OBVIOUS
    <3> QED
      BY <1>2, <2>2, <3>1, MirroredHeights
  <2>4. tree.left[P] \in Node /\ tree.left[P] # tree.right[P]
    <3>1. /\ tree.left \in [Node -> Ptr] /\ tree.right \in [Node -> Ptr] /\ P \in Node
          /\ \E h : Heights(tree.right, tree.left, tree.red, h, P, 1, 0)
      BY <1>2, <1>3, <2>3
    <3> QED
      BY ONLY <3>1, OtherChild
  <2> QED
    BY <1>1, <1>2, <1>3, <1>5, <1>6, <1>7, <1>9, <2>1, <2>2, <2>4 DEF ShortOnRight
<1> QED
  BY <1>8, <1>9

\* A red sibling on the right goes above P.
LEMMA SiblingLeft ==
  ASSUME NEW t \in Tree, NEW sub, NEW S, Covers(t, sub, S),
         NEW P \in Node, NEW s \in Node, s = t.right[P], NEW G, Hangs(t, G, P),
         IsRed(t, s), NullOrBlack(t, t.left[P]), ShortOnLeft(t, P),
         NEW t2, t2 = MakeRed(MakeBlack(RotateLeft(t, G, P), s), P)
  PROVE  /\ t2 \in Tree /\ t2.root = Renamed(t.root, P, s)
         /\ Rotated(t.left, t.right, t2.left, t2.right, P)
         /\ t2.left[P] = t.left[P] /\ t2.left[s] = P
         /\ ShortOnLeft(t2, P) /\ \E sub2 : Covers(t2, sub2, S)
<1> DEFINE up == RotateLeft(t, G, P)
           red2 == (t.red \ {s}) \cup {P}
<1>1. /\ t.left \in [Node -> Ptr] /\ t.right \in [Node -> Ptr] /\ t.red \in SUBSET Node
      /\ t.right[P] # NULL /\ s \in t.red /\ t.left[P] \notin t.red
  BY TreeFields, NullAssumption DEF NullOrBlack, IsBlack, IsRed
<1>2. /\ up \in Tree /\ up.red = t.red /\ up.root = Renamed(t.root, P, s)
      /\ Rotated(t.left, t.right, up.left, up.right, P)
  BY <1>1, TurnLeft
<1>3. PICK sub2 : Covers(up, sub2, S)
  BY <1>1, TurnLeft
<1> HIDE DEF up
<1>4. /\ t2 \in Tree /\ t2.root = up.root /\ t2.red = red2
      /\ t2.left = up.left /\ t2.right = up.right
  <2>1. t2 = MakeRed(MakeBlack(up, s), P)
    BY DEF up
  <2>2. up \in Tree /\ up.red = t.red /\ s \in Node /\ P \in Node
    BY <1>2
  <2>3. /\ t2 \in Tree /\ t2.root = up.root
        /\ t2.left = up.left /\ t2.right = up.right
        /\ t2.red = (up.red \ {s}) \cup {P}
    BY ONLY <2>1, <2>2 DEF MakeRed, MakeBlack, Tree
  <2> QED
    BY <2>2, <2>3
<1>5. RootedTree(t.left, t.right, t.root, sub, KeyOf)
  BY DEF Covers, Ordering
<1>6. t.root \notin t.red /\ RedFree(t.left, t.right, t.red, NULL)
  BY DEF ShortOnLeft
<1>7. PICK bh : Heights(t.left, t.right, t.red, bh, P, 1, 0)
  BY DEF ShortOnLeft
<1>8. up.left[P] = t.left[P] /\ up.left[s] = P /\ s # P
  BY <1>1, <1>2, <1>5, RotatedPointers
<1>9. /\ \E bh2 : Heights(up.left, up.right, red2, bh2, P, 1, 0)
      /\ RedFree(up.left, up.right, red2, NULL)
  BY <1>1, <1>2, <1>5, <1>6, <1>7, SiblingColors
<1>10. t2.root \notin t2.red
  <2>1. t.root \notin red2 \/ t.root = P
    BY <1>6
  <2>2. s \notin red2
    BY <1>8
  <2> QED
    BY <1>2, <1>4, <2>1, <2>2 DEF Renamed
<1>11. ShortOnLeft(t2, P)
  BY <1>4, <1>9, <1>10 DEF ShortOnLeft
<1> QED
  BY <1>2, <1>3, <1>4, <1>8, <1>11, Painted

\* A red sibling on the left goes above P.
LEMMA SiblingRight ==
  ASSUME NEW t \in Tree, NEW sub, NEW S, Covers(t, sub, S),
         NEW P \in Node, NEW s \in Node, s = t.left[P], NEW G, Hangs(t, G, P),
         IsRed(t, s), NullOrBlack(t, t.right[P]), ShortOnRight(t, P),
         NEW t2, t2 = MakeRed(MakeBlack(RotateRight(t, G, P), s), P)
  PROVE  /\ t2 \in Tree /\ t2.root = Renamed(t.root, P, s)
         /\ Rotated(t.right, t.left, t2.right, t2.left, P)
         /\ t2.right[P] = t.right[P] /\ t2.right[s] = P /\ t2.left[P] # t2.right[P]
         /\ ShortOnRight(t2, P) /\ \E sub2 : Covers(t2, sub2, S)
<1> DEFINE up == RotateRight(t, G, P)
           red2 == (t.red \ {s}) \cup {P}
           L == [m \in Node |-> -KeyOf[m]]
<1>1. /\ t.left \in [Node -> Ptr] /\ t.right \in [Node -> Ptr] /\ t.red \in SUBSET Node
      /\ t.left[P] # NULL /\ s \in t.red /\ t.right[P] \notin t.red
  BY TreeFields, NullAssumption DEF NullOrBlack, IsBlack, IsRed
<1>2. /\ up \in Tree /\ up.red = t.red /\ up.root = Renamed(t.root, P, s)
      /\ Rotated(t.right, t.left, up.right, up.left, P)
  BY <1>1, TurnRight
<1>3. PICK sub2 : Covers(up, sub2, S)
  BY <1>1, TurnRight
<1> HIDE DEF up
<1>4. /\ t2 \in Tree /\ t2.root = up.root /\ t2.red = red2
      /\ t2.left = up.left /\ t2.right = up.right
  <2>1. t2 = MakeRed(MakeBlack(up, s), P)
    BY DEF up
  <2>2. up \in Tree /\ up.red = t.red /\ s \in Node /\ P \in Node
    BY <1>2
  <2>3. /\ t2 \in Tree /\ t2.root = up.root
        /\ t2.left = up.left /\ t2.right = up.right
        /\ t2.red = (up.red \ {s}) \cup {P}
    BY ONLY <2>1, <2>2 DEF MakeRed, MakeBlack, Tree
  <2> QED
    BY <2>2, <2>3
<1>5. RootedTree(t.right, t.left, t.root, sub, L)
  BY MirroredRooted DEF Covers, Ordering
<1> HIDE DEF L
<1>6. t.root \notin t.red /\ RedFree(t.right, t.left, t.red, NULL)
  BY DEF ShortOnRight, RedFree
<1>7. PICK bh : Heights(t.right, t.left, t.red, bh, P, 1, 0)
  <2>1. 0 \in Nat /\ 1 \in Nat
    OBVIOUS
  <2>2. PICK bh : Heights(t.left, t.right, t.red, bh, P, 0, 1)
    BY DEF ShortOnRight
  <2> QED
    BY <1>1, <2>1, <2>2, MirroredHeights
<1>8. up.right[P] = t.right[P] /\ up.right[s] = P /\ s # P
  BY <1>1, <1>2, <1>5, RotatedPointers
<1>9. /\ \E bh2 : Heights(up.right, up.left, red2, bh2, P, 1, 0)
      /\ RedFree(up.right, up.left, red2, NULL)
  BY <1>1, <1>2, <1>5, <1>6, <1>7, SiblingColors
<1>10. t2.root \notin t2.red
  <2>1. t.root \notin red2 \/ t.root = P
    BY <1>6
  <2>2. s \notin red2
    BY <1>8
  <2> QED
    BY <1>2, <1>4, <2>1, <2>2 DEF Renamed
<1>11. ShortOnRight(t2, P)
  <2>1. 0 \in Nat /\ 1 \in Nat /\ up.left \in [Node -> Ptr] /\ up.right \in [Node -> Ptr]
    BY <1>2, TreeFields
  <2> HIDE DEF red2
  <2>2. \E bh2 : Heights(up.left, up.right, red2, bh2, P, 0, 1)
    BY <1>9, <2>1, MirroredHeights
  <2>3. RedFree(up.left, up.right, red2, NULL)
    BY <1>9 DEF RedFree
  <2> QED
    BY <1>4, <1>10, <2>2, <2>3 DEF ShortOnRight
<1>12. up.left[P] # up.right[P]
  <2>1. /\ up.right \in [Node -> Ptr] /\ up.left \in [Node -> Ptr] /\ P \in Node
        /\ \E bh2 : Heights(up.right, up.left, red2, bh2, P, 1, 0)
    BY <1>2, <1>9, TreeFields
  <2> HIDE DEF red2
  <2> QED
    BY ONLY <2>1, OtherChild
<1> QED
  BY <1>2, <1>3, <1>4, <1>8, <1>11, <1>12, Painted

\* P and e end p.
PathTail(p, P, e) == Len(p) >= 2 /\ P = p[Len(p) - 1] /\ e = p[Len(p)]

\* q is p with s between the last two entries, of which P is the first, and
\* their elder.
Sunk(p, q, s, P, e) == q = Shorten(p, 2) \o <<s, P, e>>

\* A path along which the node before its end sinks below the one that took its
\* place.
LEMMA SunkPath ==
  ASSUME NEW a, NEW b, NEW r, NEW sub, NEW K, RootedTree(a, b, r, sub, K),
         NEW p, IsPath(a, b, r, p), NEW P \in Node, NEW e, PathTail(p, P, e),
         NEW s \in Node, s = b[P],
         NEW a2, NEW b2, Rotated(a, b, a2, b2, P), e \in {a2[P], b2[P]},
         NEW q, Sunk(p, q, s, P, e)
  PROVE  /\ IsPath(a2, b2, Renamed(r, P, s), q)
         /\ q \in Seq(Ptr) /\ q # <<>> /\ FromEnd(q, 1) = e /\ FromEnd(q, 2) = P
<1> DEFINE l == Len(p)
           h == Shorten(p, 2)
           r2 == Renamed(r, P, s)
<1>0. Len(p) >= 2 /\ P = p[Len(p) - 1] /\ e = p[Len(p)]
  BY DEF PathTail
<1>1. /\ a \in [Node -> Ptr] /\ b \in [Node -> Ptr] /\ NULL \notin Node
      /\ l \in Nat /\ l >= 2 /\ p \in Seq(Ptr) /\ p[1] = r
      /\ \A i \in 1 .. l : p[i] \in Ptr
      /\ \A i \in 1 .. l - 1 : p[i] \in Node /\ p[i + 1] \in {a[p[i]], b[p[i]]}
  <2>1. /\ p \in Seq(Ptr) /\ (p # <<>> => p[1] = r)
        /\ \A i \in 1 .. l - 1 : p[i] \in Node /\ p[i + 1] \in {a[p[i]], b[p[i]]}
    BY DEF IsPath
  <2>2. l \in Nat /\ l >= 2 /\ p # <<>> /\ \A i \in 1 .. l : p[i] \in Ptr
    BY <1>0, <2>1
  <2>3. a \in [Node -> Ptr] /\ b \in [Node -> Ptr]
    BY DEF RootedTree, SearchTree
  <2> QED
    BY <2>1, <2>2, <2>3, NullAssumption
<1>2. /\ s # P /\ a2 \in [Node -> Ptr] /\ b2 \in [Node -> Ptr] /\ a2[s] = P
      /\ \A m \in Node \ {P, s} : /\ a2[m] = Renamed(a[m], P, s) /\ b2[m] = Renamed(b[m], P, s)
                                  /\ a[m] # s /\ b[m] # s
  <2>1. b[P] # NULL
    BY <1>1
  <2> QED
    BY <2>1, RotatedPointers
<1> HIDE DEF l
<1>3. \A i \in 1 .. l - 2 : p[i] # P /\ p[i] # s /\ i \in 1 .. l - 1
  <2>1. l - 1 \in 1 .. l /\ \A i \in 1 .. l - 2 : i \in 1 .. (l - 1) - 1 /\ i \in 1 .. l - 1
    BY ONLY <1>1
  <2>2. p[l - 1] # NULL
    BY <1>0, <1>1 DEF l
  <2>3. \A i \in 1 .. (l - 1) - 1 : p[i] # p[l - 1] /\ p[i] \notin sub[p[l - 1]]
    BY <2>1, <2>2, PathBelow DEF l
  <2>4. s \in sub[P]
    <3>1. SearchTree(a, b, sub, K) /\ b[P] # NULL
      BY <1>1 DEF RootedTree
    <3> QED
      BY <3>1, Locally
  <2> QED
    BY <1>0, <2>1, <2>3, <2>4 DEF l
<1>4. l > 2 => /\ l - 2 \in 1 .. l - 1 /\ l - 2 \in 1 .. l - 2 /\ p[l - 2] \in Node
               /\ P \in {a[p[l - 2]], b[p[l - 2]]} /\ r # P
               /\ \A m \in Node : P \in {a[m], b[m]} => m = p[l - 2]
  <2>1. ASSUME l > 2 PROVE l - 2 \in 1 .. l - 1 /\ l - 2 \in 1 .. l - 2 /\ l - 2 + 1 = l - 1
    BY ONLY <1>1, <2>1
  <2>2. ASSUME l > 2 PROVE p[l - 2] \in Node /\ P \in {a[p[l - 2]], b[p[l - 2]]}
    BY <1>0, <1>1, <2>1, <2>2 DEF l
  <2>3. P # NULL
    BY <1>1
  <2> QED
    BY <2>1, <2>2, <2>3, OnlyParent
<1>5. l = 2 => r = P
  BY <1>0, <1>1 DEF l
<1>6. /\ IsPath(a2, b2, r2, h) /\ Len(h) = l - 2 /\ h \in Seq(Node)
      /\ \A i \in 1 .. l - 2 : h[i] = p[i]
  <2>1. SameAbove(a, b, a2, b2, p, l - 2 - 1)
    <3>1. ASSUME NEW i \in 1 .. l - 2 - 1
          PROVE  a2[p[i]] = a[p[i]] /\ b2[p[i]] = b[p[i]]
      <4>1. /\ l > 2 /\ i \in 1 .. l - 2 /\ i \in 1 .. (l - 2) - 1 /\ i \in 1 .. l - 1
            /\ l - 2 \in 1 .. l
        BY ONLY <1>1, <3>1
      <4>2. p[i] # p[l - 2]
        <5>1. p[l - 2] # NULL
          BY <1>1, <1>4, <4>1
        <5>2. l - 2 \in 1 .. Len(p) /\ i \in 1 .. (l - 2) - 1
          BY <4>1 DEF l
        <5>3. RootedTree(a, b, r, sub, K) /\ IsPath(a, b, r, p)
          OBVIOUS
        <5> QED
          BY ONLY <5>1, <5>2, <5>3, PathBelow
      <4>3. p[i] \in Node \ {P, s}
        BY <1>1, <1>3, <4>1
      <4>4. P \notin {a[p[i]], b[p[i]]}
        BY <1>4, <4>1, <4>2, <4>3
      <4> QED
        BY <1>2, <4>3, <4>4 DEF Renamed
    <3> QED
      BY <3>1 DEF SameAbove
  <2>2. 2 \in Nat /\ 2 <= l /\ 2 >= 1
    BY <1>1
  <2>3. 2 < l => r2 = r
    BY <1>1, <1>4 DEF Renamed
  <2> HIDE DEF r2, h
  <2> DEFINE k == 2
  <2>4. /\ IsPath(a, b, r, p) /\ k \in Nat /\ k <= Len(p) /\ (k < Len(p) => r2 = r)
        /\ SameAbove(a, b, a2, b2, p, Len(p) - k - 1) /\ k >= 1
    BY <2>1, <2>2, <2>3 DEF l
  <2> HIDE DEF k
  <2>5. /\ IsPath(a2, b2, r2, Shorten(p, k)) /\ Len(Shorten(p, k)) = Len(p) - k
        /\ \A i \in 1 .. Len(p) - k : Shorten(p, k)[i] = p[i]
        /\ Shorten(p, k) \in Seq(Node)
    BY <2>4, PathKept
  <2> QED
    BY <2>5 DEF h, l, k
<1> DEFINE h1 == Append(h, s)
           h2 == Append(h1, P)
           h3 == Append(h2, e)
<1>7. IsPath(a2, b2, r2, h1) /\ h1 \in Seq(Node) /\ h1 # <<>> /\ h1[Len(h1)] = s
  <2>1. ASSUME h = <<>> PROVE s = r2
    <3>1. l - 2 = 0
      BY <1>6, <2>1
    <3>2. l = 2
      BY ONLY <1>1, <3>1
    <3> QED
      BY <1>5, <3>2 DEF Renamed
  <2>2. ASSUME h # <<>> PROVE s \in {a2[h[Len(h)]], b2[h[Len(h)]]}
    <3>1. l - 2 # 0
      BY <1>6, <2>2
    <3>2. l > 2
      BY ONLY <1>1, <3>1
    <3>3. h[Len(h)] = p[l - 2] /\ p[l - 2] \in Node \ {P, s}
      BY <1>3, <1>4, <1>6, <3>2
    <3> QED
      BY <1>2, <1>4, <3>2, <3>3 DEF Renamed
  <2>3. s \in Ptr
    BY DEF Ptr
  <2> HIDE DEF h, r2
  <2>4. IsPath(a2, b2, r2, Append(h, s))
    BY <1>2, <1>6, <2>1, <2>2, <2>3, PathOn
  <2>5. h \in Seq(Node) /\ s \in Node
    BY <1>6
  <2>6. /\ Append(h, s) \in Seq(Node) /\ Append(h, s) # <<>>
        /\ Append(h, s)[Len(Append(h, s))] = s
    BY ONLY <2>5
  <2> QED
    BY <2>4, <2>6
<1>8. IsPath(a2, b2, r2, h2) /\ h2 \in Seq(Node) /\ h2 # <<>> /\ h2[Len(h2)] = P
  <2>1. P \in Ptr
    BY DEF Ptr
  <2>2. P \in {a2[h1[Len(h1)]], b2[h1[Len(h1)]]}
    BY <1>2, <1>7
  <2> HIDE DEF h1, r2
  <2>3. IsPath(a2, b2, r2, Append(h1, P))
    BY <1>2, <1>7, <2>1, <2>2, PathOn
  <2> QED
    BY <1>7, <2>3
<1>9. IsPath(a2, b2, r2, h3) /\ h3 \in Seq(Ptr)
  <2>1. e \in Ptr
    BY <1>2
  <2>2. e \in {a2[h2[Len(h2)]], b2[h2[Len(h2)]]}
    BY <1>8
  <2> HIDE DEF h2, r2
  <2>3. IsPath(a2, b2, r2, Append(h2, e))
    BY <1>2, <1>8, <2>1, <2>2, PathOn
  <2> QED
    BY <2>3 DEF IsPath
<1>10. q = h3
  <2>1. h \in Seq(Ptr) /\ s \in Ptr /\ P \in Ptr /\ e \in Ptr
    BY <1>2, <1>6 DEF IsPath, Ptr
  <2>2. q = h \o <<s, P, e>>
    BY DEF Sunk
  <2> HIDE DEF h
  <2> DEFINE k == Len(h)
  <2>3. /\ k \in Nat
        /\ q \in Seq(Ptr) /\ Len(q) = k + 3 /\ q[k + 1] = s /\ q[k + 2] = P /\ q[k + 3] = e
        /\ \A i \in 1 .. k : q[i] = h[i]
    BY ONLY <2>1, <2>2
  <2>4. h1 \in Seq(Ptr) /\ Len(h1) = k + 1 /\ h1[k + 1] = s /\ \A i \in 1 .. k : h1[i] = h[i]
    BY ONLY <2>1
  <2> HIDE DEF h1
  <2>5. /\ h2 \in Seq(Ptr) /\ Len(h2) = k + 2 /\ h2[k + 2] = P
        /\ \A i \in 1 .. k + 1 : h2[i] = h1[i]
    BY ONLY <2>1, <2>3, <2>4
  <2> HIDE DEF h2
  <2>6. /\ h3 \in Seq(Ptr) /\ Len(h3) = k + 3 /\ h3[k + 3] = e
        /\ \A i \in 1 .. k + 2 : h3[i] = h2[i]
    BY ONLY <2>1, <2>3, <2>5
  <2> HIDE DEF h3, k
  <2>7. ASSUME NEW i \in 1 .. Len(q) PROVE q[i] = h3[i]
    <3>1. i \in 1 .. k \/ i = k + 1 \/ i = k + 2 \/ i = k + 3
      BY ONLY <2>3, <2>7
    <3>2. i \in 1 .. k => i \in 1 .. k + 1 /\ i \in 1 .. k + 2
      BY ONLY <2>3
    <3>3. k + 1 \in 1 .. k + 1 /\ k + 1 \in 1 .. k + 2 /\ k + 2 \in 1 .. k + 2
      BY ONLY <2>3
    <3> QED
      BY ONLY <2>3, <2>4, <2>5, <2>6, <3>1, <3>2, <3>3
  <2> QED
    BY <2>3, <2>6, <2>7, SameEntries
<1>11. /\ Len(h3) = Len(h2) + 1 /\ h3[Len(h3)] = e /\ h3[Len(h2)] = P
       /\ Len(h2) \in Nat /\ Len(h2) >= 1
  <2>1. e \in Ptr /\ h2 \in Seq(Ptr) /\ h2 # <<>> /\ h2[Len(h2)] = P
    BY <1>2, <1>8 DEF IsPath
  <2>2. Len(h2) \in Nat /\ Len(h2) # 0
    <3> HIDE DEF h2
    <3> QED
      BY <2>1
  <2>3. Len(h2) >= 1 /\ Len(h2) \in 1 .. Len(h2)
    <3> HIDE DEF h2
    <3> QED
      BY <2>2
  <2> HIDE DEF h2
  <2> QED
    BY <2>1, <2>2, <2>3
<1>12. FromEnd(h3, 1) = e /\ FromEnd(h3, 2) = P /\ h3 # <<>>
  <2> DEFINE k == Len(h2)
  <2>1. k \in Nat /\ k >= 1 /\ Len(h3) = k + 1 /\ h3[k + 1] = e /\ h3[k] = P
    BY <1>11
  <2> HIDE DEF k, h3
  <2>2. k + 1 >= 1 /\ k + 1 >= 2 /\ (k + 1) - 1 + 1 = k + 1 /\ (k + 1) - 2 + 1 = k
    BY ONLY <2>1
  <2>3. FromEnd(h3, 1) = e /\ FromEnd(h3, 2) = P
    BY <2>1, <2>2 DEF FromEnd
  <2>4. h3 # <<>>
    BY <2>1
  <2> QED
    BY <2>3, <2>4
<1> HIDE DEF h3, r2
<1> QED
  BY <1>9, <1>10, <1>12 DEF r2

\* The red sibling goes up, and the deficit is one level deeper than before.
LEMMA RemoveFixupRedSiblingStep ==
  ASSUME Inv, RemoveFixupRedSibling
  PROVE  Inv' /\ Linked(tree)' = Linked(tree)
<1> DEFINE e == FromEnd(path, 1)
           P == FromEnd(path, 2)
           G == FromEnd(path, 3)
           s == Sibling
<1>1. /\ Deficit /\ pc = "remove_fixup" /\ IsRed(tree, s)
      /\ path' = Shorten(path, 2) \o <<s, P, e>>
      /\ UNCHANGED <<closing, pc, op, key, node, at, ret>>
      /\ Parent = P
  BY DEF RemoveFixupRedSibling, Deficit, Parent
<1>2. /\ IsLeftChild => tree' = MakeRed(MakeBlack(RotateLeft(tree, G, P), s), P)
      /\ ~IsLeftChild => tree' = MakeRed(MakeBlack(RotateRight(tree, G, P), s), P)
  BY <1>1 DEF RemoveFixupRedSibling
<1>3. /\ Len(path) >= 2 /\ P \in Node /\ NullOrBlack(tree, e)
      /\ Hangs(tree, G, P) /\ s \in Node
      /\ IsLeftChild => e = tree.left[P] /\ s = tree.right[P] /\ ShortOnLeft(tree, P)
      /\ ~IsLeftChild => e = tree.right[P] /\ s = tree.left[P] /\ ShortOnRight(tree, P)
  BY <1>1, DeficitFacts
<1>4. /\ tree \in Tree /\ TypeOK /\ ~closing
      /\ tree.left \in [Node -> Ptr] /\ tree.right \in [Node -> Ptr]
      /\ tree.red \in SUBSET Node
      /\ Len(path) \in Nat
      /\ IsPath(tree.left, tree.right, tree.root, path)
      /\ e = path[Len(path)] /\ e \in Ptr
      /\ \E sub : Ordering(tree, sub, KeyOf) /\ Covers(tree, sub, Linked(tree))
  BY <1>1, RemoveFixupFacts
<1>5. PICK sub : Covers(tree, sub, Linked(tree))
  BY <1>4
<1>6. P = path[Len(path) - 1]
  <2>1. 2 \in Nat /\ 2 >= 2
    OBVIOUS
  <2>2. P = path[Len(path) - 2 + 1]
    BY <1>3, <1>4, <2>1, PathUp
  <2>3. Len(path) - 2 + 1 = Len(path) - 1
    BY <1>4
  <2> HIDE DEF P
  <2> QED
    BY <2>2, <2>3
<1> HIDE DEF e, P, G, s
<1>7. /\ tree' \in Tree /\ \E sub2 : Covers(tree', sub2, Linked(tree))
      /\ IsPath(tree'.left, tree'.right, tree'.root, path')
      /\ path' \in Seq(Ptr) /\ path' # <<>> /\ FromEnd(path', 1) = e /\ FromEnd(path', 2) = P
      /\ tree'.root \notin tree'.red
      /\ RedFree(tree'.left, tree'.right, tree'.red, NULL)
      /\ \E bh : Heights(tree'.left, tree'.right, tree'.red, bh, P,
                         LentLeft(tree', P, e), LentRight(tree', P, e))
  <2>1. P # NULL
    BY <1>3, NullAssumption
  <2>2. CASE IsLeftChild
    <3>1. /\ tree \in Tree /\ Covers(tree, sub, Linked(tree))
          /\ P \in Node /\ s \in Node /\ s = tree.right[P] /\ Hangs(tree, G, P)
          /\ IsRed(tree, s) /\ NullOrBlack(tree, tree.left[P]) /\ ShortOnLeft(tree, P)
          /\ tree' = MakeRed(MakeBlack(RotateLeft(tree, G, P), s), P)
      BY <1>1, <1>2, <1>3, <1>4, <1>5, <2>2
    <3>2. /\ tree' \in Tree /\ tree'.root = Renamed(tree.root, P, s)
          /\ Rotated(tree.left, tree.right, tree'.left, tree'.right, P)
          /\ tree'.left[P] = tree.left[P]
          /\ ShortOnLeft(tree', P) /\ \E sub2 : Covers(tree', sub2, Linked(tree))
      BY ONLY <3>1, SiblingLeft
    <3>3. e = tree'.left[P]
      BY <1>3, <2>2, <3>2
    <3>4. /\ IsPath(tree'.left, tree'.right, tree'.root, path')
          /\ path' \in Seq(Ptr) /\ path' # <<>> /\ FromEnd(path', 1) = e /\ FromEnd(path', 2) = P
      <4>1. /\ RootedTree(tree.left, tree.right, tree.root, sub, KeyOf)
            /\ IsPath(tree.left, tree.right, tree.root, path)
            /\ P \in Node /\ PathTail(path, P, e) /\ s \in Node /\ s = tree.right[P]
            /\ Rotated(tree.left, tree.right, tree'.left, tree'.right, P)
            /\ e \in {tree'.left[P], tree'.right[P]}
            /\ Sunk(path, path', s, P, e)
        BY <1>1, <1>3, <1>4, <1>5, <1>6, <3>1, <3>2, <3>3 DEF Covers, Ordering, Sunk, PathTail
      <4>2. /\ IsPath(tree'.left, tree'.right, Renamed(tree.root, P, s), path')
            /\ path' \in Seq(Ptr) /\ path' # <<>> /\ FromEnd(path', 1) = e /\ FromEnd(path', 2) = P
        BY ONLY <4>1, SunkPath
      <4> QED
        BY <3>2, <4>2
    <3> QED
      BY <2>1, <3>2, <3>3, <3>4 DEF ShortOnLeft, LentLeft, LentRight
  <2>3. CASE ~IsLeftChild
    <3>1. /\ tree \in Tree /\ Covers(tree, sub, Linked(tree))
          /\ P \in Node /\ s \in Node /\ s = tree.left[P] /\ Hangs(tree, G, P)
          /\ IsRed(tree, s) /\ NullOrBlack(tree, tree.right[P]) /\ ShortOnRight(tree, P)
          /\ tree' = MakeRed(MakeBlack(RotateRight(tree, G, P), s), P)
      BY <1>1, <1>2, <1>3, <1>4, <1>5, <2>3
    <3>2. /\ tree' \in Tree /\ tree'.root = Renamed(tree.root, P, s)
          /\ Rotated(tree.right, tree.left, tree'.right, tree'.left, P)
          /\ tree'.right[P] = tree.right[P] /\ tree'.left[P] # tree'.right[P]
          /\ ShortOnRight(tree', P) /\ \E sub2 : Covers(tree', sub2, Linked(tree))
      BY ONLY <3>1, SiblingRight
    <3>3. e = tree'.right[P] /\ e # tree'.left[P]
      BY <1>3, <2>3, <3>2
    <3>4. /\ IsPath(tree'.right, tree'.left, tree'.root, path')
          /\ path' \in Seq(Ptr) /\ path' # <<>> /\ FromEnd(path', 1) = e /\ FromEnd(path', 2) = P
      <4>1. PICK K : RootedTree(tree.right, tree.left, tree.root, sub, K)
        BY <1>5, MirroredRooted DEF Covers, Ordering
      <4>2. IsPath(tree.right, tree.left, tree.root, path)
        BY <1>4 DEF IsPath
      <4>3. /\ RootedTree(tree.right, tree.left, tree.root, sub, K)
            /\ IsPath(tree.right, tree.left, tree.root, path)
            /\ P \in Node /\ PathTail(path, P, e) /\ s \in Node /\ s = tree.left[P]
            /\ Rotated(tree.right, tree.left, tree'.right, tree'.left, P)
            /\ e \in {tree'.right[P], tree'.left[P]}
            /\ Sunk(path, path', s, P, e)
        BY <1>1, <1>3, <1>4, <1>6, <3>1, <3>2, <3>3, <4>1, <4>2 DEF Sunk, PathTail
      <4>4. /\ IsPath(tree'.right, tree'.left, Renamed(tree.root, P, s), path')
            /\ path' \in Seq(Ptr) /\ path' # <<>> /\ FromEnd(path', 1) = e /\ FromEnd(path', 2) = P
        BY ONLY <4>3, SunkPath
      <4> QED
        BY <3>2, <4>4
    <3>5. IsPath(tree'.left, tree'.right, tree'.root, path')
      BY <3>4 DEF IsPath
    <3> QED
      BY <2>1, <3>2, <3>3, <3>4, <3>5 DEF ShortOnRight, LentLeft, LentRight
  <2> QED
    BY <2>2, <2>3
<1>8. RemoveFlaw(tree', path')
  <2>1. /\ tree'.root \notin tree'.red \ {e}
        /\ RedFree(tree'.left, tree'.right, tree'.red \ {e}, NULL)
    BY <1>7 DEF RedFree
  <2> QED
    BY <1>7, <2>1 DEF RemoveFlaw, LentLeft, LentRight
<1>9. TypeOK' /\ Control'
  <2>1. TypeOK'
    BY <1>1, <1>4, <1>7 DEF TypeOK
  <2> QED
    BY <1>1, <1>4, <1>7, <2>1 DEF Control
<1>10. Colours'
  BY <1>1, <1>4, <1>8 DEF Colours
<1>11. PICK sub2 : Covers(tree', sub2, Linked(tree))
  BY <1>7
<1>12. Ordering(tree', sub2, KeyOf) /\ Linked(tree') = Linked(tree)
  BY <1>11, LinkedBelow DEF Covers, Ordering
<1>13. Walk(sub2)'
  BY <1>1, <1>12 DEF Walk
<1> QED
  BY <1>9, <1>10, <1>12, <1>13 DEF Inv

\* P, its child s, a child q of s and the node G above P are all different.
LEMMA FamilyApart ==
  ASSUME NEW t, NEW sub, NEW K, Ordering(t, sub, K),
         NEW P \in Node, NEW s \in Node, s \in {t.left[P], t.right[P]},
         NEW q \in Node, q \in {t.left[s], t.right[s]},
         NEW G, Hangs(t, G, P)
  PROVE  s # P /\ q # P /\ q # s /\ G \notin {P, s, q} /\ t.root \notin {s, q}
<1>1. RootedTree(t.left, t.right, t.root, sub, K)
  BY DEF Ordering
<1>2. s # NULL /\ q # NULL /\ P # NULL
  BY NullAssumption
<1>3. s \in sub[s] /\ q \in sub[q] /\ P \in sub[P]
  BY <1>1, Locally DEF RootedTree
<1>4. sub[s] \subseteq sub[P] /\ P \notin sub[s] /\ t.root # s
  BY <1>1, <1>2, OnlyParent
<1>5. sub[q] \subseteq sub[s] /\ s \notin sub[q] /\ t.root # q
  BY <1>1, <1>2, OnlyParent
<1>6. G \notin {P, s, q}
  <2>1. CASE G = NULL
    BY <1>2, <2>1
  <2>2. CASE G # NULL
    <3>1. G \in Node /\ P \in {t.left[G], t.right[G]}
      BY <2>2 DEF Hangs
    <3>2. G \notin sub[P]
      BY <1>1, <1>2, <3>1, OnlyParent
    <3> QED
      BY <1>3, <1>4, <1>5, <3>2
  <2> QED
    BY <2>1, <2>2
<1> QED
  BY <1>3, <1>4, <1>5, <1>6

\* s takes the colour of P, P and f turn black.
Colored(t, P, s, f) == MakeBlack(MakeBlack(CopyColor(t, P, s), P), f)

\* t2 is t but for that.
Recolored(t, t2, P, s, f) ==
  /\ t2 \in Tree /\ t2.root = t.root /\ t2.left = t.left /\ t2.right = t.right
  /\ P \notin t2.red /\ f \notin t2.red /\ (s \in t2.red <=> P \in t.red)
  /\ \A m \in Node \ {P, s, f} : m \in t2.red <=> m \in t.red

\* The code leaves such a tree.
LEMMA ColoredIs ==
  ASSUME NEW t \in Tree, NEW P \in Node, NEW s \in Node, NEW f \in Node,
         s # P, f # P, f # s
  PROVE  Recolored(t, Colored(t, P, s, f), P, s, f)
<1> DEFINE t2 == Colored(t, P, s, f)
           c == CopyColor(t, P, s)
           d == MakeBlack(c, P)
<1>1. /\ c \in Tree /\ c.root = t.root /\ c.left = t.left /\ c.right = t.right
      /\ c.red = IF P \in t.red THEN t.red \cup {s} ELSE t.red \ {s}
  BY ColorFields DEF CopyColor, IsRed
<1> HIDE DEF c
<1>2. /\ d \in Tree /\ d.root = c.root /\ d.left = c.left /\ d.right = c.right
      /\ d.red = c.red \ {P}
  BY <1>1, ColorFields
<1> HIDE DEF d
<1>3. t2 = MakeBlack(d, f)
  BY DEF Colored, c, d
<1>4. /\ t2 \in Tree /\ t2.root = d.root /\ t2.left = d.left /\ t2.right = d.right
      /\ t2.red = d.red \ {f}
  <2>1. d \in Tree /\ f \in Node
    BY <1>2
  <2> HIDE DEF t2
  <2> QED
    BY ONLY <1>3, <2>1 DEF MakeBlack, Tree
<1> HIDE DEF t2
<1>5. Recolored(t, t2, P, s, f)
  BY <1>1, <1>2, <1>4 DEF Recolored
<1> QED
  BY <1>5 DEF t2

\* One rotation pays the deficit on the left when the far nephew f is red.
LEMMA FarLeft ==
  ASSUME NEW t \in Tree, NEW sub, NEW S, Covers(t, sub, S),
         NEW P \in Node, NEW s \in Node, s = t.right[P], NEW f \in Node, f = t.right[s],
         NEW G, Hangs(t, G, P), IsBlack(t, s), IsRed(t, f), ShortOnLeft(t, P),
         NEW t2, t2 = RotateLeft(Colored(t, P, s, f), G, P)
  PROVE  t2 \in Tree /\ Sound(t2) /\ \E sub2 : Covers(t2, sub2, S)
<1> DEFINE d == Colored(t, P, s, f)
<1>1. /\ t.left \in [Node -> Ptr] /\ t.right \in [Node -> Ptr] /\ t.red \in SUBSET Node
      /\ s \notin t.red /\ f \in t.red /\ s # NULL
  BY TreeFields, NullAssumption DEF IsBlack, IsRed
<1>2. s # P /\ f # P /\ f # s /\ t.root \notin {s, f}
  BY FamilyApart DEF Covers
<1>3. /\ d \in Tree /\ d.root = t.root /\ d.left = t.left /\ d.right = t.right
      /\ P \notin d.red /\ f \notin d.red /\ (s \in d.red <=> P \in t.red)
      /\ \A m \in Node \ {P, s, f} : m \in d.red <=> m \in t.red
  BY <1>2, ColoredIs DEF Recolored
<1>4. t2 = RotateLeft(d, G, P)
  OBVIOUS
<1> HIDE DEF d
<1>5. Covers(d, sub, S) /\ Hangs(d, G, P)
  BY <1>3, Painted DEF Hangs
<1>6. /\ t2 \in Tree /\ t2.red = d.red /\ t2.root = Renamed(d.root, P, s)
      /\ Rotated(t.left, t.right, t2.left, t2.right, P)
      /\ \E sub2 : Covers(t2, sub2, S)
  <2>1. /\ d \in Tree /\ Covers(d, sub, S) /\ P \in Node /\ d.right[P] # NULL
        /\ Hangs(d, G, P) /\ t2 = RotateLeft(d, G, P)
    BY <1>1, <1>3, <1>4, <1>5
  <2>2. /\ t2 \in Tree /\ t2.red = d.red /\ t2.root = Renamed(d.root, P, d.right[P])
        /\ Rotated(d.left, d.right, t2.left, t2.right, P)
        /\ \E sub2 : Covers(t2, sub2, S)
    BY ONLY <2>1, TurnLeft
  <2> QED
    BY <1>3, <2>2
<1>7. t.root \notin t.red /\ RedFree(t.left, t.right, t.red, NULL)
  BY DEF ShortOnLeft
<1>8. PICK bh : Heights(t.left, t.right, t.red, bh, P, 1, 0)
  BY DEF ShortOnLeft
<1>9. RootedTree(t.left, t.right, t.root, sub, KeyOf)
  BY DEF Covers, Ordering
<1>10. d.red \in SUBSET Node
  BY <1>3, TreeFields
<1>11. /\ \E bh2 : Heights(t2.left, t2.right, d.red, bh2, NULL, 0, 0)
       /\ RedFree(t2.left, t2.right, d.red, NULL)
  <2>1. /\ RootedTree(t.left, t.right, t.root, sub, KeyOf)
        /\ P \in Node /\ s \in Node /\ f \in Node /\ s = t.right[P] /\ f = t.right[s]
        /\ Rotated(t.left, t.right, t2.left, t2.right, P)
        /\ t.red \in SUBSET Node /\ s \notin t.red /\ f \in t.red
        /\ RedFree(t.left, t.right, t.red, NULL)
        /\ Heights(t.left, t.right, t.red, bh, P, 1, 0)
        /\ d.red \in SUBSET Node /\ P \notin d.red /\ f \notin d.red
        /\ (s \in d.red <=> P \in t.red)
        /\ \A m \in Node \ {P, s, f} : m \in d.red <=> m \in t.red
    BY <1>1, <1>3, <1>6, <1>7, <1>8, <1>9, <1>10
  <2> QED
    BY ONLY <2>1, FarColors
<1>12. t2.root \notin t2.red
  BY <1>2, <1>3, <1>6, <1>7, <1>10, NullAssumption DEF Renamed
<1> QED
  BY <1>6, <1>11, <1>12 DEF Sound

\* One rotation pays the deficit on the right when the far nephew f is red.
LEMMA FarRight ==
  ASSUME NEW t \in Tree, NEW sub, NEW S, Covers(t, sub, S),
         NEW P \in Node, NEW s \in Node, s = t.left[P], NEW f \in Node, f = t.left[s],
         NEW G, Hangs(t, G, P), IsBlack(t, s), IsRed(t, f), ShortOnRight(t, P),
         NEW t2, t2 = RotateRight(Colored(t, P, s, f), G, P)
  PROVE  t2 \in Tree /\ Sound(t2) /\ \E sub2 : Covers(t2, sub2, S)
<1> DEFINE d == Colored(t, P, s, f)
<1>1. /\ t.left \in [Node -> Ptr] /\ t.right \in [Node -> Ptr] /\ t.red \in SUBSET Node
      /\ s \notin t.red /\ f \in t.red /\ s # NULL
  BY TreeFields, NullAssumption DEF IsBlack, IsRed
<1>2. s # P /\ f # P /\ f # s /\ t.root \notin {s, f}
  BY FamilyApart DEF Covers
<1>3. /\ d \in Tree /\ d.root = t.root /\ d.left = t.left /\ d.right = t.right
      /\ P \notin d.red /\ f \notin d.red /\ (s \in d.red <=> P \in t.red)
      /\ \A m \in Node \ {P, s, f} : m \in d.red <=> m \in t.red
  BY <1>2, ColoredIs DEF Recolored
<1>4. t2 = RotateRight(d, G, P)
  OBVIOUS
<1> HIDE DEF d
<1>5. Covers(d, sub, S) /\ Hangs(d, G, P)
  BY <1>3, Painted DEF Hangs
<1>6. /\ t2 \in Tree /\ t2.red = d.red /\ t2.root = Renamed(d.root, P, s)
      /\ Rotated(t.right, t.left, t2.right, t2.left, P)
      /\ \E sub2 : Covers(t2, sub2, S)
  <2>1. /\ d \in Tree /\ Covers(d, sub, S) /\ P \in Node /\ d.left[P] # NULL
        /\ Hangs(d, G, P) /\ t2 = RotateRight(d, G, P)
    BY <1>1, <1>3, <1>4, <1>5
  <2>2. /\ t2 \in Tree /\ t2.red = d.red /\ t2.root = Renamed(d.root, P, d.left[P])
        /\ Rotated(d.right, d.left, t2.right, t2.left, P)
        /\ \E sub2 : Covers(t2, sub2, S)
    BY ONLY <2>1, TurnRight
  <2> QED
    BY <1>3, <2>2
<1>7. t.root \notin t.red /\ RedFree(t.right, t.left, t.red, NULL)
  BY DEF ShortOnRight, RedFree
<1>8. PICK bh : Heights(t.right, t.left, t.red, bh, P, 1, 0)
  <2>1. 0 \in Nat /\ 1 \in Nat
    OBVIOUS
  <2>2. PICK bh : Heights(t.left, t.right, t.red, bh, P, 0, 1)
    BY DEF ShortOnRight
  <2> QED
    BY <1>1, <2>1, <2>2, MirroredHeights
<1>9. PICK K : RootedTree(t.right, t.left, t.root, sub, K)
  BY MirroredRooted DEF Covers, Ordering
<1>10. d.red \in SUBSET Node /\ t2.left \in [Node -> Ptr] /\ t2.right \in [Node -> Ptr]
  BY <1>3, <1>6, TreeFields
<1>11. /\ \E bh2 : Heights(t2.right, t2.left, d.red, bh2, NULL, 0, 0)
       /\ RedFree(t2.right, t2.left, d.red, NULL)
  <2>1. /\ RootedTree(t.right, t.left, t.root, sub, K)
        /\ P \in Node /\ s \in Node /\ f \in Node /\ s = t.left[P] /\ f = t.left[s]
        /\ Rotated(t.right, t.left, t2.right, t2.left, P)
        /\ t.red \in SUBSET Node /\ s \notin t.red /\ f \in t.red
        /\ RedFree(t.right, t.left, t.red, NULL)
        /\ Heights(t.right, t.left, t.red, bh, P, 1, 0)
        /\ d.red \in SUBSET Node /\ P \notin d.red /\ f \notin d.red
        /\ (s \in d.red <=> P \in t.red)
        /\ \A m \in Node \ {P, s, f} : m \in d.red <=> m \in t.red
    BY <1>1, <1>3, <1>6, <1>7, <1>8, <1>9, <1>10
  <2> QED
    BY ONLY <2>1, FarColors
<1>12. /\ \E bh2 : Heights(t2.left, t2.right, d.red, bh2, NULL, 0, 0)
       /\ RedFree(t2.left, t2.right, d.red, NULL)
  BY <1>10, <1>11, MirroredHeights DEF RedFree
<1>13. t2.root \notin t2.red
  BY <1>2, <1>3, <1>6, <1>7, <1>10, NullAssumption DEF Renamed
<1> QED
  BY <1>6, <1>12, <1>13 DEF Sound

\* With only the near nephew q red, it first rotates into the place of s.
LEMMA NearLeft ==
  ASSUME NEW t \in Tree, NEW sub, NEW S, Covers(t, sub, S),
         NEW P \in Node, NEW s \in Node, s = t.right[P], NEW q \in Node, q = t.left[s],
         NEW G, Hangs(t, G, P), IsBlack(t, s), IsRed(t, q), ShortOnLeft(t, P),
         NEW t1, t1 = RotateRight(MakeBlack(MakeRed(t, s), q), P, s),
         NEW t2, t2 = RotateLeft(Colored(t1, P, q, s), G, P)
  PROVE  /\ t1 \in Tree /\ t1.right[P] = q /\ t1.right[q] = s
         /\ t2 \in Tree /\ Sound(t2) /\ \E sub2 : Covers(t2, sub2, S)
<1> DEFINE d0 == MakeBlack(MakeRed(t, s), q)
           d == Colored(t1, P, q, s)
<1>1. /\ t.left \in [Node -> Ptr] /\ t.right \in [Node -> Ptr] /\ t.red \in SUBSET Node
      /\ s \notin t.red /\ q \in t.red /\ s # NULL /\ q # NULL
  BY TreeFields, NullAssumption DEF IsBlack, IsRed
<1>2. s # P /\ q # P /\ q # s /\ G \notin {P, s, q} /\ t.root \notin {s, q}
  BY FamilyApart DEF Covers
<1>3. /\ d0 \in Tree /\ d0.root = t.root /\ d0.left = t.left /\ d0.right = t.right
      /\ d0.red = (t.red \cup {s}) \ {q}
  BY DEF MakeBlack, MakeRed, Tree
<1>4. t1 = RotateRight(d0, P, s) /\ t2 = RotateLeft(d, G, P)
  OBVIOUS
<1> HIDE DEF d0
<1>5. Covers(d0, sub, S) /\ Hangs(d0, G, P) /\ Hangs(d0, P, s)
  BY <1>3, Painted DEF Hangs
<1>6. /\ t1 \in Tree /\ t1.red = d0.red /\ t1.root = Renamed(t.root, s, q)
      /\ Rotated(t.right, t.left, t1.right, t1.left, s)
      /\ Hangs(t1, G, P)
  <2>1. d0.left[s] # NULL
    BY <1>1, <1>3
  <2>2. /\ t1 \in Tree /\ t1.red = d0.red /\ t1.root = Renamed(d0.root, s, d0.left[s])
        /\ Rotated(d0.right, d0.left, t1.right, t1.left, s)
        /\ \A x, y : Hangs(d0, x, y) /\ x \notin {s, d0.left[s]} /\ y \notin {s, d0.left[s]}
                       => Hangs(t1, x, y)
    BY <1>3, <1>4, <1>5, <2>1, TurnRight
  <2> QED
    BY <1>2, <1>3, <1>5, <2>2
<1>7. PICK sub1 : Covers(t1, sub1, S)
  <2>1. d0.left[s] # NULL
    BY <1>1, <1>3
  <2> QED
    BY <1>3, <1>4, <1>5, <2>1, TurnRight
<1>8. PICK K : RootedTree(t.right, t.left, t.root, sub, K)
  BY MirroredRooted DEF Covers, Ordering
<1>9. RootedTree(t.left, t.right, t.root, sub, KeyOf)
  BY DEF Covers, Ordering
<1>10. t1.right[P] = q /\ t1.right[q] = s
  <2>1. /\ RootedTree(t.right, t.left, t.root, sub, K) /\ s \in Node /\ t.left[s] # NULL
        /\ Rotated(t.right, t.left, t1.right, t1.left, s)
    BY <1>1, <1>6, <1>8
  <2>2. /\ t1.right[t.left[s]] = s
        /\ \A m \in Node \ {s, t.left[s]} : t1.right[m] = Renamed(t.right[m], s, t.left[s])
    BY ONLY <2>1, RotatedPointers
  <2>3. t1.right[P] = Renamed(s, s, q)
    BY <1>2, <2>2
  <2> QED
    BY <2>2, <2>3 DEF Renamed
<1>11. /\ d \in Tree /\ d.root = t1.root /\ d.left = t1.left /\ d.right = t1.right
       /\ P \notin d.red /\ s \notin d.red /\ (q \in d.red <=> P \in t1.red)
       /\ \A m \in Node \ {P, q, s} : m \in d.red <=> m \in t1.red
  <2>1. /\ t1 \in Tree /\ P \in Node /\ q \in Node /\ s \in Node /\ q # P /\ s # P /\ s # q
        /\ d = Colored(t1, P, q, s)
    BY <1>2, <1>6
  <2> HIDE DEF d
  <2>2. Recolored(t1, Colored(t1, P, q, s), P, q, s)
    BY ONLY <2>1, ColoredIs
  <2> QED
    BY <2>1, <2>2 DEF Recolored
<1> HIDE DEF d
<1>12. Covers(d, sub1, S) /\ Hangs(d, G, P)
  BY <1>6, <1>7, <1>11, Painted DEF Hangs
<1>13. /\ t2 \in Tree /\ t2.red = d.red /\ t2.root = Renamed(t1.root, P, q)
       /\ Rotated(t1.left, t1.right, t2.left, t2.right, P)
       /\ \E sub2 : Covers(t2, sub2, S)
  <2>1. /\ d \in Tree /\ Covers(d, sub1, S) /\ P \in Node /\ d.right[P] # NULL
        /\ Hangs(d, G, P) /\ t2 = RotateLeft(d, G, P)
    BY <1>1, <1>4, <1>10, <1>11, <1>12
  <2>2. /\ t2 \in Tree /\ t2.red = d.red /\ t2.root = Renamed(d.root, P, d.right[P])
        /\ Rotated(d.left, d.right, t2.left, t2.right, P)
        /\ \E sub2 : Covers(t2, sub2, S)
    BY ONLY <2>1, TurnLeft
  <2> QED
    BY <1>10, <1>11, <2>2
<1>14. t.root \notin t.red /\ RedFree(t.left, t.right, t.red, NULL)
  BY DEF ShortOnLeft
<1>15. PICK bh : Heights(t.left, t.right, t.red, bh, P, 1, 0)
  BY DEF ShortOnLeft
<1>16. /\ d.red \in SUBSET Node /\ (q \in d.red <=> P \in t.red)
       /\ \A m \in Node \ {P, s, q} : m \in d.red <=> m \in t.red
  <2>1. d.red \in SUBSET Node
    BY <1>11, TreeFields
  <2> QED
    BY <1>2, <1>3, <1>6, <1>11, <2>1
<1>17. /\ \E bh2 : Heights(t2.left, t2.right, d.red, bh2, NULL, 0, 0)
       /\ RedFree(t2.left, t2.right, d.red, NULL)
  <2>1. /\ RootedTree(t.left, t.right, t.root, sub, KeyOf)
        /\ P \in Node /\ s \in Node /\ q \in Node /\ s = t.right[P] /\ q = t.left[s]
        /\ Rotated(t.right, t.left, t1.right, t1.left, s)
        /\ Rotated(t1.left, t1.right, t2.left, t2.right, P)
        /\ t.red \in SUBSET Node /\ s \notin t.red /\ q \in t.red
        /\ RedFree(t.left, t.right, t.red, NULL)
        /\ Heights(t.left, t.right, t.red, bh, P, 1, 0)
        /\ d.red \in SUBSET Node /\ P \notin d.red /\ s \notin d.red
        /\ (q \in d.red <=> P \in t.red)
        /\ \A m \in Node \ {P, s, q} : m \in d.red <=> m \in t.red
    BY <1>1, <1>6, <1>9, <1>11, <1>13, <1>14, <1>15, <1>16
  <2> QED
    BY ONLY <2>1, NearColors, SMTT(30)
<1>18. t2.root \notin t2.red
  <2>1. t1.root = t.root
    BY <1>2, <1>6 DEF Renamed
  <2>2. t2.red = d.red /\ t2.root = Renamed(t.root, P, q)
    BY <1>13, <2>1
  <2>3. CASE t.root = P
    BY <1>14, <1>16, <2>2, <2>3 DEF Renamed
  <2>4. CASE t.root # P
    <3>1. t2.root = t.root /\ t.root \notin {P, s, q}
      BY <1>2, <2>2, <2>4 DEF Renamed
    <3> QED
      BY <1>14, <1>16, <2>2, <3>1
  <2> QED
    BY <2>3, <2>4
<1> QED
  BY <1>6, <1>10, <1>13, <1>17, <1>18 DEF Sound

\* The same on the other side.
LEMMA NearRight ==
  ASSUME NEW t \in Tree, NEW sub, NEW S, Covers(t, sub, S),
         NEW P \in Node, NEW s \in Node, s = t.left[P], NEW q \in Node, q = t.right[s],
         NEW G, Hangs(t, G, P), IsBlack(t, s), IsRed(t, q), ShortOnRight(t, P),
         NEW t1, t1 = RotateLeft(MakeBlack(MakeRed(t, s), q), P, s),
         NEW t2, t2 = RotateRight(Colored(t1, P, q, s), G, P)
  PROVE  /\ t1 \in Tree /\ t1.left[P] = q /\ t1.left[q] = s
         /\ t2 \in Tree /\ Sound(t2) /\ \E sub2 : Covers(t2, sub2, S)
<1> DEFINE d0 == MakeBlack(MakeRed(t, s), q)
           d == Colored(t1, P, q, s)
<1>1. /\ t.left \in [Node -> Ptr] /\ t.right \in [Node -> Ptr] /\ t.red \in SUBSET Node
      /\ s \notin t.red /\ q \in t.red /\ s # NULL /\ q # NULL
  BY TreeFields, NullAssumption DEF IsBlack, IsRed
<1>2. s # P /\ q # P /\ q # s /\ G \notin {P, s, q} /\ t.root \notin {s, q}
  BY FamilyApart DEF Covers
<1>3. /\ d0 \in Tree /\ d0.root = t.root /\ d0.left = t.left /\ d0.right = t.right
      /\ d0.red = (t.red \cup {s}) \ {q}
  BY DEF MakeBlack, MakeRed, Tree
<1>4. t1 = RotateLeft(d0, P, s) /\ t2 = RotateRight(d, G, P)
  OBVIOUS
<1> HIDE DEF d0
<1>5. Covers(d0, sub, S) /\ Hangs(d0, G, P) /\ Hangs(d0, P, s)
  BY <1>3, Painted DEF Hangs
<1>6. /\ t1 \in Tree /\ t1.red = d0.red /\ t1.root = Renamed(t.root, s, q)
      /\ Rotated(t.left, t.right, t1.left, t1.right, s)
      /\ Hangs(t1, G, P)
  <2>1. d0.right[s] # NULL
    BY <1>1, <1>3
  <2>2. /\ t1 \in Tree /\ t1.red = d0.red /\ t1.root = Renamed(d0.root, s, d0.right[s])
        /\ Rotated(d0.left, d0.right, t1.left, t1.right, s)
        /\ \A x, y : Hangs(d0, x, y) /\ x \notin {s, d0.right[s]} /\ y \notin {s, d0.right[s]}
                       => Hangs(t1, x, y)
    BY <1>3, <1>4, <1>5, <2>1, TurnLeft
  <2> QED
    BY <1>2, <1>3, <1>5, <2>2
<1>7. PICK sub1 : Covers(t1, sub1, S)
  <2>1. d0.right[s] # NULL
    BY <1>1, <1>3
  <2> QED
    BY <1>3, <1>4, <1>5, <2>1, TurnLeft
<1>8. PICK K : RootedTree(t.right, t.left, t.root, sub, K)
  BY MirroredRooted DEF Covers, Ordering
<1>9. RootedTree(t.left, t.right, t.root, sub, KeyOf)
  BY DEF Covers, Ordering
<1>10. t1.left[P] = q /\ t1.left[q] = s
  <2>1. /\ RootedTree(t.left, t.right, t.root, sub, KeyOf) /\ s \in Node /\ t.right[s] # NULL
        /\ Rotated(t.left, t.right, t1.left, t1.right, s)
    BY <1>1, <1>6, <1>9
  <2>2. /\ t1.left[t.right[s]] = s
        /\ \A m \in Node \ {s, t.right[s]} : t1.left[m] = Renamed(t.left[m], s, t.right[s])
    BY ONLY <2>1, RotatedPointers
  <2>3. t1.left[P] = Renamed(s, s, q)
    BY <1>2, <2>2
  <2> QED
    BY <2>2, <2>3 DEF Renamed
<1>11. /\ d \in Tree /\ d.root = t1.root /\ d.left = t1.left /\ d.right = t1.right
       /\ P \notin d.red /\ s \notin d.red /\ (q \in d.red <=> P \in t1.red)
       /\ \A m \in Node \ {P, q, s} : m \in d.red <=> m \in t1.red
  <2>1. /\ t1 \in Tree /\ P \in Node /\ q \in Node /\ s \in Node /\ q # P /\ s # P /\ s # q
        /\ d = Colored(t1, P, q, s)
    BY <1>2, <1>6
  <2> HIDE DEF d
  <2>2. Recolored(t1, Colored(t1, P, q, s), P, q, s)
    BY ONLY <2>1, ColoredIs
  <2> QED
    BY <2>1, <2>2 DEF Recolored
<1> HIDE DEF d
<1>12. Covers(d, sub1, S) /\ Hangs(d, G, P)
  BY <1>6, <1>7, <1>11, Painted DEF Hangs
<1>13. /\ t2 \in Tree /\ t2.red = d.red /\ t2.root = Renamed(t1.root, P, q)
       /\ Rotated(t1.right, t1.left, t2.right, t2.left, P)
       /\ \E sub2 : Covers(t2, sub2, S)
  <2>1. /\ d \in Tree /\ Covers(d, sub1, S) /\ P \in Node /\ d.left[P] # NULL
        /\ Hangs(d, G, P) /\ t2 = RotateRight(d, G, P)
    BY <1>1, <1>4, <1>10, <1>11, <1>12
  <2>2. /\ t2 \in Tree /\ t2.red = d.red /\ t2.root = Renamed(d.root, P, d.left[P])
        /\ Rotated(d.right, d.left, t2.right, t2.left, P)
        /\ \E sub2 : Covers(t2, sub2, S)
    BY ONLY <2>1, TurnRight
  <2> QED
    BY <1>10, <1>11, <2>2
<1>14. t.root \notin t.red /\ RedFree(t.right, t.left, t.red, NULL)
  BY DEF ShortOnRight, RedFree
<1>15. PICK bh : Heights(t.right, t.left, t.red, bh, P, 1, 0)
  <2>1. 0 \in Nat /\ 1 \in Nat
    OBVIOUS
  <2>2. PICK bh : Heights(t.left, t.right, t.red, bh, P, 0, 1)
    BY DEF ShortOnRight
  <2> QED
    BY <1>1, <2>1, <2>2, MirroredHeights
<1>16. /\ d.red \in SUBSET Node /\ (q \in d.red <=> P \in t.red)
       /\ \A m \in Node \ {P, s, q} : m \in d.red <=> m \in t.red
  <2>1. d.red \in SUBSET Node
    BY <1>11, TreeFields
  <2> QED
    BY <1>2, <1>3, <1>6, <1>11, <2>1
<1>17. /\ \E bh2 : Heights(t2.left, t2.right, d.red, bh2, NULL, 0, 0)
       /\ RedFree(t2.left, t2.right, d.red, NULL)
  <2>1. /\ RootedTree(t.right, t.left, t.root, sub, K)
        /\ P \in Node /\ s \in Node /\ q \in Node /\ s = t.left[P] /\ q = t.right[s]
        /\ Rotated(t.left, t.right, t1.left, t1.right, s)
        /\ Rotated(t1.right, t1.left, t2.right, t2.left, P)
        /\ t.red \in SUBSET Node /\ s \notin t.red /\ q \in t.red
        /\ RedFree(t.right, t.left, t.red, NULL)
        /\ Heights(t.right, t.left, t.red, bh, P, 1, 0)
        /\ d.red \in SUBSET Node /\ P \notin d.red /\ s \notin d.red
        /\ (q \in d.red <=> P \in t.red)
        /\ \A m \in Node \ {P, s, q} : m \in d.red <=> m \in t.red
    BY <1>1, <1>6, <1>8, <1>11, <1>13, <1>14, <1>15, <1>16
  <2>2. /\ \E bh2 : Heights(t2.right, t2.left, d.red, bh2, NULL, 0, 0)
        /\ RedFree(t2.right, t2.left, d.red, NULL)
    BY ONLY <2>1, NearColors, SMTT(30)
  <2>3. t2.left \in [Node -> Ptr] /\ t2.right \in [Node -> Ptr]
    BY <1>13, TreeFields
  <2> QED
    <3>1. PICK bh2 : Heights(t2.right, t2.left, d.red, bh2, NULL, 0, 0)
      BY <2>2
    <3>2. 0 \in Nat
      OBVIOUS
    <3>3. Heights(t2.left, t2.right, d.red, bh2, NULL, 0, 0)
      BY ONLY <2>3, <3>1, <3>2, MirroredHeights
    <3>4. RedFree(t2.left, t2.right, d.red, NULL)
      <4>1. RedFree(t2.right, t2.left, d.red, NULL)
        BY <2>2
      <4> QED
        BY ONLY <4>1 DEF RedFree
    <3> QED
      BY <3>3, <3>4
<1>18. t2.root \notin t2.red
  <2>1. t1.root = t.root
    BY <1>2, <1>6 DEF Renamed
  <2>2. t2.red = d.red /\ t2.root = Renamed(t.root, P, q)
    BY <1>13, <2>1
  <2>3. CASE t.root = P
    BY <1>14, <1>16, <2>2, <2>3 DEF Renamed
  <2>4. CASE t.root # P
    <3>1. t2.root = t.root /\ t.root \notin {P, s, q}
      BY <1>2, <2>2, <2>4 DEF Renamed
    <3> QED
      BY <1>14, <1>16, <2>2, <3>1
  <2> QED
    BY <2>3, <2>4
<1> QED
  BY <1>6, <1>10, <1>13, <1>17, <1>18 DEF Sound

\* Painting moves no pointer.
LEMMA ColoredPointers ==
  ASSUME NEW t \in Tree, NEW P \in Node, NEW s \in Node
  PROVE  LET c == MakeBlack(CopyColor(t, P, s), P)
         IN  c.left = t.left /\ c.right = t.right
<1> DEFINE c == CopyColor(t, P, s)
<1>1. c \in Tree /\ c.left = t.left /\ c.right = t.right
  BY ColorFields DEF CopyColor
<1> HIDE DEF c
<1> QED
  BY <1>1, ColorFields DEF c

\* A red nephew pays the deficit.
LEMMA RemoveFixupRedNephewStep ==
  ASSUME Inv, RemoveFixupRedNephew
  PROVE  Inv' /\ Linked(tree)' = Linked(tree)
<1> DEFINE e == FromEnd(path, 1)
           P == FromEnd(path, 2)
           G == FromEnd(path, 3)
           s == Sibling
           near == IF IsLeftChild THEN tree.left[s] ELSE tree.right[s]
           far == IF IsLeftChild THEN tree.right[s] ELSE tree.left[s]
           toFar == MakeBlack(MakeRed(tree, s), near)
           t == IF ~NullOrBlack(tree, far) THEN tree
                ELSE IF IsLeftChild THEN RotateRight(toFar, P, s)
                ELSE RotateLeft(toFar, P, s)
           x == IF IsLeftChild THEN t.right[P] ELSE t.left[P]
           c == MakeBlack(CopyColor(t, P, x), P)
<1>1. /\ Deficit /\ pc = "remove_fixup" /\ IsBlack(tree, s)
      /\ \E n \in {tree.left[s], tree.right[s]} : ~NullOrBlack(tree, n)
      /\ Return(ret) /\ UNCHANGED closing /\ Parent = P
  BY DEF RemoveFixupRedNephew, Deficit, Parent, Nephews
<1>2. tree' = IF IsLeftChild THEN RotateLeft(MakeBlack(c, c.right[x]), G, P)
              ELSE RotateRight(MakeBlack(c, c.left[x]), G, P)
  BY DEF RemoveFixupRedNephew, Parent
<1>3. /\ P \in Node /\ Hangs(tree, G, P) /\ s \in Node
      /\ IsLeftChild => s = tree.right[P] /\ ShortOnLeft(tree, P)
      /\ ~IsLeftChild => s = tree.left[P] /\ ShortOnRight(tree, P)
  BY <1>1, DeficitFacts
<1>4. /\ tree \in Tree /\ TypeOK /\ ~closing
      /\ tree.left \in [Node -> Ptr] /\ tree.right \in [Node -> Ptr]
      /\ \E sub : Ordering(tree, sub, KeyOf) /\ Covers(tree, sub, Linked(tree))
  BY <1>1, RemoveFixupFacts
<1>5. PICK sub : Covers(tree, sub, Linked(tree))
  BY <1>4
<1>6. \A n : ~NullOrBlack(tree, n) /\ n \in Ptr => n \in Node /\ IsRed(tree, n)
  BY DEF NullOrBlack, IsBlack, IsRed, Ptr
<1>7. tree' \in Tree /\ Sound(tree') /\ \E sub2 : Covers(tree', sub2, Linked(tree))
  <2>1. CASE IsLeftChild /\ ~NullOrBlack(tree, far)
    <3>1. t = tree /\ x = s /\ far = tree.right[s] /\ far \in Node /\ IsRed(tree, far)
      BY <1>3, <1>4, <1>6, <2>1
    <3>2. tree' = RotateLeft(MakeBlack(c, c.right[x]), G, P)
      BY <1>2, <2>1
    <3>3. c = MakeBlack(CopyColor(tree, P, s), P)
      BY <3>1
    <3> HIDE DEF e, P, G, s, near, far, toFar, t, x, c
    <3>4. c.right[x] = far
      BY <1>3, <1>4, <3>1, <3>3, ColoredPointers
    <3>5. tree' = RotateLeft(Colored(tree, P, s, far), G, P)
      BY <3>2, <3>3, <3>4 DEF Colored
    <3>6. /\ tree \in Tree /\ Covers(tree, sub, Linked(tree))
          /\ P \in Node /\ s \in Node /\ s = tree.right[P] /\ far \in Node /\ far = tree.right[s]
          /\ Hangs(tree, G, P) /\ IsBlack(tree, s) /\ IsRed(tree, far) /\ ShortOnLeft(tree, P)
      BY <1>1, <1>3, <1>4, <1>5, <2>1, <3>1
    <3> QED
      BY ONLY <3>5, <3>6, FarLeft
  <2>2. CASE IsLeftChild /\ NullOrBlack(tree, far)
    <3>1. /\ t = RotateRight(toFar, P, s) /\ near = tree.left[s] /\ far = tree.right[s]
          /\ near \in Node /\ IsRed(tree, near)
      BY <1>1, <1>3, <1>4, <1>6, <2>2
    <3>2. tree' = RotateLeft(MakeBlack(c, c.right[x]), G, P)
      BY <1>2, <2>2
    <3>3. x = t.right[P] /\ c = MakeBlack(CopyColor(t, P, x), P)
      BY <2>2
    <3>4. toFar = MakeBlack(MakeRed(tree, s), near)
      OBVIOUS
    <3> HIDE DEF e, P, G, s, near, far, toFar, t, x, c
    <3> DEFINE t2 == RotateLeft(Colored(t, P, near, s), G, P)
    <3>5. t2 = RotateLeft(Colored(t, P, near, s), G, P)
      OBVIOUS
    <3>6. /\ tree \in Tree /\ Covers(tree, sub, Linked(tree))
          /\ P \in Node /\ s \in Node /\ s = tree.right[P] /\ near \in Node /\ near = tree.left[s]
          /\ Hangs(tree, G, P) /\ IsBlack(tree, s) /\ IsRed(tree, near) /\ ShortOnLeft(tree, P)
          /\ t = RotateRight(MakeBlack(MakeRed(tree, s), near), P, s)
      BY <1>1, <1>3, <1>4, <1>5, <2>2, <3>1, <3>4
    <3> HIDE DEF t2
    <3>7. /\ t \in Tree /\ t.right[P] = near /\ t.right[near] = s
          /\ t2 \in Tree /\ Sound(t2) /\ \E sub2 : Covers(t2, sub2, Linked(tree))
      BY ONLY <3>5, <3>6, NearLeft
    <3>8. x = near /\ c = MakeBlack(CopyColor(t, P, near), P) /\ c.right[near] = s
      <4>1. x = near /\ c = MakeBlack(CopyColor(t, P, near), P)
        BY <3>3, <3>7
      <4>2. c.right = t.right
        BY <3>6, <3>7, <4>1, ColoredPointers
      <4> QED
        BY <3>7, <4>1, <4>2
    <3>9. tree' = t2
      BY <3>2, <3>8 DEF Colored, t2
    <3> QED
      BY <3>7, <3>9
  <2>3. CASE ~IsLeftChild /\ ~NullOrBlack(tree, far)
    <3>1. t = tree /\ x = s /\ far = tree.left[s] /\ far \in Node /\ IsRed(tree, far)
      BY <1>3, <1>4, <1>6, <2>3
    <3>2. tree' = RotateRight(MakeBlack(c, c.left[x]), G, P)
      BY <1>2, <2>3
    <3>3. c = MakeBlack(CopyColor(tree, P, s), P)
      BY <3>1
    <3> HIDE DEF e, P, G, s, near, far, toFar, t, x, c
    <3>4. c.left[x] = far
      BY <1>3, <1>4, <3>1, <3>3, ColoredPointers
    <3>5. tree' = RotateRight(Colored(tree, P, s, far), G, P)
      BY <3>2, <3>3, <3>4 DEF Colored
    <3>6. /\ tree \in Tree /\ Covers(tree, sub, Linked(tree))
          /\ P \in Node /\ s \in Node /\ s = tree.left[P] /\ far \in Node /\ far = tree.left[s]
          /\ Hangs(tree, G, P) /\ IsBlack(tree, s) /\ IsRed(tree, far) /\ ShortOnRight(tree, P)
      BY <1>1, <1>3, <1>4, <1>5, <2>3, <3>1
    <3> QED
      BY ONLY <3>5, <3>6, FarRight
  <2>4. CASE ~IsLeftChild /\ NullOrBlack(tree, far)
    <3>1. /\ t = RotateLeft(toFar, P, s) /\ near = tree.right[s] /\ far = tree.left[s]
          /\ near \in Node /\ IsRed(tree, near)
      BY <1>1, <1>3, <1>4, <1>6, <2>4
    <3>2. tree' = RotateRight(MakeBlack(c, c.left[x]), G, P)
      BY <1>2, <2>4
    <3>3. x = t.left[P] /\ c = MakeBlack(CopyColor(t, P, x), P)
      BY <2>4
    <3>4. toFar = MakeBlack(MakeRed(tree, s), near)
      OBVIOUS
    <3> HIDE DEF e, P, G, s, near, far, toFar, t, x, c
    <3> DEFINE t2 == RotateRight(Colored(t, P, near, s), G, P)
    <3>5. t2 = RotateRight(Colored(t, P, near, s), G, P)
      OBVIOUS
    <3>6. /\ tree \in Tree /\ Covers(tree, sub, Linked(tree))
          /\ P \in Node /\ s \in Node /\ s = tree.left[P] /\ near \in Node /\ near = tree.right[s]
          /\ Hangs(tree, G, P) /\ IsBlack(tree, s) /\ IsRed(tree, near) /\ ShortOnRight(tree, P)
          /\ t = RotateLeft(MakeBlack(MakeRed(tree, s), near), P, s)
      BY <1>1, <1>3, <1>4, <1>5, <2>4, <3>1, <3>4
    <3> HIDE DEF t2
    <3>7. /\ t \in Tree /\ t.left[P] = near /\ t.left[near] = s
          /\ t2 \in Tree /\ Sound(t2) /\ \E sub2 : Covers(t2, sub2, Linked(tree))
      BY ONLY <3>5, <3>6, NearRight
    <3>8. x = near /\ c = MakeBlack(CopyColor(t, P, near), P) /\ c.left[near] = s
      BY <3>3, <3>6, <3>7, ColoredPointers
    <3>9. tree' = t2
      BY <3>2, <3>8 DEF Colored, t2
    <3> QED
      BY <3>7, <3>9
  <2> QED
    BY <2>1, <2>2, <2>3, <2>4
<1>8. PICK sub2 : Covers(tree', sub2, Linked(tree))
  BY <1>7
<1> QED
  BY <1>1, <1>4, <1>7, <1>8, FixupReturned

\* Dropping the end of a path leaves the entries above it.
LEMMA ShortenedEnd ==
  ASSUME NEW p \in Seq(Ptr), Len(p) >= 2, NEW q, q = Shorten(p, 1)
  PROVE  q # <<>> /\ FromEnd(q, 1) = FromEnd(p, 2) /\ FromEnd(q, 2) = FromEnd(p, 3)
<1> DEFINE l == Len(p)
<1>1. l \in Nat /\ l >= 2
  OBVIOUS
<1>2. Len(q) = l - 1 /\ \A i \in 1 .. l - 1 : q[i] = p[i]
  BY <1>1 DEF Shorten
<1> HIDE DEF l
<1>3. /\ l - 1 >= 1 /\ (l - 1) - 1 + 1 = l - 1 /\ l - 2 + 1 = l - 1 /\ l - 1 \in 1 .. l - 1
      /\ l - 1 # 0
  BY ONLY <1>1
<1>4. FromEnd(q, 1) = FromEnd(p, 2) /\ q # <<>>
  BY <1>1, <1>2, <1>3 DEF FromEnd, l
<1>5. CASE l >= 3
  <2>1. l - 1 >= 2 /\ (l - 1) - 2 + 1 = l - 2 /\ l - 3 + 1 = l - 2 /\ l - 2 \in 1 .. l - 1
    BY ONLY <1>1, <1>5
  <2>2. FromEnd(q, 2) = q[l - 2] /\ FromEnd(p, 3) = p[l - 2]
    BY <1>2, <1>5, <2>1 DEF FromEnd, l
  <2> QED
    BY <1>2, <1>4, <2>1, <2>2
<1>6. CASE ~(l >= 3)
  <2>1. ~(l - 1 >= 2)
    BY ONLY <1>1, <1>6
  <2>2. FromEnd(q, 2) = NULL /\ FromEnd(p, 3) = NULL
    BY <1>2, <1>6, <2>1 DEF FromEnd, l
  <2> QED
    BY <1>4, <2>2
<1> QED
  BY <1>5, <1>6

\* A black sibling with no red child turns red: P is the end of the deficit now.
LEMMA Lowered ==
  ASSUME NEW t \in Tree, NEW sub, NEW K, Ordering(t, sub, K),
         NEW P \in Node, NEW s \in Node, NEW G, Hangs(t, G, P),
         \/ s = t.right[P] /\ ShortOnLeft(t, P)
         \/ s = t.left[P] /\ ShortOnRight(t, P),
         IsBlack(t, s), NullOrBlack(t, t.left[s]), NullOrBlack(t, t.right[s])
  PROVE  /\ \E bh : Heights(t.left, t.right, t.red \cup {s}, bh, G,
                            LentLeft(t, G, P), LentRight(t, G, P))
         /\ RedFree(t.left, t.right, (t.red \cup {s}) \ {P}, NULL)
         /\ t.root \notin (t.red \cup {s}) \ {P}
<1> DEFINE dl == LentLeft(t, G, P)
           dr == LentRight(t, G, P)
           red2 == t.red \cup {s}
<1>1. /\ t.left \in [Node -> Ptr] /\ t.right \in [Node -> Ptr] /\ t.red \in SUBSET Node
      /\ s \notin t.red
      /\ t.left[s] = NULL \/ t.left[s] \notin t.red
      /\ t.right[s] = NULL \/ t.right[s] \notin t.red
  BY TreeFields DEF IsBlack, NullOrBlack
<1>2. /\ Lent(t.left, t.right, P, G, dl, dr) /\ Lent(t.right, t.left, P, G, dr, dl)
      /\ dl \in Nat /\ dr \in Nat
  BY LentAt
<1>3. RootedTree(t.left, t.right, t.root, sub, K)
  BY DEF Ordering
<1>4. PICK M : RootedTree(t.right, t.left, t.root, sub, M)
  BY <1>3, MirroredRooted
<1>5. t.root # s /\ t.root \notin t.red
  <2>1. s \in {t.left[P], t.right[P]} /\ s # NULL
    BY NullAssumption
  <2>2. t.root # s
    BY <1>3, <2>1, OnlyParent
  <2> QED
    BY <2>2 DEF ShortOnLeft, ShortOnRight
<1> HIDE DEF dl, dr
<1>6. /\ \E bh : Heights(t.left, t.right, red2, bh, G, dl, dr)
      /\ RedFree(t.left, t.right, red2 \ {P}, NULL)
  <2>1. CASE s = t.right[P] /\ ShortOnLeft(t, P)
    <3>1. RedFree(t.left, t.right, t.red, NULL)
      BY <2>1 DEF ShortOnLeft
    <3>2. PICK bh : Heights(t.left, t.right, t.red, bh, P, 1, 0)
      BY <2>1 DEF ShortOnLeft
    <3> QED
      BY <1>1, <1>2, <1>3, <2>1, <3>1, <3>2, DownColors
  <2>2. CASE s = t.left[P] /\ ShortOnRight(t, P)
    <3>1. RedFree(t.right, t.left, t.red, NULL)
      BY <2>2 DEF ShortOnRight, RedFree
    <3>2. PICK bh0 : Heights(t.left, t.right, t.red, bh0, P, 0, 1)
      BY <2>2 DEF ShortOnRight
    <3>3. Heights(t.right, t.left, t.red, bh0, P, 1, 0)
      <4>1. 0 \in Nat /\ 1 \in Nat
        OBVIOUS
      <4> QED
        BY <1>1, <3>2, <4>1, MirroredHeights
    <3>4. /\ \E bh : Heights(t.right, t.left, red2, bh, G, dr, dl)
          /\ RedFree(t.right, t.left, red2 \ {P}, NULL)
      BY <1>1, <1>2, <1>4, <2>2, <3>1, <3>3, DownColors
    <3> HIDE DEF red2
    <3>5. \E bh : Heights(t.left, t.right, red2, bh, G, dl, dr)
      BY <1>1, <1>2, <3>4, MirroredHeights
    <3> QED
      BY <3>4, <3>5 DEF RedFree
  <2> QED
    BY <2>1, <2>2
<1> QED
  BY <1>5, <1>6 DEF dl, dr

\* Nothing red to borrow from: the deficit moves up.
LEMMA RemoveFixupAllBlackStep ==
  ASSUME Inv, RemoveFixupAllBlack
  PROVE  Inv' /\ Linked(tree)' = Linked(tree)
<1> DEFINE e == FromEnd(path, 1)
           P == FromEnd(path, 2)
           G == FromEnd(path, 3)
           s == Sibling
<1>1. /\ Deficit /\ pc = "remove_fixup" /\ IsBlack(tree, s)
      /\ NullOrBlack(tree, tree.left[s]) /\ NullOrBlack(tree, tree.right[s])
      /\ tree' = MakeRed(tree, s) /\ path' = Shorten(path, 1)
      /\ UNCHANGED <<closing, pc, op, key, node, at, ret>>
  BY DEF RemoveFixupAllBlack, Deficit, Nephews
<1>2. /\ Len(path) >= 2 /\ P \in Node /\ Hangs(tree, G, P) /\ s \in Node
      /\ IsLeftChild => s = tree.right[P] /\ ShortOnLeft(tree, P)
      /\ ~IsLeftChild => s = tree.left[P] /\ ShortOnRight(tree, P)
  BY <1>1, DeficitFacts
<1>3. /\ tree \in Tree /\ TypeOK /\ ~closing
      /\ tree.left \in [Node -> Ptr] /\ tree.right \in [Node -> Ptr]
      /\ Len(path) \in Nat /\ path \in Seq(Ptr)
      /\ IsPath(tree.left, tree.right, tree.root, path)
      /\ \E sub : Ordering(tree, sub, KeyOf) /\ Covers(tree, sub, Linked(tree))
  BY <1>1, RemoveFixupFacts
<1>4. PICK sub : Ordering(tree, sub, KeyOf) /\ Covers(tree, sub, Linked(tree))
  BY <1>3
<1>5. path' # <<>> /\ FromEnd(path', 1) = P /\ FromEnd(path', 2) = G
  BY <1>1, <1>2, <1>3, ShortenedEnd
<1>6. path' \in Seq(Ptr) /\ IsPath(tree.left, tree.right, tree.root, path')
  <2>1. 1 \in Nat /\ 1 <= Len(path)
    BY <1>2, <1>3
  <2>2. SameAbove(tree.left, tree.right, tree.left, tree.right, path, Len(path) - 1 - 1)
    BY DEF SameAbove
  <2>3. IsPath(tree.left, tree.right, tree.root, path')
    BY <1>1, <1>3, <2>1, <2>2, PathKept
  <2> QED
    BY <2>3 DEF IsPath
<1> HIDE DEF e, P, G, s
<1>7. /\ tree' \in Tree /\ tree'.root = tree.root /\ tree'.red = tree.red \cup {s}
      /\ tree'.left = tree.left /\ tree'.right = tree.right
  BY <1>1, <1>2, <1>3 DEF MakeRed, Tree
<1>8. /\ \E bh : Heights(tree.left, tree.right, tree.red \cup {s}, bh, G,
                         LentLeft(tree, G, P), LentRight(tree, G, P))
      /\ RedFree(tree.left, tree.right, (tree.red \cup {s}) \ {P}, NULL)
      /\ tree.root \notin (tree.red \cup {s}) \ {P}
  <2>1. /\ tree \in Tree /\ Ordering(tree, sub, KeyOf)
        /\ P \in Node /\ s \in Node /\ Hangs(tree, G, P)
        /\ \/ s = tree.right[P] /\ ShortOnLeft(tree, P)
           \/ s = tree.left[P] /\ ShortOnRight(tree, P)
        /\ IsBlack(tree, s)
        /\ NullOrBlack(tree, tree.left[s]) /\ NullOrBlack(tree, tree.right[s])
    BY <1>1, <1>2, <1>3, <1>4
  <2> QED
    BY ONLY <2>1, Lowered
<1>9. RemoveFlaw(tree', path')
  BY <1>5, <1>7, <1>8 DEF RemoveFlaw, LentLeft, LentRight
<1>10. TypeOK' /\ Control'
  <2>1. TypeOK'
    BY <1>1, <1>3, <1>6, <1>7 DEF TypeOK
  <2> QED
    BY <1>1, <1>3, <1>6, <1>7, <2>1 DEF Control
<1>11. Colours'
  BY <1>1, <1>3, <1>9 DEF Colours
<1>12. Covers(tree', sub, Linked(tree))
  BY <1>4, <1>7, Painted
<1>13. Ordering(tree', sub, KeyOf) /\ Linked(tree') = Linked(tree)
  BY <1>12, LinkedBelow DEF Covers, Ordering
<1>14. Walk(sub)'
  BY <1>1, <1>13 DEF Walk
<1> QED
  BY <1>10, <1>11, <1>13, <1>14 DEF Inv

\* The walk of rbtree_fini_step goes left.
LEMMA FiniDescendStep ==
  ASSUME Inv, FiniDescend
  PROVE  Inv'
<1>1. /\ pc = "fini" /\ node # NULL /\ tree.left[node] # NULL
      /\ path' = Append(path, node) /\ node' = tree.left[node]
      /\ UNCHANGED <<tree, closing, pc, op, key, at, ret>>
  BY DEF FiniDescend
<1>2. /\ tree \in Tree /\ TypeOK /\ closing /\ path \in Seq(Node)
      /\ IsPath(tree.left, tree.right, tree.root, path)
      /\ path = <<>> => node = tree.root
      /\ path # <<>> => node = tree.left[path[Len(path)]]
  BY <1>1 DEF Inv, Control, TypeOK
<1>3. /\ node \in Node /\ node \in Ptr
      /\ tree.left \in [Node -> Ptr] /\ tree.right \in [Node -> Ptr]
  BY <1>1, <1>2, TreeFields DEF TypeOK, Ptr
<1>4. IsPath(tree.left, tree.right, tree.root, path')
  <2>1. path # <<>> => node \in {tree.left[path[Len(path)]], tree.right[path[Len(path)]]}
    BY <1>2
  <2> QED
    BY <1>1, <1>2, <1>3, <2>1, PathOn
<1>5. path' \in Seq(Node) /\ path' # <<>> /\ path'[Len(path')] = node
  BY <1>1, <1>2, <1>3
<1>6. node' \in Ptr /\ path' \in Seq(Ptr)
  BY <1>1, <1>3, <1>4 DEF IsPath
<1>7. TypeOK' /\ Control'
  <2>1. TypeOK'
    BY <1>1, <1>2, <1>6 DEF TypeOK
  <2> QED
    BY <1>1, <1>2, <1>4, <1>5, <2>1 DEF Control
<1>8. Colours'
  BY <1>1, <1>2 DEF Colours
<1>9. PICK sub : Ordering(tree, sub, KeyOf)
  BY <1>1, OrderedTree
<1>10. Walk(sub)'
  BY <1>1, <1>9 DEF Walk
<1> QED
  BY <1>7, <1>8, <1>10 DEF Inv

\* The leftmost node goes, its right subtree moves up: the order remains.
LEMMA FiniRipOutStep ==
  ASSUME Inv, FiniRipOut
  PROVE  Inv' /\ Linked(tree') = Linked(tree) \ {node}
<1> DEFINE G == FromEnd(path, 1)
           c == tree.right[node]
           raised == IF G = NULL THEN [tree EXCEPT !.root = c]
                     ELSE MakeBlack(SetLeft(tree, G, c), G)
           L == [n \in Node |-> -KeyOf[n]]
<1>1. /\ pc = "fini" /\ node # NULL /\ tree.left[node] = NULL
      /\ tree' = Forget(raised, node) /\ Return(node) /\ UNCHANGED closing
  BY DEF FiniRipOut
<1>2. /\ tree \in Tree /\ TypeOK /\ closing /\ closing \in BOOLEAN /\ path \in Seq(Node)
      /\ path = <<>> => node = tree.root
      /\ path # <<>> => node = tree.left[path[Len(path)]]
  BY <1>1 DEF Inv, Control, TypeOK
<1>3. /\ node \in Node /\ node \in Ptr /\ c \in Ptr
      /\ tree.left \in [Node -> Ptr] /\ tree.right \in [Node -> Ptr]
  BY <1>1, <1>2, TreeFields DEF TypeOK, Ptr
<1>4. PICK sub : Ordering(tree, sub, KeyOf)
  BY <1>1, OrderedTree
<1>5. Hangs(tree, G, node) /\ (G # NULL => tree.left[G] = node)
  <2>1. CASE path = <<>>
    <3>1. G = NULL
      BY <2>1 DEF FromEnd
    <3> QED
      BY <1>2, <2>1, <3>1 DEF Hangs
  <2>2. CASE path # <<>>
    <3>1. Len(path) \in Nat /\ Len(path) # 0
      BY <1>2, <2>2
    <3>2. 1 \in Nat \ {0} /\ Len(path) >= 1 /\ Len(path) - 1 + 1 = Len(path)
      BY <3>1
    <3>3. G \in Node /\ G = path[Len(path) - 1 + 1]
      BY <1>2, <3>2, PathEnd
    <3>4. G = path[Len(path)]
      BY <3>2, <3>3
    <3> HIDE DEF G
    <3> QED
      BY <1>2, <2>2, <3>3, <3>4 DEF Hangs
  <2> QED
    BY <2>1, <2>2
<1>6. /\ tree' \in Tree /\ tree'.root = Renamed(tree.root, node, c)
      /\ Spliced(tree.left, tree.right, tree'.left, tree'.right, node, c)
  <2>1. tree' = Forget(IF G = NULL THEN [tree EXCEPT !.root = c]
                       ELSE MakeBlack(SetLeft(tree, G, c), G), node)
    BY <1>1
  <2> HIDE DEF G, c
  <2> QED
    BY <1>2, <1>3, <1>4, <1>5, <2>1, FiniSpliceIs
<1>7. /\ \E sub2 : Ordering(tree', sub2, KeyOf)
      /\ Linked(tree') = Linked(tree) \ {node}
  <2>1. /\ RootedTree(tree.left, tree.right, tree.root, sub, KeyOf)
        /\ AscendsBut(tree.left, tree.right, sub, KeyOf, node)
        /\ Spliced(tree.left, tree.right, tree'.left, tree'.right, node, tree.right[node])
        /\ node \in Node /\ tree.left[node] = NULL /\ KeyOf \in [Node -> Int]
    <3>1. RootedTree(tree.left, tree.right, tree.root, sub, KeyOf)
      BY <1>4 DEF Ordering
    <3>2. AscendsBut(tree.left, tree.right, sub, KeyOf, node)
      BY <3>1 DEF RootedTree, SearchTree, Ascends, AscendsBut
    <3> QED
      BY <1>1, <1>3, <1>6, <3>1, <3>2, KeyAssumption
  <2>2. \E sub2 : /\ RootedTree(tree'.left, tree'.right,
                                Renamed(tree.root, node, tree.right[node]), sub2, KeyOf)
                  /\ sub2[Renamed(tree.root, node, tree.right[node])] = sub[tree.root] \ {node}
    BY ONLY <2>1, SplicedTree
  <2>3. PICK sub2 : /\ RootedTree(tree'.left, tree'.right, tree'.root, sub2, KeyOf)
                    /\ sub2[tree'.root] = sub[tree.root] \ {node}
    BY <1>6, <2>2
  <2>4. Linked(tree') = Linked(tree) \ {node}
    BY <2>1, <2>3, LinkedBelow
  <2> QED
    BY <2>3, <2>4 DEF Ordering
<1>8. node \in Ptr \cup {0, -1} /\ closing' \in BOOLEAN /\ closing'
  BY <1>1, <1>2, <1>3
<1> QED
  BY <1>1, <1>2, <1>6, <1>7, <1>8, Returned

\* Nothing is left: an empty tree is valid whatever the colours of the nodes.
LEMMA FiniEmptyStep ==
  ASSUME Inv, FiniEmpty
  PROVE  Inv'
<1>1. /\ pc = "fini" /\ node = NULL /\ Return(NULL) /\ closing' = FALSE /\ tree' = tree
  BY DEF FiniEmpty
<1>2. tree \in Tree /\ TypeOK /\ tree.root = NULL
  BY <1>1 DEF Inv, Control, TypeOK
<1>3. PICK sub : Ordering(tree, sub, KeyOf)
  BY <1>1, OrderedTree
<1>4. /\ tree.left = [n \in Node |-> NULL] /\ tree.right = [n \in Node |-> NULL]
      /\ tree.red \in SUBSET Node
  <2>1. tree.left \in [Node -> Ptr] /\ tree.right \in [Node -> Ptr] /\ tree.red \in SUBSET Node
    BY <1>2, TreeFields
  <2>2. \A n \in Node : tree.left[n] = NULL /\ tree.right[n] = NULL
    BY <1>2, <1>3 DEF Ordering, RootedTree, SearchTree, Spans
  <2> QED
    BY <2>1, <2>2
<1>5. Sound(tree)
  <2>1. NULL \in Ptr
    BY DEF Ptr
  <2>2. /\ \E bh : Heights(tree.left, tree.right, tree.red, bh, NULL, 0, 0)
        /\ RedFree(tree.left, tree.right, tree.red, NULL)
    BY <1>4, <2>1, NoChildren
  <2> QED
    BY <1>2, <1>4, <2>2, NullAssumption DEF Sound
<1>6. NULL \in Ptr \cup {0, -1} /\ closing' \in BOOLEAN
  BY <1>1 DEF Ptr
<1> QED
  BY <1>1, <1>2, <1>3, <1>5, <1>6, Returned

\* Every step of every call keeps the invariant.
LEMMA NextInv ==
  ASSUME Inv, [Next]_vars
  PROVE  Inv'
<1>1. CASE UNCHANGED vars
  BY <1>1 DEF vars, Inv, Control, TypeOK, Colours, Walk
<1>2. CASE Start
  BY <1>2, CallStep DEF Start
<1>3. CASE Proceed
  BY <1>3, LookupDescendStep, LookupEndStep, InsertLinkStep, InsertFixupRootStep,
     InsertFixupBlackParentStep, InsertFixupRotateStep, InsertFixupRecolorStep,
     RemoveInPlaceStep, RemoveSwapChildStep, RemoveSeekStep, LeftmostDescendStep,
     RemoveSwapSuccessorStep, RemoveDisconnectStep, RemoveFixupRedStep, RemoveFixupRootStep,
     RemoveFixupRedSiblingStep, RemoveFixupRedNephewStep, RemoveFixupAllBlackStep,
     FiniDescendStep, FiniRipOutStep, FiniEmptyStep
     DEF Proceed
<1> QED
  BY <1>1, <1>2, <1>3 DEF Next

\* Every state of every history of calls satisfies the invariant.
THEOREM Invariance == Spec => []Inv
<1>1. Init => Inv
  BY InitInv
<1>2. Inv /\ [Next]_vars => Inv'
  BY NextInv
<1> QED
  BY <1>1, <1>2, PTL DEF Spec

-----------------------------------------------------------------------------
(* What follows from the invariant.                                        *)

\* The variables keep their types.
THEOREM TypeCorrect == Spec => []TypeOK
<1>1. Inv => TypeOK
  BY DEF Inv, Control
<1> QED
  BY <1>1, Invariance, PTL

\* The certificates of order are what Ordered says of the memory.
LEMMA InvOrdered == Inv => Ordered
<1> SUFFICES ASSUME Inv PROVE Ordered
  OBVIOUS
<1>1. CASE pc # "disconnect"
  <2>1. PICK sub : Ordering(tree, sub, KeyOf)
    BY <1>1, OrderedTree
  <2> QED
    BY <1>1, <2>1, TreeInOrder DEF Ordering, Ordered
<1>2. CASE pc = "disconnect"
  <2>1. \E sub, K : Ordering(tree, sub, K)
    BY <1>2 DEF Inv, Walk, Ripe
  <2>2. PICK sub, K : Ordering(tree, sub, K)
    BY <2>1
  <2> QED
    BY <1>2, <2>2, TreeInOrder DEF Ordering, Ordered
<1> QED
  BY <1>1, <1>2

\* The tree is a search tree in every state, every loop iteration included: in
\* ascending order, no node linked twice, none lost.
THEOREM OrderedHolds == Spec => []Ordered
  BY Invariance, InvOrdered, PTL

\* A sound tree that is a search tree passes rbtree_verify.
LEMMA SoundValid ==
  ASSUME NEW t \in Tree, Sound(t), NEW sub, NEW K, Ordering(t, sub, K)
  PROVE  Valid(t)
<1>1. t.root \in Ptr /\ SearchTree(t.left, t.right, sub, K)
  BY TreeFields DEF Ordering, RootedTree
<1>2. RedRule(t, NULL)
  BY DEF Sound, RedFree, RedRule, NullOrBlack, IsBlack
<1>3. BlackRule(t, NULL, 0, 0)
  <2>1. PICK bh : Heights(t.left, t.right, t.red, bh, NULL, 0, 0)
    BY DEF Sound
  <2>2. 0 \in Nat
    OBVIOUS
  <2> QED
    BY <1>1, <2>1, <2>2, HeightsCount
<1> QED
  BY <1>2, <1>3 DEF Sound, Valid, IsBlack

\* Between calls the tree is sound.
LEMMA InvBalanced == Inv => Balanced
<1> SUFFICES ASSUME Inv, pc = "idle", ~closing PROVE Valid(tree)
  BY DEF Balanced
<1>1. tree \in Tree /\ \E sub : Ordering(tree, sub, KeyOf)
  BY OrderedTree
<1>2. Sound(tree)
  BY DEF Inv, Colours
<1> QED
  BY <1>1, <1>2, SoundValid

\* Every call gives back a tree that rbtree_verify accepts.
THEOREM BalancedHolds == Spec => []Balanced
  BY Invariance, InvBalanced, PTL

\* The grandparent and the sibling that the code does not test for are there.
LEMMA InvNeighbours == Inv => NeighboursExist
<1> SUFFICES ASSUME Inv PROVE NeighboursExist
  OBVIOUS
<1>1. GrandparentExists
  <2> SUFFICES ASSUME DoubleRed
               PROVE  Len(path) >= 3 /\ Grandparent # NULL /\ IsBlack(tree, Grandparent)
    BY DEF GrandparentExists
  <2>1. /\ Len(path) >= 3 /\ FromEnd(path, 3) = Grandparent
        /\ FromEnd(path, 3) \in Node /\ FromEnd(path, 3) \notin tree.red
    BY DoubleRedFacts
  <2> QED
    BY <2>1, NullAssumption DEF IsBlack
<1>2. SiblingExists
  <2> SUFFICES ASSUME Deficit PROVE Parent # NULL /\ Sibling # NULL
    BY DEF SiblingExists
  <2>1. FromEnd(path, 2) = Parent /\ FromEnd(path, 2) \in Node /\ Sibling \in Node
    BY DeficitFacts
  <2> QED
    BY <2>1, NullAssumption
<1> QED
  BY <1>1, <1>2 DEF NeighboursExist

\* No rebalancing loop follows a null pointer: "grandparent has to exist and be
\* black", "sibling is guaranteed to exist".
THEOREM NeighboursExistHolds == Spec => []NeighboursExist
  BY Invariance, InvNeighbours, PTL

\* While a rebalancing loop runs the tree has the one flaw it mends.
LEMMA InvOneFlaw == Inv => OneFlaw
<1> SUFFICES ASSUME Inv PROVE OneFlaw
  OBVIOUS
<1> DEFINE e == FromEnd(path, 1)
           P == FromEnd(path, 2)
<1>1. OneDoubleRed
  <2> SUFFICES ASSUME pc = "insert_fixup"
               PROVE  /\ IsRed(tree, e) /\ RedRule(tree, e)
                      /\ BlackRule(tree, NULL, 0, 0)
    BY DEF OneDoubleRed
  <2>1. /\ tree \in Tree /\ InsertFlaw(tree, path) /\ e = path[Len(path)]
        /\ \E sub : Ordering(tree, sub, KeyOf)
    BY InsertFixupFacts
  <2> HIDE DEF e
  <2>2. e \in tree.red /\ RedFree(tree.left, tree.right, tree.red, e)
    BY <2>1 DEF InsertFlaw
  <2>3. PICK bh : Heights(tree.left, tree.right, tree.red, bh, NULL, 0, 0)
    BY <2>1 DEF InsertFlaw
  <2>4. PICK sub : Ordering(tree, sub, KeyOf)
    BY <2>1
  <2>5. BlackRule(tree, NULL, 0, 0)
    <3>1. 0 \in Nat /\ tree.root \in Ptr /\ SearchTree(tree.left, tree.right, sub, KeyOf)
      BY <2>1, <2>4, TreeFields DEF Ordering, RootedTree
    <3> QED
      BY <2>3, <3>1, HeightsCount
  <2>6. RedRule(tree, e)
    BY <2>2 DEF RedFree, RedRule, NullOrBlack, IsBlack
  <2> QED
    BY <2>2, <2>5, <2>6 DEF IsRed
<1>2. ASSUME pc = "remove_fixup", ~NullOrBlack(tree, e) PROVE Valid(MakeBlack(tree, e))
  <2> DEFINE t == MakeBlack(tree, e)
  <2>1. t \in Tree /\ Sound(t) /\ \E sub : Covers(t, sub, Linked(tree))
    BY <1>2, Blackened
  <2> HIDE DEF t
  <2>2. \E sub : Ordering(t, sub, KeyOf)
    BY <2>1 DEF Covers
  <2>3. Valid(t)
    BY <2>1, <2>2, SoundValid
  <2> QED
    BY <2>3 DEF t
<1>3. ASSUME pc = "remove_fixup", NullOrBlack(tree, e)
      PROVE  /\ RedRule(tree, NULL)
             /\ IF Len(path) = 1 THEN BlackRule(tree, NULL, 0, 0)
                ELSE IF IsLeftChild THEN BlackRule(tree, Parent, 1, 0)
                ELSE BlackRule(tree, Parent, 0, 1)
  <2>1. /\ tree \in Tree /\ Len(path) \in Nat /\ Len(path) >= 1
        /\ tree.red \in SUBSET Node
        /\ RedFree(tree.left, tree.right, tree.red \ {e}, NULL)
        /\ \E bh : Heights(tree.left, tree.right, tree.red, bh, P,
                           LentLeft(tree, P, e), LentRight(tree, P, e))
        /\ \E sub : Ordering(tree, sub, KeyOf)
    BY <1>3, RemoveFixupFacts
  <2>2. PICK sub : Ordering(tree, sub, KeyOf)
    BY <2>1
  <2>3. /\ tree.root \in Ptr /\ SearchTree(tree.left, tree.right, sub, KeyOf)
        /\ 0 \in Nat /\ 1 \in Nat
    BY <2>1, <2>2, TreeFields DEF Ordering, RootedTree
  <2>4. RedRule(tree, NULL)
    <3>1. tree.red \ {e} = tree.red
      BY <1>3, <2>1, NullAssumption DEF NullOrBlack, IsBlack
    <3> QED
      BY <2>1, <3>1 DEF RedFree, RedRule, NullOrBlack, IsBlack
  <2>5. CASE Len(path) = 1
    <3>1. P = NULL
      BY <2>5 DEF FromEnd
    <3>2. \E bh : Heights(tree.left, tree.right, tree.red, bh, NULL, 0, 0)
      BY <2>1, <3>1 DEF LentLeft, LentRight
    <3>3. BlackRule(tree, NULL, 0, 0)
      BY <2>3, <3>2, HeightsCount
    <3> QED
      BY <2>4, <2>5, <3>3
  <2>6. CASE Len(path) # 1
    <3>1. Deficit
      <4> DEFINE l == Len(path)
      <4>1. l \in Nat /\ l >= 1 /\ l # 1
        BY <2>1, <2>6
      <4> HIDE DEF l
      <4>2. l > 1
        BY ONLY <4>1
      <4> QED
        BY <1>3, <4>2 DEF l, Deficit
    <3>2. /\ P = Parent
          /\ IsLeftChild => ShortOnLeft(tree, P)
          /\ ~IsLeftChild => ShortOnRight(tree, P)
      BY <3>1, DeficitFacts
    <3> HIDE DEF e, P
    <3>3. IsLeftChild => BlackRule(tree, P, 1, 0)
      BY <2>3, <3>2, HeightsCount DEF ShortOnLeft
    <3>4. ~IsLeftChild => BlackRule(tree, P, 0, 1)
      BY <2>3, <3>2, HeightsCount DEF ShortOnRight
    <3> QED
      BY <2>4, <2>6, <3>2, <3>3, <3>4
  <2> QED
    BY <2>5, <2>6
<1>4. OneDeficit
  BY <1>2, <1>3 DEF OneDeficit
<1> QED
  BY <1>1, <1>4 DEF OneFlaw

\* Insertion leaves at most one red node under a red one, removal at most one
\* subtree that is one black node short, wherever the loop has got to.
THEOREM OneFlawHolds == Spec => []OneFlaw
  BY Invariance, InvOneFlaw, PTL

\* A rebalancing loop goes on or returns, and links and unlinks no node.
LEMMA FixupStays ==
  ASSUME Inv, Next, pc \in {"insert_fixup", "remove_fixup"}
  PROVE  /\ Linked(tree)' = Linked(tree) /\ Inv'
         /\ pc' = "idle" \/ pc' = pc
<1>1. \/ InsertFixupRoot \/ InsertFixupBlackParent
      \/ InsertFixupRotate \/ InsertFixupRecolor
      \/ RemoveFixupRed \/ RemoveFixupRoot \/ RemoveFixupRedSibling
      \/ RemoveFixupRedNephew \/ RemoveFixupAllBlack
  BY DEF Next, Start, Proceed, CallInsert, CallRemove, CallLookup, CallFini, Call,
     LookupDescend, LookupReturn, InsertDuplicate, InsertLink, RemoveMissing,
     RemoveInPlace, RemoveSwapChild, RemoveSeekSuccessor, RemoveFound, LeftmostDescend,
     RemoveSwapSuccessor, RemoveDisconnect, FiniDescend, FiniRipOut, FiniEmpty
<1>2. Linked(tree)' = Linked(tree) /\ Inv'
  BY <1>1, InsertFixupRootStep, InsertFixupBlackParentStep, InsertFixupRotateStep,
     InsertFixupRecolorStep, RemoveFixupRedStep, RemoveFixupRootStep,
     RemoveFixupRedSiblingStep, RemoveFixupRedNephewStep, RemoveFixupAllBlackStep
<1>3. pc' = "idle" \/ pc' = pc
  BY <1>1 DEF InsertFixupRoot, InsertFixupBlackParent, InsertFixupRotate,
     InsertFixupRecolor, RemoveFixupRed, RemoveFixupRoot, RemoveFixupRedSibling,
     RemoveFixupRedNephew, RemoveFixupAllBlack, Return
<1> QED
  BY <1>2, <1>3

\* No step of a rebalancing loop takes a node past another.
LEMMA FixupKeepsOrder ==
  ASSUME Inv, [Next]_vars, pc \in {"insert_fixup", "remove_fixup"}
  PROVE  InOrder(tree)' = InOrder(tree)
<1>1. CASE UNCHANGED vars
  BY <1>1 DEF vars
<1>2. CASE Next
  <2>1. /\ Linked(tree)' = Linked(tree) /\ Inv'
        /\ pc' = "idle" \/ pc' = pc
    BY <1>2, FixupStays
  <2>2. PICK sub : Ordering(tree, sub, KeyOf)
    BY OrderedTree
  <2>3. PICK sub2 : Ordering(tree', sub2, KeyOf)
    BY <2>1 DEF Inv, Walk
  <2>4. Lists(InOrder(tree), Linked(tree), KeyOf)
    BY <2>2, TreeInOrder, LinkedBelow DEF Ordering
  <2>5. Lists(InOrder(tree'), Linked(tree'), KeyOf)
    BY <2>3, TreeInOrder, LinkedBelow DEF Ordering
  <2> QED
    BY <2>1, <2>4, <2>5, ListsUnique, KeyAssumption
<1> QED
  BY <1>1, <1>2

\* Rebalancing moves nodes up and down, never across one another.
THEOREM RebalancingHolds == Spec => RebalancingKeepsOrder
<1>1. Inv /\ [Next]_vars
        => [(pc \in {"insert_fixup", "remove_fixup"}) => InOrder(tree)' = InOrder(tree)]_vars
  BY FixupKeepsOrder
<1> QED
  BY <1>1, Invariance, PTL DEF Spec, RebalancingKeepsOrder

-----------------------------------------------------------------------------
(* The length of paths: how high a tree of so many nodes can be.           *)

\* 2^k.
Power(k) == Doubled(1)[k]

\* It is 1, and then twice what it was.
LEMMA PowerFacts ==
  /\ Power(0) = 1
  /\ \A k \in Nat : Power(k) \in Nat /\ Power(k + 1) = 2 * Power(k)
<1>1. 1 \in Nat \ {0}
  OBVIOUS
<1> QED
  BY <1>1, DoubledFacts DEF Power

\* What is below a node is below one of its children, never both, or the node itself.
LEMMA NodesBelow ==
  ASSUME NEW a, NEW b, NEW sub, NEW K, SearchTree(a, b, sub, K)
  PROVE  /\ \A p \in Ptr : Cardinality(sub[p]) \in Nat
         /\ Cardinality(sub[NULL]) = 0
         /\ \A n \in Node : Cardinality(sub[n]) = Cardinality(sub[a[n]]) + Cardinality(sub[b[n]]) + 1
<1>1. /\ sub[NULL] = {} /\ sub \in [Ptr -> SUBSET Node]
      /\ a \in [Node -> Ptr] /\ b \in [Node -> Ptr]
  BY DEF SearchTree, Spans
<1>2. \A p \in Ptr : IsFiniteSet(sub[p]) /\ Cardinality(sub[p]) \in Nat
  <2> SUFFICES ASSUME NEW p \in Ptr PROVE IsFiniteSet(sub[p]) /\ Cardinality(sub[p]) \in Nat
    OBVIOUS
  <2>1. IsFiniteSet(sub[p])
    BY <1>1, NodeAssumption, FS_Subset
  <2> QED
    BY <2>1, FS_CardinalityType
<1>3. ASSUME NEW n \in Node
      PROVE  Cardinality(sub[n]) = Cardinality(sub[a[n]]) + Cardinality(sub[b[n]]) + 1
  <2> DEFINE L == sub[a[n]]
             R == sub[b[n]]
  <2>1. sub[n] = (L \cup R) \cup {n} /\ n \notin L \cup R /\ L \cap R = {}
    BY Locally
  <2>2. IsFiniteSet(L) /\ IsFiniteSet(R) /\ Cardinality(L) \in Nat /\ Cardinality(R) \in Nat
    BY <1>1, <1>2
  <2> HIDE DEF L, R
  <2>3. /\ IsFiniteSet(L \cup R)
        /\ Cardinality(L \cup R) = Cardinality(L) + Cardinality(R) - Cardinality(L \cap R)
    BY <2>2, FS_Union
  <2>4. Cardinality(L \cap R) = 0
    BY <2>1, FS_EmptySet
  <2>5. Cardinality(sub[n]) = Cardinality(L \cup R) + 1
    BY <2>1, <2>3, FS_AddElement
  <2> QED
    BY <2>2, <2>3, <2>4, <2>5 DEF L, R
<1> QED
  BY <1>1, <1>2, <1>3, FS_EmptySet

\* What a full tree of black height h would have, with one more: NULL has height 1.
Full(h) == Power(h - 1)

\* Full grows with the black height as the heights of a node and its child differ.
LEMMA FullBelow ==
  ASSUME NEW h \in Nat \ {0}
  PROVE  /\ Full(h) \in Nat /\ Full(h) >= 1 /\ Full(1) = 1
         /\ Full(h + 1) = 2 * Full(h)
<1> DEFINE T == {k \in Nat : Power(k) >= 1}
<1>1. 0 \in T /\ \A k \in T : k + 1 \in T
  BY PowerFacts
<1>2. T = Nat
  <2> HIDE DEF T
  <2>1. T \in SUBSET Nat
    BY DEF T
  <2> QED
    BY <1>1, <2>1, Induction
<1>3. h - 1 \in Nat /\ (h + 1) - 1 = (h - 1) + 1 /\ 1 - 1 = 0
  OBVIOUS
<1>4. Power(h - 1) >= 1
  BY <1>2, <1>3
<1> QED
  BY <1>3, <1>4, PowerFacts DEF Full

\* The black heights count nodes: a tree has as many as a full one of its black
\* height, or, when a subtree is lent a black node, as many less as that has.
LEMMA HeightsNeedNodes ==
  ASSUME NEW a, NEW b, NEW sub, NEW K, SearchTree(a, b, sub, K),
         NEW red, NEW bh, NEW short, NEW da \in {0, 1}, NEW db \in {0, 1}, da = 0 \/ db = 0,
         Heights(a, b, red, bh, short, da, db),
         NEW lent \in Nat,
         short \in Node /\ da = 1 => Full(bh[a[short]]) <= lent,
         short \in Node /\ db = 1 => Full(bh[b[short]]) <= lent
  PROVE  \A p \in Ptr : /\ short \notin sub[p] => Full(bh[p]) <= Cardinality(sub[p]) + 1
                        /\ Full(bh[p]) <= Cardinality(sub[p]) + 1 + lent
<1> DEFINE N(q) == Cardinality(sub[q]) + 1
           S == {q \in Ptr : /\ short \notin sub[q] => Full(bh[q]) <= N(q)
                             /\ Full(bh[q]) <= N(q) + lent}
<1>1. /\ bh \in [Ptr -> Nat \ {0}] /\ bh[NULL] = 1 /\ sub[NULL] = {} /\ NULL \in Ptr
      /\ \A n \in Node : HeightAt(a, b, red, bh, n, short, da, db)
  BY DEF Heights, HeightFunction, SearchTree, Spans, Ptr
<1>2. /\ \A q \in Ptr : N(q) \in Nat /\ Full(bh[q]) \in Nat
      /\ N(NULL) = 1 /\ Full(1) = 1
      /\ \A n \in Node : N(n) = N(a[n]) + N(b[n])
  <2>1. /\ \A p \in Ptr : Cardinality(sub[p]) \in Nat
        /\ Cardinality(sub[NULL]) = 0
        /\ \A n \in Node : Cardinality(sub[n]) = Cardinality(sub[a[n]]) + Cardinality(sub[b[n]]) + 1
    BY NodesBelow
  <2>2. \A n \in Node : a[n] \in Ptr /\ b[n] \in Ptr
    BY DEF SearchTree
  <2>3. \A n \in Node : N(n) = N(a[n]) + N(b[n])
    BY <2>1, <2>2
  <2>4. \A q \in Ptr : Full(bh[q]) \in Nat
    BY <1>1, FullBelow
  <2>5. 1 \in Nat \ {0}
    OBVIOUS
  <2> QED
    BY <2>1, <2>3, <2>4, <2>5, FullBelow
<1>3. NULL \in S
  <2>1. Full(bh[NULL]) = 1 /\ N(NULL) = 1
    BY <1>1, <1>2
  <2> HIDE DEF N
  <2> QED
    BY <1>1, <2>1
<1>4. ASSUME NEW n \in Node, a[n] \in S, b[n] \in S PROVE n \in S
  <2> DEFINE l == a[n]
             r == b[n]
  <2>1. /\ l \in Ptr /\ r \in Ptr /\ n \in Ptr
        /\ sub[n] = {n} \cup sub[l] \cup sub[r]
        /\ n \notin sub[l] /\ n \notin sub[r] /\ sub[l] \cap sub[r] = {}
    BY Locally DEF Ptr
  <2>2. /\ N(n) = N(l) + N(r) /\ N(n) \in Nat /\ N(l) \in Nat /\ N(r) \in Nat
        /\ Full(bh[n]) \in Nat /\ Full(bh[l]) \in Nat /\ Full(bh[r]) \in Nat
        /\ bh[n] \in Nat \ {0} /\ bh[l] \in Nat \ {0} /\ bh[r] \in Nat \ {0}
    BY <1>1, <1>2, <2>1
  <2>3. /\ short \notin sub[l] => Full(bh[l]) <= N(l)
        /\ short \notin sub[r] => Full(bh[r]) <= N(r)
        /\ Full(bh[l]) <= N(l) + lent /\ Full(bh[r]) <= N(r) + lent
    BY <1>4
  <2>4. /\ bh[l] + (IF n = short THEN da ELSE 0) = bh[r] + (IF n = short THEN db ELSE 0)
        /\ bh[n] = bh[l] + (IF n = short THEN da ELSE 0) + (IF n \in red THEN 0 ELSE 1)
    BY <1>1 DEF HeightAt
  <2>5. /\ n = short /\ da = 1 => Full(bh[l]) <= lent
        /\ n = short /\ db = 1 => Full(bh[r]) <= lent
    OBVIOUS
  <2> HIDE DEF N, l, r
  <2>6. CASE n # short \/ (da = 0 /\ db = 0)
    <3>1. bh[l] = bh[r] /\ (bh[n] = bh[l] \/ bh[n] = bh[l] + 1)
      BY <2>2, <2>4, <2>6
    <3>2. Full(bh[n]) <= Full(bh[l]) + Full(bh[r])
      BY <2>2, <3>1, FullBelow
    <3>3. short \notin sub[l] \/ short \notin sub[r]
      BY <2>1
    <3>4. Full(bh[n]) <= N(n) + lent
      BY <2>2, <2>3, <3>2, <3>3
    <3>5. short \notin sub[n] => Full(bh[n]) <= N(n)
      BY <2>1, <2>2, <2>3, <3>2
    <3> QED
      BY <2>1, <3>4, <3>5 DEF N
  <2>7. CASE n = short /\ da = 1
    <3>1. bh[r] = bh[l] + 1 /\ (bh[n] = bh[r] \/ bh[n] = bh[r] + 1)
      BY <2>2, <2>4, <2>7
    <3>2. Full(bh[n]) <= 2 * Full(bh[r]) /\ Full(bh[r]) = 2 * Full(bh[l])
      BY <2>2, <3>1, FullBelow
    <3>3. Full(bh[l]) <= N(l) /\ Full(bh[r]) <= N(r) /\ Full(bh[l]) <= lent
      BY <2>1, <2>3, <2>5, <2>7
    <3>4. Full(bh[n]) <= N(n) + lent
      BY <2>2, <3>2, <3>3
    <3> QED
      BY <2>1, <2>7, <3>4 DEF N
  <2>8. CASE n = short /\ db = 1
    <3>1. bh[l] = bh[r] + 1 /\ (bh[n] = bh[l] \/ bh[n] = bh[l] + 1)
      BY <2>2, <2>4, <2>8
    <3>2. Full(bh[n]) <= 2 * Full(bh[l]) /\ Full(bh[l]) = 2 * Full(bh[r])
      BY <2>2, <3>1, FullBelow
    <3>3. Full(bh[l]) <= N(l) /\ Full(bh[r]) <= N(r) /\ Full(bh[r]) <= lent
      BY <2>1, <2>3, <2>5, <2>8
    <3>4. Full(bh[n]) <= N(n) + lent
      BY <2>2, <3>2, <3>3
    <3> QED
      BY <2>1, <2>8, <3>4 DEF N
  <2> QED
    BY <2>6, <2>7, <2>8
<1>5. Ptr \subseteq S
  <2> HIDE DEF S
  <2> QED
    BY <1>3, <1>4, TreeInduction
<1> QED
  BY <1>5

\* Numbers that fall k - 1 times.
LEMMA Falling ==
  ASSUME NEW f, NEW k \in Nat \ {0}, \A i \in 1 .. k : f[i] \in Int,
         \A i \in 1 .. k - 1 : f[i + 1] < f[i]
  PROVE  f[k] <= f[1] - (k - 1)
<1> DEFINE T == {j \in Nat : j + 1 <= k => f[j + 1] <= f[1] - j}
<1>1. 0 \in T
  OBVIOUS
<1>2. ASSUME NEW j \in T PROVE j + 1 \in T
  <2> SUFFICES ASSUME (j + 1) + 1 <= k PROVE f[(j + 1) + 1] <= f[1] - (j + 1)
    OBVIOUS
  <2>1. /\ j + 1 \in 1 .. k - 1 /\ j + 1 \in 1 .. k /\ (j + 1) + 1 \in 1 .. k /\ 1 \in 1 .. k
        /\ j + 1 <= k
    OBVIOUS
  <2>2. f[(j + 1) + 1] < f[j + 1] /\ f[j + 1] <= f[1] - j
    BY <2>1
  <2>3. f[(j + 1) + 1] \in Int /\ f[j + 1] \in Int /\ f[1] \in Int
    BY <2>1
  <2> QED
    BY <2>2, <2>3
<1>3. T = Nat
  <2> HIDE DEF T
  <2>1. T \in SUBSET Nat
    BY DEF T
  <2> QED
    BY <1>1, <1>2, <2>1, Induction
<1>4. k - 1 \in T
  BY <1>3
<1> QED
  BY <1>4

\* A node ranks above its children: by its black height, and red above black.
Rank(bh, red, n) == 2 * bh[n] + (IF n \in red THEN 1 ELSE 0)

\* Below a node ranks are less, unless a red node has a red child.
LEMMA RanksFall ==
  ASSUME NEW a \in [Node -> Ptr], NEW b \in [Node -> Ptr], NEW red, NEW bh, NEW short,
         NEW da \in {0, 1}, NEW db \in {0, 1}, Heights(a, b, red, bh, short, da, db)
  PROVE  /\ \A n \in Node : Rank(bh, red, n) \in Nat /\ Rank(bh, red, n) >= 3
         /\ \A n, c \in Node : c \in {a[n], b[n]} /\ (n \in red => c \notin red) =>
              Rank(bh, red, c) < Rank(bh, red, n)
<1>1. bh \in [Ptr -> Nat \ {0}]
  BY DEF Heights, HeightFunction
<1>2. ASSUME NEW n \in Node
      PROVE  /\ bh[a[n]] \in Nat \ {0} /\ bh[b[n]] \in Nat \ {0} /\ bh[n] \in Nat \ {0}
             /\ bh[a[n]] + (IF n \in red THEN 0 ELSE 1) <= bh[n]
             /\ bh[b[n]] + (IF n \in red THEN 0 ELSE 1) <= bh[n]
  <2>1. /\ bh[a[n]] + (IF n = short THEN da ELSE 0) = bh[b[n]] + (IF n = short THEN db ELSE 0)
        /\ bh[n] = bh[a[n]] + (IF n = short THEN da ELSE 0) + (IF n \in red THEN 0 ELSE 1)
    BY DEF Heights, HeightAt
  <2>2. bh[a[n]] \in Nat \ {0} /\ bh[b[n]] \in Nat \ {0} /\ bh[n] \in Nat \ {0}
    BY <1>1 DEF Ptr
  <2> QED
    BY <2>1, <2>2
<1>3. ASSUME NEW n \in Node PROVE Rank(bh, red, n) \in Nat /\ Rank(bh, red, n) >= 3
  BY <1>2 DEF Rank
<1>4. ASSUME NEW n \in Node, NEW c \in Node, c \in {a[n], b[n]}, n \in red => c \notin red
      PROVE  Rank(bh, red, c) < Rank(bh, red, n)
  <2>1. /\ bh[c] \in Nat /\ bh[n] \in Nat
        /\ bh[c] + (IF n \in red THEN 0 ELSE 1) <= bh[n]
    BY <1>2, <1>4
  <2> QED
    BY <1>4, <2>1 DEF Rank
<1> QED
  BY <1>3, <1>4

\* "Good enough to handle RB-trees of any size": the stack of RBTREE_CURSOR has two
\* slots for every bit of the number of nodes that fit into memory.
StackIsLarge ==
  \A k \in Nat : Power(k) <= Cardinality(Node) + 1 => 2 * k <= Capacity

\* So it has two for each black node on a way down from p, if there are nodes enough.
LEMMA SlotsSuffice ==
  ASSUME StackIsLarge, NEW T \in SUBSET Node, NEW h \in Nat \ {0}, Full(h) <= Cardinality(T) + 1
  PROVE  2 * h <= Capacity + 2
<1>1. Cardinality(T) <= Cardinality(Node) /\ Cardinality(T) \in Nat /\ Cardinality(Node) \in Nat
  BY NodeAssumption, FS_Subset, FS_CardinalityType
<1>2. h - 1 \in Nat /\ Full(h) \in Nat
  BY FullBelow
<1>3. Power(h - 1) <= Cardinality(Node) + 1
  BY <1>1, <1>2 DEF Full
<1>4. 2 * (h - 1) <= Capacity
  BY <1>2, <1>3 DEF StackIsLarge
<1> QED
  BY <1>4, CapacityAssumption

\* And two at least, if there is a node.
LEMMA SlotsForOne ==
  ASSUME StackIsLarge, Node # {}
  PROVE  2 <= Capacity
<1>1. PICK n \in Node : TRUE
  OBVIOUS
<1>2. {n} \in SUBSET Node /\ Cardinality({n}) = 1
  BY FS_Singleton
<1>3. 1 \in Nat \ {0} /\ 2 \in Nat \ {0} /\ 1 + 1 = 2
  OBVIOUS
<1>4. Full(1) = 1 /\ Full(1 + 1) = 2 * Full(1)
  BY <1>3, FullBelow
<1>5. Full(2) <= Cardinality({n}) + 1
  BY <1>2, <1>3, <1>4
<1>6. 2 * 2 <= Capacity + 2
  BY <1>2, <1>3, <1>5, SlotsSuffice
<1> QED
  BY <1>6, CapacityAssumption

\* A way down that is as long as the ranks allow, and ends with two red nodes,
\* has twice as many nodes beside it.
LEMMA DoubleRedNeedsNodes ==
  ASSUME NEW a, NEW b, NEW sub, NEW K, SearchTree(a, b, sub, K),
         NEW red, NEW bh, Heights(a, b, red, bh, NULL, 0, 0),
         NEW p \in Seq(Node), Len(p) > 1,
         \A i \in 1 .. Len(p) - 1 : p[i + 1] \in {a[p[i]], b[p[i]]},
         \A i \in 1 .. Len(p) - 2 : p[i] \in red => p[i + 1] \notin red,
         p[Len(p) - 1] \in red, p[1] \notin red
  PROVE  /\ Len(p) < Rank(bh, red, p[1])
         /\ Len(p) + 1 = Rank(bh, red, p[1]) => 2 * Full(bh[p[1]]) <= Cardinality(sub[p[1]]) + 1
<1> DEFINE N(q) == Cardinality(sub[q]) + 1
           f(n) == Rank(bh, red, n)
           Needs(n) == IF n \in red THEN 3 * Full(bh[n]) ELSE 2 * Full(bh[n])
           S == {j \in Nat : j + 2 <= Len(p) =>
                   LET n == p[Len(p) - 1 - j]
                   IN  j + 2 < f(n) /\ (j + 3 = f(n) => Needs(n) <= N(n))}
<1>1. /\ a \in [Node -> Ptr] /\ b \in [Node -> Ptr] /\ bh \in [Ptr -> Nat \ {0}]
      /\ Len(p) \in Nat /\ \A i \in 1 .. Len(p) : p[i] \in Node
      /\ 0 \in {0, 1}
  BY DEF SearchTree, Heights, HeightFunction
<1>2. ASSUME NEW n \in Node
      PROVE  /\ bh[n] \in Nat \ {0} /\ bh[a[n]] \in Nat \ {0} /\ bh[a[n]] = bh[b[n]]
             /\ bh[n] = bh[a[n]] + (IF n \in red THEN 0 ELSE 1)
             /\ f(n) = 2 * bh[n] + (IF n \in red THEN 1 ELSE 0)
  <2>1. /\ bh[a[n]] + (IF n = NULL THEN 0 ELSE 0) = bh[b[n]] + (IF n = NULL THEN 0 ELSE 0)
        /\ bh[n] = bh[a[n]] + (IF n = NULL THEN 0 ELSE 0) + (IF n \in red THEN 0 ELSE 1)
    BY DEF Heights, HeightAt
  <2>2. bh[a[n]] \in Nat \ {0} /\ bh[b[n]] \in Nat \ {0} /\ bh[n] \in Nat \ {0}
    BY <1>1 DEF Ptr
  <2> QED
    BY <2>1, <2>2 DEF Rank
<1>3. /\ \A q \in Ptr : N(q) \in Nat
      /\ \A n \in Node : N(n) = N(a[n]) + N(b[n])
  <2>1. /\ \A q \in Ptr : Cardinality(sub[q]) \in Nat
        /\ \A n \in Node : Cardinality(sub[n]) = Cardinality(sub[a[n]]) + Cardinality(sub[b[n]]) + 1
    BY NodesBelow
  <2>2. \A n \in Node : a[n] \in Ptr /\ b[n] \in Ptr
    BY <1>1
  <2>3. ASSUME NEW n \in Node PROVE N(n) = N(a[n]) + N(b[n])
    <3>1. /\ Cardinality(sub[a[n]]) \in Nat /\ Cardinality(sub[b[n]]) \in Nat
          /\ Cardinality(sub[n]) = Cardinality(sub[a[n]]) + Cardinality(sub[b[n]]) + 1
      BY <2>1, <2>2
    <3> QED
      BY <3>1
  <2>4. \A q \in Ptr : N(q) \in Nat
    BY <2>1
  <2> HIDE DEF N
  <2> QED
    BY <2>3, <2>4
<1>4. \A q \in Ptr : Full(bh[q]) \in Nat /\ Full(bh[q]) >= 1 /\ Full(bh[q]) <= N(q)
  <2>1. ASSUME NEW q \in Ptr
        PROVE  Full(bh[q]) \in Nat /\ Full(bh[q]) >= 1 /\ Full(bh[q]) <= N(q)
    <3>1. NULL \notin sub[q]
      BY NullAssumption DEF SearchTree, Spans
    <3>2. 0 \in Nat /\ ~(NULL \in Node)
      BY NullAssumption
    <3>3. Full(bh[q]) <= N(q)
      BY <1>1, <3>1, <3>2, HeightsNeedNodes
    <3> QED
      BY <1>1, <3>3, FullBelow
  <2> QED
    BY <2>1
<1>5. \A n, c \in Node : c \in {a[n], b[n]} /\ (n \in red => c \notin red) => f(c) < f(n)
  BY <1>1, RanksFall
<1> HIDE DEF f, N
<1>6. 0 \in S
  <2> DEFINE n == p[Len(p) - 1]
  <2>1. n \in Node /\ n \in red /\ p[Len(p)] \in Node /\ p[Len(p)] \in {a[n], b[n]}
        /\ Len(p) - 1 \in 1 .. Len(p) /\ Len(p) - 1 - 0 = Len(p) - 1
    <3>1. Len(p) - 1 \in 1 .. Len(p) - 1 /\ Len(p) - 1 \in 1 .. Len(p) /\ Len(p) \in 1 .. Len(p)
          /\ (Len(p) - 1) + 1 = Len(p) /\ Len(p) - 1 - 0 = Len(p) - 1
      BY <1>1
    <3>2. p[(Len(p) - 1) + 1] \in {a[n], b[n]}
      BY <3>1
    <3> QED
      BY <1>1, <3>1, <3>2
  <2>2. bh[n] \in Nat \ {0} /\ f(n) = 2 * bh[n] + 1 /\ bh[a[n]] = bh[n] /\ bh[b[n]] = bh[n]
    BY <1>2, <2>1
  <2>3. ASSUME 3 = f(n) PROVE 3 * Full(bh[n]) <= N(n)
    <3> DEFINE x == p[Len(p)]
    <3>1. bh[n] = 1 /\ x \in Node /\ x \in {a[n], b[n]} /\ n \in Node
      BY <2>1, <2>2, <2>3
    <3> HIDE DEF x
    <3>2. N(n) = N(a[n]) + N(b[n]) /\ N(a[n]) \in Nat /\ N(b[n]) \in Nat
      BY <1>1, <1>3, <3>1
    <3>3. N(x) >= 2
      <4>1. N(x) = N(a[x]) + N(b[x]) /\ N(a[x]) \in Nat /\ N(b[x]) \in Nat
            /\ a[x] \in Ptr /\ b[x] \in Ptr
        BY <1>1, <1>3, <3>1
      <4>2. 1 <= N(a[x]) /\ 1 <= N(b[x])
        BY <1>3, <1>4, <4>1
      <4> QED
        BY <4>1, <4>2
    <3>4. 1 <= N(a[n]) /\ 1 <= N(b[n])
      <4>1. a[n] \in Ptr /\ b[n] \in Ptr
        BY <1>1, <3>1
      <4> QED
        BY <1>3, <1>4, <4>1
    <3>5. Full(bh[n]) = 1
      <4>1. 1 \in Nat \ {0}
        OBVIOUS
      <4> QED
        BY <3>1, <4>1, FullBelow
    <3> QED
      BY <3>1, <3>2, <3>3, <3>4, <3>5
  <2> HIDE DEF n
  <2>4. 0 + 2 < f(n) /\ (0 + 3 = f(n) => Needs(n) <= N(n))
    BY <2>1, <2>2, <2>3
  <2> QED
    BY <2>1, <2>4 DEF n
<1>7. ASSUME NEW j \in S PROVE j + 1 \in S
  <2> SUFFICES ASSUME (j + 1) + 2 <= Len(p)
               PROVE  LET n == p[Len(p) - 1 - (j + 1)]
                      IN  (j + 1) + 2 < f(n) /\ ((j + 1) + 3 = f(n) => Needs(n) <= N(n))
    OBVIOUS
  <2> DEFINE i == Len(p) - 1 - (j + 1)
             n == p[i]
             c == p[i + 1]
  <2>1. /\ j \in Nat /\ i \in 1 .. Len(p) - 2 /\ i \in 1 .. Len(p) - 1 /\ i \in 1 .. Len(p)
        /\ i + 1 \in 1 .. Len(p) /\ i + 1 = Len(p) - 1 - j /\ j + 2 <= Len(p)
    <3>1. j \in Nat /\ Len(p) \in Nat
      BY <1>1
    <3> HIDE DEF S
    <3> QED
      BY <3>1
  <2>2. n \in Node /\ c \in Node /\ c \in {a[n], b[n]} /\ (n \in red => c \notin red)
    BY <1>1, <2>1
  <2>3. j + 2 < f(c) /\ (j + 3 = f(c) => Needs(c) <= N(c))
    BY <2>1
  <2> HIDE DEF i, n, c
  <2>4. f(c) < f(n)
    BY <1>5, <2>2
  <2>5. /\ bh[n] \in Nat \ {0} /\ bh[a[n]] \in Nat \ {0} /\ bh[a[n]] = bh[b[n]]
        /\ bh[n] = bh[a[n]] + (IF n \in red THEN 0 ELSE 1)
        /\ f(n) = 2 * bh[n] + (IF n \in red THEN 1 ELSE 0)
        /\ bh[c] \in Nat \ {0} /\ f(c) = 2 * bh[c] + (IF c \in red THEN 1 ELSE 0)
        /\ bh[c] = bh[a[n]]
    BY <1>2, <2>2
  <2>6. (j + 1) + 2 < f(n)
    <3>1. f(n) \in Int /\ f(c) \in Int
      BY <2>5
    <3> QED
      BY <2>1, <2>3, <2>4, <3>1
  <2>7. ASSUME (j + 1) + 3 = f(n) PROVE Needs(n) <= N(n)
    <3>1. j + 3 = f(c) /\ f(n) = f(c) + 1
      <4>1. f(n) \in Int /\ f(c) \in Int
        BY <2>5
      <4> QED
        BY <2>1, <2>3, <2>4, <2>7, <4>1
    <3>2. Needs(c) <= N(c)
      BY <2>3, <3>1
    <3>3. PICK d \in {a[n], b[n]} : N(n) = N(c) + N(d)
      <4>1. N(n) = N(a[n]) + N(b[n]) /\ N(a[n]) \in Nat /\ N(b[n]) \in Nat
        BY <1>1, <1>3, <2>2
      <4> QED
        BY <2>2, <4>1
    <3>4. d \in Ptr /\ c \in Ptr /\ bh[d] = bh[c]
      BY <1>1, <2>2, <2>5 DEF Ptr
    <3>5. /\ Full(bh[c]) <= N(d) /\ Full(bh[c]) \in Nat
          /\ N(c) \in Nat /\ N(d) \in Nat
      <4>1. Full(bh[d]) <= N(d)
        BY <1>4, <3>4
      <4> QED
        BY <1>3, <1>4, <3>4, <4>1
    <3>6. CASE n \in red
      <4>1. c \notin red /\ bh[n] = bh[c]
        BY <2>2, <2>5, <3>6
      <4>2. 2 * Full(bh[c]) <= N(c)
        BY <3>2, <4>1
      <4> QED
        BY <3>3, <3>5, <3>6, <4>1, <4>2
    <3>7. CASE n \notin red
      <4>1. c \in red /\ bh[n] = bh[c] + 1
        BY <2>5, <3>1, <3>7
      <4>2. 3 * Full(bh[c]) <= N(c) /\ Full(bh[n]) = 2 * Full(bh[c])
        BY <2>5, <3>2, <4>1, FullBelow
      <4> QED
        BY <3>3, <3>5, <3>7, <4>2
    <3> QED
      BY <3>6, <3>7
  <2> HIDE DEF Needs
  <2> QED
    BY <2>6, <2>7 DEF i, n
<1>8. S = Nat
  <2>1. S \in SUBSET Nat
    OBVIOUS
  <2> HIDE DEF S
  <2> QED
    BY <1>6, <1>7, <2>1, Induction
<1>9. Len(p) - 2 \in S /\ (Len(p) - 2) + 2 = Len(p) /\ (Len(p) - 2) + 3 = Len(p) + 1
      /\ Len(p) - 1 - (Len(p) - 2) = 1
  <2> HIDE DEF S
  <2> QED
    BY <1>1, <1>8
<1>10. Len(p) < f(p[1]) /\ (Len(p) + 1 = f(p[1]) => Needs(p[1]) <= N(p[1]))
  BY <1>1, <1>9
<1> QED
  BY <1>10 DEF f, N

\* Along a way down without a red node under a red one the ranks fall.
LEMMA RanksAlong ==
  ASSUME NEW a \in [Node -> Ptr], NEW b \in [Node -> Ptr], NEW red, NEW bh, NEW short,
         NEW da \in {0, 1}, NEW db \in {0, 1}, Heights(a, b, red, bh, short, da, db),
         NEW p, NEW k \in Nat \ {0}, \A i \in 1 .. k : p[i] \in Node,
         \A i \in 1 .. k - 1 : /\ p[i + 1] \in {a[p[i]], b[p[i]]}
                               /\ p[i] \in red => p[i + 1] \notin red
  PROVE  Rank(bh, red, p[k]) <= Rank(bh, red, p[1]) - (k - 1)
<1> DEFINE f == [i \in 1 .. k |-> Rank(bh, red, p[i])]
<1>1. 1 \in 1 .. k /\ k \in 1 .. k
  OBVIOUS
<1>2. /\ \A n \in Node : Rank(bh, red, n) \in Nat
      /\ \A n, c \in Node : c \in {a[n], b[n]} /\ (n \in red => c \notin red) =>
           Rank(bh, red, c) < Rank(bh, red, n)
  BY RanksFall
<1>3. \A i \in 1 .. k : f[i] \in Int
  BY <1>2
<1>4. ASSUME NEW i \in 1 .. k - 1 PROVE f[i + 1] < f[i]
  <2>1. i \in 1 .. k /\ i + 1 \in 1 .. k
    OBVIOUS
  <2>2. Rank(bh, red, p[i + 1]) < Rank(bh, red, p[i])
    BY <1>2, <2>1
  <2> QED
    BY <2>1, <2>2
<1>5. f[k] <= f[1] - (k - 1)
  <2> HIDE DEF f
  <2> QED
    BY <1>3, <1>4, Falling
<1> QED
  BY <1>1, <1>5

\* No way down is longer than the stack: d falls from the root to the leaves.
Shallow(t) ==
  \E d \in [Node -> Nat] :
    /\ \A n \in Node : \A c \in {t.left[n], t.right[n]} : c # NULL => d[c] < d[n]
    /\ t.root # NULL => d[t.root] < Capacity

\* No path in a shallow tree outgrows the stack.
LEMMA ShallowPath ==
  ASSUME NEW t \in Tree, Shallow(t), NEW p \in Seq(Node), IsPath(t.left, t.right, t.root, p)
  PROVE  Len(p) <= Capacity
<1>1. PICK d \in [Node -> Nat] :
        /\ \A n \in Node : \A c \in {t.left[n], t.right[n]} : c # NULL => d[c] < d[n]
        /\ t.root # NULL => d[t.root] < Capacity
  BY DEF Shallow
<1>2. /\ Len(p) \in Nat /\ (p # <<>> => p[1] = t.root) /\ \A i \in 1 .. Len(p) : p[i] \in Node
      /\ \A i \in 1 .. Len(p) - 1 : p[i + 1] \in {t.left[p[i]], t.right[p[i]]}
  BY DEF IsPath
<1>3. CASE p = <<>>
  BY <1>3, CapacityAssumption
<1>4. CASE p # <<>>
  <2> DEFINE k == Len(p)
             f == [i \in 1 .. k |-> d[p[i]]]
  <2>1. k \in Nat \ {0} /\ 1 \in 1 .. k /\ k \in 1 .. k
    BY <1>2, <1>4
  <2>2. \A i \in 1 .. k : f[i] \in Int /\ f[i] >= 0
    BY <1>2
  <2>3. ASSUME NEW i \in 1 .. k - 1 PROVE f[i + 1] < f[i]
    <3>1. i \in 1 .. k /\ i + 1 \in 1 .. k
      BY <2>1
    <3>2. p[i] \in Node /\ p[i + 1] \in Node /\ p[i + 1] \in {t.left[p[i]], t.right[p[i]]}
      BY <1>2, <3>1
    <3> QED
      BY <1>1, <3>1, <3>2, NullAssumption
  <2>4. f[1] < Capacity
    <3>1. p[1] = t.root /\ p[1] # NULL
      BY <1>2, <1>4, <2>1, NullAssumption
    <3> QED
      BY <1>1, <2>1, <3>1
  <2> HIDE DEF k, f
  <2>5. f[k] <= f[1] - (k - 1)
    BY ONLY <2>1, <2>2, <2>3, Falling
  <2>6. k <= Capacity
    BY <2>1, <2>2, <2>4, <2>5, CapacityAssumption
  <2> QED
    BY <2>6 DEF k
<1> QED
  BY <1>3, <1>4

\* Red-black trees are shallow.
LEMMA SoundShallow ==
  ASSUME StackIsLarge, NEW t \in Tree, Sound(t), NEW sub, NEW K, Ordering(t, sub, K)
  PROVE  Shallow(t)
<1>1. PICK bh : Heights(t.left, t.right, t.red, bh, NULL, 0, 0)
  BY DEF Sound
<1>2. /\ t.left \in [Node -> Ptr] /\ t.right \in [Node -> Ptr] /\ t.root \in Ptr
      /\ bh \in [Ptr -> Nat \ {0}] /\ 0 \in {0, 1} /\ 0 \in Nat /\ ~(NULL \in Node)
  BY <1>1, TreeFields, NullAssumption DEF Heights, HeightFunction
<1>3. RedFree(t.left, t.right, t.red, NULL) /\ t.root \notin t.red
  BY DEF Sound
<1>4. /\ \A n \in Node : Rank(bh, t.red, n) \in Nat /\ Rank(bh, t.red, n) >= 3
      /\ \A n, c \in Node : c \in {t.left[n], t.right[n]} /\ (n \in t.red => c \notin t.red) =>
           Rank(bh, t.red, c) < Rank(bh, t.red, n)
  BY <1>1, <1>2, RanksFall
<1> DEFINE d == [n \in Node |-> Rank(bh, t.red, n) - 3]
<1>5. d \in [Node -> Nat]
  BY <1>4
<1>6. ASSUME NEW n \in Node, NEW c \in {t.left[n], t.right[n]}, c # NULL PROVE d[c] < d[n]
  <2>1. c \in Node /\ (n \in t.red => c \notin t.red)
    BY <1>2, <1>3, <1>6 DEF RedFree, Ptr
  <2>2. /\ Rank(bh, t.red, c) < Rank(bh, t.red, n)
        /\ Rank(bh, t.red, c) \in Nat /\ Rank(bh, t.red, n) \in Nat
    BY <1>4, <2>1
  <2> QED
    BY <2>1, <2>2
<1>7. ASSUME t.root # NULL PROVE d[t.root] < Capacity
  <2>1. t.root \in Node
    BY <1>2, <1>7 DEF Ptr
  <2>2. SearchTree(t.left, t.right, sub, K) /\ NULL \notin sub[t.root] /\ sub[t.root] \in SUBSET Node
    BY <1>2, NullAssumption DEF Ordering, RootedTree, SearchTree, Spans
  <2>3. Full(bh[t.root]) <= Cardinality(sub[t.root]) + 1
    BY <1>1, <1>2, <2>2, HeightsNeedNodes
  <2>4. bh[t.root] \in Nat \ {0}
    BY <1>2
  <2>5. 2 * bh[t.root] <= Capacity + 2
    BY <2>2, <2>3, <2>4, SlotsSuffice
  <2>6. d[t.root] = 2 * bh[t.root] - 3
    BY <1>3, <2>1, <2>4 DEF Rank
  <2> QED
    BY <2>4, <2>5, <2>6, CapacityAssumption
<1> QED
  BY <1>5, <1>6, <1>7 DEF Shallow

\* Pointers that are dropped or skip a node leave a tree as shallow as it was.
ShallowInv == closing => Shallow(tree)

\* When rbtree_remove_fixup mends the tree, the node that was taken out is in memory still.
PathInv == ShallowInv /\ (pc = "remove_fixup" => Linked(tree) # Node)

\* The teardown begins with a balanced tree, and hangs nodes only higher.
LEMMA ShallowStep ==
  ASSUME StackIsLarge, Inv, ShallowInv, [Next]_vars
  PROVE  ShallowInv'
<1> SUFFICES ASSUME closing' PROVE Shallow(tree)'
  BY DEF ShallowInv
<1>1. CASE UNCHANGED vars
  BY <1>1 DEF vars, ShallowInv, Shallow
<1>2. CASE CallFini
  <2>1. tree' = tree /\ pc = "idle"
    BY <1>2 DEF CallFini, Call
  <2>2. Shallow(tree)
    <3>1. CASE closing
      BY <3>1 DEF ShallowInv
    <3>2. CASE ~closing
      <4>1. Sound(tree)
        BY <2>1, <3>2 DEF Inv, Colours
      <4>2. tree \in Tree /\ \E sub : Ordering(tree, sub, KeyOf)
        BY <2>1, OrderedTree
      <4> QED
        BY <4>1, <4>2, SoundShallow
    <3> QED
      BY <3>1, <3>2
  <2> QED
    BY <2>1, <2>2 DEF Shallow
<1>3. CASE FiniDescend
  BY <1>3 DEF FiniDescend, ShallowInv, Shallow
<1>4. CASE FiniRipOut
  <2>1. closing
    BY <1>4 DEF FiniRipOut
  <2>2. PICK d \in [Node -> Nat] :
          /\ \A n \in Node : \A c \in {tree.left[n], tree.right[n]} : c # NULL => d[c] < d[n]
          /\ tree.root # NULL => d[tree.root] < Capacity
    BY <2>1 DEF ShallowInv, Shallow
  <2> DEFINE parent == FromEnd(path, 1)
             raised == IF parent = NULL THEN [tree EXCEPT !.root = tree.right[node]]
                       ELSE MakeBlack(SetLeft(tree, parent, tree.right[node]), parent)
  <2>3. /\ tree \in Tree /\ node \in Node /\ parent \in Ptr /\ path \in Seq(Node)
        /\ parent = NULL => node = tree.root
        /\ parent # NULL => parent \in Node /\ node = tree.left[parent]
        /\ tree.left \in [Node -> Ptr] /\ tree.right \in [Node -> Ptr] /\ tree.root \in Ptr
    <3>1. /\ tree \in Tree /\ node \in Node /\ path \in Seq(Node) /\ pc = "fini"
          /\ path = <<>> => node = tree.root
          /\ path # <<>> => node # NULL /\ node = tree.left[path[Len(path)]]
      BY <1>4 DEF Inv, Control, TypeOK, FiniRipOut, Ptr
    <3>2. CASE path = <<>>
      <4>1. parent = NULL
        BY <3>2 DEF FromEnd
      <4> QED
        BY <3>1, <3>2, <4>1, TreeFields DEF Ptr
    <3>3. CASE path # <<>>
      <4>1. parent = path[Len(path)] /\ parent \in Node
        BY <3>1, <3>3 DEF FromEnd
      <4> QED
        BY <3>1, <3>3, <4>1, TreeFields, NullAssumption DEF Ptr
    <3> QED
      BY <3>2, <3>3
  <2>4. tree' = Forget(raised, node)
    BY <1>4 DEF FiniRipOut
  <2> HIDE DEF parent
  <2>5. /\ tree' \in Tree
        /\ tree'.root = (IF parent = NULL THEN tree.right[node] ELSE tree.root)
        /\ \A n \in Node : \/ tree'.left[n] \in {NULL, tree.left[n]}
                           \/ n = parent /\ tree'.left[n] = tree.right[node]
        /\ \A n \in Node : tree'.right[n] \in {NULL, tree.right[n]}
    <3>1. /\ raised \in Tree
          /\ raised.root = (IF parent = NULL THEN tree.right[node] ELSE tree.root)
          /\ raised.left = (IF parent = NULL THEN tree.left
                            ELSE [tree.left EXCEPT ![parent] = tree.right[node]])
          /\ raised.right = tree.right
      <4>1. CASE parent = NULL
        BY <2>3, <4>1, RootFields
      <4>2. CASE parent # NULL
        <5> DEFINE u == SetLeft(tree, parent, tree.right[node])
        <5>1. tree \in Tree /\ parent \in Node /\ tree.right[node] \in Ptr
          BY <2>3, <4>2
        <5>2. /\ u \in Tree /\ u.root = tree.root /\ u.right = tree.right
              /\ u.left = [tree.left EXCEPT ![parent] = tree.right[node]]
          BY ONLY <5>1, TreeFields DEF SetLeft, Tree
        <5>3. raised = MakeBlack(u, parent)
          BY <4>2
        <5> HIDE DEF u, raised
        <5>4. /\ raised \in Tree /\ raised.root = u.root
              /\ raised.left = u.left /\ raised.right = u.right
          BY ONLY <5>1, <5>2, <5>3, ColorFields
        <5> QED
          BY <4>2, <5>2, <5>4
      <4> QED
        BY <4>1, <4>2
    <3> HIDE DEF raised
    <3> DEFINE u == SetLeft(raised, node, NULL)
               v == SetRight(u, node, NULL)
    <3>2. NULL \in Ptr /\ raised \in Tree /\ node \in Node
      BY <2>3, <3>1 DEF Ptr
    <3>3. /\ u \in Tree /\ u.root = raised.root /\ u.right = raised.right
          /\ u.left = [raised.left EXCEPT ![node] = NULL]
      BY ONLY <3>2, TreeFields DEF SetLeft, Tree
    <3>4. tree' = MakeBlack(SetRight(u, node, NULL), node)
      BY <2>4 DEF Forget
    <3> HIDE DEF u
    <3>5. /\ v \in Tree /\ v.root = u.root /\ v.left = u.left
          /\ v.right = [u.right EXCEPT ![node] = NULL]
      BY ONLY <3>2, <3>3, SetFields
    <3>6. tree' = MakeBlack(v, node)
      BY <3>4
    <3> HIDE DEF v
    <3>7. /\ tree' \in Tree /\ tree'.root = v.root
          /\ tree'.left = v.left /\ tree'.right = v.right
      BY ONLY <3>2, <3>5, <3>6, ColorFields
    <3>8. /\ tree'.root = raised.root
          /\ tree'.left = [raised.left EXCEPT ![node] = NULL]
          /\ tree'.right = [tree.right EXCEPT ![node] = NULL]
      BY ONLY <3>1, <3>3, <3>5, <3>7
    <3>9. raised.left \in [Node -> Ptr] /\ tree.right \in [Node -> Ptr]
      BY <2>3, <3>1, TreeFields
    <3>10. \A n \in Node : \/ raised.left[n] = tree.left[n]
                           \/ n = parent /\ raised.left[n] = tree.right[node]
      BY <2>3, <3>1
    <3>11. \A n \in Node : /\ tree'.left[n] \in {NULL, raised.left[n]}
                            /\ tree'.right[n] \in {NULL, tree.right[n]}
      BY ONLY <3>2, <3>8, <3>9
    <3> QED
      BY ONLY <3>1, <3>7, <3>8, <3>10, <3>11
  <2>6. /\ tree.right[node] # NULL => /\ tree.right[node] \in Node
                                      /\ d[tree.right[node]] < d[node]
        /\ d[node] \in Nat
    BY <2>2, <2>3 DEF Ptr
  <2>7. ASSUME NEW n \in Node, NEW c \in {tree'.left[n], tree'.right[n]}, c # NULL
        PROVE  d[c] < d[n]
    <3>1. CASE c \in {tree.left[n], tree.right[n]}
      BY <2>2, <2>7, <3>1
    <3>2. CASE n = parent /\ c = tree.right[node]
      <4>1. node = tree.left[n] /\ d[node] < d[n]
        BY <2>2, <2>3, <3>2, NullAssumption
      <4>2. d[c] \in Nat /\ d[n] \in Nat /\ d[c] < d[node]
        BY <2>6, <2>7, <3>2
      <4> QED
        BY <2>6, <4>1, <4>2
    <3> QED
      BY <2>5, <2>7, <3>1, <3>2
  <2>8. ASSUME tree'.root # NULL PROVE d[tree'.root] < Capacity
    <3>1. CASE parent = NULL
      <4>1. tree'.root = tree.right[node] /\ node = tree.root
        BY <2>3, <2>5, <3>1
      <4>2. d[node] < Capacity /\ d[tree.right[node]] < d[node]
            /\ d[tree.right[node]] \in Nat
        BY <2>2, <2>3, <2>6, <2>8, <4>1, NullAssumption
      <4> QED
        BY <2>6, <4>1, <4>2, CapacityAssumption
    <3>2. CASE parent # NULL
      BY <2>2, <2>5, <2>8, <3>2
    <3> QED
      BY <3>1, <3>2
  <2> QED
    BY <2>7, <2>8 DEF Shallow
<1>5. CASE Start /\ ~CallFini
  <2>1. ~closing /\ closing' = closing
    BY <1>5 DEF Start, CallInsert, CallRemove, CallLookup
  <2> QED
    BY <2>1
<1>6. CASE FiniEmpty
  BY <1>6 DEF FiniEmpty
<1>7. CASE Proceed /\ ~FiniDescend /\ ~FiniRipOut /\ ~FiniEmpty
  <2>1. pc \notin {"idle", "fini"} /\ closing' = closing
    BY <1>7 DEF Proceed, LookupDescend, LookupReturn, InsertDuplicate, InsertLink,
       InsertFixupRoot, InsertFixupBlackParent, InsertFixupRotate, InsertFixupRecolor, DoubleRed,
       RemoveMissing, RemoveInPlace, RemoveSwapChild, RemoveSeekSuccessor, RemoveFound,
       LeftmostDescend, RemoveSwapSuccessor, RemoveDisconnect, RemoveFixupRed, RemoveFixupRoot,
       RemoveFixupRedSibling, RemoveFixupRedNephew, RemoveFixupAllBlack, Deficit
  <2> QED
    BY <2>1 DEF Inv, Control
<1> QED
  BY <1>1, <1>2, <1>3, <1>4, <1>5, <1>6, <1>7 DEF Next, Start

\* It is: RemoveDisconnect has taken it out of the tree, and no loop links a node.
LEMMA PathInvStep ==
  ASSUME StackIsLarge, Inv, PathInv, [Next]_vars
  PROVE  PathInv'
<1>1. ShallowInv'
  BY ShallowStep DEF PathInv
<1>2. ASSUME pc' = "remove_fixup" PROVE Linked(tree)' # Node
  <2>1. CASE UNCHANGED vars
    <3>1. tree' = tree /\ pc = "remove_fixup"
      BY <1>2, <2>1 DEF vars
    <3> QED
      BY <3>1 DEF PathInv
  <2>2. CASE Next /\ pc = "remove_fixup"
    BY <2>2, FixupStays DEF PathInv
  <2>3. CASE RemoveDisconnect
    <3>1. /\ path # <<>> /\ path \in Seq(Ptr) /\ path[Len(path)] \in Node
      BY <2>3 DEF RemoveDisconnect, Inv, Control, TypeOK, Walk, Ripe
    <3>2. FromEnd(path, 1) \in Node
      BY <3>1 DEF FromEnd
    <3>3. Linked(tree') = Linked(tree) \ {FromEnd(path, 1)}
      BY <2>3, RemoveDisconnectStep
    <3> QED
      BY <3>2, <3>3
  <2>4. CASE Next /\ pc # "remove_fixup" /\ ~RemoveDisconnect
    BY <1>2, <2>4 DEF Next, Start, Proceed, CallInsert, CallRemove, CallLookup, CallFini, Call,
       LookupDescend, LookupReturn, InsertDuplicate, InsertLink,
       InsertFixupRoot, InsertFixupBlackParent, InsertFixupRotate, InsertFixupRecolor, DoubleRed,
       RemoveMissing, RemoveInPlace, RemoveSwapChild, RemoveSeekSuccessor, RemoveFound,
       LeftmostDescend, RemoveSwapSuccessor, RemoveFixupRed, RemoveFixupRoot,
       RemoveFixupRedSibling, RemoveFixupRedNephew, RemoveFixupAllBlack, Deficit,
       FiniDescend, FiniRipOut, FiniEmpty, Return
  <2> QED
    BY <2>1, <2>2, <2>3, <2>4
<1> QED
  BY <1>1, <1>2 DEF PathInv

\* What is at the end of a path is not met before.
LEMMA EndIsLast ==
  ASSUME NEW a, NEW b, NEW r, NEW sub, NEW K, RootedTree(a, b, r, sub, K),
         NEW p, IsPath(a, b, r, p)
  PROVE  \A i \in 1 .. Len(p) - 1 : p[i] \in Node /\ p[i] # p[Len(p)]
<1> SUFFICES ASSUME NEW i \in 1 .. Len(p) - 1 PROVE p[i] \in Node /\ p[i] # p[Len(p)]
  OBVIOUS
<1>1. Len(p) \in Nat /\ p[i] \in Node /\ p[i] # NULL
  BY NullAssumption DEF IsPath
<1>2. Len(p) \in 1 .. Len(p)
  BY <1>1
<1>3. p[Len(p)] # NULL => p[i] # p[Len(p)]
  BY <1>2, PathBelow
<1> QED
  BY <1>1, <1>3

\* The path of an insertion is no longer than the stack, its red node included.
LEMMA InsertPathFits ==
  ASSUME StackIsLarge, Inv, pc = "insert_fixup"
  PROVE  Len(path) <= Capacity
<1>1. PICK sub : RootedTree(tree.left, tree.right, tree.root, sub, KeyOf)
  BY OrderedTree DEF Ordering
<1>2. /\ IsPath(tree.left, tree.right, tree.root, path) /\ path \in Seq(Node)
      /\ InsertFlaw(tree, path)
  BY DEF Inv, Control, Colours
<1> DEFINE r == tree.root
           l == tree.left
           m == tree.right
           red == tree.red
           e == path[Len(path)]
<1>3. /\ path # <<>> /\ Len(path) \in Nat \ {0} /\ path[1] = r /\ e \in Node /\ e \in red
      /\ \A i \in 1 .. Len(path) : path[i] \in Node
      /\ \A i \in 1 .. Len(path) - 1 : path[i + 1] \in {l[path[i]], m[path[i]]}
      /\ Len(path) > 1 => r \notin red
      /\ RedFree(l, m, red, e)
  BY <1>2 DEF InsertFlaw, IsPath
<1>4. PICK bh : Heights(l, m, red, bh, NULL, 0, 0)
  BY <1>2 DEF InsertFlaw
<1>5. /\ SearchTree(l, m, sub, KeyOf) /\ l \in [Node -> Ptr] /\ m \in [Node -> Ptr]
      /\ bh \in [Ptr -> Nat \ {0}] /\ sub \in [Ptr -> SUBSET Node] /\ 0 \in {0, 1}
  BY <1>1, <1>4 DEF RootedTree, SearchTree, Spans, Heights, HeightFunction
<1>6. \A i \in 1 .. Len(path) - 1 : path[i] # e
  BY <1>1, <1>2, EndIsLast
<1>7. \A i \in 1 .. Len(path) - 2 : path[i] \in red => path[i + 1] \notin red
  <2> SUFFICES ASSUME NEW i \in 1 .. Len(path) - 2, path[i] \in red PROVE path[i + 1] \notin red
    OBVIOUS
  <2>1. i \in 1 .. Len(path) - 1 /\ i + 1 \in 1 .. Len(path) - 1 /\ i + 1 \in 1 .. Len(path)
    BY <1>3
  <2>2. path[i + 1] # e /\ path[i + 1] # NULL /\ path[i + 1] \in {l[path[i]], m[path[i]]}
    BY <1>3, <1>6, <2>1, NullAssumption
  <2> QED
    BY <1>3, <2>2 DEF RedFree
<1> HIDE DEF l, m, red, r, e
<1>8. CASE Len(path) = 1
  <2>1. 2 <= Capacity
    BY <1>3, SlotsForOne
  <2> QED
    BY <1>8, <2>1, CapacityAssumption
<1>9. CASE Len(path) > 1
  <2>1. /\ r \in Node /\ r \in Ptr /\ r \notin red /\ bh[r] \in Nat \ {0} /\ sub[r] \in SUBSET Node
    BY <1>3, <1>5, <1>9 DEF Ptr
  <2>2. Rank(bh, red, r) = 2 * bh[r]
    BY <2>1 DEF Rank
  <2>3. Full(bh[r]) <= Cardinality(sub[r]) + 1
    <3>1. NULL \notin sub[r] /\ 0 \in Nat /\ ~(NULL \in Node)
      BY <2>1, NullAssumption
    <3> QED
      BY <1>4, <1>5, <2>1, <3>1, HeightsNeedNodes
  <2>4. 2 * bh[r] <= Capacity + 2
    BY <2>1, <2>3, SlotsSuffice
  <2>5. CASE path[Len(path) - 1] \in red
    <3>1. /\ Len(path) < Rank(bh, red, path[1])
          /\ Len(path) + 1 = Rank(bh, red, path[1])
               => 2 * Full(bh[path[1]]) <= Cardinality(sub[path[1]]) + 1
      <4>1. path \in Seq(Node) /\ path[1] \notin red
        BY <1>2, <1>3, <2>1
      <4>2. \A i \in 1 .. Len(path) - 1 : path[i + 1] \in {l[path[i]], m[path[i]]}
        BY <1>3
      <4> QED
        <5>1. SearchTree(l, m, sub, KeyOf) /\ Heights(l, m, red, bh, NULL, 0, 0)
          BY <1>4, <1>5
        <5>2. /\ Len(path) > 1 /\ path[Len(path) - 1] \in red /\ path[1] \notin red
              /\ path \in Seq(Node)
          BY <1>9, <2>5, <4>1
        <5>3. \A i \in 1 .. Len(path) - 2 : path[i] \in red => path[i + 1] \notin red
          BY <1>7
        <5> QED
          BY <4>2, <5>1, <5>2, <5>3, DoubleRedNeedsNodes
    <3>2. CASE Len(path) + 1 = Rank(bh, red, r)
      <4>1. Full(bh[r] + 1) <= Cardinality(sub[r]) + 1 /\ bh[r] + 1 \in Nat \ {0}
        <5>1. 2 * Full(bh[r]) <= Cardinality(sub[r]) + 1
          BY <1>3, <3>1, <3>2
        <5>2. Full(bh[r] + 1) = 2 * Full(bh[r])
          BY <2>1, FullBelow
        <5> QED
          BY <2>1, <5>1, <5>2
      <4>2. 2 * (bh[r] + 1) <= Capacity + 2
        BY <2>1, <4>1, SlotsSuffice
      <4> QED
        BY <1>3, <2>1, <2>2, <3>2, <4>2, CapacityAssumption
    <3>3. CASE Len(path) + 1 # Rank(bh, red, r)
      BY <1>3, <2>1, <2>2, <2>4, <3>1, <3>3, CapacityAssumption
    <3> QED
      BY <3>2, <3>3
  <2>6. CASE path[Len(path) - 1] \notin red
    <3>1. \A i \in 1 .. Len(path) - 1 : path[i] \in red => path[i + 1] \notin red
      <4> SUFFICES ASSUME NEW i \in 1 .. Len(path) - 1, path[i] \in red PROVE path[i + 1] \notin red
        OBVIOUS
      <4>1. i # Len(path) - 1
        BY <2>6
      <4>2. i \in 1 .. Len(path) - 2
        BY <1>3, <4>1
      <4> QED
        BY <1>7, <4>2
    <3>2. Rank(bh, red, path[Len(path)]) <= Rank(bh, red, path[1]) - (Len(path) - 1)
      BY <1>3, <1>4, <1>5, <3>1, RanksAlong
    <3>3. Rank(bh, red, e) >= 3 /\ Rank(bh, red, e) \in Nat
      BY <1>3, <1>4, <1>5, RanksFall
    <3>4. Rank(bh, red, e) <= 2 * bh[r] - (Len(path) - 1)
      BY <1>3, <2>2, <3>2 DEF e
    <3> QED
      BY <1>3, <2>1, <2>4, <3>3, <3>4, CapacityAssumption
  <2> QED
    BY <2>5, <2>6
<1>10. Len(path) = 1 \/ Len(path) > 1
  <2>1. Len(path) \in Nat \ {0}
    BY <1>3
  <2>2. \A n \in Nat \ {0} : n = 1 \/ n > 1
    OBVIOUS
  <2> QED
    BY <2>1, <2>2
<1> QED
  BY <1>8, <1>9, <1>10

\* A higher tree is fuller.
LEMMA FullGrows ==
  ASSUME NEW h \in Nat \ {0}, NEW k \in Nat \ {0}, h <= k
  PROVE  Full(h) <= Full(k)
<1> DEFINE T == {j \in Nat : Full(h) <= Full(h + j)}
<1>1. Full(h) \in Nat /\ \A j \in Nat : h + j \in Nat \ {0}
  BY FullBelow
<1>2. 0 \in T
  BY <1>1
<1>3. ASSUME NEW j \in T PROVE j + 1 \in T
  <2>1. h + j \in Nat \ {0} /\ h + (j + 1) = (h + j) + 1
    BY <1>1
  <2>2. Full(h + j) \in Nat /\ Full((h + j) + 1) = 2 * Full(h + j)
    BY <2>1, FullBelow
  <2> QED
    BY <1>1, <2>1, <2>2
<1>4. T = Nat
  <2>1. T \in SUBSET Nat
    BY DEF T
  <2> HIDE DEF T
  <2> QED
    BY <1>2, <1>3, <2>1, Induction
<1>5. k - h \in T /\ h + (k - h) = k
  <2> HIDE DEF T
  <2> QED
    BY <1>4
<1> QED
  BY <1>5

\* The path of a removal is no longer than the stack, though the tree is short of
\* a black node at its end and the loop may have pushed one node more.
LEMMA RemovePathFits ==
  ASSUME StackIsLarge, Inv, Linked(tree) # Node, pc = "remove_fixup"
  PROVE  Len(path) <= Capacity
<1> DEFINE r == tree.root
           l == tree.left
           m == tree.right
           red == tree.red
           e == FromEnd(path, 1)
           G == FromEnd(path, 2)
           da == IF G # NULL /\ e = l[G] THEN 1 ELSE 0
           db == IF G # NULL /\ e # l[G] THEN 1 ELSE 0
<1>1. PICK sub : Ordering(tree, sub, KeyOf)
  BY OrderedTree
<1>2. RootedTree(l, m, r, sub, KeyOf) /\ sub[r] = Linked(tree)
  BY <1>1, LinkedBelow DEF Ordering
<1>3. /\ IsPath(l, m, r, path) /\ RemoveFlaw(tree, path) /\ red \subseteq Node
  BY TreeFields DEF Inv, Control, Colours, TypeOK
<1>4. PICK bh : Heights(l, m, red, bh, G, da, db)
  BY <1>3 DEF RemoveFlaw
<1>5. /\ path # <<>> /\ r \notin red \ {e} /\ RedFree(l, m, red \ {e}, NULL)
  BY <1>3 DEF RemoveFlaw
<1>6. /\ Len(path) \in Nat \ {0} /\ path[1] = r /\ e = path[Len(path)] /\ e \in Ptr
      /\ \A i \in 1 .. Len(path) - 1 : path[i] \in Node /\ path[i + 1] \in {l[path[i]], m[path[i]]}
  BY <1>3, <1>5 DEF IsPath, FromEnd
<1>7. \A i \in 1 .. Len(path) - 1 : path[i] # e
  BY <1>2, <1>3, <1>6, EndIsLast
<1>8. /\ SearchTree(l, m, sub, KeyOf) /\ l \in [Node -> Ptr] /\ m \in [Node -> Ptr] /\ r \in Ptr
      /\ bh \in [Ptr -> Nat \ {0}] /\ sub \in [Ptr -> SUBSET Node]
  BY <1>2, <1>4 DEF RootedTree, SearchTree, Spans, Heights, HeightFunction
<1>9. /\ da \in {0, 1} /\ db \in {0, 1} /\ (da = 0 \/ db = 0)
      /\ G # NULL => (da = 1 /\ db = 0 /\ e = l[G]) \/ (da = 0 /\ db = 1 /\ e # l[G])
  OBVIOUS
<1>10. PICK u \in Node : u \notin sub[r]
  BY <1>2, <1>8
<1>11. CASE Len(path) = 1
  <2>1. 2 <= Capacity
    BY <1>10, SlotsForOne
  <2> QED
    BY <1>11, <2>1, CapacityAssumption
<1>12. CASE Len(path) > 1
  <2> DEFINE k == Len(path) - 1
  <2>1. /\ k \in Nat \ {0} /\ k \in 1 .. Len(path) - 1 /\ 1 \in 1 .. Len(path) - 1 /\ k + 1 = Len(path)
        /\ G = path[k] /\ G \in Node /\ G # NULL /\ e \in {l[G], m[G]} /\ r \in Node /\ r # e
    <3>1. k \in Nat \ {0} /\ k \in 1 .. Len(path) - 1 /\ 1 \in 1 .. Len(path) - 1 /\ k + 1 = Len(path)
      BY <1>6, <1>12
    <3>2. G = path[k]
      BY <1>6, <1>12 DEF FromEnd
    <3>3. path[k] \in Node /\ path[k + 1] \in {l[path[k]], m[path[k]]} /\ path[1] \in Node /\ path[1] # e
      BY <1>6, <1>7, <3>1
    <3> HIDE DEF G, e, k
    <3> QED
      BY <1>6, <3>1, <3>2, <3>3, NullAssumption
  <2> HIDE DEF r, l, m, red, e, G, da, db
  <2>2. \A i \in 1 .. k - 1 : /\ path[i + 1] \in {l[path[i]], m[path[i]]}
                              /\ path[i] \in red => path[i + 1] \notin red
    <3> SUFFICES ASSUME NEW i \in 1 .. k - 1
                 PROVE  /\ path[i + 1] \in {l[path[i]], m[path[i]]}
                        /\ path[i] \in red => path[i + 1] \notin red
      OBVIOUS
    <3>1. i \in 1 .. Len(path) - 1 /\ i + 1 \in 1 .. Len(path) - 1
      BY <1>6
    <3>2. /\ path[i + 1] \in {l[path[i]], m[path[i]]} /\ path[i + 1] \in Node
          /\ path[i + 1] # NULL /\ path[i] # e /\ path[i + 1] # e
      BY <1>6, <1>7, <3>1, NullAssumption
    <3> QED
      BY <1>5, <3>2 DEF RedFree
  <2>3. Rank(bh, red, G) <= Rank(bh, red, r) - (k - 1)
    <3>1. \A i \in 1 .. k : path[i] \in Node
      BY <1>6
    <3>3. k \in Nat \ {0} /\ da \in {0, 1} /\ db \in {0, 1}
      BY <1>9, <2>1
    <3> HIDE DEF k
    <3>2. Rank(bh, red, path[k]) <= Rank(bh, red, path[1]) - (k - 1)
      BY ONLY <1>4, <1>8, <2>2, <3>1, <3>3, RanksAlong
    <3> QED
      BY <1>6, <2>1, <3>2
  <2>4. /\ bh[e] \in Nat \ {0} /\ bh[G] \in Nat \ {0} /\ bh[r] \in Nat \ {0}
        /\ Rank(bh, red, r) = 2 * bh[r] /\ Rank(bh, red, G) >= 2 * bh[e] + 3
        /\ Rank(bh, red, G) \in Nat
    <3>1. /\ bh[e] \in Nat \ {0} /\ bh[G] \in Nat \ {0} /\ bh[r] \in Nat \ {0}
          /\ bh[l[G]] \in Nat \ {0} /\ bh[m[G]] \in Nat \ {0}
      BY <1>6, <1>8, <2>1 DEF Ptr
    <3>2. /\ bh[l[G]] + da = bh[m[G]] + db
          /\ bh[G] = bh[l[G]] + da + (IF G \in red THEN 0 ELSE 1)
      BY <1>4, <2>1 DEF Heights, HeightAt
    <3>3. bh[G] = bh[e] + 1 + (IF G \in red THEN 0 ELSE 1)
      BY <1>9, <2>1, <3>1, <3>2
    <3>4. r \notin red
      BY <1>5, <2>1
    <3> QED
      BY <3>1, <3>3, <3>4 DEF Rank
  <2>5. Len(path) <= 2 * bh[r] - 2 * bh[e] - 1
    <3>1. Len(path) \in Nat /\ k = Len(path) - 1
      BY <1>6
    <3> HIDE DEF k
    <3> QED
      BY <2>3, <2>4, <3>1
  <2>6. Full(bh[e]) \in Nat /\ Full(bh[r]) <= Cardinality(sub[r]) + 1 + Full(bh[e])
    <3>1. Full(bh[e]) \in Nat
      BY <2>4, FullBelow
    <3>2. /\ G \in Node /\ da = 1 => Full(bh[l[G]]) <= Full(bh[e])
          /\ G \in Node /\ db = 1 => Full(bh[m[G]]) <= Full(bh[e])
      BY <1>9, <2>1, <3>1
    <3> QED
      BY <1>4, <1>8, <1>9, <3>1, <3>2, HeightsNeedNodes
  <2>7. /\ sub[r] \in SUBSET Node /\ sub[r] \cup {u} \in SUBSET Node
        /\ Cardinality(sub[r]) \in Nat /\ Cardinality(sub[r] \cup {u}) = Cardinality(sub[r]) + 1
    <3>1. IsFiniteSet(sub[r]) /\ sub[r] \in SUBSET Node
      BY <1>8, NodeAssumption, FS_Subset
    <3> QED
      BY <1>10, <3>1, FS_AddElement, FS_CardinalityType
  <2>8. CASE bh[e] = 1
    <3>1. Full(bh[e]) = 1
      BY <2>4, <2>8, FullBelow
    <3>2. Full(bh[r]) <= Cardinality(sub[r] \cup {u}) + 1
      BY <2>6, <2>7, <3>1
    <3>3. 2 * bh[r] <= Capacity + 2
      BY <2>4, <2>7, <3>2, SlotsSuffice
    <3> QED
      BY <1>6, <2>4, <2>5, <2>8, <3>3, CapacityAssumption
  <2>9. CASE bh[e] > 1
    <3> DEFINE h == bh[r] - 1
    <3>1. h \in Nat \ {0} /\ h + 1 = bh[r] /\ bh[e] <= h
      <4>1. bh[e] < bh[r]
        BY <1>6, <1>12, <2>4, <2>5
      <4> QED
        BY <2>4, <2>9, <4>1
    <3> HIDE DEF h
    <3>2. Full(bh[e]) <= Full(h) /\ Full(h) \in Nat /\ Full(bh[r]) = 2 * Full(h)
      BY <2>4, <3>1, FullGrows, FullBelow
    <3>3. Full(h) <= Cardinality(sub[r]) + 1
      BY <2>6, <2>7, <3>2
    <3>4. 2 * h <= Capacity + 2
      BY <2>7, <3>1, <3>3, SlotsSuffice
    <3> QED
      BY <1>6, <2>4, <2>5, <2>9, <3>1, <3>4, CapacityAssumption
  <2> QED
    BY <2>4, <2>8, <2>9
<1>13. Len(path) = 1 \/ Len(path) > 1
  <2>1. Len(path) \in Nat \ {0}
    BY <1>6
  <2>2. \A n \in Nat \ {0} : n = 1 \/ n > 1
    OBVIOUS
  <2> QED
    BY <2>1, <2>2
<1> QED
  BY <1>11, <1>12, <1>13

\* No path of the rebalancing loops outgrows the stack.
LEMMA InvPathDescends ==
  ASSUME StackIsLarge, Inv, PathInv
  PROVE  PathDescends
<1>1. /\ TypeOK /\ IsPath(tree.left, tree.right, tree.root, path)
      /\ pc # "remove_fixup" => path \in Seq(Node)
      /\ pc = "idle" => path = <<>>
      /\ pc = "fini" => closing
      /\ closing => pc \in {"idle", "fini"}
  BY DEF Inv, Control
<1>2. tree \in Tree
  BY <1>1 DEF TypeOK
<1>3. Len(path) <= Capacity
  <2>1. CASE pc = "idle"
    BY <1>1, <2>1, CapacityAssumption
  <2>2. CASE pc = "fini"
    BY <1>1, <1>2, <2>2, ShallowPath DEF PathInv, ShallowInv
  <2>3. CASE pc \in {"insert_fixup", "remove_fixup"}
    BY <2>3, InsertPathFits, RemovePathFits DEF PathInv
  <2>4. CASE pc \in {"lookup", "leftmost", "disconnect"}
    <3>1. Sound(tree)
      BY <1>1, <2>4 DEF Inv, Colours
    <3>2. \E sub, K : Ordering(tree, sub, K)
      BY DEF Inv, Walk, Ripe
    <3>3. Shallow(tree)
      BY <1>2, <3>1, <3>2, SoundShallow
    <3> QED
      BY <1>1, <1>2, <2>4, <3>3, ShallowPath
  <2> QED
    BY <1>1, <2>1, <2>2, <2>3, <2>4 DEF TypeOK, LoopLabels
<1>4. /\ path # <<>> => path[1] = tree.root
      /\ \A i \in 1 .. Len(path) - 1 :
            path[i] \in Node /\ path[i + 1] \in {tree.left[path[i]], tree.right[path[i]]}
  BY <1>1 DEF IsPath
<1> QED
  BY <1>1, <1>3, <1>4, NullAssumption DEF PathDescends

\* The stack of RBTREE_CURSOR is good enough for a tree of all the nodes that
\* fit into memory, and what is on it is the way down from the root.
THEOREM PathDescendsHolds ==
  ASSUME StackIsLarge
  PROVE  Spec => []PathDescends
<1>1. Init => PathInv
  BY DEF Init, PathInv, ShallowInv
<1>2. Inv /\ PathInv /\ Inv' /\ [Next]_vars => PathInv'
  BY PathInvStep
<1>3. Inv /\ PathInv => PathDescends
  BY InvPathDescends
<1> QED
  BY <1>1, <1>2, <1>3, Invariance, PTL DEF Spec

-----------------------------------------------------------------------------
(* Where the search that a call makes has got to.                          *)

\* The members with the key of k.
Alike(k) == {m \in Linked(tree) : KeyOf[m] = KeyOf[k]}

\* What is equal to k is at or below n.
Confines(sub, k, n) == sub[n] \subseteq Linked(tree) /\ Alike(k) \subseteq sub[n]

\* What the tree's call under way will answer.
Answers ==
  /\ pc = "lookup" => \A sub : Ordering(tree, sub, KeyOf) => Confines(sub, key, node)
  /\ pc = "leftmost" => Alike(key) = {path[at]}
  /\ pc = "disconnect" => Alike(key) = {path[Len(path)]}
  /\ pc \in {"leftmost", "disconnect"} => op = "remove" /\ key \in Node
  /\ pc = "fini" => op = "fini" /\ key = NULL

\* The way to the first of the nodes T, in the order of K, came down p to n.
Nears(sub, K, T, p, n) ==
  /\ sub[n] \subseteq T
  /\ \A m \in T \ sub[n] : \A x \in sub[n] : K[x] < K[m]
  /\ \/ p = <<>> /\ T = sub[n]
     \/ p # <<>> /\ n # NULL
     \/ p # <<>> /\ p[Len(p)] \in T /\ \A m \in T \ sub[n] : K[p[Len(p)]] <= K[m]

\* Nothing below the i-th node of p comes after w.
Tops(sub, K, p, i, w) == i # 0 => \A m \in sub[p[i]] : K[m] <= K[w]

Minus == [n \in Node |-> -KeyOf[n]]

\* Where the cursor's call can lead: to all the members, or to those on the side
\* of where it was that the call asks for.
Ahead == {m \in Linked(tree) : /\ cop = "next" => was # NULL /\ KeyOf[was] < KeyOf[m]
                               /\ cop = "prev" => was # NULL /\ KeyOf[m] < KeyOf[was]}

CursorSearch(sub) ==
  /\ cpc = "lookup_ex" => Confines(sub, ckey, cnode)
  /\ cpc = "leftmost" => Nears(sub, KeyOf, Ahead, cur, cnode)
  /\ cpc = "rightmost" => Nears(sub, Minus, Ahead, cur, cnode)
  /\ cpc = "climb_next" => Tops(sub, KeyOf, cur, cn, was)
  /\ cpc = "climb_prev" => Tops(sub, Minus, cur, cn, was)

CursorControl ==
  /\ cur \in Seq(Node) /\ cnode \in Ptr /\ cn \in Nat /\ ckey \in Ptr /\ was \in Ptr
  /\ \/ cpc = "idle" /\ cop = "none"
     \/ cpc = "leftmost" /\ cop \in {"head", "next"} /\ ckey = NULL
     \/ cpc = "rightmost" /\ cop \in {"tail", "prev"} /\ ckey = NULL
     \/ cpc = "climb_next" /\ cop = "next" /\ ckey = NULL
     \/ cpc = "climb_prev" /\ cop = "prev" /\ ckey = NULL
     \/ cpc = "lookup_ex" /\ cop = "lookup_ex" /\ ckey \in Node
  /\ cpc # "idle" => pc = "idle" /\ ~closing
  /\ pc \in {"insert_fixup", "remove_fixup"} => cur = <<>>
  /\ pc # "disconnect" => IsPath(tree.left, tree.right, tree.root, cur)
  /\ cpc \in {"leftmost", "rightmost", "lookup_ex"} =>
       /\ cur = <<>> => cnode = tree.root
       /\ cur # <<>> => cnode \in {tree.left[Current], tree.right[Current]}
  /\ cpc \in {"leftmost", "rightmost"} /\ cur = <<>> => cop \in {"head", "tail"}
  /\ cpc \in {"climb_next", "climb_prev"} =>
       /\ was = Current
       /\ IF cur = <<>> THEN cn = 0 ELSE cn \in 1 .. Len(cur)

CursorInv ==
  /\ CursorControl
  /\ \A sub : Ordering(tree, sub, KeyOf) => CursorSearch(sub)

\* The tree between two steps, and what it holds.
LEMMA MembersBelow ==
  ASSUME Inv
  PROVE  /\ tree \in Tree /\ tree.left \in [Node -> Ptr] /\ tree.right \in [Node -> Ptr]
         /\ tree.root \in Ptr /\ Linked(tree) \in SUBSET Node
         /\ \A sub, K : Ordering(tree, sub, K) => sub[tree.root] = Linked(tree)
         /\ LET s == InOrder(tree) IN {s[i] : i \in DOMAIN s} = Linked(tree)
<1>1. tree \in Tree
  BY DEF Inv, Control, TypeOK
<1>2. \E sub, K : Ordering(tree, sub, K)
  BY DEF Inv, Walk, Ripe
<1>3. LET s == InOrder(tree) IN {s[i] : i \in DOMAIN s} = Linked(tree)
  BY <1>2, TreeInOrder DEF Ordering
<1>4. \A sub, K : Ordering(tree, sub, K) => sub[tree.root] = Linked(tree)
  BY LinkedBelow DEF Ordering
<1> QED
  BY <1>1, <1>3, <1>4, TreeFields DEF Linked

\* What the search came to is the one that is equal; if it came to nothing, no
\* member is.
LEMMA SearchEnds ==
  ASSUME Inv, pc # "disconnect", NEW sub, Ordering(tree, sub, KeyOf),
         NEW k \in Node, NEW n \in Ptr, Confines(sub, k, n)
  PROVE  /\ n = NULL => Alike(k) = {}
         /\ n # NULL /\ KeyOf[k] = KeyOf[n] => Alike(k) = {n} /\ n \in Linked(tree)
<1>1. /\ SearchTree(tree.left, tree.right, sub, KeyOf) /\ tree.root \in Ptr
      /\ sub[tree.root] = Linked(tree)
  BY MembersBelow DEF Ordering, RootedTree
<1>2. sub[NULL] = {} /\ \A m \in Node : m \in sub[m]
  BY <1>1 DEF SearchTree, Spans
<1>3. n = NULL => Alike(k) = {}
  BY <1>2 DEF Confines
<1>4. ASSUME n # NULL, KeyOf[k] = KeyOf[n] PROVE Alike(k) = {n} /\ n \in Linked(tree)
  <2>1. n \in Node /\ n \in Linked(tree) /\ n \in Alike(k)
    BY <1>2, <1>4 DEF Ptr, Confines, Alike
  <2>2. \A m \in Alike(k) : m = n
    BY <1>1, <2>1, KeysDiffer DEF Alike
  <2> QED
    BY <2>1, <2>2
<1> QED
  BY <1>3, <1>4

\* One step down: what is equal to k is on the side that k is on.
LEMMA ConfinesOn ==
  ASSUME Inv, NEW sub, Ordering(tree, sub, KeyOf),
         NEW k \in Node, NEW n \in Node, Confines(sub, k, n), KeyOf[k] # KeyOf[n],
         NEW n2, n2 = IF KeyOf[k] < KeyOf[n] THEN tree.left[n] ELSE tree.right[n]
  PROVE  Confines(sub, k, n2)
<1>1. SearchTree(tree.left, tree.right, sub, KeyOf)
  BY DEF Ordering, RootedTree
<1>2. /\ sub[n] = {n} \cup sub[tree.left[n]] \cup sub[tree.right[n]]
      /\ \A m \in sub[tree.left[n]] : KeyOf[m] < KeyOf[n]
      /\ \A m \in sub[tree.right[n]] : KeyOf[n] < KeyOf[m]
  BY <1>1 DEF SearchTree, Spans, Ascends
<1>3. KeyOf[k] \in Int /\ KeyOf[n] \in Int /\ \A m \in Alike(k) : KeyOf[m] = KeyOf[k]
  BY KeyAssumption DEF Alike
<1>4. sub[n2] \subseteq sub[n]
  BY <1>2
<1>5. ASSUME NEW m \in Alike(k) PROVE m \in sub[n2]
  <2>1. m \in sub[n] /\ KeyOf[m] = KeyOf[k]
    BY <1>3 DEF Confines
  <2>2. m # n
    BY <2>1
  <2>3. CASE KeyOf[k] < KeyOf[n]
    <3>1. m \notin sub[tree.right[n]]
      BY <1>2, <1>3, <2>1, <2>3
    <3> QED
      BY <1>2, <2>1, <2>2, <2>3, <3>1
  <2>4. CASE ~(KeyOf[k] < KeyOf[n])
    <3>1. m \notin sub[tree.left[n]]
      BY <1>2, <1>3, <2>1, <2>4
    <3> QED
      BY <1>2, <2>1, <2>2, <2>4, <3>1
  <2> QED
    BY <2>3, <2>4
<1> QED
  BY <1>4, <1>5 DEF Confines

\* The answers stay right while the call goes on.
LEMMA AnswersStep ==
  ASSUME Inv, Answers, [Next]_vars
  PROVE  Answers'
<1>1. /\ TypeOK /\ path \in Seq(Ptr) /\ Len(path) \in Nat
      /\ pc = "lookup" => key \in Node /\ path \in Seq(Node)
  BY DEF Inv, Control, TypeOK
<1>2. CASE UNCHANGED vars
  BY <1>2 DEF vars, Answers, Alike, Confines
<1>3. CASE Start
  <2>1. PICK f, k, loop : Call(f, k, loop)
    BY <1>3 DEF Start, CallInsert, CallRemove, CallLookup, CallFini
  <2>2. pc = "idle" /\ tree' = tree /\ node' = tree.root
    BY <2>1 DEF Call
  <2>3. \/ pc' = "lookup"
        \/ pc' = "fini" /\ op' = "fini" /\ key' = NULL
    BY <1>3 DEF Start, CallInsert, CallRemove, CallLookup, CallFini, Call
  <2>4. \A sub : Ordering(tree, sub, KeyOf) => sub[tree.root] = Linked(tree)
    BY MembersBelow
  <2> QED
    BY <2>2, <2>3, <2>4 DEF Answers, Confines, Alike
<1>4. CASE LookupDescend
  <2>1. /\ pc = "lookup" /\ pc' = "lookup" /\ tree' = tree /\ key' = key
        /\ node \in Node /\ key \in Node /\ KeyOf[key] # KeyOf[node]
        /\ node' = IF KeyOf[key] < KeyOf[node] THEN tree.left[node] ELSE tree.right[node]
    BY <1>1, <1>4 DEF LookupDescend, TypeOK, Ptr
  <2>2. ASSUME NEW sub, Ordering(tree, sub, KeyOf) PROVE Confines(sub, key, node')
    BY <2>1, <2>2, ConfinesOn DEF Answers
  <2> QED
    BY <2>1, <2>2 DEF Answers, Confines, Alike
<1>5. CASE RemoveInPlace \/ RemoveSwapChild \/ RemoveSeekSuccessor
  <2>1. /\ pc = "lookup" /\ op = "remove" /\ key \in Node /\ node \in Ptr /\ node \in Node
        /\ node # NULL /\ KeyOf[key] = KeyOf[node] /\ op' = op /\ key' = key
        /\ at' = Len(path) + 1
    BY <1>1, <1>5 DEF RemoveInPlace, RemoveSwapChild, RemoveSeekSuccessor, RemoveFound, Found,
       TypeOK, Ptr
  <2>2. PICK sub : Ordering(tree, sub, KeyOf)
    BY <2>1, OrderedTree
  <2>3. Alike(key) = {node}
    BY <2>1, <2>2, SearchEnds DEF Answers
  <2>4. Linked(tree') = Linked(tree)
    BY <1>5, RemoveSwapChildStep DEF RemoveInPlace, RemoveSeekSuccessor
  <2>5. Alike(key)' = {node}
    BY <2>1, <2>3, <2>4 DEF Alike
  <2>6. CASE RemoveInPlace \/ RemoveSeekSuccessor
    <3>1. path' = Append(path, node) /\ pc' \in {"disconnect", "leftmost"}
      BY <2>6 DEF RemoveInPlace, RemoveSeekSuccessor
    <3>2. path'[Len(path) + 1] = node /\ Len(path') = Len(path) + 1
      BY <1>1, <2>1, <3>1
    <3> QED
      BY <2>1, <2>5, <3>1, <3>2 DEF Answers
  <2>7. CASE RemoveSwapChild
    <3>1. path' = path \o <<tree.right[node], node>> /\ pc' = "disconnect"
      BY <2>7 DEF RemoveSwapChild
    <3>2. path'[Len(path')] = node
      BY <1>1, <2>1, <3>1
    <3> QED
      BY <2>1, <2>5, <3>1, <3>2 DEF Answers
  <2> QED
    BY <1>5, <2>6, <2>7
<1>6. CASE LeftmostDescend
  <2>1. /\ pc = "leftmost" /\ pc' = "leftmost" /\ tree' = tree /\ key' = key /\ at' = at
        /\ op' = op /\ path' = Append(path, node)
    BY <1>6 DEF LeftmostDescend
  <2>2. at \in 1 .. Len(path)
    BY <2>1 DEF Inv, Walk, Seeks
  <2>3. path'[at] = path[at]
    BY <1>1, <2>1, <2>2
  <2> QED
    BY <2>1, <2>3 DEF Answers, Alike
<1>7. CASE RemoveSwapSuccessor
  <2>1. /\ pc = "leftmost" /\ pc' = "disconnect" /\ key' = key /\ op' = op
        /\ path' = [path EXCEPT ![at] = FromEnd(path, 1), ![Len(path)] = path[at]]
    BY <1>7 DEF RemoveSwapSuccessor
  <2>2. at \in 1 .. Len(path)
    BY <2>1 DEF Inv, Walk, Seeks
  <2>3. path'[Len(path')] = path[at]
    BY <1>1, <2>1, <2>2
  <2>4. Linked(tree') = Linked(tree)
    BY <1>7, RemoveSwapSuccessorStep
  <2> QED
    BY <2>1, <2>3, <2>4 DEF Answers, Alike
<1>8. CASE FiniDescend
  BY <1>8 DEF FiniDescend, Answers
<1>9. CASE \/ LookupReturn \/ InsertDuplicate \/ InsertLink \/ InsertFixupRoot
           \/ InsertFixupBlackParent \/ InsertFixupRotate \/ InsertFixupRecolor
           \/ RemoveMissing \/ RemoveDisconnect \/ RemoveFixupRed \/ RemoveFixupRoot
           \/ RemoveFixupRedSibling \/ RemoveFixupRedNephew \/ RemoveFixupAllBlack
           \/ FiniRipOut \/ FiniEmpty
  <2>1. pc' \in {"idle", "insert_fixup", "remove_fixup"}
    BY <1>9 DEF LookupReturn, InsertDuplicate, InsertLink, InsertFixupRoot,
       InsertFixupBlackParent, InsertFixupRotate, InsertFixupRecolor, DoubleRed, RemoveMissing,
       RemoveDisconnect, RemoveFixupRed, RemoveFixupRoot, RemoveFixupRedSibling,
       RemoveFixupRedNephew, RemoveFixupAllBlack, Deficit, FiniRipOut, FiniEmpty, Return
  <2> QED
    BY <2>1 DEF Answers
<1> QED
  BY <1>2, <1>3, <1>4, <1>5, <1>6, <1>7, <1>8, <1>9 DEF Next, Proceed

\* The first of a set of nodes that have different keys.
LEMMA FirstIs ==
  ASSUME NEW S \in SUBSET Node, NEW m \in S, \A n \in S : KeyOf[m] <= KeyOf[n],
         \A n \in S : KeyOf[n] = KeyOf[m] => n = m
  PROVE  Set!First(S) = m
<1>1. \A n \in S : KeyOf[n] \in Int
  BY KeyAssumption
<1>2. \A x \in S : (\A n \in S : KeyOf[x] <= KeyOf[n]) => x = m
  BY <1>1
<1>3. (CHOOSE x \in S : \A n \in S : KeyOf[x] <= KeyOf[n]) = m
  BY <1>2
<1> QED
  BY <1>3 DEF Set!First

\* The last one.
LEMMA LastIs ==
  ASSUME NEW S \in SUBSET Node, NEW m \in S, \A n \in S : KeyOf[n] <= KeyOf[m],
         \A n \in S : KeyOf[n] = KeyOf[m] => n = m
  PROVE  Set!Last(S) = m
<1>1. \A n \in S : KeyOf[n] \in Int
  BY KeyAssumption
<1>2. \A x \in S : (\A n \in S : KeyOf[x] >= KeyOf[n]) => x = m
  BY <1>1
<1>3. (CHOOSE x \in S : \A n \in S : KeyOf[x] >= KeyOf[n]) = m
  <2>1. \A n \in S : KeyOf[m] >= KeyOf[n]
    BY <1>1
  <2> QED
    BY <1>2, <2>1
<1> QED
  BY <1>3 DEF Set!Last

\* What Set takes for its members are the nodes linked into the tree.
LEMMA MembersLinked ==
  ASSUME Inv, Inv'
  PROVE  Members = Linked(tree) /\ Members' = Linked(tree')
<1>1. Members = Linked(tree)
  BY MembersBelow DEF Members
<1>2. \E sub, K : Ordering(tree', sub, K)
  BY DEF Inv, Walk, Ripe
<1>3. Members' = Linked(tree')
  BY <1>2, TreeInOrder DEF Ordering, Members
<1> QED
  BY <1>1, <1>3

\* The steps of Set that have an argument.
LEMMA CallOfSet ==
  ASSUME NEW k \in Node
  PROVE  /\ Set!Insert(k) => Set!Next
         /\ Set!Remove(k) => Set!Next
         /\ Set!Lookup(k) => Set!Next
         /\ Set!LookupEx(k) => Set!Next
BY DEF Set!Next

\* A node is linked in: none with its key was there.
LEMMA InsertLinkRefines ==
  ASSUME Inv, Answers, CursorControl, TreeNext, InsertLink
  PROVE  Set!Next
<1>1. /\ pc = "lookup" /\ op = "insert" /\ node = NULL /\ pc' = "insert_fixup" /\ ret' = 0
      /\ closing' = closing /\ cpc = "idle" /\ cpc' = "idle" /\ key \in Node
      /\ key \notin Linked(tree)
  BY DEF InsertLink, TreeNext, cursorLocals, Inv, Control
<1>2. Inv' /\ Linked(tree') = Linked(tree) \cup {key}
  BY InsertLinkStep
<1>3. Members = Linked(tree) /\ Members' = Linked(tree')
  BY <1>2, MembersLinked
<1>4. cur' = <<>>
  BY <1>1, <1>2 DEF TreeNext
<1>5. Alike(key) = {}
  <2>1. PICK sub : Ordering(tree, sub, KeyOf)
    BY <1>1, OrderedTree
  <2> QED
    BY <1>1, <2>1, SearchEnds DEF Answers, Inv, Control, TypeOK
<1>6. /\ Asked = <<"insert", key>> /\ Asked' = <<"none", NULL>> /\ Position' = NULL
  BY <1>1, <1>4 DEF Asked, Position, Current, FromEnd
<1>7. PICK k \in Node : k = key
  BY <1>1
<1>8. Set!Insert(k)
  BY <1>1, <1>2, <1>3, <1>5, <1>6, <1>7 DEF Set!Insert, Set!Answer, Set!NoCall, Set!Equal, Alike, Members, Asked, Position
<1> QED
  BY <1>8, CallOfSet

\* A call begins.
LEMMA CallRefines ==
  ASSUME Inv, CursorControl, TreeNext, Start
  PROVE  Set!Next
<1>1. Inv' /\ cpc = "idle" /\ cpc' = "idle" /\ closing \in BOOLEAN
  BY NextInv DEF TreeNext, cursorLocals, Inv, Control, TypeOK
<1>2. /\ pc = "idle" /\ tree' = tree /\ ret' = ret
  BY DEF Start, CallInsert, CallRemove, CallLookup, CallFini, Call
<1>3. Members = Linked(tree) /\ Members' = Linked(tree) /\ cur' = cur
  BY <1>1, <1>2, MembersLinked DEF TreeNext
<1>4. \E c \in Set!Calls : /\ Asked' = c
                           /\ c[1] = "insert" => c[2] \notin Linked(tree)
                           /\ c[1] # "fini" => ~closing
                           /\ closing' = (closing \/ c[1] = "fini")
  <2>1. CASE CallInsert
    <3>1. PICK n \in Node \ Linked(tree) : Call("insert", n, "lookup") /\ ~closing /\ closing' = closing
      BY <2>1 DEF CallInsert
    <3>2. <<"insert", n>> \in Set!Calls
      BY DEF Set!Calls
    <3>3. Asked' = <<"insert", n>>
      BY <1>1, <3>1 DEF Call, Asked
    <3>4. <<"insert", n>>[1] = "insert" /\ <<"insert", n>>[2] = n
      OBVIOUS
    <3>5. closing' = (closing \/ <<"insert", n>>[1] = "fini")
      BY <1>1, <3>1, <3>4
    <3> QED
      BY <3>1, <3>2, <3>3, <3>4, <3>5
  <2>2. CASE CallRemove
    <3>1. PICK n \in Node : Call("remove", n, "lookup") /\ ~closing /\ closing' = closing
      BY <2>2 DEF CallRemove
    <3>2. <<"remove", n>> \in Set!Calls
      BY DEF Set!Calls
    <3>3. Asked' = <<"remove", n>>
      BY <1>1, <3>1 DEF Call, Asked
    <3>4. <<"remove", n>>[1] = "remove" /\ <<"remove", n>>[2] = n
      OBVIOUS
    <3>5. closing' = (closing \/ <<"remove", n>>[1] = "fini")
      BY <1>1, <3>1, <3>4
    <3> QED
      BY <3>1, <3>2, <3>3, <3>4, <3>5
  <2>3. CASE CallLookup
    <3>1. PICK n \in Node : Call("lookup", n, "lookup") /\ ~closing /\ closing' = closing
      BY <2>3 DEF CallLookup
    <3>2. <<"lookup", n>> \in Set!Calls
      BY DEF Set!Calls
    <3>3. Asked' = <<"lookup", n>>
      BY <1>1, <3>1 DEF Call, Asked
    <3>4. <<"lookup", n>>[1] = "lookup" /\ <<"lookup", n>>[2] = n
      OBVIOUS
    <3>5. closing' = (closing \/ <<"lookup", n>>[1] = "fini")
      BY <1>1, <3>1, <3>4
    <3> QED
      BY <3>1, <3>2, <3>3, <3>4, <3>5
  <2>4. CASE CallFini
    <3>1. Call("fini", NULL, "fini") /\ closing' = TRUE
      BY <2>4 DEF CallFini
    <3>2. <<"fini", NULL>> \in Set!Calls
      BY DEF Set!Calls
    <3>3. Asked' = <<"fini", NULL>>
      BY <1>1, <3>1 DEF Call, Asked
    <3> QED
      BY <3>1, <3>2, <3>3
  <2> QED
    BY <2>1, <2>2, <2>3, <2>4 DEF Start
<1>5. PICK c \in Set!Calls : /\ Asked' = c
                             /\ c[1] = "insert" => c[2] \notin Linked(tree)
                             /\ c[1] # "fini" => ~closing
                             /\ closing' = (closing \/ c[1] = "fini")
  BY <1>4
<1>6. Asked = <<"none", NULL>> /\ Position' = Position
  BY <1>1, <1>2, <1>3 DEF Asked, Position, Current, FromEnd
<1>7. Set!Ask(c)
  BY <1>2, <1>3, <1>5, <1>6 DEF Set!Ask, Set!NoCall, Members, Asked, Position
<1> QED
  BY <1>7 DEF Set!Next

\* The steps that neither begin a call nor have its effect.
LEMMA TreeStutters ==
  ASSUME Inv, CursorControl, TreeNext,
         \/ LookupDescend \/ RemoveInPlace \/ RemoveSwapChild \/ RemoveSeekSuccessor
         \/ LeftmostDescend \/ RemoveSwapSuccessor \/ FiniDescend
         \/ InsertFixupRoot \/ InsertFixupBlackParent \/ InsertFixupRotate \/ InsertFixupRecolor
         \/ RemoveFixupRed \/ RemoveFixupRoot \/ RemoveFixupRedSibling
         \/ RemoveFixupRedNephew \/ RemoveFixupAllBlack
  PROVE  UNCHANGED Set!vars
<1>1. Inv' /\ cpc = "idle" /\ cpc' = "idle"
  BY NextInv DEF TreeNext, cursorLocals
<1>2. closing' = closing /\ ret' = ret /\ Asked' = Asked /\ Linked(tree') = Linked(tree)
  <2>1. CASE \/ LookupDescend \/ RemoveInPlace \/ RemoveSwapChild \/ RemoveSeekSuccessor
             \/ LeftmostDescend \/ RemoveSwapSuccessor \/ FiniDescend
    <3>1. /\ pc \in {"lookup", "leftmost", "disconnect", "fini"}
          /\ pc' \in {"lookup", "leftmost", "disconnect", "fini"}
          /\ closing' = closing /\ ret' = ret /\ op' = op /\ key' = key
      BY <2>1 DEF LookupDescend, RemoveInPlace, RemoveSwapChild, RemoveSeekSuccessor, RemoveFound,
         LeftmostDescend, RemoveSwapSuccessor, FiniDescend
    <3>2. Linked(tree') = Linked(tree)
      BY <2>1, RemoveSwapChildStep, RemoveSwapSuccessorStep
         DEF LookupDescend, RemoveInPlace, RemoveSeekSuccessor, LeftmostDescend, FiniDescend
    <3> QED
      BY <1>1, <3>1, <3>2 DEF Asked
  <2>2. CASE \/ InsertFixupRoot \/ InsertFixupBlackParent \/ InsertFixupRotate
             \/ InsertFixupRecolor
             \/ RemoveFixupRed \/ RemoveFixupRoot \/ RemoveFixupRedSibling
             \/ RemoveFixupRedNephew \/ RemoveFixupAllBlack
    <3>1. /\ pc \in {"insert_fixup", "remove_fixup"}
          /\ pc' \in {"idle", "insert_fixup", "remove_fixup"}
          /\ closing' = closing /\ ret' = ret
      BY <2>2 DEF InsertFixupRoot, InsertFixupBlackParent, InsertFixupRotate, InsertFixupRecolor,
         DoubleRed, RemoveFixupRed, RemoveFixupRoot, RemoveFixupRedSibling, RemoveFixupRedNephew,
         RemoveFixupAllBlack, Deficit, Return
    <3>2. Linked(tree') = Linked(tree)
      BY <2>2, InsertFixupRootStep, InsertFixupBlackParentStep, InsertFixupRotateStep,
         InsertFixupRecolorStep, RemoveFixupRedStep, RemoveFixupRootStep,
         RemoveFixupRedSiblingStep, RemoveFixupRedNephewStep, RemoveFixupAllBlackStep
    <3> QED
      BY <1>1, <3>1, <3>2 DEF Asked
  <2> QED
    BY <2>1, <2>2
<1>3. Members' = Members /\ cur' = cur
  BY <1>1, <1>2, MembersLinked DEF TreeNext
<1>4. Position' = Position
  BY <1>1, <1>3 DEF Position, Current, FromEnd
<1> QED
  BY <1>2, <1>3, <1>4 DEF Set!vars, Members, Asked, Position

\* The calls that find nothing to change, or look only.
LEMMA LookRefines ==
  ASSUME Inv, Answers, CursorControl, TreeNext,
         LookupReturn \/ InsertDuplicate \/ RemoveMissing
  PROVE  Set!Next
<1>1. /\ pc = "lookup" /\ pc' = "idle" /\ tree' = tree /\ closing' = closing
      /\ Found \/ node = NULL
      /\ \/ op = "lookup" /\ ret' = node
         \/ op = "insert" /\ Found /\ ret' = -1
         \/ op = "remove" /\ node = NULL /\ ret' = NULL
  BY DEF LookupReturn, InsertDuplicate, RemoveMissing, Return
<1>2. /\ Inv' /\ cpc = "idle" /\ cpc' = "idle" /\ key \in Node /\ node \in Ptr
  BY <1>1, NextInv DEF TreeNext, cursorLocals, Inv, Control, TypeOK
<1>3. Members = Linked(tree) /\ Members' = Linked(tree) /\ cur' = cur
  BY <1>1, <1>2, MembersLinked DEF TreeNext
<1>4. /\ node = NULL => Alike(key) = {}
      /\ Found => Alike(key) = {node}
  <2>1. PICK sub : Ordering(tree, sub, KeyOf)
    BY <1>1, OrderedTree
  <2> QED
    BY <1>1, <1>2, <2>1, SearchEnds DEF Answers, Found
<1>5. PICK k \in Node : k = key
  BY <1>2
<1>6. /\ Asked = <<op, k>> /\ Asked' = <<"none", NULL>> /\ Position' = Position
  BY <1>1, <1>2, <1>3, <1>5 DEF Asked, Position, Current, FromEnd
<1>7. Set!Equal(k) = Alike(key)
  BY <1>3, <1>5 DEF Set!Equal, Alike, Members
<1>8. Set!First(Alike(key)) = node
  <2>1. CASE node = NULL
    BY <1>4, <2>1 DEF Set!First
  <2>2. CASE Found
    <3>1. {node} \in SUBSET Node /\ node \in {node}
      BY <1>2, <2>2 DEF Found, Ptr
    <3>2. KeyOf[node] \in Int
      BY <3>1, KeyAssumption
    <3>3. Set!First({node}) = node
      BY <3>1, <3>2, FirstIs
    <3> QED
      BY <1>4, <2>2, <3>3
  <2> QED
    BY <1>1, <2>1, <2>2
<1>9. CASE op = "lookup"
  <2>1. Set!Lookup(k)
    BY <1>1, <1>3, <1>6, <1>7, <1>8, <1>9 DEF Set!Lookup, Set!Answer, Set!NoCall,
       Members, Asked, Position
  <2> QED
    BY <2>1, CallOfSet
<1>10. CASE op = "insert"
  <2>1. Set!Insert(k)
    BY <1>1, <1>3, <1>4, <1>6, <1>7, <1>10 DEF Set!Insert, Set!Answer, Set!NoCall,
       Members, Asked, Position
  <2> QED
    BY <2>1, CallOfSet
<1>11. CASE op = "remove"
  <2>1. Set!Remove(k)
    BY <1>1, <1>3, <1>4, <1>6, <1>7, <1>11 DEF Set!Remove, Set!Answer, Set!NoCall,
       Members, Asked, Position
  <2> QED
    BY <2>1, CallOfSet
<1> QED
  BY <1>1, <1>9, <1>10, <1>11

-----------------------------------------------------------------------------
(* Ways to the first, the last, the next and the previous node.            *)

\* To the left of all is the first.
LEMMA NearsNext ==
  ASSUME NEW a, NEW b, NEW r, NEW sub, NEW K, RootedTree(a, b, r, sub, K),
         NEW w \in sub[r], NEW p, p # <<>>, b[w] # NULL,
         NEW T, T = {m \in sub[r] : K[w] < K[m]}
  PROVE  Nears(sub, K, T, p, b[w])
<1>1. /\ SearchTree(a, b, sub, K) /\ r \in Ptr
      /\ sub \in [Ptr -> SUBSET Node] /\ K \in [Node -> Int]
  BY DEF RootedTree, SearchTree, Spans
<1>2. w \in Node /\ w \in Ptr /\ sub[r] \subseteq Node
  BY <1>1 DEF Ptr
<1>3. /\ sub[w] = {w} \cup sub[a[w]] \cup sub[b[w]] /\ sub[w] \subseteq sub[r]
      /\ \A m \in sub[a[w]] : K[m] < K[w]
      /\ \A m \in sub[b[w]] : K[w] < K[m]
  BY <1>1, <1>2, Below DEF SearchTree, Spans, Ascends
<1>4. sub[b[w]] \subseteq T
  BY <1>3
<1>5. ASSUME NEW m \in T \ sub[b[w]], NEW x \in sub[b[w]] PROVE K[x] < K[m]
  <2>1. /\ m \in sub[r] /\ x \in sub[r] /\ m # x /\ K[w] < K[m]
        /\ K[m] \in Int /\ K[x] \in Int /\ K[w] \in Int
    BY <1>1, <1>2, <1>3, <1>5
  <2>2. m \notin sub[w]
    BY <1>3, <1>5, <2>1
  <2>3. K[m] < K[x] => K[m] < K[w]
    BY <1>1, <1>3, <2>1, <2>2, Convex
  <2>4. K[m] # K[x]
    BY <1>1, <2>1, KeysDiffer
  <2> QED
    BY <2>1, <2>3, <2>4
<1> QED
  BY <1>4, <1>5 DEF Nears

\* One step down.
LEMMA NearsOn ==
  ASSUME NEW a, NEW b, NEW sub, NEW K, SearchTree(a, b, sub, K),
         NEW T \in SUBSET Node, NEW p \in Seq(Node), NEW n \in Node, Nears(sub, K, T, p, n)
  PROVE  Nears(sub, K, T, Append(p, n), a[n])
<1>1. /\ sub[n] = {n} \cup sub[a[n]] \cup sub[b[n]] /\ K \in [Node -> Int]
      /\ \A m \in sub[a[n]] : K[m] < K[n]
      /\ \A m \in sub[b[n]] : K[n] < K[m]
      /\ sub[n] \subseteq T /\ \A m \in T \ sub[n] : \A x \in sub[n] : K[x] < K[m]
  BY DEF Nears, SearchTree, Spans, Ascends
<1>2. \A m \in T : K[m] \in Int
  BY <1>1
<1>3. ASSUME NEW m \in T \ sub[a[n]] PROVE K[n] <= K[m] /\ \A x \in sub[a[n]] : K[x] < K[m]
  BY <1>1, <1>2
<1>4. Append(p, n) # <<>> /\ Append(p, n)[Len(Append(p, n))] = n
  OBVIOUS
<1> QED
  BY <1>1, <1>3, <1>4 DEF Nears

\* The way ends at the first of T.
LEMMA NearsEnd ==
  ASSUME NEW a, NEW b, NEW sub, NEW K, SearchTree(a, b, sub, K),
         NEW T, NEW p \in Seq(Node), Nears(sub, K, T, p, NULL)
  PROVE  /\ p = <<>> => T = {}
         /\ p # <<>> => p[Len(p)] \in T /\ \A m \in T : K[p[Len(p)]] <= K[m]
BY DEF Nears, SearchTree, Spans

\* From a node without a right child the way leads up, from right children on.
LEMMA TopsOn ==
  ASSUME NEW a, NEW b, NEW r, NEW sub, NEW K, RootedTree(a, b, r, sub, K),
         NEW p \in Seq(Node), IsPath(a, b, r, p), NEW i \in 2 .. Len(p), p[i] = b[p[i - 1]],
         NEW w, w = p[Len(p)], Tops(sub, K, p, i, w)
  PROVE  Tops(sub, K, p, i - 1, w)
<1>1. /\ SearchTree(a, b, sub, K) /\ K \in [Node -> Int] /\ Len(p) \in Nat
      /\ \A j \in 1 .. Len(p) : p[j] \in Node /\ p[j] # NULL
      /\ sub \in [Ptr -> SUBSET Node]
  BY NullAssumption DEF RootedTree, SearchTree, Spans
<1>2. i \in 1 .. Len(p) /\ i - 1 \in 1 .. Len(p) /\ Len(p) \in 1 .. Len(p) /\ i # 0
  BY <1>1
<1> DEFINE u == p[i - 1]
<1>3. u \in Node /\ w \in Node /\ w \in sub[w] /\ (i < Len(p) => sub[w] \subseteq sub[p[i]])
  <2>1. w \in sub[w] /\ \A k \in 1 .. Len(p) - 1 : sub[w] \subseteq sub[p[k]]
    BY <1>1, <1>2, PathBelow
  <2>2. i < Len(p) => i \in 1 .. Len(p) - 1
    BY <1>1
  <2> QED
    BY <1>1, <1>2, <2>1, <2>2
<1>4. w \in sub[b[u]]
  BY <1>1, <1>2, <1>3
<1>5. /\ sub[u] = {u} \cup sub[a[u]] \cup sub[b[u]]
      /\ \A m \in sub[a[u]] : K[m] < K[u]
      /\ \A m \in sub[b[u]] : K[u] < K[m]
  BY <1>1, <1>3 DEF SearchTree, Spans, Ascends
<1>6. \A m \in sub[b[u]] : K[m] <= K[w]
  BY <1>2 DEF Tops
<1>7. sub[u] \subseteq Node /\ K[u] < K[w] /\ K[u] \in Int /\ K[w] \in Int
  BY <1>1, <1>3, <1>4, <1>5 DEF Ptr
<1> HIDE DEF u
<1>8. \A m \in sub[u] : K[m] <= K[w]
  BY <1>1, <1>5, <1>6, <1>7
<1> QED
  BY <1>8 DEF Tops, u

\* It leads to the parent of the first left child, or to nothing.
LEMMA TopsEnd ==
  ASSUME NEW a, NEW b, NEW r, NEW sub, NEW K, RootedTree(a, b, r, sub, K),
         NEW p \in Seq(Node), IsPath(a, b, r, p), NEW i \in 1 .. Len(p),
         i > 1 => p[i] # b[p[i - 1]], Tops(sub, K, p, i, p[Len(p)])
  PROVE  LET w == p[Len(p)]
             T == {m \in sub[r] : K[w] < K[m]}
         IN  /\ i = 1 => T = {}
             /\ i > 1 => p[i - 1] \in T /\ \A m \in T : K[p[i - 1]] <= K[m]
<1> DEFINE w == p[Len(p)]
           T == {m \in sub[r] : K[w] < K[m]}
<1>1. /\ SearchTree(a, b, sub, K) /\ K \in [Node -> Int] /\ Len(p) \in Nat
      /\ \A j \in 1 .. Len(p) : p[j] \in Node /\ p[j] # NULL
      /\ sub \in [Ptr -> SUBSET Node] /\ r \in Ptr /\ sub[r] \subseteq Node
      /\ p[1] = r
  BY NullAssumption DEF RootedTree, SearchTree, Spans, IsPath
<1>2. Len(p) \in 1 .. Len(p) /\ w \in Node /\ K[w] \in Int /\ w \in sub[w] /\ i # 0
  BY <1>1, PathBelow, SMTT(30)
<1>3. \A m \in sub[p[i]] : K[m] <= K[w]
  BY <1>2 DEF Tops
<1>4. \A m \in sub[r] : K[m] \in Int
  BY <1>1
<1>5. i = 1 => T = {}
  BY <1>1, <1>2, <1>3, <1>4
<1>6. ASSUME i > 1 PROVE p[i - 1] \in T /\ \A m \in T : K[p[i - 1]] <= K[m]
  <2> DEFINE u == p[i - 1]
  <2>1. i - 1 \in 1 .. Len(p) - 1 /\ i - 1 \in 1 .. Len(p) /\ (i - 1) + 1 = i
    BY <1>1, <1>6
  <2>2. u \in Node /\ u \in sub[r] /\ (i < Len(p) => sub[w] \subseteq sub[p[i]])
    <3>1. \A k \in 1 .. Len(p) - 1 : sub[w] \subseteq sub[p[k]]
      BY <1>1, <1>2, PathBelow
    <3>2. i < Len(p) => i \in 1 .. Len(p) - 1
      BY <1>1
    <3>3. u \in Node /\ u \in sub[r]
      BY <1>1, <2>1, PathBelow
    <3> QED
      BY <3>1, <3>2, <3>3
  <2>3. p[i] = a[u]
    BY <1>6, <2>1 DEF IsPath
  <2>4. w \in sub[a[u]]
    BY <1>1, <1>2, <2>2, <2>3
  <2>5. /\ sub[u] = {u} \cup sub[a[u]] \cup sub[b[u]]
        /\ \A m \in sub[a[u]] : K[m] < K[u]
        /\ \A m \in sub[b[u]] : K[u] < K[m]
        /\ \A m \in sub[a[u]] : K[m] <= K[w]
    BY <1>1, <1>3, <2>2, <2>3 DEF SearchTree, Spans, Ascends
  <2> HIDE DEF u
  <2>6. u \in T /\ w \in sub[u] /\ u \in sub[u] /\ K[u] \in Int
    BY <1>4, <2>2, <2>4, <2>5
  <2>7. ASSUME NEW m \in T PROVE K[u] <= K[m]
    <3>1. m \in sub[r] /\ K[m] \in Int /\ K[w] < K[m]
      BY <1>4
    <3>2. CASE m \in sub[u]
      BY <1>2, <2>5, <2>6, <3>1, <3>2
    <3>3. CASE m \notin sub[u]
      <4>1. K[m] < K[u] => K[m] < K[w]
        BY <1>1, <2>2, <2>6, <3>1, <3>3, Convex
      <4> QED
        BY <1>2, <2>6, <3>1, <4>1
    <3> QED
      BY <3>2, <3>3
  <2> QED
    BY <2>6, <2>7 DEF u
<1> QED
  BY <1>5, <1>6

-----------------------------------------------------------------------------
(* The cursor's calls keep to the way down.                                *)

\* The last entry of the cursor.
LEMMA CurrentIs ==
  ASSUME cur \in Seq(Node)
  PROVE  /\ Current \in Ptr
         /\ cur = <<>> => Current = NULL
         /\ cur # <<>> => Current \in Node /\ Current = cur[Len(cur)] /\ Len(cur) \in Nat \ {0}
<1>1. Len(cur) \in Nat /\ (cur # <<>> => Len(cur) # 0) /\ \A i \in 1 .. Len(cur) : cur[i] \in Node
  OBVIOUS
<1>2. CASE cur = <<>>
  BY <1>2 DEF Current, FromEnd, Ptr
<1>3. CASE cur # <<>>
  <2>1. Len(cur) >= 1 /\ Len(cur) \in 1 .. Len(cur) /\ Len(cur) - 1 + 1 = Len(cur)
    BY <1>1, <1>3
  <2>2. Current = cur[Len(cur)]
    BY <2>1 DEF Current, FromEnd
  <2> QED
    BY <1>1, <1>3, <2>1, <2>2 DEF Ptr
<1> QED
  BY <1>2, <1>3

\* The node the cursor points to is a member.
LEMMA CurrentLinked ==
  ASSUME Inv, CursorControl, pc # "disconnect", cur # <<>>,
         NEW sub, Ordering(tree, sub, KeyOf)
  PROVE  /\ Current \in sub[tree.root] /\ Current \in sub[Current]
         /\ \A i \in 1 .. Len(cur) : cur[i] \in Node /\ cur[i] \in sub[tree.root]
<1>1. /\ cur \in Seq(Node) /\ IsPath(tree.left, tree.right, tree.root, cur)
      /\ RootedTree(tree.left, tree.right, tree.root, sub, KeyOf)
  BY DEF CursorControl, Ordering
<1>2. Current = cur[Len(cur)] /\ Len(cur) \in Nat \ {0}
  BY <1>1, CurrentIs
<1>3. Len(cur) \in 1 .. Len(cur) /\ \A i \in 1 .. Len(cur) : cur[i] \in Node /\ cur[i] # NULL
  BY <1>1, <1>2, NullAssumption
<1> QED
  BY <1>1, <1>2, <1>3, PathBelow

\* A way down can be cut.
LEMMA PathCut ==
  ASSUME NEW a, NEW b, NEW r, NEW p \in Seq(Node), IsPath(a, b, r, p), NEW k \in 1 .. Len(p)
  PROVE  LET q == SubSeq(p, 1, k)
         IN  /\ q \in Seq(Node) /\ q # <<>> /\ Len(q) = k /\ q[Len(q)] = p[k]
             /\ IsPath(a, b, r, q)
<1> DEFINE q == SubSeq(p, 1, k)
<1>1. /\ Len(p) \in Nat /\ k \in Nat \ {0} /\ k <= Len(p)
      /\ \A i \in 1 .. Len(p) : p[i] \in Node /\ p[i] \in Ptr
      /\ p[1] = r
      /\ \A i \in 1 .. Len(p) - 1 : p[i] \in Node /\ p[i + 1] \in {a[p[i]], b[p[i]]}
  BY DEF IsPath, Ptr
<1>2. /\ Len(q) = k /\ \A i \in 1 .. k : q[i] = p[i] /\ q[i] \in Node
      /\ q \in Seq(Node)
  BY <1>1
<1> HIDE DEF q
<1>3. q # <<>>
  BY <1>1, <1>2
<1>4. q \in Seq(Ptr)
  <2>1. Node \subseteq Ptr
    BY DEF Ptr
  <2> QED
    BY <1>2, <2>1
<1>5. IsPath(a, b, r, q)
  <2>1. q[1] = r
    BY <1>1, <1>2
  <2>2. ASSUME NEW i \in 1 .. Len(q) - 1 PROVE q[i] \in Node /\ q[i + 1] \in {a[q[i]], b[q[i]]}
    <3>1. i \in 1 .. k /\ i + 1 \in 1 .. k /\ i \in 1 .. Len(p) - 1
      BY <1>1, <1>2
    <3> QED
      BY <1>1, <1>2, <3>1
  <2> QED
    BY <1>4, <2>1, <2>2 DEF IsPath
<1>6. q[Len(q)] = p[k]
  BY <1>1, <1>2
<1> QED
  BY <1>2, <1>3, <1>5, <1>6 DEF q

\* The cursor's calls leave the tree alone.
LEMMA CursorKeepsInv ==
  ASSUME Inv, Answers, CursorControl, CursorNext
  PROVE  /\ Inv' /\ Answers'
         /\ UNCHANGED <<tree, closing, pc, op, key, node, path, at>>
<1>1. UNCHANGED <<tree, closing, pc, op, key, node, path, at>>
  BY DEF CursorNext, CallHead, CallTail, CallLookupEx, CallNext, CallPrev, CallNeighbour, Enter,
     DescendStep, DescendReturn, LookupExStep, LookupExReturn, ClimbStep, ClimbReturn,
     CursorReturn, vars
<1>2. TypeOK /\ cur \in Seq(Node) /\ cnode \in Ptr /\ Current \in Ptr
  BY CurrentIs DEF Inv, Control, CursorControl
<1>3. ret' \in Ptr \cup {0, -1}
  <2>1. CASE CallHead \/ CallTail \/ CallLookupEx \/ CallNext \/ CallPrev
             \/ DescendStep \/ LookupExStep \/ ClimbStep
    <3>1. ret' = ret
      BY <2>1 DEF CallHead, CallTail, CallLookupEx, CallNext, CallPrev, CallNeighbour, Enter,
         DescendStep, LookupExStep, ClimbStep, vars
    <3> QED
      BY <1>2, <3>1 DEF TypeOK
  <2>2. CASE DescendReturn \/ LookupExReturn
    <3>1. ret' \in {Current, cnode}
      BY <2>2 DEF DescendReturn, LookupExReturn, CursorReturn
    <3> QED
      BY <1>2, <3>1
  <2>3. CASE ClimbReturn
    <3>1. CASE cn - 1 < 1
      BY <2>3, <3>1 DEF ClimbReturn, CursorReturn, Ptr
    <3>2. CASE ~(cn - 1 < 1)
      <4>1. ret' = cur[cn - 1] /\ cn \in 0 .. Len(cur) /\ Len(cur) \in Nat
        BY <1>2, <2>3, <3>2 DEF ClimbReturn, CursorReturn, CursorControl
      <4>2. cn - 1 \in 1 .. Len(cur)
        BY <3>2, <4>1
      <4> QED
        BY <1>2, <4>1, <4>2 DEF Ptr
    <3> QED
      BY <3>1, <3>2
  <2> QED
    BY <2>1, <2>2, <2>3 DEF CursorNext
<1>4. TypeOK'
  BY <1>1, <1>2, <1>3 DEF TypeOK
<1>5. Inv' /\ Answers'
  BY <1>1, <1>4 DEF Inv, Control, Colours, Walk, Answers, Alike, Confines
<1> QED
  BY <1>1, <1>5

\* Where a call can lead, seen from the left and seen from the right.
LEMMA AheadIs ==
  ASSUME Inv, NEW sub, Ordering(tree, sub, KeyOf)
  PROVE  /\ RootedTree(tree.left, tree.right, tree.root, sub, KeyOf)
         /\ RootedTree(tree.right, tree.left, tree.root, sub, Minus)
         /\ Ahead \in SUBSET Node /\ Linked(tree) = sub[tree.root]
         /\ cop \in {"head", "tail"} => Ahead = sub[tree.root]
         /\ cop = "next" /\ was \in Node => Ahead = {m \in sub[tree.root] : KeyOf[was] < KeyOf[m]}
         /\ cop = "prev" /\ was \in Node => Ahead = {m \in sub[tree.root] : Minus[was] < Minus[m]}
         /\ cop \in {"next", "prev"} /\ was = NULL => Ahead = {}
<1>1. /\ RootedTree(tree.left, tree.right, tree.root, sub, KeyOf)
      /\ Linked(tree) \in SUBSET Node /\ Linked(tree) = sub[tree.root]
  BY MembersBelow DEF Ordering
<1>2. RootedTree(tree.right, tree.left, tree.root, sub, Minus)
  BY <1>1, MirroredRooted DEF Minus
<1>3. Ahead \in SUBSET Node
  BY <1>1 DEF Ahead
<1>4. \A m \in Node : KeyOf[m] \in Int /\ Minus[m] = -KeyOf[m]
  BY KeyAssumption DEF Minus
<1>5. ASSUME cop = "prev", was \in Node
      PROVE  Ahead = {m \in sub[tree.root] : Minus[was] < Minus[m]}
  <2>1. \A m \in sub[tree.root] : KeyOf[m] < KeyOf[was] <=> Minus[was] < Minus[m]
    BY <1>1, <1>4, <1>5
  <2> QED
    BY <1>1, <1>5, <2>1, NullAssumption DEF Ahead
<1> QED
  BY <1>1, <1>2, <1>3, <1>5, NullAssumption DEF Ahead

\* A call of the cursor begins.
LEMMA CursorCallSearches ==
  ASSUME Inv, CursorControl,
         CallHead \/ CallTail \/ CallLookupEx \/ CallNext \/ CallPrev,
         NEW sub, Ordering(tree, sub, KeyOf)
  PROVE  CursorSearch(sub)'
<1>1. /\ pc = "idle" /\ tree' = tree /\ was' = Current /\ cur \in Seq(Node)
  BY DEF CallHead, CallTail, CallLookupEx, CallNext, CallPrev, CallNeighbour, Enter, vars,
     MayCall, CursorControl
<1>2. /\ RootedTree(tree.left, tree.right, tree.root, sub, KeyOf)
      /\ RootedTree(tree.right, tree.left, tree.root, sub, Minus)
      /\ Linked(tree) = sub[tree.root] /\ Linked(tree) \in SUBSET Node
  BY AheadIs, MembersBelow
<1>3. CASE CallHead \/ CallTail
  <2>1. /\ cpc' \in {"leftmost", "rightmost"} /\ cop' \in {"head", "tail"}
        /\ cur' = <<>> /\ cnode' = tree.root
    BY <1>3 DEF CallHead, CallTail, Enter
  <2>2. Ahead' = sub[tree.root]
    BY <1>1, <1>2, <2>1 DEF Ahead
  <2> QED
    BY <1>1, <2>1, <2>2 DEF CursorSearch, Nears
<1>4. CASE CallLookupEx
  <2>1. cpc' = "lookup_ex" /\ cnode' = tree.root /\ ckey' \in Node
    BY <1>4 DEF CallLookupEx, Enter
  <2> QED
    BY <1>1, <1>2, <2>1 DEF CursorSearch, Confines, Alike
<1>5. CASE CallNext
  <2>1. CASE cur # <<>> /\ tree.right[Current] # NULL
    <3>1. /\ cpc' = "leftmost" /\ cop' = "next" /\ cur' = cur /\ cnode' = tree.right[Current]
      BY <1>5, <2>1 DEF CallNext, CallNeighbour, Enter
    <3>2. Current \in sub[tree.root] /\ Current \in Node
      BY <1>1, <2>1, CurrentLinked, CurrentIs
    <3>3. Ahead' = {m \in sub[tree.root] : KeyOf[Current] < KeyOf[m]}
      BY <1>1, <1>2, <3>1, <3>2, NullAssumption DEF Ahead
    <3>4. Nears(sub, KeyOf, Ahead', cur, tree.right[Current])
      BY <1>2, <2>1, <3>2, <3>3, NearsNext
    <3> QED
      BY <3>1, <3>4 DEF CursorSearch, Nears
  <2>2. CASE ~(cur # <<>> /\ tree.right[Current] # NULL)
    <3>1. cpc' = "climb_next" /\ cur' = cur /\ cn' = Len(cur)
      BY <1>5, <2>2 DEF CallNext, CallNeighbour, Enter
    <3>2. ASSUME cur # <<>> PROVE \A m \in sub[cur[Len(cur)]] : KeyOf[m] <= KeyOf[Current]
      <4>1. tree.right[Current] = NULL /\ Current = cur[Len(cur)] /\ Current \in Node
        BY <1>1, <2>2, <3>2, CurrentIs
      <4>2. /\ sub[Current] = {Current} \cup sub[tree.left[Current]] \cup sub[NULL]
            /\ sub[NULL] = {} /\ KeyOf[Current] \in Int
            /\ \A m \in sub[tree.left[Current]] : KeyOf[m] < KeyOf[Current]
            /\ \A m \in sub[Current] : KeyOf[m] \in Int
        <5>1. sub \in [Ptr -> SUBSET Node] /\ Current \in Ptr
          BY <1>2, <4>1 DEF RootedTree, SearchTree, Spans, Ptr
        <5> QED
          BY <1>2, <4>1, <5>1 DEF RootedTree, SearchTree, Spans, Ascends
      <4> QED
        BY <4>1, <4>2
    <3>3. Len(cur) # 0 => cur # <<>>
      BY <1>1
    <3> QED
      BY <1>1, <3>1, <3>2, <3>3 DEF CursorSearch, Tops
  <2> QED
    BY <2>1, <2>2
<1>6. CASE CallPrev
  <2>1. CASE cur # <<>> /\ tree.left[Current] # NULL
    <3>1. /\ cpc' = "rightmost" /\ cop' = "prev" /\ cur' = cur /\ cnode' = tree.left[Current]
      BY <1>6, <2>1 DEF CallPrev, CallNeighbour, Enter
    <3>2. Current \in sub[tree.root] /\ Current \in Node
      BY <1>1, <2>1, CurrentLinked, CurrentIs
    <3>3. Ahead' = {m \in sub[tree.root] : Minus[Current] < Minus[m]}
      <4>1. Ahead' = {m \in sub[tree.root] : KeyOf[m] < KeyOf[Current]}
        BY <1>1, <1>2, <3>1, <3>2, NullAssumption DEF Ahead
      <4>2. \A m \in Node : KeyOf[m] \in Int /\ Minus[m] = -KeyOf[m]
        BY KeyAssumption DEF Minus
      <4>3. \A m \in sub[tree.root] : KeyOf[m] < KeyOf[Current] <=> Minus[Current] < Minus[m]
        BY <1>2, <3>2, <4>2
      <4> QED
        BY <4>1, <4>3
    <3>4. Nears(sub, Minus, Ahead', cur, tree.left[Current])
      BY <1>2, <2>1, <3>2, <3>3, NearsNext
    <3> QED
      BY <3>1, <3>4 DEF CursorSearch, Nears
  <2>2. CASE ~(cur # <<>> /\ tree.left[Current] # NULL)
    <3>1. cpc' = "climb_prev" /\ cur' = cur /\ cn' = Len(cur)
      BY <1>6, <2>2 DEF CallPrev, CallNeighbour, Enter
    <3>2. ASSUME cur # <<>> PROVE \A m \in sub[cur[Len(cur)]] : Minus[m] <= Minus[Current]
      <4>1. tree.left[Current] = NULL /\ Current = cur[Len(cur)] /\ Current \in Node
        BY <1>1, <2>2, <3>2, CurrentIs
      <4>2. /\ sub[Current] = {Current} \cup sub[tree.right[Current]] \cup sub[NULL]
            /\ sub[NULL] = {} /\ Minus[Current] \in Int
            /\ \A m \in sub[tree.right[Current]] : Minus[m] < Minus[Current]
            /\ \A m \in sub[Current] : Minus[m] \in Int
        <5>1. sub \in [Ptr -> SUBSET Node] /\ Current \in Ptr /\ Minus \in [Node -> Int]
          BY <1>2, <4>1 DEF RootedTree, SearchTree, Spans, Ptr
        <5> QED
          BY <1>2, <4>1, <5>1 DEF RootedTree, SearchTree, Spans, Ascends
      <4> QED
        BY <4>1, <4>2
    <3>3. Len(cur) # 0 => cur # <<>>
      BY <1>1
    <3> QED
      BY <1>1, <3>1, <3>2, <3>3 DEF CursorSearch, Tops
  <2> QED
    BY <2>1, <2>2
<1> QED
  BY <1>3, <1>4, <1>5, <1>6

\* The locals with which a call of the cursor begins.
LEMMA CursorCallControl ==
  ASSUME Inv, CursorControl,
         CallHead \/ CallTail \/ CallLookupEx \/ CallNext \/ CallPrev
  PROVE  CursorControl'
<1>1. /\ pc = "idle" /\ ~closing /\ cur \in Seq(Node) /\ was' = Current
      /\ UNCHANGED <<tree, pc, closing>>
      /\ IsPath(tree.left, tree.right, tree.root, cur)
  BY DEF CallHead, CallTail, CallLookupEx, CallNext, CallPrev, CallNeighbour, Enter, vars,
     MayCall, CursorControl
<1>2. /\ tree.left \in [Node -> Ptr] /\ tree.right \in [Node -> Ptr] /\ tree.root \in Ptr
      /\ Current \in Ptr /\ (cur # <<>> => Current \in Node /\ Len(cur) \in Nat \ {0})
  BY <1>1, MembersBelow, CurrentIs
<1>3. IsPath(tree.left, tree.right, tree.root, <<>>) /\ <<>> \in Seq(Node)
  BY DEF IsPath
<1>4. CASE CallHead \/ CallTail \/ CallLookupEx
  <2>1. /\ cur' = <<>> /\ cnode' = tree.root /\ cn' = 0
        /\ \/ cpc' = "leftmost" /\ cop' = "head" /\ ckey' = NULL
           \/ cpc' = "rightmost" /\ cop' = "tail" /\ ckey' = NULL
           \/ cpc' = "lookup_ex" /\ cop' = "lookup_ex" /\ ckey' \in Node
    BY <1>4 DEF CallHead, CallTail, CallLookupEx, Enter
  <2> QED
    BY <1>1, <1>2, <1>3, <2>1 DEF CursorControl, Ptr
<1>5. CASE CallNext \/ CallPrev
  <2>1. /\ cur' = cur /\ ckey' = NULL
        /\ \/ /\ cur # <<>> /\ cn' = 0
              /\ \/ cpc' = "leftmost" /\ cop' = "next" /\ cnode' = tree.right[Current]
                 \/ cpc' = "rightmost" /\ cop' = "prev" /\ cnode' = tree.left[Current]
           \/ /\ cnode' = NULL /\ cn' = Len(cur)
              /\ \/ cpc' = "climb_next" /\ cop' = "next"
                 \/ cpc' = "climb_prev" /\ cop' = "prev"
    BY <1>5 DEF CallNext, CallPrev, CallNeighbour, Enter
  <2>2. cn' \in Nat /\ cnode' \in Ptr /\ NULL \in Ptr
    BY <1>1, <1>2, <2>1 DEF Ptr
  <2>3. Current' = Current
    BY <2>1 DEF Current, FromEnd
  <2>4. cpc' \in {"climb_next", "climb_prev"} =>
          IF cur = <<>> THEN cn' = 0 ELSE cn' \in 1 .. Len(cur)
    BY <1>2, <2>1
  <2> QED
    BY <1>1, <1>2, <2>1, <2>2, <2>3, <2>4 DEF CursorControl
<1> QED
  BY <1>4, <1>5

\* One node is pushed and the search goes on below it.
LEMMA PushControl ==
  ASSUME Inv, CursorControl, cpc \in {"leftmost", "rightmost", "lookup_ex"}, cnode # NULL,
         cur' = Append(cur, cnode), cnode' \in {tree.left[cnode], tree.right[cnode]},
         UNCHANGED <<vars, cpc, cn, cop, ckey, was>>
  PROVE  CursorControl'
<1>1. /\ cur \in Seq(Node) /\ cnode \in Node /\ cnode \in Ptr
      /\ pc = "idle" /\ ~closing
      /\ tree.left \in [Node -> Ptr] /\ tree.right \in [Node -> Ptr]
      /\ IsPath(tree.left, tree.right, tree.root, cur)
      /\ cur = <<>> => cnode = tree.root
      /\ cur # <<>> => cnode \in {tree.left[Current], tree.right[Current]}
  BY MembersBelow DEF CursorControl, Ptr
<1>2. cur # <<>> => Current = cur[Len(cur)]
  BY <1>1, CurrentIs
<1>3. IsPath(tree.left, tree.right, tree.root, Append(cur, cnode))
  BY <1>1, <1>2, PathOn
<1>4. /\ cur' \in Seq(Node) /\ cur' # <<>> /\ Len(cur') = Len(cur) + 1 /\ Len(cur) \in Nat
      /\ cur'[Len(cur) + 1] = cnode
  BY <1>1
<1>5. Current' = cnode
  BY <1>4 DEF Current, FromEnd
<1>6. cnode' \in Ptr /\ UNCHANGED <<tree, pc, closing, cpc, cn, cop, ckey, was>>
  BY <1>1 DEF vars
<1>7. IsPath(tree.left, tree.right, tree.root, cur)'
  BY <1>3, <1>6
<1>8. cnode' \in {tree.left[Current], tree.right[Current]}'
  BY <1>5, <1>6
<1> QED
  BY <1>1, <1>4, <1>6, <1>7, <1>8 DEF CursorControl

\* One step towards the first or the last of those ahead.
LEMMA DescendStepInv ==
  ASSUME Inv, CursorControl, DescendStep
  PROVE  /\ CursorControl'
         /\ \A sub : Ordering(tree, sub, KeyOf) /\ CursorSearch(sub) => CursorSearch(sub)'
<1>1. /\ cpc \in {"leftmost", "rightmost"} /\ cnode # NULL /\ cur' = Append(cur, cnode)
      /\ cnode' = IF cpc = "leftmost" THEN tree.left[cnode] ELSE tree.right[cnode]
      /\ UNCHANGED <<vars, cpc, cn, cop, ckey, was>>
  BY DEF DescendStep
<1>2. CursorControl'
  BY <1>1, PushControl
<1>3. ASSUME NEW sub, Ordering(tree, sub, KeyOf), CursorSearch(sub) PROVE CursorSearch(sub)'
  <2>1. cnode \in Node /\ cur \in Seq(Node)
    BY <1>1 DEF CursorControl, Ptr
  <2>2. /\ SearchTree(tree.left, tree.right, sub, KeyOf)
        /\ SearchTree(tree.right, tree.left, sub, Minus)
        /\ Ahead \in SUBSET Node
    BY <1>3, AheadIs DEF RootedTree
  <2>3. Ahead' = Ahead
    BY <1>1 DEF Ahead, vars
  <2>4. CASE cpc = "leftmost"
    <3>1. Nears(sub, KeyOf, Ahead, cur, cnode)
      BY <1>3, <2>4 DEF CursorSearch
    <3>2. Nears(sub, KeyOf, Ahead, Append(cur, cnode), tree.left[cnode])
      BY <2>1, <2>2, <3>1, NearsOn
    <3> QED
      BY <1>1, <2>3, <2>4, <3>2 DEF CursorSearch
  <2>5. CASE cpc = "rightmost"
    <3>1. Nears(sub, Minus, Ahead, cur, cnode)
      BY <1>3, <2>5 DEF CursorSearch
    <3>2. Nears(sub, Minus, Ahead, Append(cur, cnode), tree.right[cnode])
      BY <2>1, <2>2, <3>1, NearsOn
    <3>3. cnode' = tree.right[cnode]
      BY <1>1, <2>5
    <3> QED
      BY <1>1, <2>3, <2>5, <3>2, <3>3 DEF CursorSearch
  <2> QED
    BY <1>1, <2>4, <2>5
<1> QED
  BY <1>2, <1>3

\* One step of the lookup.
LEMMA LookupExStepInv ==
  ASSUME Inv, CursorControl, LookupExStep
  PROVE  /\ CursorControl'
         /\ \A sub : Ordering(tree, sub, KeyOf) /\ CursorSearch(sub) => CursorSearch(sub)'
<1>1. /\ cpc = "lookup_ex" /\ cnode # NULL /\ cur' = Append(cur, cnode)
      /\ KeyOf[ckey] # KeyOf[cnode]
      /\ cnode' = IF KeyOf[ckey] < KeyOf[cnode] THEN tree.left[cnode] ELSE tree.right[cnode]
      /\ UNCHANGED <<vars, cpc, cn, cop, ckey, was>>
  BY DEF LookupExStep
<1>2. CursorControl'
  BY <1>1, PushControl
<1>3. ASSUME NEW sub, Ordering(tree, sub, KeyOf), CursorSearch(sub) PROVE CursorSearch(sub)'
  <2>1. cnode \in Node /\ ckey \in Node
    BY <1>1 DEF CursorControl, Ptr
  <2>2. Confines(sub, ckey, cnode)
    BY <1>1, <1>3 DEF CursorSearch
  <2>3. Confines(sub, ckey, cnode')
    BY <1>1, <1>3, <2>1, <2>2, ConfinesOn
  <2> QED
    BY <1>1, <2>3 DEF CursorSearch, Confines, Alike, vars
<1> QED
  BY <1>2, <1>3

\* One step up.
LEMMA ClimbStepInv ==
  ASSUME Inv, CursorControl, ClimbStep
  PROVE  /\ CursorControl'
         /\ \A sub : Ordering(tree, sub, KeyOf) /\ CursorSearch(sub) => CursorSearch(sub)'
<1>1. /\ cpc \in {"climb_next", "climb_prev"} /\ cn > 1 /\ cn' = cn - 1
      /\ cur[cn] = IF cpc = "climb_next" THEN tree.right[cur[cn - 1]] ELSE tree.left[cur[cn - 1]]
      /\ UNCHANGED <<vars, cur, cpc, cnode, cop, ckey, was>>
  BY DEF ClimbStep, ClimbsOn, FromSide
<1>2. /\ cur \in Seq(Node) /\ pc = "idle" /\ ~closing /\ cn \in Nat /\ was = Current
      /\ IF cur = <<>> THEN cn = 0 ELSE cn \in 1 .. Len(cur)
      /\ IsPath(tree.left, tree.right, tree.root, cur)
  BY <1>1 DEF CursorControl
<1>3. /\ cur # <<>> /\ cn \in 2 .. Len(cur) /\ was = cur[Len(cur)]
  <2>1. cur # <<>> /\ cn \in 1 .. Len(cur)
    BY <1>1, <1>2
  <2>2. was = cur[Len(cur)] /\ Len(cur) \in Nat
    BY <1>2, <2>1, CurrentIs
  <2> QED
    BY <1>1, <2>1, <2>2
<1>4. CursorControl'
  <2>1. cn' \in Nat /\ cn' \in 1 .. Len(cur)
    BY <1>1, <1>2, <1>3
  <2>2. Current' = Current
    BY <1>1 DEF Current, FromEnd
  <2> QED
    BY <1>1, <1>2, <1>3, <2>1, <2>2 DEF CursorControl, vars
<1>5. ASSUME NEW sub, Ordering(tree, sub, KeyOf), CursorSearch(sub) PROVE CursorSearch(sub)'
  <2>1. /\ RootedTree(tree.left, tree.right, tree.root, sub, KeyOf)
        /\ RootedTree(tree.right, tree.left, tree.root, sub, Minus)
        /\ IsPath(tree.right, tree.left, tree.root, cur)
    BY <1>2, <1>5, AheadIs DEF IsPath
  <2>2. CASE cpc = "climb_next"
    <3>1. Tops(sub, KeyOf, cur, cn, was)
      BY <1>5, <2>2 DEF CursorSearch
    <3>2. Tops(sub, KeyOf, cur, cn - 1, was)
      BY <1>1, <1>2, <1>3, <2>1, <2>2, <3>1, TopsOn
    <3> QED
      BY <1>1, <2>2, <3>2 DEF CursorSearch
  <2>3. CASE cpc = "climb_prev"
    <3>1. Tops(sub, Minus, cur, cn, was)
      BY <1>5, <2>3 DEF CursorSearch
    <3>2. cur[cn] = tree.left[cur[cn - 1]]
      BY <1>1, <2>3
    <3>3. Tops(sub, Minus, cur, cn - 1, was)
      BY <1>2, <1>3, <2>1, <3>1, <3>2, TopsOn
    <3> QED
      BY <1>1, <2>3, <3>3 DEF CursorSearch
  <2> QED
    BY <1>1, <2>2, <2>3
<1> QED
  BY <1>4, <1>5

\* A call of the cursor that ends leaves a way down behind.
LEMMA CursorReturnControl ==
  ASSUME Inv, CursorControl, DescendReturn \/ LookupExReturn \/ ClimbReturn
  PROVE  CursorControl' /\ cpc' = "idle"
<1>1. /\ cpc' = "idle" /\ cop' = "none" /\ ckey' = NULL /\ cnode' = NULL /\ cn' = 0 /\ was' = NULL
      /\ UNCHANGED <<tree, closing, pc>> /\ cpc # "idle"
  BY DEF DescendReturn, LookupExReturn, ClimbReturn, CursorReturn
<1>2. /\ cur \in Seq(Node) /\ cnode \in Ptr /\ cn \in Nat /\ pc = "idle"
      /\ IsPath(tree.left, tree.right, tree.root, cur)
      /\ tree.left \in [Node -> Ptr] /\ tree.right \in [Node -> Ptr]
  BY <1>1, MembersBelow DEF CursorControl
<1>3. cur' \in Seq(Node) /\ IsPath(tree.left, tree.right, tree.root, cur')
  <2>1. CASE DescendReturn
    BY <1>2, <2>1 DEF DescendReturn
  <2>2. CASE LookupExReturn
    <3>1. CASE cnode = NULL
      BY <2>2, <3>1 DEF LookupExReturn, IsPath
    <3>2. CASE cnode # NULL
      <4>1. cur' = Append(cur, cnode) /\ cnode \in Node /\ cpc = "lookup_ex"
        BY <1>2, <2>2, <3>2 DEF LookupExReturn, Ptr
      <4>2. /\ cur = <<>> => cnode = tree.root
            /\ cur # <<>> => cnode \in {tree.left[Current], tree.right[Current]}
        BY <4>1 DEF CursorControl
      <4>3. cur # <<>> => Current = cur[Len(cur)]
        BY <1>2, CurrentIs
      <4>4. IsPath(tree.left, tree.right, tree.root, Append(cur, cnode))
        BY <1>2, <4>2, <4>3, PathOn
      <4> QED
        BY <1>2, <4>1, <4>4
    <3> QED
      BY <3>1, <3>2
  <2>3. CASE ClimbReturn
    <3>1. CASE cn - 1 < 1
      BY <1>2, <2>3, <3>1 DEF ClimbReturn
    <3>2. CASE ~(cn - 1 < 1)
      <4>1. /\ cur' = SubSeq(cur, 1, cn - 1) /\ Len(cur) \in Nat
            /\ IF cur = <<>> THEN cn = 0 ELSE cn \in 1 .. Len(cur)
        BY <1>2, <2>3, <3>2 DEF ClimbReturn, CursorControl
      <4>2. cn - 1 \in 1 .. Len(cur)
        BY <1>2, <3>2, <4>1
      <4> QED
        BY <1>2, <4>1, <4>2, PathCut
    <3> QED
      BY <3>1, <3>2
  <2> QED
    BY <2>1, <2>2, <2>3
<1> QED
  BY <1>1, <1>2, <1>3 DEF CursorControl, Ptr

\* A step of the cursor keeps what is known of it.
LEMMA CursorNextKeeps ==
  ASSUME Inv, CursorInv, CursorNext, UNCHANGED tree
  PROVE  CursorInv'
<1>1. CursorControl
  BY DEF CursorInv
<1>2. CursorControl'
  BY <1>1, CursorCallControl, CursorReturnControl, DescendStepInv, LookupExStepInv, ClimbStepInv
     DEF CursorNext
<1>3. ASSUME NEW sub, Ordering(tree, sub, KeyOf) PROVE CursorSearch(sub)'
  <2>1. CursorSearch(sub)
    BY <1>3 DEF CursorInv
  <2>2. CASE CallHead \/ CallTail \/ CallLookupEx \/ CallNext \/ CallPrev
    BY <1>1, <1>3, <2>2, CursorCallSearches
  <2>3. CASE DescendReturn \/ LookupExReturn \/ ClimbReturn
    <3>1. cpc' = "idle"
      BY <1>1, <2>3, CursorReturnControl
    <3> QED
      BY <3>1 DEF CursorSearch
  <2>4. CASE DescendStep \/ LookupExStep \/ ClimbStep
    BY <1>1, <1>3, <2>1, <2>4, DescendStepInv, LookupExStepInv, ClimbStepInv
  <2> QED
    BY <2>2, <2>3, <2>4 DEF CursorNext
<1> QED
  BY <1>2, <1>3 DEF CursorInv

\* The node that is being removed is in the tree.
LEMMA VictimLinked ==
  ASSUME Inv, pc = "disconnect"
  PROVE  /\ FromEnd(path, 1) \in Linked(tree) /\ FromEnd(path, 1) \in Node
         /\ FromEnd(path, 1) = path[Len(path)]
<1>1. /\ path \in Seq(Node) /\ path # <<>> /\ IsPath(tree.left, tree.right, tree.root, path)
      /\ tree \in Tree /\ Len(path) \in Nat
  BY DEF Inv, Control, TypeOK, Walk, Ripe
<1>2. 1 <= Len(path) /\ Len(path) - 1 + 1 = Len(path) /\ Len(path) \in 1 .. Len(path)
  BY <1>1
<1>3. FromEnd(path, 1) = path[Len(path)] /\ FromEnd(path, 1) \in Node
  BY <1>1, <1>2 DEF FromEnd
<1>4. Hangs(tree, FromEnd(path, 1 + 1), FromEnd(path, 1))
  <2>1. 1 \in Nat \ {0} /\ FromEnd(path, 1) # NULL
    BY <1>3, NullAssumption
  <2> QED
    BY <1>1, <1>2, <2>1, PathHangs
<1>5. FromEnd(path, 1) \in Linked(tree)
  BY <1>3, <1>4, NullAssumption DEF Hangs, Linked
<1> QED
  BY <1>3, <1>5

\* So is the one that the teardown hands out.
LEMMA LeftmostLinked ==
  ASSUME Inv, pc = "fini", node # NULL
  PROVE  node \in Linked(tree)
<1>1. /\ path \in Seq(Node) /\ Len(path) \in Nat /\ node \in Node
      /\ path = <<>> => node = tree.root
      /\ path # <<>> => node = tree.left[path[Len(path)]]
  BY DEF Inv, Control, TypeOK, Ptr
<1>2. path # <<>> => path[Len(path)] \in Node
  BY <1>1
<1> QED
  BY <1>1, <1>2 DEF Linked

\* A step of the tree takes the cursor away or leaves it a way down.
LEMMA TreeNextKeeps ==
  ASSUME Inv, CursorControl, TreeNext
  PROVE  CursorControl' /\ cpc' = "idle"
<1>1. /\ cpc = "idle" /\ Next /\ UNCHANGED <<cpc, cnode, cn, cop, ckey, was>>
      /\ cur' = IF Linked(tree') = Linked(tree) THEN cur ELSE <<>>
  BY DEF TreeNext, cursorLocals
<1>2. cur' \in Seq(Node)
  BY <1>1 DEF CursorControl
<1>3. \/ cur' = <<>>
      \/ cur' = cur /\ pc' = "disconnect"
      \/ cur' = cur /\ tree' = tree /\ pc # "disconnect" /\ pc' \notin {"insert_fixup", "remove_fixup"}
  <2>1. CASE Start
    BY <1>1, <2>1 DEF Start, CallInsert, CallRemove, CallLookup, CallFini, Call
  <2>2. CASE LookupDescend \/ LookupReturn \/ InsertDuplicate \/ RemoveMissing \/ RemoveInPlace
             \/ RemoveSeekSuccessor \/ LeftmostDescend \/ FiniDescend \/ FiniEmpty
    BY <1>1, <2>2 DEF LookupDescend, LookupReturn, InsertDuplicate, RemoveMissing, RemoveInPlace,
       RemoveSeekSuccessor, RemoveFound, LeftmostDescend, FiniDescend, FiniEmpty, Return
  <2>3. CASE RemoveSwapChild \/ RemoveSwapSuccessor
    <3>1. pc' = "disconnect"
      BY <2>3 DEF RemoveSwapChild, RemoveSwapSuccessor
    <3> QED
      BY <1>1, <3>1
  <2>4. CASE InsertLink
    <3>1. key \in Node /\ key \notin Linked(tree)
      BY <2>4 DEF InsertLink, Inv, Control
    <3>2. Linked(tree') = Linked(tree) \cup {key}
      BY <2>4, InsertLinkStep
    <3> QED
      BY <1>1, <3>1, <3>2
  <2>5. CASE RemoveDisconnect
    <3>1. FromEnd(path, 1) \in Linked(tree)
      BY <2>5, VictimLinked DEF RemoveDisconnect
    <3>2. Linked(tree') = Linked(tree) \ {FromEnd(path, 1)}
      BY <2>5, RemoveDisconnectStep
    <3> QED
      BY <1>1, <3>1, <3>2
  <2>6. CASE FiniRipOut
    <3>1. node \in Linked(tree)
      BY <2>6, LeftmostLinked DEF FiniRipOut
    <3>2. Linked(tree') = Linked(tree) \ {node}
      BY <2>6, FiniRipOutStep
    <3> QED
      BY <1>1, <3>1, <3>2
  <2>7. CASE \/ InsertFixupRoot \/ InsertFixupBlackParent \/ InsertFixupRotate
             \/ InsertFixupRecolor
             \/ RemoveFixupRed \/ RemoveFixupRoot \/ RemoveFixupRedSibling
             \/ RemoveFixupRedNephew \/ RemoveFixupAllBlack
    <3>1. pc \in {"insert_fixup", "remove_fixup"}
      BY <2>7 DEF InsertFixupRoot, InsertFixupBlackParent, InsertFixupRotate, InsertFixupRecolor,
         DoubleRed, RemoveFixupRed, RemoveFixupRoot, RemoveFixupRedSibling, RemoveFixupRedNephew,
         RemoveFixupAllBlack, Deficit
    <3>2. cur = <<>>
      BY <3>1 DEF CursorControl
    <3> QED
      BY <1>1, <3>2
  <2> QED
    BY <1>1, <2>1, <2>2, <2>3, <2>4, <2>5, <2>6, <2>7 DEF Next, Proceed
<1>4. CASE cur' = <<>>
  <2>1. IsPath(tree'.left, tree'.right, tree'.root, <<>>)
    BY DEF IsPath
  <2> QED
    BY <1>1, <1>2, <1>4, <2>1 DEF CursorControl
<1>5. CASE cur' = cur /\ pc' = "disconnect"
  BY <1>1, <1>2, <1>5 DEF CursorControl
<1>6. CASE cur' = cur /\ tree' = tree /\ pc # "disconnect" /\ pc' \notin {"insert_fixup", "remove_fixup"}
  BY <1>1, <1>2, <1>6 DEF CursorControl
<1> QED
  BY <1>1, <1>3, <1>4, <1>5, <1>6

\* All that is known of the tree, the call under way and the cursor.
AllInv == Inv /\ Answers /\ CursorInv

\* It holds before the first call.
LEMMA AllInvInit == CInit => AllInv
<1> SUFFICES ASSUME CInit PROVE AllInv
  OBVIOUS
<1>1. Inv
  BY InitInv DEF CInit
<1>2. /\ pc = "idle" /\ cur = <<>> /\ cpc = "idle" /\ cnode = NULL /\ cn = 0
      /\ cop = "none" /\ ckey = NULL /\ was = NULL /\ closing = FALSE
  BY DEF CInit, CursorInit, Init
<1>3. Answers
  BY <1>2 DEF Answers
<1>4. CursorInv
  <2>1. <<>> \in Seq(Node) /\ IsPath(tree.left, tree.right, tree.root, <<>>)
    BY DEF IsPath
  <2> QED
    BY <1>2, <2>1 DEF CursorInv, CursorControl, CursorSearch, Ptr
<1> QED
  BY <1>1, <1>3, <1>4 DEF AllInv

\* And every step keeps it.
LEMMA AllInvStep ==
  ASSUME AllInv, [TreeNext \/ CursorNext]_allVars
  PROVE  AllInv'
<1>1. Inv /\ Answers /\ CursorInv /\ CursorControl
  BY DEF AllInv, CursorInv
<1>2. CASE UNCHANGED allVars
  <2>1. UNCHANGED vars /\ UNCHANGED <<cur, cpc, cnode, cn, cop, ckey, was>>
    BY <1>2 DEF allVars, cursorVars, cursorLocals
  <2>2. Inv' /\ Answers'
    BY <1>1, <2>1, NextInv, AnswersStep
  <2>3. CursorInv'
    BY <1>1, <2>1 DEF CursorInv, CursorControl, CursorSearch, Confines, Alike, Nears, Tops,
       Ahead, Current, FromEnd, vars
  <2> QED
    BY <2>2, <2>3 DEF AllInv
<1>3. CASE TreeNext
  <2>1. Inv' /\ Answers'
    BY <1>1, <1>3, NextInv, AnswersStep DEF TreeNext
  <2>2. CursorControl' /\ cpc' = "idle"
    BY <1>1, <1>3, TreeNextKeeps
  <2>3. CursorInv'
    BY <2>2 DEF CursorInv, CursorSearch
  <2> QED
    BY <2>1, <2>3 DEF AllInv
<1>4. CASE CursorNext
  <2>1. Inv' /\ Answers' /\ tree' = tree
    BY <1>1, <1>4, CursorKeepsInv
  <2>2. CursorInv'
    BY <1>1, <1>4, <2>1, CursorNextKeeps
  <2> QED
    BY <2>1, <2>2 DEF AllInv
<1> QED
  BY <1>2, <1>3, <1>4

\* Every state of a history of calls to a tree and its cursor satisfies it.
THEOREM CursorInvariance == CSpec => []AllInv
<1>1. CInit => AllInv
  BY AllInvInit
<1>2. AllInv /\ [TreeNext \/ CursorNext]_allVars => AllInv'
  BY AllInvStep
<1> QED
  BY <1>1, <1>2, PTL DEF CSpec

-----------------------------------------------------------------------------
(* The other steps of the tree do what Set says.                           *)

\* The removed node was the only one equal to the key.
LEMMA RemoveDisconnectRefines ==
  ASSUME Inv, Answers, CursorControl, TreeNext, RemoveDisconnect
  PROVE  Set!Next
<1> DEFINE v == FromEnd(path, 1)
<1>1. /\ pc = "disconnect" /\ pc' \in {"idle", "remove_fixup"} /\ ret' = v
      /\ closing' = closing /\ cpc = "idle" /\ cpc' = "idle"
  BY DEF RemoveDisconnect, Return, TreeNext, cursorLocals
<1>2. /\ v \in Linked(tree) /\ v \in Node /\ Alike(key) = {v}
      /\ op = "remove" /\ key \in Node
  BY <1>1, VictimLinked DEF Answers
<1>3. Inv' /\ Linked(tree') = Linked(tree) \ {v}
  BY RemoveDisconnectStep
<1> HIDE DEF v
<1>4. Members = Linked(tree) /\ Members' = Linked(tree) \ {v}
  BY <1>3, MembersLinked
<1>5. cur' = <<>>
  BY <1>2, <1>3 DEF TreeNext
<1>6. PICK k \in Node : k = key
  BY <1>2
<1>7. /\ Asked = <<"remove", k>> /\ Asked' = <<"none", NULL>> /\ Position' = NULL
  BY <1>1, <1>2, <1>5, <1>6 DEF Asked, Position, Current, FromEnd
<1>8. Set!Equal(k) = {v}
  BY <1>2, <1>4, <1>6 DEF Set!Equal, Alike, Members
<1>9. Set!First({v}) = v
  <2>1. {v} \in SUBSET Node /\ v \in {v} /\ KeyOf[v] \in Int
    BY <1>2, KeyAssumption
  <2> QED
    BY <2>1, FirstIs
<1>10. Set!Remove(k)
  BY <1>1, <1>4, <1>7, <1>8, <1>9 DEF Set!Remove, Set!Answer, Set!NoCall, Members, Asked, Position
<1> QED
  BY <1>10, CallOfSet

\* The teardown hands out one node, or all are gone.
LEMMA FiniRefines ==
  ASSUME Inv, Answers, CursorControl, TreeNext, FiniRipOut \/ FiniEmpty
  PROVE  Set!Next
<1>1. /\ pc = "fini" /\ pc' = "idle" /\ ret' = node /\ cpc = "idle" /\ cpc' = "idle"
      /\ op = "fini" /\ key = NULL
  BY DEF FiniRipOut, FiniEmpty, Return, TreeNext, cursorLocals, Answers
<1>2. Asked = <<"fini", NULL>> /\ Asked' = <<"none", NULL>>
  BY <1>1 DEF Asked
<1>3. CASE FiniRipOut
  <2>1. node # NULL /\ closing' = closing /\ node \in Linked(tree)
    BY <1>3, LeftmostLinked DEF FiniRipOut
  <2>2. Inv' /\ Linked(tree') = Linked(tree) \ {node}
    BY <1>3, FiniRipOutStep
  <2>3. Members = Linked(tree) /\ Members' = Linked(tree) \ {node}
    BY <2>2, MembersLinked
  <2>4. cur' = <<>>
    BY <2>1, <2>2 DEF TreeNext
  <2>5. Position' = NULL
    BY <1>1, <2>4 DEF Position, Current, FromEnd
  <2>6. PICK n \in Members : n = node
    BY <2>1, <2>3
  <2>7. Set!FiniStep
    BY <1>1, <1>2, <2>1, <2>3, <2>5, <2>6
       DEF Set!FiniStep, Set!Answer, Set!NoCall, Members, Asked, Position
  <2> QED
    BY <2>7 DEF Set!Next
<1>4. CASE FiniEmpty
  <2>1. node = NULL /\ closing' = FALSE /\ tree' = tree
    BY <1>4 DEF FiniEmpty
  <2>2. tree.root = NULL
    BY <1>1, <2>1 DEF Inv, Control
  <2>3. Linked(tree) = {}
    <3>1. PICK sub : Ordering(tree, sub, KeyOf)
      BY <1>1, OrderedTree
    <3>2. sub[tree.root] = {}
      BY <2>2, <3>1 DEF Ordering, RootedTree, SearchTree, Spans
    <3> QED
      BY <3>1, <3>2, MembersBelow
  <2>4. cur' = <<>>
    <3>1. cur = <<>> \/ cur[1] = NULL
      BY <1>1, <2>2 DEF CursorControl, IsPath
    <3>2. cur \in Seq(Node)
      BY DEF CursorControl
    <3>3. cur = <<>>
      BY <3>1, <3>2, NullAssumption
    <3> QED
      BY <2>1, <3>3 DEF TreeNext
  <2>5. Position' = NULL
    BY <1>1, <2>4 DEF Position, Current, FromEnd
  <2>6. Inv'
    BY NextInv DEF TreeNext
  <2>7. Members = {} /\ Members' = {}
    BY <2>1, <2>3, <2>6, MembersLinked
  <2>8. Set!FiniStep
    BY <1>1, <1>2, <2>1, <2>5, <2>7
       DEF Set!FiniStep, Set!Answer, Set!NoCall, Members, Asked, Position
  <2> QED
    BY <2>8 DEF Set!Next
<1> QED
  BY <1>3, <1>4

\* Every step of the tree is one of Set, or none.
LEMMA TreeRefines ==
  ASSUME Inv, Answers, CursorControl, TreeNext
  PROVE  Set!Next \/ UNCHANGED Set!vars
<1>1. Next
  BY DEF TreeNext
<1>2. CASE Start
  BY <1>2, CallRefines
<1>3. CASE InsertLink
  BY <1>3, InsertLinkRefines
<1>4. CASE LookupReturn \/ InsertDuplicate \/ RemoveMissing
  BY <1>4, LookRefines
<1>5. CASE RemoveDisconnect
  BY <1>5, RemoveDisconnectRefines
<1>6. CASE FiniRipOut \/ FiniEmpty
  BY <1>6, FiniRefines
<1>7. CASE \/ LookupDescend \/ RemoveInPlace \/ RemoveSwapChild \/ RemoveSeekSuccessor
           \/ LeftmostDescend \/ RemoveSwapSuccessor \/ FiniDescend
           \/ InsertFixupRoot \/ InsertFixupBlackParent \/ InsertFixupRotate \/ InsertFixupRecolor
           \/ RemoveFixupRed \/ RemoveFixupRoot \/ RemoveFixupRedSibling
           \/ RemoveFixupRedNephew \/ RemoveFixupAllBlack
  BY <1>7, TreeStutters
<1> QED
  BY <1>1, <1>2, <1>3, <1>4, <1>5, <1>6, <1>7 DEF Next, Proceed

-----------------------------------------------------------------------------
(* So do the steps of the cursor.                                          *)

\* A call of the cursor is asked.
LEMMA CursorCallRefines ==
  ASSUME Inv, Answers, CursorControl,
         CallHead \/ CallTail \/ CallLookupEx \/ CallNext \/ CallPrev
  PROVE  Set!Next
<1>1. CursorNext
  BY DEF CursorNext
<1>2. /\ pc = "idle" /\ cpc = "idle" /\ ~closing /\ was' = Current /\ ret' = ret
      /\ cpc' \in {"leftmost", "rightmost", "lookup_ex", "climb_next", "climb_prev"}
  BY DEF CallHead, CallTail, CallLookupEx, CallNext, CallPrev, CallNeighbour, Enter, vars, MayCall
<1>3. Inv' /\ tree' = tree /\ closing' = closing /\ closing \in BOOLEAN
  BY <1>1, CursorKeepsInv DEF Inv, Control, TypeOK
<1>4. Members = Linked(tree) /\ Members' = Linked(tree)
  BY <1>3, MembersLinked
<1>5. /\ Asked = <<"none", NULL>> /\ Asked' = <<cop', ckey'>> /\ Position' = Position
  BY <1>2 DEF Asked, Position
<1>6. \E c \in Set!Calls : Asked' = c /\ c[1] \notin {"insert", "fini"}
  <2>1. \/ cop' \in {"head", "tail", "next", "prev"} /\ ckey' = NULL
        \/ cop' = "lookup_ex" /\ ckey' \in Node
    BY DEF CallHead, CallTail, CallLookupEx, CallNext, CallPrev, CallNeighbour, Enter
  <2>2. <<cop', ckey'>> \in Set!Calls
    BY <2>1 DEF Set!Calls
  <2>3. <<cop', ckey'>>[1] = cop' /\ cop' \notin {"insert", "fini"}
    BY <2>1
  <2> QED
    BY <1>5, <2>2, <2>3
<1>7. PICK c \in Set!Calls : Asked' = c /\ c[1] \notin {"insert", "fini"}
  BY <1>6
<1>8. Set!Ask(c)
  BY <1>2, <1>3, <1>4, <1>5, <1>7 DEF Set!Ask, Set!NoCall, Members, Asked, Position
<1> QED
  BY <1>8 DEF Set!Next

\* The loops of the cursor are not seen.
LEMMA CursorStutters ==
  ASSUME Inv, Answers, CursorControl, DescendStep \/ LookupExStep \/ ClimbStep
  PROVE  UNCHANGED Set!vars
<1>1. CursorNext
  BY DEF CursorNext
<1>2. Inv' /\ tree' = tree
  BY <1>1, CursorKeepsInv
<1>3. /\ cpc # "idle" /\ cpc' = cpc /\ UNCHANGED <<closing, ret, cop, ckey, was>>
  BY DEF DescendStep, LookupExStep, ClimbStep, vars
<1>4. Members' = Members
  BY <1>2, MembersLinked
<1>5. Asked' = Asked /\ Position' = Position
  BY <1>3 DEF Asked, Position
<1> QED
  BY <1>3, <1>4, <1>5 DEF Set!vars, Members, Asked, Position

\* Members that have different keys.
LEMMA MembersDiffer ==
  ASSUME Inv, pc # "disconnect"
  PROVE  \A m, n \in Linked(tree) : KeyOf[m] = KeyOf[n] => m = n
<1>1. PICK sub : Ordering(tree, sub, KeyOf)
  BY OrderedTree
<1>2. /\ SearchTree(tree.left, tree.right, sub, KeyOf) /\ tree.root \in Ptr
      /\ Linked(tree) = sub[tree.root]
  BY <1>1, MembersBelow DEF Ordering, RootedTree
<1> QED
  BY <1>2, KeysDiffer

\* The cursor moves to x, or has nowhere to go.
LEMMA MoveRefines ==
  ASSUME Inv, Answers, CursorControl, CursorNext, cpc # "idle", cpc' = "idle",
         NEW x \in Ptr, ret' = x, Current' = IF x = NULL /\ cop \in {"next", "prev"} THEN was ELSE x,
         cop \in {"head", "tail", "next", "prev"},
         x = NULL => Ahead = {},
         x # NULL => /\ x \in Ahead
                     /\ cop \in {"head", "next"} => \A m \in Ahead : KeyOf[x] <= KeyOf[m]
                     /\ cop \in {"tail", "prev"} => \A m \in Ahead : KeyOf[m] <= KeyOf[x]
  PROVE  Set!Next
<1>1. Inv' /\ tree' = tree /\ closing' = closing /\ pc' = pc
  BY CursorKeepsInv
<1>2. Members = Linked(tree) /\ Members' = Linked(tree) /\ Linked(tree) \in SUBSET Node
  BY <1>1, MembersLinked, MembersBelow
<1>3. ckey = NULL /\ was \in Ptr /\ pc = "idle"
  BY DEF CursorControl
<1>4. /\ Asked = <<cop, NULL>> /\ Asked' = <<"none", NULL>> /\ Position = was /\ Position' = Current'
  BY <1>1, <1>3 DEF Asked, Position
<1>5. Ahead \in SUBSET Node /\ \A m, n \in Ahead : KeyOf[m] = KeyOf[n] => m = n
  BY <1>2, <1>3, MembersDiffer DEF Ahead
<1>6. cop \in {"head", "next"} => Set!First(Ahead) = x
  <2>1. CASE x = NULL
    BY <2>1 DEF Set!First
  <2>2. CASE x # NULL
    BY <1>5, <2>2, FirstIs
  <2> QED
    BY <2>1, <2>2
<1>7. cop \in {"tail", "prev"} => Set!Last(Ahead) = x
  <2>1. CASE x = NULL
    BY <2>1 DEF Set!Last
  <2>2. CASE x # NULL
    BY <1>5, <2>2, LastIs
  <2> QED
    BY <2>1, <2>2
<1>8. CASE cop \in {"head", "tail"}
  <2>1. Ahead = Linked(tree) /\ Current' = x
    BY <1>2, <1>8 DEF Ahead
  <2>2. Set!Head \/ Set!Tail
    BY <1>1, <1>2, <1>4, <1>6, <1>7, <1>8, <2>1
       DEF Set!Head, Set!Tail, Set!Answer, Set!NoCall, Set!MoveTo, Members, Asked, Position
  <2> QED
    BY <2>2 DEF Set!Next
<1>9. CASE cop = "next"
  <2>1. Ahead = Set!Successors
    <3>1. \A m \in Linked(tree) : was # NULL => (KeyOf[was] < KeyOf[m] <=> KeyOf[m] > KeyOf[was])
      OBVIOUS
    <3> QED
      BY <1>2, <1>4, <1>9, <3>1 DEF Ahead, Set!Successors, Members, Position
  <2>2. Set!GoNext
    BY <1>1, <1>2, <1>4, <1>6, <1>9, <2>1
       DEF Set!GoNext, Set!Step, Set!Answer, Set!NoCall, Set!MoveTo, Members, Asked, Position
  <2> QED
    BY <2>2 DEF Set!Next
<1>10. CASE cop = "prev"
  <2>1. Ahead = Set!Predecessors
    BY <1>2, <1>4, <1>10 DEF Ahead, Set!Predecessors, Members, Position
  <2>2. Set!GoPrev
    BY <1>1, <1>2, <1>4, <1>7, <1>10, <2>1
       DEF Set!GoPrev, Set!Step, Set!Answer, Set!NoCall, Set!MoveTo, Members, Asked, Position
  <2> QED
    BY <2>2 DEF Set!Next
<1> QED
  BY <1>8, <1>9, <1>10

\* The way down has ended at the first or the last of those ahead.
LEMMA DescendReturnRefines ==
  ASSUME Inv, Answers, CursorInv, DescendReturn
  PROVE  Set!Next
<1>1. /\ cpc \in {"leftmost", "rightmost"} /\ cnode = NULL /\ ret' = Current /\ cur' = cur
      /\ cpc' = "idle" /\ CursorControl
  BY DEF DescendReturn, CursorReturn, CursorInv
<1>2. /\ cur \in Seq(Node) /\ pc = "idle"
      /\ cur = <<>> => cop \in {"head", "tail"}
      /\ \/ cpc = "leftmost" /\ cop \in {"head", "next"}
         \/ cpc = "rightmost" /\ cop \in {"tail", "prev"}
  BY <1>1 DEF CursorControl
<1>3. /\ Current \in Ptr /\ Current' = Current
      /\ cur = <<>> => Current = NULL
      /\ cur # <<>> => Current # NULL /\ Current = cur[Len(cur)]
  <2>1. Current' = Current
    BY <1>1 DEF Current, FromEnd
  <2> QED
    BY <1>2, <2>1, CurrentIs, NullAssumption
<1>4. PICK sub : Ordering(tree, sub, KeyOf)
  BY <1>2, OrderedTree
<1>5. /\ SearchTree(tree.left, tree.right, sub, KeyOf)
      /\ SearchTree(tree.right, tree.left, sub, Minus)
      /\ Ahead \in SUBSET Node /\ CursorSearch(sub)
  BY <1>4, AheadIs DEF RootedTree, CursorInv
<1>6. /\ Current = NULL => Ahead = {}
      /\ Current # NULL => /\ Current \in Ahead
                           /\ cop \in {"head", "next"} => \A m \in Ahead : KeyOf[Current] <= KeyOf[m]
                           /\ cop \in {"tail", "prev"} => \A m \in Ahead : KeyOf[m] <= KeyOf[Current]
  <2>1. CASE cpc = "leftmost"
    <3>1. Nears(sub, KeyOf, Ahead, cur, NULL)
      BY <1>1, <1>5, <2>1 DEF CursorSearch
    <3>2. /\ cur = <<>> => Ahead = {}
          /\ cur # <<>> => cur[Len(cur)] \in Ahead /\ \A m \in Ahead : KeyOf[cur[Len(cur)]] <= KeyOf[m]
      BY <1>2, <1>5, <3>1, NearsEnd
    <3> QED
      BY <1>2, <1>3, <2>1, <3>2
  <2>2. CASE cpc = "rightmost"
    <3>1. Nears(sub, Minus, Ahead, cur, NULL)
      BY <1>1, <1>5, <2>2 DEF CursorSearch
    <3>2. /\ cur = <<>> => Ahead = {}
          /\ cur # <<>> => cur[Len(cur)] \in Ahead /\ \A m \in Ahead : Minus[cur[Len(cur)]] <= Minus[m]
      BY <1>2, <1>5, <3>1, NearsEnd
    <3>3. \A m \in Node : KeyOf[m] \in Int /\ Minus[m] = -KeyOf[m]
      BY KeyAssumption DEF Minus
    <3>4. \A m, n \in Node : Minus[n] <= Minus[m] => KeyOf[m] <= KeyOf[n]
      BY <3>3
    <3> QED
      BY <1>2, <1>3, <1>5, <2>2, <3>2, <3>4
  <2> QED
    BY <1>1, <2>1, <2>2
<1>7. CursorNext /\ cpc # "idle" /\ cop \in {"head", "tail", "next", "prev"}
  BY <1>1, <1>2 DEF CursorNext
<1>8. Current = NULL => cop \notin {"next", "prev"}
  BY <1>2, <1>3
<1>9. PICK x \in Ptr : x = Current
  BY <1>3
<1> QED
  BY <1>1, <1>3, <1>6, <1>7, <1>8, <1>9, MoveRefines

\* The climb has come to the nearest one, or to the end.
LEMMA ClimbReturnRefines ==
  ASSUME Inv, Answers, CursorInv, ClimbReturn
  PROVE  Set!Next
<1>1. /\ cpc \in {"climb_next", "climb_prev"} /\ cpc' = "idle" /\ CursorControl
      /\ cn > 1 => cur[cn] # (IF cpc = "climb_next" THEN tree.right ELSE tree.left)[cur[cn - 1]]
      /\ cn - 1 < 1 => ret' = NULL /\ cur' = cur
      /\ ~(cn - 1 < 1) => ret' = cur[cn - 1] /\ cur' = SubSeq(cur, 1, cn - 1)
  BY DEF ClimbReturn, ClimbsOn, FromSide, CursorReturn, CursorInv
<1>2. /\ cur \in Seq(Node) /\ pc = "idle" /\ was = Current /\ cn \in Nat /\ Len(cur) \in Nat
      /\ IF cur = <<>> THEN cn = 0 ELSE cn \in 1 .. Len(cur)
      /\ IsPath(tree.left, tree.right, tree.root, cur)
      /\ \/ cpc = "climb_next" /\ cop = "next"
         \/ cpc = "climb_prev" /\ cop = "prev"
  BY <1>1 DEF CursorControl
<1>3. /\ was \in Ptr
      /\ cur = <<>> => was = NULL
      /\ cur # <<>> => was \in Node /\ was = cur[Len(cur)]
  BY <1>2, CurrentIs
<1>4. PICK sub : Ordering(tree, sub, KeyOf)
  BY <1>2, OrderedTree
<1>5. /\ RootedTree(tree.left, tree.right, tree.root, sub, KeyOf)
      /\ RootedTree(tree.right, tree.left, tree.root, sub, Minus)
      /\ IsPath(tree.right, tree.left, tree.root, cur)
      /\ Ahead \in SUBSET Node /\ CursorSearch(sub)
      /\ was = NULL => Ahead = {}
      /\ was \in Node /\ cop = "next" => Ahead = {m \in sub[tree.root] : KeyOf[was] < KeyOf[m]}
      /\ was \in Node /\ cop = "prev" => Ahead = {m \in sub[tree.root] : Minus[was] < Minus[m]}
  BY <1>2, <1>4, AheadIs DEF CursorInv, IsPath
<1> DEFINE x == IF cn - 1 < 1 THEN NULL ELSE cur[cn - 1]
<1>6. /\ cn - 1 < 1 => Ahead = {}
      /\ ~(cn - 1 < 1) =>
           /\ cur[cn - 1] \in Ahead
           /\ cop = "next" => \A m \in Ahead : KeyOf[cur[cn - 1]] <= KeyOf[m]
           /\ cop = "prev" => \A m \in Ahead : KeyOf[m] <= KeyOf[cur[cn - 1]]
  <2>1. CASE cur = <<>>
    BY <1>2, <1>3, <1>5, <2>1
  <2>2. CASE cur # <<>> /\ cpc = "climb_next"
    <3>1. /\ Tops(sub, KeyOf, cur, cn, cur[Len(cur)]) /\ cn \in 1 .. Len(cur)
          /\ cn > 1 => cur[cn] # tree.right[cur[cn - 1]]
      BY <1>1, <1>2, <1>3, <1>5, <2>2 DEF CursorSearch
    <3>2. Ahead = {m \in sub[tree.root] : KeyOf[cur[Len(cur)]] < KeyOf[m]}
      BY <1>2, <1>3, <1>5, <2>2
    <3>3. /\ cn = 1 => Ahead = {}
          /\ cn > 1 => cur[cn - 1] \in Ahead /\ \A m \in Ahead : KeyOf[cur[cn - 1]] <= KeyOf[m]
      <4>1. /\ RootedTree(tree.left, tree.right, tree.root, sub, KeyOf) /\ cur \in Seq(Node)
            /\ IsPath(tree.left, tree.right, tree.root, cur)
        BY <1>2, <1>3, <1>5, <2>2
      <4> QED
        BY ONLY <3>1, <3>2, <4>1, TopsEnd
    <3> QED
      BY <1>2, <2>2, <3>1, <3>3
  <2>3. CASE cur # <<>> /\ cpc = "climb_prev"
    <3>1. /\ Tops(sub, Minus, cur, cn, cur[Len(cur)]) /\ cn \in 1 .. Len(cur)
          /\ cn > 1 => cur[cn] # tree.left[cur[cn - 1]]
      BY <1>1, <1>2, <1>3, <1>5, <2>3 DEF CursorSearch
    <3>2. Ahead = {m \in sub[tree.root] : Minus[cur[Len(cur)]] < Minus[m]}
      BY <1>2, <1>3, <1>5, <2>3
    <3>3. /\ cn = 1 => Ahead = {}
          /\ cn > 1 => cur[cn - 1] \in Ahead /\ \A m \in Ahead : Minus[cur[cn - 1]] <= Minus[m]
      <4>1. /\ RootedTree(tree.right, tree.left, tree.root, sub, Minus) /\ cur \in Seq(Node)
            /\ IsPath(tree.right, tree.left, tree.root, cur)
        BY <1>2, <1>3, <1>5, <2>3
      <4> QED
        BY ONLY <3>1, <3>2, <4>1, TopsEnd
    <3>4. \A m \in Node : KeyOf[m] \in Int /\ Minus[m] = -KeyOf[m]
      BY KeyAssumption DEF Minus
    <3>5. \A m, n \in Node : Minus[n] <= Minus[m] => KeyOf[m] <= KeyOf[n]
      BY <3>4
    <3> QED
      BY <1>2, <1>5, <2>3, <3>1, <3>3, <3>5
  <2> QED
    BY <1>1, <2>1, <2>2, <2>3
<1>7. ret' = x /\ Current' = IF x = NULL THEN was ELSE x
  <2>1. CASE cn - 1 < 1
    <3>1. Current' = Current
      BY <1>1, <2>1 DEF Current, FromEnd
    <3> QED
      BY <1>1, <1>2, <2>1, <3>1
  <2>2. CASE ~(cn - 1 < 1)
    <3>1. cn - 1 \in 1 .. Len(cur) /\ cn - 1 \in Nat \ {0}
      BY <1>2, <2>2
    <3>2. /\ Len(cur') = cn - 1 /\ cur'[cn - 1] = cur[cn - 1] /\ cur[cn - 1] \in Node
      BY <1>1, <1>2, <2>2, <3>1, PathCut
    <3>3. Current' = cur[cn - 1]
      BY <3>1, <3>2 DEF Current, FromEnd
    <3> QED
      BY <1>1, <2>2, <3>2, <3>3, NullAssumption
  <2> QED
    BY <2>1, <2>2
<1>8. /\ x \in Ptr
      /\ x = NULL => Ahead = {}
      /\ x # NULL => /\ x \in Ahead
                     /\ cop \in {"head", "next"} => \A m \in Ahead : KeyOf[x] <= KeyOf[m]
                     /\ cop \in {"tail", "prev"} => \A m \in Ahead : KeyOf[m] <= KeyOf[x]
  BY <1>2, <1>5, <1>6, NullAssumption DEF Ptr
<1> HIDE DEF x
<1>9. CursorNext /\ cpc # "idle" /\ cop \in {"next", "prev"}
  BY <1>1, <1>2 DEF CursorNext
<1>10. PICK y \in Ptr : y = x
  BY <1>8
<1> QED
  BY <1>1, <1>7, <1>8, <1>9, <1>10, MoveRefines

\* The lookup has come to the node that is equal, or there is none.
LEMMA LookupExReturnRefines ==
  ASSUME Inv, Answers, CursorInv, LookupExReturn
  PROVE  Set!Next
<1>1. /\ cpc = "lookup_ex" /\ cpc' = "idle" /\ ret' = cnode /\ CursorControl
      /\ cnode # NULL => KeyOf[ckey] = KeyOf[cnode]
      /\ cur' = IF cnode = NULL THEN <<>> ELSE Append(cur, cnode)
  BY DEF LookupExReturn, CursorReturn, CursorInv
<1>2. /\ cur \in Seq(Node) /\ pc = "idle" /\ cnode \in Ptr /\ ckey \in Node /\ cop = "lookup_ex"
  BY <1>1 DEF CursorControl
<1>3. Inv' /\ tree' = tree /\ closing' = closing /\ pc' = pc
  <2>1. CursorNext
    BY DEF CursorNext
  <2> QED
    BY <1>1, <2>1, CursorKeepsInv
<1>4. Members = Linked(tree) /\ Members' = Linked(tree)
  BY <1>3, MembersLinked
<1>5. Current' = cnode
  <2>1. CASE cnode = NULL
    BY <1>1, <2>1 DEF Current, FromEnd
  <2>2. CASE cnode # NULL
    <3>1. Len(cur') = Len(cur) + 1 /\ Len(cur) \in Nat /\ cur'[Len(cur) + 1] = cnode
      BY <1>1, <1>2, <2>2
    <3> QED
      BY <3>1 DEF Current, FromEnd
  <2> QED
    BY <2>1, <2>2
<1>6. PICK k \in Node : k = ckey
  BY <1>2
<1>7. /\ Asked = <<"lookup_ex", k>> /\ Asked' = <<"none", NULL>> /\ Position' = cnode
  BY <1>1, <1>2, <1>3, <1>5, <1>6 DEF Asked, Position
<1>8. /\ cnode = NULL => Alike(k) = {}
      /\ cnode # NULL => Alike(k) = {cnode}
  <2>1. PICK sub : Ordering(tree, sub, KeyOf)
    BY <1>2, OrderedTree
  <2>2. Confines(sub, k, cnode)
    BY <1>1, <1>6, <2>1 DEF CursorInv, CursorSearch
  <2> QED
    BY <1>1, <1>2, <1>6, <2>1, <2>2, SearchEnds
<1>9. Set!Equal(k) = Alike(k)
  BY <1>4 DEF Set!Equal, Alike, Members
<1>10. Set!First(Alike(k)) = cnode
  <2>1. CASE cnode = NULL
    BY <1>8, <2>1 DEF Set!First
  <2>2. CASE cnode # NULL
    <3>1. {cnode} \in SUBSET Node /\ cnode \in {cnode} /\ KeyOf[cnode] \in Int
      BY <1>2, <2>2, KeyAssumption DEF Ptr
    <3>2. Set!First({cnode}) = cnode
      BY <3>1, FirstIs
    <3> QED
      BY <1>8, <2>2, <3>2
  <2> QED
    BY <2>1, <2>2
<1>11. Set!LookupEx(k)
  BY <1>1, <1>3, <1>4, <1>7, <1>9, <1>10 DEF Set!LookupEx, Set!Answer, Set!NoCall, Set!MoveTo,
     Members, Asked, Position
<1> QED
  BY <1>11, CallOfSet

\* The set is empty before the first call.
LEMMA InitRefines == CInit => Set!Init
<1> SUFFICES ASSUME CInit PROVE Set!Init
  OBVIOUS
<1>1. Inv
  BY InitInv DEF CInit
<1>2. /\ tree.left = [n \in Node |-> NULL] /\ tree.right = [n \in Node |-> NULL]
      /\ tree.root = NULL /\ closing = FALSE /\ pc = "idle" /\ ret = NULL
      /\ cur = <<>> /\ cpc = "idle"
  BY DEF CInit, Init, CursorInit
<1>3. Linked(tree) = {}
  BY <1>2, NullAssumption DEF Linked
<1>4. Members = {}
  BY <1>1, <1>3, MembersBelow DEF Members
<1>5. Asked = <<"none", NULL>> /\ Position = NULL
  BY <1>2 DEF Asked, Position, Current, FromEnd
<1> QED
  BY <1>2, <1>4, <1>5 DEF Set!Init, Set!NoCall, Members, Asked, Position

\* Every step does to the set what its function is for, or nothing.
LEMMA NextRefines ==
  ASSUME AllInv, [TreeNext \/ CursorNext]_allVars
  PROVE  [Set!Next]_Set!vars
<1>1. Inv /\ Answers /\ CursorInv /\ CursorControl
  BY DEF AllInv, CursorInv
<1>2. CASE UNCHANGED allVars
  <2>1. UNCHANGED <<tree, closing, ret, pc, op, key, cur, cpc, cop, ckey, was>>
    BY <1>2 DEF allVars, vars, cursorVars, cursorLocals
  <2> QED
    BY <2>1 DEF Set!vars, Members, Position, Asked, InOrder, Current, FromEnd
<1>3. CASE TreeNext
  BY <1>1, <1>3, TreeRefines
<1>4. CASE CursorNext
  BY <1>1, <1>4, CursorCallRefines, CursorStutters, DescendReturnRefines, LookupExReturnRefines,
     ClimbReturnRefines DEF CursorNext
<1> QED
  BY <1>2, <1>3, <1>4

\* The tree with its cursor is the ordered set that the header promises.
THEOREM RefinesOrderedSet == CSpec => ImplementsOrderedSet
<1>1. CInit => Set!Init
  BY InitRefines
<1>2. AllInv /\ [TreeNext \/ CursorNext]_allVars => [Set!Next]_Set!vars
  BY NextRefines
<1> QED
  BY <1>1, <1>2, CursorInvariance, PTL DEF CSpec, ImplementsOrderedSet, Set!Spec

-----------------------------------------------------------------------------
(* The stack of the cursor.                                                *)

\* No call of the cursor writes past the end of its stack.
LEMMA CursorFitsStep ==
  ASSUME StackIsLarge, AllInv, AllInv', Len(cur) <= Capacity,
         [TreeNext \/ CursorNext]_allVars
  PROVE  Len(cur') <= Capacity
<1>1. Inv /\ Inv' /\ CursorControl /\ CursorControl'
  BY DEF AllInv, CursorInv
<1>2. CASE UNCHANGED allVars
  BY <1>2 DEF allVars, cursorVars
<1>3. CASE TreeNext
  <2>1. cur' = cur \/ cur' = <<>>
    BY <1>3 DEF TreeNext
  <2>2. Len(<<>>) <= Capacity
    BY CapacityAssumption
  <2> QED
    BY <2>1, <2>2
<1>4. CASE CursorNext
  <2>1. pc = "idle" /\ ~closing
    <3>1. cpc # "idle" \/ MayCall
      BY <1>4 DEF CursorNext, CallHead, CallTail, CallLookupEx, CallNext, CallPrev, CallNeighbour,
         DescendStep, DescendReturn, LookupExStep, LookupExReturn, ClimbStep, ClimbReturn
    <3> QED
      BY <1>1, <3>1 DEF CursorControl, MayCall
  <2>2. UNCHANGED <<tree, closing, pc>>
    BY <1>1, <1>4, CursorKeepsInv DEF AllInv
  <2>3. tree \in Tree /\ Sound(tree) /\ \E sub : Ordering(tree, sub, KeyOf)
    BY <1>1, <2>1, OrderedTree DEF Inv, Colours
  <2>4. Shallow(tree)
    BY <2>3, SoundShallow
  <2>5. cur' \in Seq(Node) /\ IsPath(tree.left, tree.right, tree.root, cur')
    BY <1>1, <2>1, <2>2 DEF CursorControl
  <2>6. PICK p \in Seq(Node) : p = cur'
    BY <2>5
  <2> QED
    BY <2>3, <2>4, <2>5, <2>6, ShallowPath
<1> QED
  BY <1>2, <1>3, <1>4

\* What is on the stack is the way down from the root to the current node.
LEMMA InvCursorIsPath ==
  ASSUME AllInv, Len(cur) <= Capacity
  PROVE  CursorIsPath
<1>1. CursorControl
  BY DEF AllInv, CursorInv
<1>2. CursorTypeOK
  <2>1. /\ cur \in Seq(Node) /\ cnode \in Ptr /\ cn \in Nat /\ ckey \in Ptr /\ was \in Ptr
        /\ cpc \in {"idle", "leftmost", "rightmost", "climb_next", "climb_prev", "lookup_ex"}
        /\ cop \in {"none", "lookup_ex", "head", "tail", "next", "prev"}
    BY <1>1 DEF CursorControl
  <2> QED
    BY <2>1 DEF CursorTypeOK
<1>3. ASSUME pc = "idle", cur # <<>>
      PROVE  /\ cur[1] = tree.root
             /\ \A i \in 1 .. Len(cur) - 1 : cur[i + 1] \in {tree.left[cur[i]], tree.right[cur[i]]}
  BY <1>1, <1>3 DEF CursorControl, IsPath
<1> QED
  BY <1>2, <1>3 DEF CursorIsPath

\* The cursor is nowhere or the way down to its node, in a stack that is large
\* enough, whatever calls were made.
THEOREM CursorIsPathHolds ==
  ASSUME StackIsLarge
  PROVE  CSpec => []CursorIsPath
<1>1. CInit => Len(cur) <= Capacity
  BY CapacityAssumption DEF CInit, CursorInit
<1>2. /\ AllInv /\ AllInv' /\ Len(cur) <= Capacity /\ [TreeNext \/ CursorNext]_allVars
      => (Len(cur) <= Capacity)'
  BY CursorFitsStep
<1>3. AllInv /\ Len(cur) <= Capacity => CursorIsPath
  BY InvCursorIsPath
<1> QED
  BY <1>1, <1>2, <1>3, CursorInvariance, PTL DEF CSpec

=============================================================================
