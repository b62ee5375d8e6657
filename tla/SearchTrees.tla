---------------------------- MODULE SearchTrees ----------------------------
(***************************************************************************)
(* Facts about the trees that RBTree's records stand for.  A tree is given *)
(* by the functions a and b of its children.  The lemmas look at a and b   *)
(* from one side only: what they say of a left and a right they say of a   *)
(* right and a left as well (Mirrored).                                    *)
(*                                                                         *)
(* The definitions of RBTree that walk a tree are recursive.  Here a tree  *)
(* comes with sub, the set of nodes at and below each pointer, which has   *)
(* to fit its neighbours only; that there is such a sub says that no walk  *)
(* down goes in a circle.                                                  *)
(***************************************************************************)
EXTENDS RBTree, DoublingProofs, FiniteSetTheorems

\* sub[p] is made of p itself and of what its children have below them.
Spans(a, b, sub) ==
  /\ sub \in [Ptr -> SUBSET Node]
  /\ sub[NULL] = {}
  /\ \A n \in Node : sub[n] = {n} \cup sub[a[n]] \cup sub[b[n]]

\* Below a node, what is on side a has lesser keys and what is on side b greater.
Ascends(a, b, sub, K) ==
  \A n \in Node : /\ \A m \in sub[a[n]] : K[m] < K[n]
                  /\ \A m \in sub[b[n]] : K[n] < K[m]

SearchTree(a, b, sub, K) ==
  /\ a \in [Node -> Ptr] /\ b \in [Node -> Ptr] /\ K \in [Node -> Int]
  /\ Spans(a, b, sub)
  /\ Ascends(a, b, sub, K)

\* The same tree seen from the other side.
LEMMA Mirrored ==
  ASSUME NEW a, NEW b, NEW sub, NEW K, SearchTree(a, b, sub, K)
  PROVE  SearchTree(b, a, sub, [n \in Node |-> -K[n]])
<1> DEFINE L == [n \in Node |-> -K[n]]
<1>1. L \in [Node -> Int]
  BY DEF SearchTree
<1>2. Spans(b, a, sub)
  BY DEF SearchTree, Spans
<1>3. Ascends(b, a, sub, L)
  <2> SUFFICES ASSUME NEW n \in Node
               PROVE  /\ \A m \in sub[b[n]] : L[m] < L[n]
                      /\ \A m \in sub[a[n]] : L[n] < L[m]
    BY DEF Ascends
  <2>1. sub[a[n]] \subseteq Node /\ sub[b[n]] \subseteq Node
    BY DEF SearchTree, Spans
  <2>2. ASSUME NEW m \in sub[b[n]] PROVE L[m] < L[n]
    <3>1. m \in Node /\ K[n] < K[m] /\ K[n] \in Int /\ K[m] \in Int
      BY <2>1, <2>2 DEF SearchTree, Ascends
    <3> QED
      BY <3>1
  <2>3. ASSUME NEW m \in sub[a[n]] PROVE L[n] < L[m]
    <3>1. m \in Node /\ K[m] < K[n] /\ K[n] \in Int /\ K[m] \in Int
      BY <2>1, <2>3 DEF SearchTree, Ascends
    <3> QED
      BY <3>1
  <2> QED
    BY <2>2, <2>3
<1> QED
  BY <1>1, <1>2, <1>3 DEF SearchTree

\* What one node and its children look like.
LEMMA Locally ==
  ASSUME NEW a, NEW b, NEW sub, NEW K, SearchTree(a, b, sub, K), NEW n \in Node
  PROVE  /\ a[n] \in Ptr /\ b[n] \in Ptr
         /\ sub[n] = {n} \cup sub[a[n]] \cup sub[b[n]]
         /\ sub[n] \subseteq Node /\ sub[a[n]] \subseteq Node /\ sub[b[n]] \subseteq Node
         /\ n \in sub[n] /\ n \notin sub[a[n]] /\ n \notin sub[b[n]]
         /\ sub[a[n]] \cap sub[b[n]] = {}
         /\ a[n] # NULL => a[n] \in Node /\ a[n] \in sub[a[n]]
         /\ b[n] # NULL => b[n] \in Node /\ b[n] \in sub[b[n]]
         /\ a[n] # n /\ b[n] # n /\ (a[n] # NULL => a[n] # b[n])
<1>1. a[n] \in Ptr /\ b[n] \in Ptr
  BY DEF SearchTree
<1>2. /\ sub[n] = {n} \cup sub[a[n]] \cup sub[b[n]] /\ sub[n] \subseteq Node
      /\ sub[a[n]] \subseteq Node /\ sub[b[n]] \subseteq Node
  BY <1>1 DEF SearchTree, Spans, Ptr
<1>3. \A m \in Node : K[m] \in Int
  BY DEF SearchTree
<1>4. /\ \A m \in sub[a[n]] : K[m] < K[n]
      /\ \A m \in sub[b[n]] : K[n] < K[m]
  BY DEF SearchTree, Ascends
<1>5. n \notin sub[a[n]] /\ n \notin sub[b[n]] /\ sub[a[n]] \cap sub[b[n]] = {}
  BY <1>2, <1>3, <1>4
<1>6. /\ a[n] # NULL => a[n] \in Node /\ a[n] \in sub[a[n]]
      /\ b[n] # NULL => b[n] \in Node /\ b[n] \in sub[b[n]]
  <2>1. \A m \in Node : m \in sub[m]
    BY DEF SearchTree, Spans
  <2> QED
    BY <1>1, <2>1 DEF Ptr
<1>7. a[n] # n /\ b[n] # n /\ (a[n] # NULL => a[n] # b[n])
  BY <1>2, <1>5, <1>6
<1> QED
  BY <1>1, <1>2, <1>5, <1>6, <1>7

\* Induction over the nodes from the leaves upwards.
LEMMA TreeInduction ==
  ASSUME NEW a, NEW b, NEW sub, NEW K, SearchTree(a, b, sub, K),
         NEW S, NULL \in S,
         \A n \in Node : a[n] \in S /\ b[n] \in S => n \in S
  PROVE  Ptr \subseteq S
<1> SUFFICES ASSUME NEW c \in Ptr, c \notin S PROVE FALSE
  OBVIOUS
<1> DEFINE Size(n) == Cardinality(sub[n])
           Sizes == {Size(n) : n \in Node \ S}
<1>1. \A n \in Node : IsFiniteSet(sub[n]) /\ Size(n) \in Nat
  <2> SUFFICES ASSUME NEW n \in Node PROVE IsFiniteSet(sub[n]) /\ Size(n) \in Nat
    OBVIOUS
  <2>1. sub[n] \subseteq Node
    BY Locally
  <2>2. IsFiniteSet(sub[n])
    BY <2>1, NodeAssumption, FS_Subset
  <2> QED
    BY <2>2, FS_CardinalityType
<1>2. Sizes \in SUBSET Nat /\ Sizes # {}
  BY <1>1 DEF Ptr
<1>3. PICK s \in Sizes : \A u \in Sizes : s <= u
  <2> HIDE DEF Sizes
  <2> QED
    BY <1>2, LeastNat
<1>4. PICK n \in Node \ S : s = Size(n)
  OBVIOUS
<1>5. ASSUME NEW m \in {a[n], b[n]} PROVE m \in S
  <2> SUFFICES ASSUME m \notin S PROVE FALSE
    OBVIOUS
  <2>1. m \in Node /\ sub[m] \subseteq sub[n] /\ n \notin sub[m] /\ n \in sub[n]
    BY Locally DEF Ptr
  <2>2. Size(m) <= Size(n) /\ Size(m) # Size(n)
    <3>1. IsFiniteSet(sub[n]) /\ sub[m] \in SUBSET sub[n] /\ sub[m] # sub[n]
      BY <1>1, <2>1
    <3> QED
      BY <3>1, FS_Subset
  <2>3. Size(n) <= Size(m)
    BY <1>3, <1>4, <2>1
  <2> QED
    BY <1>1, <2>1, <2>2, <2>3
<1> QED
  BY <1>4, <1>5

\* What is below a node below p is below p.
LEMMA Below ==
  ASSUME NEW a, NEW b, NEW sub, NEW K, SearchTree(a, b, sub, K)
  PROVE  \A p \in Ptr : \A m \in sub[p] : sub[m] \subseteq sub[p]
<1> DEFINE S == {p \in Ptr : \A m \in sub[p] : sub[m] \subseteq sub[p]}
<1>1. NULL \in S
  BY DEF Ptr, SearchTree, Spans
<1>2. ASSUME NEW n \in Node, a[n] \in S, b[n] \in S PROVE n \in S
  <2>1. n \in Ptr /\ sub[n] = {n} \cup sub[a[n]] \cup sub[b[n]]
    BY Locally DEF Ptr
  <2> QED
    BY <1>2, <2>1
<1>3. Ptr \subseteq S
  <2> HIDE DEF S
  <2> QED
    BY <1>1, <1>2, TreeInduction
<1> QED
  BY <1>3

\* Two nodes of one tree have no child in common.
LEMMA OneParent ==
  ASSUME NEW a, NEW b, NEW sub, NEW K, SearchTree(a, b, sub, K),
         NEW r \in Ptr, NEW m \in sub[r], NEW n \in sub[r],
         NEW c \in Node, c \in {a[m], b[m]}, c \in {a[n], b[n]}
  PROVE  m = n
<1> DEFINE Shares(x, y) == c \in {a[x], b[x]} /\ c \in {a[y], b[y]}
           S == {p \in Ptr : \A x, y \in sub[p] : Shares(x, y) => x = y}
<1>1. NULL \in S
  BY DEF Ptr, SearchTree, Spans
<1>2. ASSUME NEW p \in Node, a[p] \in S, b[p] \in S PROVE p \in S
  <2>1. /\ p \in Ptr /\ sub[p] = {p} \cup sub[a[p]] \cup sub[b[p]]
        /\ sub[a[p]] \cap sub[b[p]] = {}
        /\ sub[a[p]] \subseteq Node /\ sub[b[p]] \subseteq Node
        /\ a[p] \in Ptr /\ b[p] \in Ptr
        /\ a[p] # NULL => a[p] \in sub[a[p]]
        /\ b[p] # NULL => b[p] \in sub[b[p]]
    BY Locally DEF Ptr
  <2>2. c # NULL
    BY NullAssumption
  <2>3. ASSUME NEW x \in Node, c \in {a[x], b[x]}
        PROVE  c \in sub[x] /\ sub[c] \subseteq sub[x] /\ x \notin sub[c]
    BY <2>2, <2>3, Locally
  <2>4. ASSUME NEW q \in {a[p], b[p]}, NEW y \in sub[q] PROVE ~Shares(p, y)
    <3> SUFFICES ASSUME Shares(p, y) PROVE FALSE
      OBVIOUS
    <3>1. y \in Node /\ c \in sub[y] /\ y \notin sub[c]
      BY <2>1, <2>3
    <3>2. c \in sub[q]
      BY <2>1, <3>1, Below
    <3>3. c = q
      BY <2>1, <2>2, <3>2
    <3> QED
      BY <3>1, <3>3
  <2>5. ASSUME NEW x \in sub[a[p]], NEW y \in sub[b[p]] PROVE ~Shares(x, y)
    <3> SUFFICES ASSUME Shares(x, y) PROVE FALSE
      OBVIOUS
    <3>1. c \in sub[x] /\ c \in sub[y]
      BY <2>1, <2>3
    <3>2. c \in sub[a[p]] /\ c \in sub[b[p]]
      BY <2>1, <3>1, Below
    <3> QED
      BY <2>1, <3>2
  <2> SUFFICES ASSUME NEW x \in sub[p], NEW y \in sub[p], Shares(x, y) PROVE x = y
    BY <2>1
  <2> HIDE DEF Shares
  <2>6. Shares(y, x)
    BY DEF Shares
  <2> QED
    BY <1>2, <2>1, <2>4, <2>5, <2>6
<1>3. Ptr \subseteq S
  <2> HIDE DEF S
  <2> QED
    BY <1>1, <1>2, TreeInduction
<1> QED
  BY <1>3

\* A child below n is n itself, or its parent is below n.
LEMMA ChildBelow ==
  ASSUME NEW a, NEW b, NEW sub, NEW K, SearchTree(a, b, sub, K),
         NEW r \in Ptr, NEW p \in sub[r], NEW c \in Node, c \in {a[p], b[p]},
         NEW n \in sub[r], c \in sub[n]
  PROVE  c = n \/ p \in sub[n]
<1> DEFINE S == {x \in Ptr : x \in sub[r] /\ c \in sub[x] => c = x \/ p \in sub[x]}
<1>1. NULL \in S
  BY DEF Ptr, SearchTree, Spans
<1>2. ASSUME NEW x \in Node, a[x] \in S, b[x] \in S PROVE x \in S
  <2> SUFFICES ASSUME x \in sub[r], c \in sub[x], c # x PROVE p \in sub[x]
    BY DEF Ptr
  <2>1. /\ sub[x] = {x} \cup sub[a[x]] \cup sub[b[x]] /\ x \in sub[x]
        /\ sub[NULL] = {}
        /\ a[x] # NULL => a[x] \in sub[a[x]]
        /\ b[x] # NULL => b[x] \in sub[b[x]]
    BY Locally DEF SearchTree, Spans
  <2>2. PICK y \in {a[x], b[x]} : c \in sub[y]
    BY <2>1
  <2>3. y \in sub[x] /\ y \in S
    BY <1>2, <2>1, <2>2
  <2>4. y \in sub[r] /\ sub[y] \subseteq sub[x]
    BY <2>1, <2>2, <2>3, Below
  <2>5. CASE c = y
    BY <2>1, <2>2, <2>5, OneParent
  <2>6. CASE p \in sub[y]
    BY <2>4, <2>6
  <2> QED
    BY <2>2, <2>3, <2>4, <2>5, <2>6
<1>3. Ptr \subseteq S
  <2> HIDE DEF S
  <2> QED
    BY <1>1, <1>2, TreeInduction
<1>4. n \in Ptr
  BY DEF SearchTree, Spans, Ptr
<1> QED
  BY <1>3, <1>4

\* No two nodes of a tree have the same key.
LEMMA KeysDiffer ==
  ASSUME NEW a, NEW b, NEW sub, NEW K, SearchTree(a, b, sub, K)
  PROVE  \A p \in Ptr : \A m, n \in sub[p] : K[m] = K[n] => m = n
<1> DEFINE S == {p \in Ptr : \A m, n \in sub[p] : K[m] = K[n] => m = n}
<1>1. /\ sub[NULL] = {} /\ NULL \in Ptr /\ K \in [Node -> Int]
      /\ sub \in [Ptr -> SUBSET Node]
  BY DEF SearchTree, Spans, Ptr
<1>2. NULL \in S
  BY <1>1
<1>3. ASSUME NEW n \in Node, a[n] \in S, b[n] \in S PROVE n \in S
  <2>1. /\ n \in Ptr /\ a[n] \in Ptr /\ b[n] \in Ptr /\ sub[n] = {n} \cup sub[a[n]] \cup sub[b[n]]
        /\ sub[a[n]] \subseteq Node /\ sub[b[n]] \subseteq Node
    BY <1>1, Locally DEF Ptr
  <2>2. /\ \A x \in sub[a[n]] : K[x] < K[n] /\ K[x] \in Int
        /\ \A x \in sub[b[n]] : K[n] < K[x] /\ K[x] \in Int
        /\ K[n] \in Int
    BY <1>1, <2>1 DEF SearchTree, Ascends
  <2>3. /\ \A x, y \in sub[a[n]] : K[x] = K[y] => x = y
        /\ \A x, y \in sub[b[n]] : K[x] = K[y] => x = y
    BY <1>3
  <2>4. \A x, y \in sub[n] : K[x] = K[y] => x = y
    BY ONLY <2>1, <2>2, <2>3
  <2> QED
    BY <2>1, <2>4
<1> HIDE DEF S
<1>4. Ptr \subseteq S
  BY <1>2, <1>3, TreeInduction
<1> QED
  BY <1>4 DEF S

\* A node that is not below p lies before all that is below p, or after.
LEMMA Convex ==
  ASSUME NEW a, NEW b, NEW sub, NEW K, SearchTree(a, b, sub, K)
  PROVE  \A q \in Ptr : \A p \in sub[q] : \A m \in sub[q] \ sub[p] : \A x, y \in sub[p] :
           K[m] < K[x] => K[m] < K[y]
<1> DEFINE Apart(q, p) == \A m \in sub[q] \ sub[p] : \A x, y \in sub[p] : K[m] < K[x] => K[m] < K[y]
           S == {q \in Ptr : \A p \in sub[q] : Apart(q, p)}
<1>1. /\ sub[NULL] = {} /\ NULL \in Ptr /\ K \in [Node -> Int]
      /\ sub \in [Ptr -> SUBSET Node]
  BY DEF SearchTree, Spans, Ptr
<1>2. NULL \in S
  BY <1>1
<1>3. ASSUME NEW n \in Node, a[n] \in S, b[n] \in S PROVE n \in S
  <2>1. /\ n \in Ptr /\ a[n] \in Ptr /\ b[n] \in Ptr /\ sub[n] = {n} \cup sub[a[n]] \cup sub[b[n]]
        /\ sub[a[n]] \subseteq Node /\ sub[b[n]] \subseteq Node
    BY <1>1, Locally DEF Ptr
  <2>2. /\ \A x \in sub[a[n]] : K[x] < K[n] /\ K[x] \in Int
        /\ \A x \in sub[b[n]] : K[n] < K[x] /\ K[x] \in Int
        /\ K[n] \in Int
    BY <1>1, <2>1 DEF SearchTree, Ascends
  <2>3. /\ \A p \in sub[a[n]] : sub[p] \subseteq sub[a[n]]
        /\ \A p \in sub[b[n]] : sub[p] \subseteq sub[b[n]]
    BY <2>1, Below
  <2>4. /\ \A p \in sub[a[n]] : Apart(a[n], p)
        /\ \A p \in sub[b[n]] : Apart(b[n], p)
    BY <1>3
  <2>5. ASSUME NEW p \in sub[a[n]] PROVE Apart(n, p)
    BY <2>1, <2>2, <2>3, <2>4
  <2>6. ASSUME NEW p \in sub[b[n]] PROVE Apart(n, p)
    BY <2>1, <2>2, <2>3, <2>4
  <2>7. Apart(n, n)
    OBVIOUS
  <2> HIDE DEF Apart
  <2> QED
    BY <2>1, <2>5, <2>6, <2>7
<1> HIDE DEF S
<1>4. Ptr \subseteq S
  BY <1>2, <1>3, TreeInduction
<1> QED
  BY <1>4 DEF S

-----------------------------------------------------------------------------
(* Recursion over a tree.                                                  *)

\* F makes a value for a node of those for its children.
IsStep(F, V) == F \in [Node -> [V -> [V -> V]]]

\* A function of the pointers may be defined by its value for NULL and, for a
\* node, by its values for the two children: there is one that satisfies this.
LEMMA TreeRecursion ==
  ASSUME NEW a, NEW b, NEW sub, NEW K, SearchTree(a, b, sub, K),
         NEW V, NEW z \in V, NEW F, IsStep(F, V)
  PROVE  \E w \in [Ptr -> V] : w[NULL] = z /\ \A n \in Node : w[n] = F[n][w[a[n]]][w[b[n]]]
<1> DEFINE D(p) == sub[p] \cup {NULL}
           Approx(p) == {w \in [D(p) -> V] :
                           w[NULL] = z /\ \A n \in sub[p] : w[n] = F[n][w[a[n]]][w[b[n]]]}
<1>1. ASSUME NEW p \in Ptr, NEW n \in sub[p]
      PROVE  n \in Node /\ a[n] \in D(p) /\ b[n] \in D(p)
  <2>1. n \in Node
    BY DEF SearchTree, Spans
  <2>2. sub[n] \subseteq sub[p]
    BY Below
  <2>3. a[n] \in D(n) /\ b[n] \in D(n)
    <3>1. /\ sub[n] = {n} \cup sub[a[n]] \cup sub[b[n]]
          /\ a[n] # NULL => a[n] \in sub[a[n]]
          /\ b[n] # NULL => b[n] \in sub[b[n]]
      BY <2>1, Locally
    <3> QED
      BY <3>1
  <2> QED
    BY <2>1, <2>2, <2>3
<1>2. \A p \in Ptr : Approx(p) # {}
  <2> DEFINE S == {p \in Ptr : Approx(p) # {}}
  <2>1. NULL \in S
    <3>1. sub[NULL] = {} /\ NULL \in Ptr
      BY DEF SearchTree, Spans, Ptr
    <3>2. [q \in D(NULL) |-> z] \in Approx(NULL)
      BY <3>1
    <3> QED
      BY <3>1, <3>2
  <2>2. ASSUME NEW p \in Node, a[p] \in S, b[p] \in S PROVE p \in S
    <3>1. PICK u \in Approx(a[p]) : TRUE
      BY <2>2
    <3>2. PICK v \in Approx(b[p]) : TRUE
      BY <2>2
    <3>3. /\ p \in Ptr /\ sub[p] = {p} \cup sub[a[p]] \cup sub[b[p]]
          /\ sub[a[p]] \cap sub[b[p]] = {}
          /\ p \notin sub[a[p]] /\ p \notin sub[b[p]]
          /\ a[p] \in D(a[p]) /\ b[p] \in D(b[p]) /\ NULL \notin sub[p]
          /\ a[p] \in Ptr /\ b[p] \in Ptr
      <4>1. /\ sub[p] = {p} \cup sub[a[p]] \cup sub[b[p]]
            /\ sub[a[p]] \cap sub[b[p]] = {} /\ sub[p] \subseteq Node
            /\ p \notin sub[a[p]] /\ p \notin sub[b[p]]
            /\ a[p] # NULL => a[p] \in sub[a[p]]
            /\ b[p] # NULL => b[p] \in sub[b[p]]
            /\ a[p] \in Ptr /\ b[p] \in Ptr
        BY Locally
      <4> QED
        BY <4>1, NullAssumption DEF Ptr
    <3> DEFINE x == F[p][u[a[p]]][v[b[p]]]
               w == [q \in D(p) |-> IF q = p THEN x ELSE IF q \in sub[a[p]] THEN u[q] ELSE v[q]]
    <3>4. x \in V /\ u \in [D(a[p]) -> V] /\ v \in [D(b[p]) -> V]
      <4>1. u[a[p]] \in V /\ v[b[p]] \in V
        BY <3>1, <3>2, <3>3
      <4> QED
        BY <4>1, <3>1, <3>2 DEF IsStep
    <3>5. \A q \in D(a[p]) : q \in D(p) /\ w[q] = u[q]
      BY <3>1, <3>2, <3>3
    <3>6. \A q \in D(b[p]) : q \in D(p) /\ w[q] = v[q]
      BY <3>1, <3>2, <3>3
    <3>7. w \in [D(p) -> V] /\ w[NULL] = z /\ w[p] = x
      BY <3>1, <3>2, <3>3, <3>4
    <3>8. ASSUME NEW n \in sub[p] PROVE w[n] = F[n][w[a[n]]][w[b[n]]]
      <4> HIDE DEF w
      <4>1. CASE n = p
        BY <3>3, <3>5, <3>6, <3>7, <4>1
      <4>2. CASE n \in sub[a[p]]
        <5>1. w[n] = u[n] /\ w[a[n]] = u[a[n]] /\ w[b[n]] = u[b[n]]
          BY <1>1, <3>3, <3>5, <4>2
        <5> QED
          BY <3>1, <4>2, <5>1
      <4>3. CASE n \in sub[b[p]]
        <5>1. w[n] = v[n] /\ w[a[n]] = v[a[n]] /\ w[b[n]] = v[b[n]]
          BY <1>1, <3>3, <3>6, <4>3
        <5> QED
          BY <3>2, <4>3, <5>1
      <4> QED
        BY <3>3, <4>1, <4>2, <4>3
    <3>9. w \in Approx(p)
      <4> HIDE DEF w
      <4> QED
        BY <3>7, <3>8
    <3> QED
      <4> HIDE DEF w, Approx
      <4> QED
        BY <3>3, <3>9
  <2>3. Ptr \subseteq S
    <3> HIDE DEF S
    <3> QED
      BY <2>1, <2>2, TreeInduction
  <2> QED
    BY <2>3
<1>3. ASSUME NEW p \in Ptr, NEW u \in Approx(p), NEW q \in Ptr, NEW v \in Approx(q)
      PROVE  \A n \in Ptr : n \in D(p) /\ n \in D(q) => u[n] = v[n]
  <2> DEFINE S == {n \in Ptr : n \in D(p) /\ n \in D(q) => u[n] = v[n]}
  <2>1. NULL \in S
    BY DEF Ptr
  <2>2. ASSUME NEW n \in Node, a[n] \in S, b[n] \in S PROVE n \in S
    <3> SUFFICES ASSUME n \in D(p), n \in D(q) PROVE u[n] = v[n]
      BY DEF Ptr
    <3>1. n \in sub[p] /\ n \in sub[q]
      BY NullAssumption
    <3>2. u[a[n]] = v[a[n]] /\ u[b[n]] = v[b[n]]
      BY <1>1, <2>2, <3>1
    <3> QED
      BY <3>1, <3>2
  <2>3. Ptr \subseteq S
    <3> HIDE DEF S
    <3> QED
      BY <2>1, <2>2, TreeInduction
  <2> QED
    BY <2>3
<1> DEFINE W(p) == CHOOSE w \in Approx(p) : TRUE
           f == [p \in Ptr |-> W(p)[p]]
<1>4. ASSUME NEW p \in Ptr PROVE W(p) \in Approx(p) /\ p \in D(p)
  <2>1. p \in D(p)
    BY Locally DEF Ptr
  <2> QED
    BY <1>2, <2>1
<1>5. f \in [Ptr -> V]
  <2> SUFFICES ASSUME NEW p \in Ptr PROVE W(p)[p] \in V
    OBVIOUS
  <2>1. W(p) \in [D(p) -> V]
    <3> HIDE DEF W
    <3> QED
      BY <1>4
  <2> HIDE DEF W, Approx
  <2> QED
    BY <1>4, <2>1
<1>6. f[NULL] = z
  <2>1. NULL \in Ptr
    BY DEF Ptr
  <2>2. W(NULL)[NULL] = z
    <3> HIDE DEF W
    <3> QED
      BY <1>4, <2>1
  <2> QED
    BY <2>1, <2>2
<1>7. ASSUME NEW n \in Node PROVE f[n] = F[n][f[a[n]]][f[b[n]]]
  <2>1. n \in Ptr /\ a[n] \in Ptr /\ b[n] \in Ptr /\ n \in sub[n]
    BY Locally DEF Ptr
  <2>2. f[n] = W(n)[n] /\ f[a[n]] = W(a[n])[a[n]] /\ f[b[n]] = W(b[n])[b[n]]
    BY <2>1
  <2> HIDE DEF f, W
  <2>3. W(n)[n] = F[n][W(n)[a[n]]][W(n)[b[n]]]
    BY <1>4, <2>1
  <2>4. a[n] \in D(n) /\ b[n] \in D(n)
    BY <1>1, <2>1
  <2> HIDE DEF Approx
  <2>5. W(n)[a[n]] = W(a[n])[a[n]] /\ W(n)[b[n]] = W(b[n])[b[n]]
    BY <1>3, <1>4, <2>1, <2>4
  <2> QED
    BY <2>2, <2>3, <2>5
<1> QED
  <2> HIDE DEF f
  <2> QED
    BY <1>5, <1>6, <1>7

-----------------------------------------------------------------------------
(* The nodes in order.                                                     *)

\* s names the nodes of S, each once, in the order of K.
Lists(s, S, K) ==
  /\ s \in Seq(Node)
  /\ {s[i] : i \in 1 .. Len(s)} = S
  /\ \A i, j \in 1 .. Len(s) : i < j => K[s[i]] < K[s[j]]

\* A list with lesser keys, a node, and a list with greater keys.
LEMMA ListsJoin ==
  ASSUME NEW K \in [Node -> Int], NEW s, NEW S, NEW u, NEW U, NEW n \in Node,
         Lists(s, S, K), Lists(u, U, K),
         \A m \in S : K[m] < K[n], \A m \in U : K[n] < K[m]
  PROVE  Lists(s \o <<n>> \o u, {n} \cup S \cup U, K)
<1> DEFINE v == s \o <<n>> \o u
           l == Len(s)
<1>1. /\ s \in Seq(Node) /\ u \in Seq(Node) /\ l \in Nat /\ Len(u) \in Nat
      /\ v \in Seq(Node) /\ Len(v) = l + 1 + Len(u)
  BY DEF Lists
<1>2. \A i \in 1 .. l : i \in 1 .. Len(v) /\ v[i] = s[i]
  BY <1>1
<1>3. l + 1 \in 1 .. Len(v) /\ v[l + 1] = n
  BY <1>1
<1>4. ASSUME NEW i \in 1 .. Len(u) PROVE l + 1 + i \in 1 .. Len(v) /\ v[l + 1 + i] = u[i]
  BY <1>1
<1>5. ASSUME NEW i \in 1 .. Len(v)
      PROVE  \/ i \in 1 .. l /\ v[i] = s[i]
             \/ i = l + 1 /\ v[i] = n
             \/ i - l - 1 \in 1 .. Len(u) /\ v[i] = u[i - l - 1]
  <2>1. CASE i > l + 1
    <3>1. i - l - 1 \in 1 .. Len(u) /\ l + 1 + (i - l - 1) = i
      BY <1>1, <2>1
    <3> QED
      BY <3>1, <1>4
  <2> HIDE DEF v
  <2> QED
    BY <1>1, <1>2, <1>3, <2>1, SMTT(30)
<1> HIDE DEF v, l
<1>6. /\ \A i \in 1 .. l : s[i] \in S /\ s[i] \in Node
      /\ \A i \in 1 .. Len(u) : u[i] \in U /\ u[i] \in Node
  BY DEF Lists, l
<1>7. {v[i] : i \in 1 .. Len(v)} = {n} \cup S \cup U
  <2>1. \A i \in 1 .. Len(v) : v[i] \in {n} \cup S \cup U
    BY <1>5, <1>6
  <2>2. ASSUME NEW m \in S PROVE \E i \in 1 .. Len(v) : v[i] = m
    <3>1. PICK i \in 1 .. l : s[i] = m
      BY DEF Lists, l
    <3> QED
      BY <3>1, <1>2
  <2>3. ASSUME NEW m \in U PROVE \E i \in 1 .. Len(v) : v[i] = m
    <3>1. PICK i \in 1 .. Len(u) : u[i] = m
      BY DEF Lists
    <3>2. l + 1 + i \in 1 .. Len(v) /\ v[l + 1 + i] = m
      BY <3>1, <1>4
    <3> QED
      BY <3>2
  <2> QED
    BY <1>3, <2>1, <2>2, <2>3
<1>8. ASSUME NEW i \in 1 .. Len(v), NEW j \in 1 .. Len(v), i < j PROVE K[v[i]] < K[v[j]]
  <2>1. /\ \A x, y \in 1 .. l : x < y => K[s[x]] < K[s[y]]
        /\ \A x, y \in 1 .. Len(u) : x < y => K[u[x]] < K[u[y]]
    BY DEF Lists, l
  <2>2. l \in Nat /\ i \in Int /\ j \in Int
    BY <1>1
  <2>3. CASE j \in 1 .. l /\ v[j] = s[j]
    BY <1>5, <1>8, <2>1, <2>2, <2>3
  <2>4. CASE j = l + 1 /\ v[j] = n
    <3>1. i \in 1 .. l /\ v[i] = s[i]
      BY <1>5, <1>8, <2>2, <2>4
    <3> QED
      BY <1>6, <2>4, <3>1
  <2>5. CASE j - l - 1 \in 1 .. Len(u) /\ v[j] = u[j - l - 1]
    <3>1. CASE i - l - 1 \in 1 .. Len(u) /\ v[i] = u[i - l - 1]
      <4>1. i - l - 1 < j - l - 1
        BY <1>8, <2>2
      <4> QED
        BY <2>1, <2>5, <3>1, <4>1
    <3>2. CASE i = l + 1 /\ v[i] = n
      BY <1>6, <2>5, <3>2
    <3>3. CASE i \in 1 .. l /\ v[i] = s[i]
      <4>1. /\ K[v[i]] < K[n] /\ K[n] < K[v[j]]
            /\ K[v[i]] \in Int /\ K[n] \in Int /\ K[v[j]] \in Int
        BY <1>6, <2>5, <3>3
      <4> QED
        BY <4>1
    <3> QED
      BY <1>5, <3>1, <3>2, <3>3
  <2> QED
    BY <1>5, <2>3, <2>4, <2>5
<1> QED
  BY <1>1, <1>7, <1>8 DEF Lists, v

\* There is but one such list of a set.
LEMMA ListsUnique ==
  ASSUME NEW K \in [Node -> Int], NEW S, NEW s, NEW u, Lists(s, S, K), Lists(u, S, K)
  PROVE  s = u
<1>1. /\ s \in Seq(Node) /\ u \in Seq(Node) /\ Len(s) \in Nat /\ Len(u) \in Nat
      /\ \A i \in 1 .. Len(s) : s[i] \in S /\ s[i] \in Node /\ K[s[i]] \in Int
      /\ \A i \in 1 .. Len(u) : u[i] \in S /\ u[i] \in Node /\ K[u[i]] \in Int
  BY DEF Lists
<1>2. ASSUME NEW x, NEW y, Lists(x, S, K), Lists(y, S, K), NEW i \in 1 .. Len(x),
             \A k \in 1 .. i - 1 : k \in 1 .. Len(y) => x[k] = y[k]
      PROVE  i \in 1 .. Len(y) /\ K[y[i]] <= K[x[i]]
  <2>1. /\ x \in Seq(Node) /\ y \in Seq(Node) /\ Len(x) \in Nat /\ Len(y) \in Nat
        /\ \A k \in 1 .. Len(x) : x[k] \in S /\ x[k] \in Node /\ K[x[k]] \in Int
        /\ \A k \in 1 .. Len(y) : y[k] \in S /\ y[k] \in Node /\ K[y[k]] \in Int
        /\ \A k, l \in 1 .. Len(x) : k < l => K[x[k]] < K[x[l]]
        /\ \A k, l \in 1 .. Len(y) : k < l => K[y[k]] < K[y[l]]
    <3>1. Lists(x, S, K) /\ Lists(y, S, K)
      BY <1>2
    <3> QED
      BY ONLY <3>1, K \in [Node -> Int] DEF Lists
  <2>2. PICK j \in 1 .. Len(y) : y[j] = x[i]
    BY <1>2, <2>1 DEF Lists
  <2>3. ~(j < i)
    <3> SUFFICES ASSUME j < i PROVE FALSE
      OBVIOUS
    <3>1. j \in 1 .. i - 1 /\ j \in 1 .. Len(x)
      BY <2>1
    <3>2. x[j] = y[j]
      BY <1>2, <3>1
    <3>3. K[x[j]] < K[x[i]] /\ K[x[j]] \in Int
      BY <2>1, <3>1
    <3> QED
      BY <2>2, <3>2, <3>3
  <2>4. i \in 1 .. Len(y) /\ (i < j \/ i = j)
    BY <2>1, <2>3
  <2> QED
    BY <2>1, <2>2, <2>4
<1> DEFINE T == {i \in Nat : i \in 1 .. Len(s) \/ i \in 1 .. Len(u) =>
                     i \in 1 .. Len(s) /\ i \in 1 .. Len(u) /\ s[i] = u[i]}
<1>3. T = Nat
  <2> SUFFICES ASSUME T # Nat PROVE FALSE
    OBVIOUS
  <2>1. PICK i \in Nat \ T : \A k \in Nat \ T : i <= k
    <3> HIDE DEF T
    <3>1. Nat \ T \in SUBSET Nat /\ Nat \ T # {}
      BY DEF T
    <3> QED
      BY <3>1, LeastNat
  <2>2. ASSUME NEW k \in 1 .. i - 1 PROVE k \in T
    BY <2>1
  <2>3. i \in 1 .. Len(s) => i \in 1 .. Len(u) /\ K[u[i]] <= K[s[i]]
    <3>1. \A k \in 1 .. i - 1 : k \in 1 .. Len(u) => s[k] = u[k]
      BY <2>2
    <3> QED
      BY <1>2, <3>1
  <2>4. i \in 1 .. Len(u) => i \in 1 .. Len(s) /\ K[s[i]] <= K[u[i]]
    <3>1. \A k \in 1 .. i - 1 : k \in 1 .. Len(s) => u[k] = s[k]
      BY <2>2
    <3> QED
      BY <1>2, <3>1
  <2>5. i \in 1 .. Len(s) /\ i \in 1 .. Len(u) /\ s[i] # u[i] /\ K[s[i]] = K[u[i]]
    BY <1>1, <2>1, <2>3, <2>4
  <2>6. PICK j \in 1 .. Len(u) : u[j] = s[i]
    BY <1>1, <2>5 DEF Lists
  <2>7. j < i \/ i < j
    BY <2>5, <2>6
  <2>8. K[u[j]] < K[u[i]] \/ K[u[i]] < K[u[j]]
    BY <2>5, <2>6, <2>7 DEF Lists
  <2> QED
    BY <1>1, <2>5, <2>6, <2>8
<1>4. Len(s) = Len(u)
  <2>1. Len(s) <= Len(u)
    BY <1>1, <1>3
  <2>2. Len(u) <= Len(s)
    BY <1>1, <1>3
  <2> QED
    BY <1>1, <2>1, <2>2
<1>5. \A i \in 1 .. Len(s) : s[i] = u[i]
  BY <1>3
<1> QED
  BY <1>1, <1>4, <1>5

\* It is as long as the set is large.
LEMMA ListsCount ==
  ASSUME NEW K \in [Node -> Int], NEW S, NEW s, Lists(s, S, K)
  PROVE  Cardinality(S) = Len(s)
<1>1. /\ s \in Seq(Node) /\ Len(s) \in Nat
      /\ \A i \in 1 .. Len(s) : s[i] \in S /\ s[i] \in Node /\ K[s[i]] \in Int
      /\ \A m \in S : \E i \in 1 .. Len(s) : s[i] = m
  BY DEF Lists
<1> DEFINE f == [i \in 1 .. Len(s) |-> s[i]]
<1>2. f \in [1 .. Len(s) -> S] /\ \A i \in 1 .. Len(s) : f[i] = s[i]
  BY <1>1
<1> HIDE DEF f
<1>3. ASSUME NEW i \in 1 .. Len(s), NEW j \in 1 .. Len(s), f[i] = f[j] PROVE i = j
  <2>1. s[i] = s[j]
    BY <1>2, <1>3
  <2>2. ~(i < j) /\ ~(j < i)
    BY <1>1, <2>1 DEF Lists
  <2> QED
    BY <2>2
<1>4. f \in Bijection(1 .. Len(s), S)
  <2>1. \A m \in S : \E i \in 1 .. Len(s) : f[i] = m
    BY <1>1, <1>2
  <2> QED
    BY <1>2, <1>3, <2>1 DEF Bijection, Injection, IsInjective, Surjection
<1>5. IsFiniteSet(1 .. Len(s)) /\ Cardinality(1 .. Len(s)) = Len(s)
  <2>1. 1 \in Int /\ Len(s) \in Int
    BY <1>1
  <2>2. /\ IsFiniteSet(1 .. Len(s))
        /\ Cardinality(1 .. Len(s)) = IF 1 > Len(s) THEN 0 ELSE Len(s) - 1 + 1
    BY <2>1, FS_Interval
  <2> QED
    BY <1>1, <2>2
<1>6. ExistsBijection(1 .. Len(s), S)
  BY <1>4 DEF ExistsBijection
<1> QED
  BY <1>5, <1>6, FS_Bijection

\* InOrder lists what is below the root.
LEMMA InOrderLists ==
  ASSUME NEW t, t.root \in Ptr, NEW sub, NEW K, SearchTree(t.left, t.right, sub, K)
  PROVE  Lists(InOrder(t), sub[t.root], K)
<1> DEFINE V == Seq(Node)
           F == [n \in Node |-> [x \in V |-> [y \in V |-> x \o <<n>> \o y]]]
           walk == CHOOSE f : f = [p \in Ptr |-> IF p = NULL THEN <<>>
                                     ELSE f[t.left[p]] \o <<p>> \o f[t.right[p]]]
<1>0. t.left \in [Node -> Ptr] /\ t.right \in [Node -> Ptr] /\ NULL \in Ptr /\ NULL \notin Node
  BY NullAssumption DEF SearchTree, Ptr
<1>1. PICK w \in [Ptr -> V] : /\ w[NULL] = <<>>
                              /\ \A n \in Node : w[n] = F[n][w[t.left[n]]][w[t.right[n]]]
  <2>1. IsStep(F, V)
    BY DEF IsStep
  <2>2. <<>> \in V
    OBVIOUS
  <2> HIDE DEF F, V
  <2> QED
    BY <2>1, <2>2, TreeRecursion
<1>2. ASSUME NEW n \in Node PROVE w[n] = w[t.left[n]] \o <<n>> \o w[t.right[n]]
  <2>1. t.left[n] \in Ptr /\ t.right[n] \in Ptr
    BY <1>0
  <2>2. w[t.left[n]] \in V /\ w[t.right[n]] \in V
    BY <1>1, <2>1
  <2> HIDE DEF V
  <2> QED
    BY <1>1, <2>2
<1>3. w = [p \in Ptr |-> IF p = NULL THEN <<>> ELSE w[t.left[p]] \o <<p>> \o w[t.right[p]]]
  <2>1. w = [p \in Ptr |-> w[p]]
    BY <1>1
  <2>2. \A p \in Ptr : w[p] = IF p = NULL THEN <<>> ELSE w[t.left[p]] \o <<p>> \o w[t.right[p]]
    BY <1>1, <1>2 DEF Ptr
  <2> QED
    BY <2>1, <2>2
<1>4. walk = [p \in Ptr |-> IF p = NULL THEN <<>>
                              ELSE walk[t.left[p]] \o <<p>> \o walk[t.right[p]]]
  BY <1>3
<1>5. InOrder(t) = walk[t.root]
  BY DEF InOrder
<1> HIDE DEF walk
<1> DEFINE S == {p \in Ptr : walk[p] = w[p] /\ Lists(w[p], sub[p], K)}
<1>6. NULL \in S
  <2>1. w[NULL] = <<>> /\ walk[NULL] = <<>> /\ sub[NULL] = {}
    BY <1>0, <1>1, <1>4 DEF SearchTree, Spans
  <2> QED
    BY <1>0, <2>1 DEF Lists
<1>7. ASSUME NEW n \in Node, t.left[n] \in S, t.right[n] \in S PROVE n \in S
  <2>1. n \in Ptr /\ n # NULL
    BY <1>0 DEF Ptr
  <2>2. walk[n] = walk[t.left[n]] \o <<n>> \o walk[t.right[n]]
    BY <1>4, <2>1
  <2>3. walk[n] = w[n]
    BY <1>2, <1>7, <2>2
  <2>4. Lists(w[n], {n} \cup sub[t.left[n]] \cup sub[t.right[n]], K)
    <3>1. /\ Lists(w[t.left[n]], sub[t.left[n]], K) /\ Lists(w[t.right[n]], sub[t.right[n]], K)
          /\ \A m \in sub[t.left[n]] : K[m] < K[n]
          /\ \A m \in sub[t.right[n]] : K[n] < K[m]
          /\ K \in [Node -> Int]
      BY <1>7 DEF SearchTree, Ascends
    <3>2. Lists(w[t.left[n]] \o <<n>> \o w[t.right[n]],
                {n} \cup sub[t.left[n]] \cup sub[t.right[n]], K)
      BY <3>1, ListsJoin
    <3> QED
      BY <1>2, <3>2
  <2>5. sub[n] = {n} \cup sub[t.left[n]] \cup sub[t.right[n]]
    BY DEF SearchTree, Spans
  <2> QED
    BY <2>1, <2>3, <2>4, <2>5
<1>8. Ptr \subseteq S
  <2> HIDE DEF S
  <2> QED
    BY <1>6, <1>7, TreeInduction
<1> QED
  BY <1>5, <1>8

-----------------------------------------------------------------------------
(* The tree at a root, and the nodes that are in no tree.                  *)

\* All that is not below r has no children.
RootedTree(a, b, r, sub, K) ==
  /\ SearchTree(a, b, sub, K)
  /\ r \in Ptr
  /\ \A n \in Node \ sub[r] : a[n] = NULL /\ b[n] = NULL

\* The mirror image of a tree is a tree in the opposite order.
LEMMA MirroredRooted ==
  ASSUME NEW a, NEW b, NEW r, NEW sub, NEW K, RootedTree(a, b, r, sub, K)
  PROVE  RootedTree(b, a, r, sub, [n \in Node |-> -K[n]])
BY Mirrored DEF RootedTree

\* A child is below the root, is not the root, and has one parent only.
LEMMA OnlyParent ==
  ASSUME NEW a, NEW b, NEW r, NEW sub, NEW K, RootedTree(a, b, r, sub, K),
         NEW p \in Node, NEW c \in {a[p], b[p]}, c # NULL
  PROVE  /\ p \in sub[r] /\ c \in sub[r] /\ c \in Node
         /\ sub[c] \subseteq sub[p] /\ p \notin sub[c]
         /\ r # c
         /\ \A m \in Node : c \in {a[m], b[m]} => m = p
<1>1. /\ SearchTree(a, b, sub, K) /\ r \in Ptr
      /\ \A n \in Node \ sub[r] : a[n] = NULL /\ b[n] = NULL
  BY DEF RootedTree
<1>2. p \in sub[r]
  BY <1>1
<1>3. /\ c \in sub[p] /\ c \in Node /\ sub[c] \subseteq sub[p] /\ p \notin sub[c]
  <2>1. /\ sub[p] = {p} \cup sub[a[p]] \cup sub[b[p]]
        /\ a[p] # NULL => a[p] \in Node /\ a[p] \in sub[a[p]]
        /\ b[p] # NULL => b[p] \in Node /\ b[p] \in sub[b[p]]
        /\ p \notin sub[a[p]] /\ p \notin sub[b[p]]
    BY <1>1, Locally
  <2> QED
    BY <2>1
<1>4. c \in sub[r]
  BY <1>1, <1>2, <1>3, Below
<1>5. r # c
  BY <1>2, <1>3
<1>6. ASSUME NEW m \in Node, c \in {a[m], b[m]} PROVE m = p
  <2>1. m \in sub[r]
    BY <1>1, <1>6
  <2> QED
    BY <1>1, <1>2, <1>3, <1>6, <2>1, OneParent
<1> QED
  BY <1>2, <1>3, <1>4, <1>5, <1>6

\* What is linked is what is below the root.
LEMMA LinkedBelow ==
  ASSUME NEW t, NEW sub, NEW K, RootedTree(t.left, t.right, t.root, sub, K)
  PROVE  Linked(t) = sub[t.root]
<1> DEFINE a == t.left
           b == t.right
           r == t.root
           S == {p \in Ptr : sub[p] \subseteq Linked(t) \cup {p}}
<1>1. SearchTree(a, b, sub, K) /\ r \in Ptr
  BY DEF RootedTree
<1>2. NULL \in S
  BY <1>1 DEF SearchTree, Spans, Ptr
<1>3. ASSUME NEW n \in Node, a[n] \in S, b[n] \in S PROVE n \in S
  <2>1. /\ n \in Ptr /\ sub[n] = {n} \cup sub[a[n]] \cup sub[b[n]]
        /\ sub[a[n]] \subseteq Node /\ sub[b[n]] \subseteq Node
    BY <1>1, Locally DEF Ptr
  <2>2. \A q \in {a[n], b[n]} : q \in Node => q \in Linked(t)
    BY DEF Linked
  <2> QED
    BY <1>3, <2>1, <2>2
<1>4. Ptr \subseteq S
  <2> HIDE DEF S
  <2> QED
    BY <1>1, <1>2, <1>3, TreeInduction
<1>5. sub[r] \subseteq Linked(t)
  <2>1. sub[r] \subseteq Linked(t) \cup {r} /\ sub[r] \subseteq Node
    BY <1>1, <1>4 DEF SearchTree, Spans
  <2>2. r \in Node => r \in Linked(t)
    BY DEF Linked
  <2> QED
    BY <2>1, <2>2
<1>6. ASSUME NEW n \in Linked(t) PROVE n \in sub[r]
  <2>1. n \in Node /\ n # NULL
    BY NullAssumption DEF Linked
  <2>2. CASE n = r
    BY <1>1, <2>1, <2>2 DEF SearchTree, Spans
  <2>3. CASE \E m \in Node : n \in {a[m], b[m]}
    BY <2>1, <2>3, OnlyParent
  <2> QED
    BY <2>2, <2>3 DEF Linked
<1> QED
  BY <1>5, <1>6

\* Such a tree has its nodes in order.
LEMMA TreeInOrder ==
  ASSUME NEW t, NEW sub, NEW K, RootedTree(t.left, t.right, t.root, sub, K)
  PROVE  LET s == InOrder(t)
         IN  /\ Lists(s, sub[t.root], K)
             /\ {s[i] : i \in DOMAIN s} = Linked(t)
             /\ Cardinality(Linked(t)) = Len(s)
             /\ K = KeyOf => Sorted(s)
<1> DEFINE s == InOrder(t)
<1>1. Lists(s, sub[t.root], K) /\ K \in [Node -> Int]
  BY InOrderLists DEF RootedTree, SearchTree
<1> HIDE DEF s
<1>2. Linked(t) = sub[t.root]
  BY LinkedBelow
<1>3. DOMAIN s = 1 .. Len(s) /\ Len(s) \in Nat
  BY <1>1 DEF Lists
<1>4. Cardinality(sub[t.root]) = Len(s)
  BY <1>1, ListsCount
<1>5. ASSUME K = KeyOf PROVE Sorted(s)
  BY <1>1, <1>3, <1>5 DEF Lists, Sorted
<1> QED
  BY <1>1, <1>2, <1>3, <1>4, <1>5 DEF Lists, s

-----------------------------------------------------------------------------
(* Colours.                                                                *)

\* The equation of RBTree's height at node m: bh is the same on both sides of
\* m, when m is short and its side a (b) is given da (db) more.
HeightAt(a, b, red, bh, m, short, da, db) ==
  /\ bh[a[m]] + (IF m = short THEN da ELSE 0) = bh[b[m]] + (IF m = short THEN db ELSE 0)
  /\ bh[m] = bh[a[m]] + (IF m = short THEN da ELSE 0) + (IF m \in red THEN 0 ELSE 1)

HeightFunction(bh) == bh \in [Ptr -> Nat \ {0}] /\ bh[NULL] = 1

Heights(a, b, red, bh, short, da, db) ==
  /\ HeightFunction(bh)
  /\ \A m \in Node : HeightAt(a, b, red, bh, m, short, da, db)

\* The mirror image has the same black heights.
LEMMA MirroredHeights ==
  ASSUME NEW a, NEW b, NEW red, NEW bh, NEW short, NEW da \in Nat, NEW db \in Nat,
         a \in [Node -> Ptr], b \in [Node -> Ptr]
  PROVE  Heights(a, b, red, bh, short, da, db) <=> Heights(b, a, red, bh, short, db, da)
BY DEF Heights, HeightAt, HeightFunction

\* A bh with these equations is what the walk of BlackRule computes.
LEMMA HeightsCount ==
  ASSUME NEW t, NEW sub, NEW K, SearchTree(t.left, t.right, sub, K), t.root \in Ptr,
         NEW bh, NEW short, NEW dl \in Nat, NEW dr \in Nat,
         Heights(t.left, t.right, t.red, bh, short, dl, dr)
  PROVE  BlackRule(t, short, dl, dr)
<1> DEFINE Body(f, p) ==
             IF p = NULL THEN 1
             ELSE LET l == f[t.left[p]] + IF p = short THEN dl ELSE 0
                      r == f[t.right[p]] + IF p = short THEN dr ELSE 0
                  IN  IF l < 1 \/ r < 1 \/ l # r THEN -1
                      ELSE l + IF IsBlack(t, p) THEN 1 ELSE 0
           height == CHOOSE f : f = [p \in Ptr |-> Body(f, p)]
<1>1. /\ bh \in [Ptr -> Nat \ {0}] /\ bh[NULL] = 1
      /\ \A n \in Node : HeightAt(t.left, t.right, t.red, bh, n, short, dl, dr)
      /\ \A n \in Node : t.left[n] \in Ptr /\ t.right[n] \in Ptr
      /\ NULL \in Ptr
  BY DEF Heights, HeightFunction, SearchTree, Ptr
<1>2. ASSUME NEW n \in Node PROVE Body(bh, n) = bh[n]
  <2>1. /\ bh[t.left[n]] \in Nat \ {0} /\ bh[t.right[n]] \in Nat \ {0}
        /\ HeightAt(t.left, t.right, t.red, bh, n, short, dl, dr) /\ n # NULL
    BY <1>1, NullAssumption
  <2> QED
    BY <2>1 DEF HeightAt, IsBlack
<1>3. bh = [p \in Ptr |-> Body(bh, p)]
  <2>1. \A p \in Ptr : bh[p] = Body(bh, p)
    BY <1>1, <1>2 DEF Ptr
  <2>2. bh = [p \in Ptr |-> bh[p]]
    BY <1>1
  <2> HIDE DEF Body
  <2> QED
    BY <2>1, <2>2
<1>4. height = [p \in Ptr |-> Body(height, p)]
  <2> HIDE DEF Body
  <2> QED
    BY <1>3
<1>5. BlackRule(t, short, dl, dr) <=> height[t.root] >= 1
  BY DEF BlackRule
<1> HIDE DEF height
<1> DEFINE S == {p \in Ptr : height[p] = bh[p]}
<1>6. NULL \in S
  <2>1. height[NULL] = Body(height, NULL)
    <3> HIDE DEF Body
    <3> QED
      BY <1>1, <1>4
  <2> QED
    BY <1>1, <2>1
<1>7. ASSUME NEW n \in Node, t.left[n] \in S, t.right[n] \in S PROVE n \in S
  <2>1. n \in Ptr
    BY DEF Ptr
  <2>2. height[n] = Body(height, n)
    <3> HIDE DEF Body
    <3> QED
      BY <1>4, <2>1
  <2>3. Body(height, n) = Body(bh, n)
    BY <1>7
  <2> HIDE DEF Body
  <2> QED
    BY <1>2, <2>1, <2>2, <2>3
<1>8. Ptr \subseteq S
  <2> HIDE DEF S
  <2> QED
    BY <1>6, <1>7, TreeInduction
<1> QED
  BY <1>1, <1>5, <1>8

-----------------------------------------------------------------------------
(* Ways down.                                                              *)

\* p leads from r down, child by child; NULL can only come last.
IsPath(a, b, r, p) ==
  /\ p \in Seq(Ptr)
  /\ p # <<>> => p[1] = r
  /\ \A i \in 1 .. Len(p) - 1 : p[i] \in Node /\ p[i + 1] \in {a[p[i]], b[p[i]]}

\* On the way down the subtrees shrink; no node is met twice.
LEMMA PathBelow ==
  ASSUME NEW a, NEW b, NEW r, NEW sub, NEW K, RootedTree(a, b, r, sub, K),
         NEW p, IsPath(a, b, r, p)
  PROVE  \A j \in 1 .. Len(p) : p[j] # NULL =>
           /\ p[j] \in Node /\ p[j] \in sub[r] /\ p[j] \in sub[p[j]]
           /\ \A i \in 1 .. j - 1 :
                /\ p[i] \in Node /\ p[i] # p[j]
                /\ sub[p[j]] \subseteq sub[p[i]] /\ p[i] \notin sub[p[j]]
<1>1. p \in Seq(Ptr) /\ Len(p) \in Nat /\ \A j \in 1 .. Len(p) : p[j] \in Ptr
  BY DEF IsPath
<1>2. \A n \in Node : n \in sub[n]
  BY DEF RootedTree, SearchTree, Spans
<1> DEFINE Fine(j) == /\ p[j] \in Node /\ p[j] \in sub[r]
                      /\ \A i \in 1 .. j - 1 :
                           p[i] \in Node /\ sub[p[j]] \subseteq sub[p[i]] /\ p[i] \notin sub[p[j]]
           S == {j \in Nat : j \in 1 .. Len(p) /\ p[j] # NULL => Fine(j)}
<1>3. 0 \in S
  OBVIOUS
<1>4. ASSUME NEW j \in S PROVE j + 1 \in S
  <2> SUFFICES ASSUME j + 1 \in 1 .. Len(p), p[j + 1] # NULL PROVE Fine(j + 1)
    OBVIOUS
  <2>1. CASE j = 0
    <3>1. p[j + 1] = r /\ r \in Node
      BY <1>1, <2>1 DEF IsPath, RootedTree, Ptr
    <3> QED
      BY <1>2, <2>1, <3>1
  <2>2. CASE j # 0
    <3>1. j \in 1 .. Len(p) - 1 /\ j \in 1 .. Len(p)
      BY <1>1, <2>2
    <3>2. p[j] \in Node /\ p[j + 1] \in {a[p[j]], b[p[j]]}
      BY <3>1 DEF IsPath
    <3>3. /\ p[j + 1] \in sub[r] /\ p[j + 1] \in Node
          /\ sub[p[j + 1]] \subseteq sub[p[j]] /\ p[j] \notin sub[p[j + 1]]
      BY <3>2, OnlyParent
    <3>4. Fine(j)
      BY <3>1, <3>2, NullAssumption
    <3>5. ASSUME NEW i \in 1 .. (j + 1) - 1
          PROVE p[i] \in Node /\ sub[p[j + 1]] \subseteq sub[p[i]] /\ p[i] \notin sub[p[j + 1]]
      <4>1. CASE i = j
        BY <3>2, <3>3, <4>1
      <4>2. CASE i # j
        <5>1. i \in 1 .. j - 1
          BY <4>2
        <5> QED
          BY <3>3, <3>4, <5>1
      <4> QED
        BY <4>1, <4>2
    <3> QED
      BY <3>3, <3>5
  <2> QED
    BY <2>1, <2>2
<1>5. S = Nat
  <2> HIDE DEF S
  <2> QED
    BY <1>3, <1>4, Induction DEF S
<1> SUFFICES ASSUME NEW j \in 1 .. Len(p), p[j] # NULL
             PROVE  /\ p[j] \in Node /\ p[j] \in sub[r] /\ p[j] \in sub[p[j]]
                    /\ \A i \in 1 .. j - 1 :
                         /\ p[i] \in Node /\ p[i] # p[j]
                         /\ sub[p[j]] \subseteq sub[p[i]] /\ p[i] \notin sub[p[j]]
  OBVIOUS
<1>6. Fine(j)
  BY <1>5
<1> QED
  BY <1>2, <1>6

-----------------------------------------------------------------------------
(* Rotations.                                                              *)

Renamed(x, from, to) == IF x = from THEN to ELSE x

\* n goes down on side a and its child on side b takes its place.
Rotated(a, b, a2, b2, n) ==
  /\ a2 = [m \in Node |-> IF m = b[n] THEN n ELSE Renamed(a[m], n, b[n])]
  /\ b2 = [m \in Node |-> IF m = n THEN a[b[n]] ELSE Renamed(b[m], n, b[n])]

\* What is where after a rotation.
LEMMA RotatedPointers ==
  ASSUME NEW a, NEW b, NEW r, NEW sub, NEW K, RootedTree(a, b, r, sub, K),
         NEW n \in Node, b[n] # NULL, NEW a2, NEW b2, Rotated(a, b, a2, b2, n)
  PROVE  /\ b[n] \in Node /\ b[n] # n /\ n \in sub[r] /\ b[n] \in sub[r]
         /\ a2 \in [Node -> Ptr] /\ b2 \in [Node -> Ptr]
         /\ a2[b[n]] = n /\ b2[b[n]] = b[b[n]]
         /\ a2[n] = a[n] /\ b2[n] = a[b[n]]
         /\ a[n] \notin {n, b[n]} /\ a[b[n]] \notin {n, b[n]} /\ b[b[n]] \notin {n, b[n]}
         /\ \A m \in Node \ {n, b[n]} :
              /\ a2[m] = Renamed(a[m], n, b[n]) /\ b2[m] = Renamed(b[m], n, b[n])
              /\ a[m] # b[n] /\ b[m] # b[n]
<1> DEFINE u == b[n]
<1>1. SearchTree(a, b, sub, K) /\ a \in [Node -> Ptr] /\ b \in [Node -> Ptr]
  BY DEF RootedTree, SearchTree
<1>2. /\ u \in Node /\ u \in sub[r] /\ n \in sub[r] /\ n \notin sub[u]
      /\ \A m \in Node : u \in {a[m], b[m]} => m = n
  BY OnlyParent
<1>3. /\ a[n] # u /\ a[n] # n /\ u # n
      /\ a[u] # u /\ b[u] # u
      /\ a[u] # n /\ b[u] # n
  <2>1. /\ a[n] # n /\ b[n] # n /\ (a[n] # NULL => a[n] # b[n])
        /\ n # NULL
    BY <1>1, Locally, NullAssumption
  <2>2. /\ a[u] # u /\ b[u] # u
        /\ sub[u] = {u} \cup sub[a[u]] \cup sub[b[u]]
    BY <1>1, <1>2, Locally
  <2>3. n \in sub[n]
    BY <1>1, Locally
  <2> QED
    BY <1>2, <2>1, <2>2, <2>3
<1>4. a2 \in [Node -> Ptr] /\ b2 \in [Node -> Ptr]
  BY <1>1, <1>2 DEF Rotated, Renamed, Ptr
<1> QED
  BY <1>1, <1>2, <1>3, <1>4 DEF Rotated, Renamed

\* A rotation keeps the tree, its nodes and its order.
LEMMA RotatedTree ==
  ASSUME NEW a, NEW b, NEW r, NEW sub, NEW K, RootedTree(a, b, r, sub, K),
         NEW n \in Node, b[n] # NULL, NEW a2, NEW b2, Rotated(a, b, a2, b2, n)
  PROVE  \E sub2 : /\ RootedTree(a2, b2, Renamed(r, n, b[n]), sub2, K)
                   /\ sub2[Renamed(r, n, b[n])] = sub[r]
<1> DEFINE u == b[n]
           sub2 == [sub EXCEPT ![n] = {n} \cup sub[a[n]] \cup sub[a[u]], ![u] = sub[n]]
<1>1. /\ SearchTree(a, b, sub, K) /\ r \in Ptr
      /\ a \in [Node -> Ptr] /\ b \in [Node -> Ptr] /\ K \in [Node -> Int]
      /\ sub \in [Ptr -> SUBSET Node] /\ sub[NULL] = {}
      /\ \A m \in Node \ sub[r] : a[m] = NULL /\ b[m] = NULL
  BY DEF RootedTree, SearchTree, Spans
<1>2. /\ u \in Node /\ u # n /\ n \in sub[r] /\ u \in sub[r]
      /\ a2 \in [Node -> Ptr] /\ b2 \in [Node -> Ptr]
      /\ a2[u] = n /\ b2[u] = b[u]
      /\ a2[n] = a[n] /\ b2[n] = a[u]
      /\ a[n] \notin {n, u} /\ a[u] \notin {n, u} /\ b[u] \notin {n, u}
      /\ \A m \in Node \ {n, u} : /\ a2[m] = Renamed(a[m], n, u) /\ b2[m] = Renamed(b[m], n, u)
                                  /\ a[m] # u /\ b[m] # u
  BY RotatedPointers
<1>3. /\ sub[n] = {n} \cup sub[a[n]] \cup sub[u]
      /\ sub[u] = {u} \cup sub[a[u]] \cup sub[b[u]]
      /\ sub[n] \subseteq Node /\ a[n] \in Ptr /\ a[u] \in Ptr /\ b[u] \in Ptr
      /\ n \in Ptr /\ u \in Ptr /\ n # NULL /\ u # NULL
  BY <1>1, <1>2, Locally, NullAssumption DEF Ptr
<1> HIDE DEF u
<1>4. /\ sub2 \in [Ptr -> SUBSET Node]
      /\ sub2[n] = {n} \cup sub[a[n]] \cup sub[a[u]]
      /\ sub2[u] = sub[n]
      /\ \A x \in Ptr \ {n, u} : sub2[x] = sub[x]
  BY <1>1, <1>2, <1>3
<1> HIDE DEF sub2
<1>5. \A x \in Ptr : x # u => sub2[Renamed(x, n, u)] = sub[x]
  BY <1>4 DEF Renamed
<1>6. /\ \A m \in sub[a[n]] : K[m] < K[n]
      /\ \A m \in sub[u] : K[n] < K[m]
      /\ \A m \in sub[a[u]] : K[m] < K[u]
      /\ \A m \in sub[b[u]] : K[u] < K[m]
      /\ \A m \in Node : K[m] \in Int
  BY <1>1, <1>2 DEF SearchTree, Ascends, u
<1>7. Spans(a2, b2, sub2)
  <2>1. sub2[NULL] = {}
    BY <1>1, <1>3, <1>4 DEF Ptr
  <2>2. ASSUME NEW m \in Node PROVE sub2[m] = {m} \cup sub2[a2[m]] \cup sub2[b2[m]]
    <3>1. CASE m = n
      <4>1. sub2[a[n]] = sub[a[n]] /\ sub2[a[u]] = sub[a[u]]
        BY <1>2, <1>3, <1>4
      <4> QED
        BY <1>2, <1>4, <3>1, <4>1
    <3>2. CASE m = u
      <4>1. sub2[b[u]] = sub[b[u]]
        BY <1>2, <1>3, <1>4
      <4>2. sub[n] = {u} \cup ({n} \cup sub[a[n]] \cup sub[a[u]]) \cup sub[b[u]]
        BY <1>3
      <4> QED
        BY <1>2, <1>4, <3>2, <4>1, <4>2
    <3>3. CASE m \notin {n, u}
      <4>1. /\ a2[m] = Renamed(a[m], n, u) /\ b2[m] = Renamed(b[m], n, u)
            /\ a[m] # u /\ b[m] # u /\ a[m] \in Ptr /\ b[m] \in Ptr
        BY <1>1, <1>2, <3>3
      <4>2. sub2[a2[m]] = sub[a[m]] /\ sub2[b2[m]] = sub[b[m]] /\ sub2[m] = sub[m]
        BY <1>4, <1>5, <3>3, <4>1 DEF Ptr
      <4> QED
        BY <1>1, <4>2 DEF SearchTree, Spans
    <3> QED
      BY <3>1, <3>2, <3>3
  <2> QED
    BY <1>4, <2>1, <2>2 DEF Spans
<1>8. Ascends(a2, b2, sub2, K)
  <2> SUFFICES ASSUME NEW m \in Node
               PROVE  /\ \A x \in sub2[a2[m]] : K[x] < K[m]
                      /\ \A x \in sub2[b2[m]] : K[m] < K[x]
    BY DEF Ascends
  <2>1. CASE m = n
    <3>1. sub2[a2[n]] = sub[a[n]] /\ sub2[b2[n]] = sub[a[u]] /\ sub[a[u]] \subseteq sub[u]
      BY <1>2, <1>3, <1>4
    <3> QED
      BY <1>6, <2>1, <3>1
  <2>2. CASE m = u
    <3>1. sub2[a2[u]] = {n} \cup sub[a[n]] \cup sub[a[u]] /\ sub2[b2[u]] = sub[b[u]]
      BY <1>2, <1>3, <1>4
    <3>2. K[n] < K[u]
      BY <1>3, <1>6
    <3>3. ASSUME NEW x \in sub[a[n]] PROVE K[x] < K[u]
      <4>1. x \in Node /\ K[x] < K[n] /\ K[x] \in Int /\ K[n] \in Int /\ K[u] \in Int
        BY <1>2, <1>3, <1>6
      <4> QED
        BY <3>2, <4>1
    <3> QED
      BY <1>6, <2>2, <3>1, <3>2, <3>3
  <2>3. CASE m \notin {n, u}
    <3>1. /\ a2[m] = Renamed(a[m], n, u) /\ b2[m] = Renamed(b[m], n, u)
          /\ a[m] # u /\ b[m] # u /\ a[m] \in Ptr /\ b[m] \in Ptr
      BY <1>1, <1>2, <2>3
    <3>2. sub2[a2[m]] = sub[a[m]] /\ sub2[b2[m]] = sub[b[m]]
      BY <1>5, <3>1
    <3> QED
      BY <1>1, <3>2 DEF SearchTree, Ascends
  <2> QED
    BY <2>1, <2>2, <2>3
<1>9. /\ Renamed(r, n, u) \in Ptr
      /\ sub2[Renamed(r, n, u)] = sub[r]
  <2>1. r # u
    BY OnlyParent DEF u
  <2> QED
    BY <1>1, <1>3, <1>5, <2>1 DEF Renamed
<1>10. ASSUME NEW m \in Node \ sub[r] PROVE a2[m] = NULL /\ b2[m] = NULL
  BY <1>1, <1>2, <1>3 DEF Renamed
<1> QED
  BY <1>1, <1>2, <1>7, <1>8, <1>9, <1>10 DEF RootedTree, SearchTree, u

-----------------------------------------------------------------------------
(* A new leaf.                                                             *)

\* k is put where side a of p was empty: in order if it is on the right side
\* of p and of all that have p below them.
LEMMA AddedTree ==
  ASSUME NEW a, NEW b, NEW r, NEW sub, NEW K, RootedTree(a, b, r, sub, K),
         NEW p \in sub[r], a[p] = NULL, NEW k \in Node \ sub[r], K[k] < K[p],
         \A n \in Node : /\ p \in sub[a[n]] => K[k] < K[n]
                         /\ p \in sub[b[n]] => K[n] < K[k]
  PROVE  \E sub2 : RootedTree([a EXCEPT ![p] = k], b, r, sub2, K)
<1> DEFINE a2 == [a EXCEPT ![p] = k]
           sub2 == [x \in Ptr |-> IF x = k THEN {k}
                                  ELSE IF p \in sub[x] THEN sub[x] \cup {k} ELSE sub[x]]
<1>1. /\ SearchTree(a, b, sub, K) /\ r \in Ptr
      /\ a \in [Node -> Ptr] /\ b \in [Node -> Ptr] /\ K \in [Node -> Int]
      /\ sub \in [Ptr -> SUBSET Node] /\ sub[NULL] = {}
      /\ \A m \in Node \ sub[r] : a[m] = NULL /\ b[m] = NULL
      /\ \A m \in Node : sub[m] = {m} \cup sub[a[m]] \cup sub[b[m]]
  BY DEF RootedTree, SearchTree, Spans
<1>2. /\ p \in Node /\ k \in Ptr /\ k # p /\ k # NULL /\ p \in Ptr /\ NULL \in Ptr /\ k # r
      /\ a[k] = NULL /\ b[k] = NULL /\ sub[k] = {k}
      /\ r \in Node /\ \A m \in Node : m \in Ptr /\ m # NULL
  BY <1>1, NullAssumption DEF Ptr
<1>3. ASSUME NEW m \in Node PROVE a[m] # k /\ b[m] # k /\ a[m] \in Ptr /\ b[m] \in Ptr
  <2>1. a[m] \in Ptr /\ b[m] \in Ptr
    BY <1>1
  <2>2. k \notin {a[m], b[m]}
    <3> SUFFICES ASSUME k \in {a[m], b[m]} PROVE FALSE
      OBVIOUS
    <3>1. k \in sub[r]
      BY <1>2, OnlyParent
    <3> QED
      BY <3>1
  <2> QED
    BY <2>1, <2>2
<1>4. /\ a2 \in [Node -> Ptr] /\ a2[p] = k /\ \A m \in Node \ {p} : a2[m] = a[m]
      /\ a2[k] = NULL
  BY <1>1, <1>2
<1>5. /\ sub2 \in [Ptr -> SUBSET Node] /\ sub2[NULL] = {} /\ sub2[k] = {k}
      /\ \A x \in Ptr \ {k} : sub2[x] = IF p \in sub[x] THEN sub[x] \cup {k} ELSE sub[x]
  BY <1>1, <1>2
<1> HIDE DEF a2, sub2
<1>6. Spans(a2, b, sub2)
  <2> SUFFICES ASSUME NEW m \in Node PROVE sub2[m] = {m} \cup sub2[a2[m]] \cup sub2[b[m]]
    BY <1>5 DEF Spans
  <2>1. CASE m = k
    BY <1>2, <1>4, <1>5, <2>1
  <2>2. CASE m = p
    <3>1. /\ p \notin sub[b[p]] /\ p \in sub[p]
          /\ sub[p] = {p} \cup sub[b[p]]
      BY <1>1, <1>2, Locally
    <3>2. sub2[b[p]] = sub[b[p]] /\ sub2[p] = sub[p] \cup {k}
      BY <1>2, <1>3, <1>5, <3>1
    <3> QED
      BY <1>4, <1>5, <2>2, <3>1, <3>2
  <2>3. CASE m \notin {k, p}
    <3>1. /\ a2[m] = a[m]
          /\ sub2[m] = IF p \in sub[m] THEN sub[m] \cup {k} ELSE sub[m]
          /\ sub2[a[m]] = IF p \in sub[a[m]] THEN sub[a[m]] \cup {k} ELSE sub[a[m]]
          /\ sub2[b[m]] = IF p \in sub[b[m]] THEN sub[b[m]] \cup {k} ELSE sub[b[m]]
      BY <1>2, <1>3, <1>4, <1>5, <2>3
    <3>2. sub[m] = {m} \cup sub[a[m]] \cup sub[b[m]]
      BY <1>1
    <3> QED
      BY <2>3, <3>1, <3>2
  <2> QED
    BY <2>1, <2>2, <2>3
<1>7. Ascends(a2, b, sub2, K)
  <2> SUFFICES ASSUME NEW m \in Node
               PROVE  /\ \A x \in sub2[a2[m]] : K[x] < K[m]
                      /\ \A x \in sub2[b[m]] : K[m] < K[x]
    BY DEF Ascends
  <2>0. /\ \A x \in sub[a[m]] : K[x] < K[m]
        /\ \A x \in sub[b[m]] : K[m] < K[x]
    BY <1>1 DEF SearchTree, Ascends
  <2>1. sub2[b[m]] = IF p \in sub[b[m]] THEN sub[b[m]] \cup {k} ELSE sub[b[m]]
    BY <1>3, <1>5
  <2>2. \A x \in sub2[b[m]] : K[m] < K[x]
    BY <2>0, <2>1
  <2>3. CASE m = p
    BY <1>4, <1>5, <2>2, <2>3
  <2>4. CASE m # p
    <3>1. sub2[a2[m]] = IF p \in sub[a[m]] THEN sub[a[m]] \cup {k} ELSE sub[a[m]]
      BY <1>3, <1>4, <1>5, <2>4
    <3> QED
      BY <2>0, <2>2, <3>1
  <2> QED
    BY <2>3, <2>4
<1>8. p \in sub[r] /\ sub2[r] = sub[r] \cup {k}
  BY <1>1, <1>2, <1>5
<1>9. \A m \in Node \ sub2[r] : a2[m] = NULL /\ b[m] = NULL
  BY <1>1, <1>4, <1>8
<1> QED
  BY <1>1, <1>4, <1>6, <1>7, <1>9 DEF RootedTree, SearchTree, a2

-----------------------------------------------------------------------------
(* A node with one child or none is taken out.                             *)

\* The order of J holds but for v.
AscendsBut(a, b, sub, J, v) ==
  \A n \in Node \ {v} : /\ \A m \in sub[a[n]] \ {v} : J[m] < J[n]
                        /\ \A m \in sub[b[n]] \ {v} : J[n] < J[m]

\* Who pointed to v points to c, and v to nothing.
Spliced(a, b, a2, b2, v, c) ==
  /\ a2 = [m \in Node |-> IF m = v THEN NULL ELSE Renamed(a[m], v, c)]
  /\ b2 = [m \in Node |-> IF m = v THEN NULL ELSE Renamed(b[m], v, c)]

\* Taking out v, which has at most one child, leaves a tree of the others, in any
\* order that held but for v.
LEMMA SplicedTree ==
  ASSUME NEW a, NEW b, NEW r, NEW sub, NEW K, RootedTree(a, b, r, sub, K),
         NEW v \in Node, a[v] = NULL,
         NEW J \in [Node -> Int], AscendsBut(a, b, sub, J, v),
         NEW a2, NEW b2, Spliced(a, b, a2, b2, v, b[v])
  PROVE  \E sub2 : /\ RootedTree(a2, b2, Renamed(r, v, b[v]), sub2, J)
                   /\ sub2[Renamed(r, v, b[v])] = sub[r] \ {v}
<1> DEFINE c == b[v]
           sub2 == [x \in Ptr |-> IF x = v THEN {v} ELSE sub[x] \ {v}]
<1>1. /\ SearchTree(a, b, sub, K) /\ r \in Ptr
      /\ a \in [Node -> Ptr] /\ b \in [Node -> Ptr]
      /\ sub \in [Ptr -> SUBSET Node] /\ sub[NULL] = {}
      /\ \A m \in Node \ sub[r] : a[m] = NULL /\ b[m] = NULL
      /\ \A m \in Node : sub[m] = {m} \cup sub[a[m]] \cup sub[b[m]]
  BY DEF RootedTree, SearchTree, Spans
<1>2. /\ v \in Ptr /\ NULL \in Ptr /\ v # NULL /\ c \in Ptr /\ c # v
      /\ sub[v] = {v} \cup sub[c] /\ v \notin sub[c]
      /\ \A m \in Node : a[m] \in Ptr /\ b[m] \in Ptr /\ m \in Ptr
  BY <1>1, NullAssumption, Locally DEF Ptr
<1>3. /\ a2 \in [Node -> Ptr] /\ b2 \in [Node -> Ptr] /\ a2[v] = NULL /\ b2[v] = NULL
      /\ \A m \in Node \ {v} : a2[m] = Renamed(a[m], v, c) /\ b2[m] = Renamed(b[m], v, c)
  BY <1>2 DEF Spliced, Renamed
<1> HIDE DEF c
<1>4. sub2 \in [Ptr -> SUBSET Node] /\ sub2[NULL] = {} /\ sub2[v] = {v}
  BY <1>1, <1>2
<1>5. \A x \in Ptr \ {v} : sub2[x] = sub[x] \ {v}
  OBVIOUS
<1> HIDE DEF sub2
<1>6. ASSUME NEW x \in Ptr PROVE sub2[Renamed(x, v, c)] = sub[x] \ {v}
  <2>1. CASE x = v
    BY <1>2, <1>5, <2>1 DEF Renamed
  <2>2. CASE x # v
    BY <1>5, <2>2 DEF Renamed
  <2> QED
    BY <2>1, <2>2
<1>7. Spans(a2, b2, sub2)
  <2> SUFFICES ASSUME NEW m \in Node PROVE sub2[m] = {m} \cup sub2[a2[m]] \cup sub2[b2[m]]
    BY <1>4 DEF Spans
  <2>1. CASE m = v
    BY <1>3, <1>4, <2>1
  <2>2. CASE m # v
    <3>1. /\ sub2[m] = sub[m] \ {v}
          /\ sub2[a2[m]] = sub[a[m]] \ {v}
          /\ sub2[b2[m]] = sub[b[m]] \ {v}
      BY <1>2, <1>3, <1>5, <1>6, <2>2
    <3> QED
      BY <1>1, <2>2, <3>1
  <2> QED
    BY <2>1, <2>2
<1>8. Ascends(a2, b2, sub2, J)
  <2> SUFFICES ASSUME NEW m \in Node
               PROVE  /\ \A x \in sub2[a2[m]] : J[x] < J[m]
                      /\ \A x \in sub2[b2[m]] : J[m] < J[x]
    BY DEF Ascends
  <2>1. CASE m = v
    BY <1>3, <1>4, <2>1
  <2>2. CASE m # v
    <3>1. /\ sub2[a2[m]] = sub[a[m]] \ {v}
          /\ sub2[b2[m]] = sub[b[m]] \ {v}
      BY <1>2, <1>3, <1>6, <2>2
    <3> QED
      BY <2>2, <3>1 DEF AscendsBut
  <2> QED
    BY <2>1, <2>2
<1>9. Renamed(r, v, c) \in Ptr /\ sub2[Renamed(r, v, c)] = sub[r] \ {v}
  BY <1>1, <1>2, <1>6 DEF Renamed
<1>10. ASSUME NEW m \in Node \ (sub[r] \ {v}) PROVE a2[m] = NULL /\ b2[m] = NULL
  BY <1>1, <1>2, <1>3 DEF Renamed
<1> QED
  BY <1>3, <1>7, <1>8, <1>9, <1>10 DEF RootedTree, SearchTree, c

-----------------------------------------------------------------------------
(* Two nodes change places.                                                *)

Swap(x, v, s) == IF x = v THEN s ELSE IF x = s THEN v ELSE x

\* v and s exchange their children, and those that point to them follow.
Exchanged(a, a2, v, s) == a2 = [m \in Node |-> Swap(a[Swap(m, v, s)], v, s)]

\* s is the least that is greater than v.  With the keys of v and s exchanged as
\* well the tree stays in order; with its keys as they are all but v are.
LEMMA ExchangedTree ==
  ASSUME NEW a, NEW b, NEW r, NEW sub, NEW K, RootedTree(a, b, r, sub, K),
         NEW v \in sub[r], NEW s \in sub[b[v]],
         \A m \in sub[b[v]] \ {s} : K[s] < K[m],
         NEW a2, NEW b2, Exchanged(a, a2, v, s), Exchanged(b, b2, v, s)
  PROVE  \E sub2, K2 : /\ RootedTree(a2, b2, Swap(r, v, s), sub2, K2)
                       /\ AscendsBut(a2, b2, sub2, K, v)
                       /\ sub2[Swap(r, v, s)] = sub[r]
<1> DEFINE W(x) == Swap(x, v, s)
           sub2 == [x \in Ptr |-> {m \in Node : W(m) \in sub[W(x)]}]
           K2 == [m \in Node |-> K[W(m)]]
<1>1. /\ SearchTree(a, b, sub, K) /\ r \in Ptr
      /\ a \in [Node -> Ptr] /\ b \in [Node -> Ptr] /\ K \in [Node -> Int]
      /\ sub \in [Ptr -> SUBSET Node] /\ sub[NULL] = {}
      /\ \A m \in Node \ sub[r] : a[m] = NULL /\ b[m] = NULL
      /\ \A m \in Node : sub[m] = {m} \cup sub[a[m]] \cup sub[b[m]]
      /\ \A m \in Node : /\ \A x \in sub[a[m]] : K[x] < K[m]
                         /\ \A x \in sub[b[m]] : K[m] < K[x]
  BY DEF RootedTree, SearchTree, Spans, Ascends
<1>2. /\ v \in Node /\ s \in Node /\ s # v /\ s \in sub[v] /\ s \in sub[r]
      /\ v # NULL /\ s # NULL /\ NULL \in Ptr
      /\ \A m \in Node : a[m] \in Ptr /\ b[m] \in Ptr /\ m \in Ptr
  <2>1. v \in Node /\ v \in Ptr
    BY <1>1 DEF Ptr
  <2>2. s \in Node /\ s \in sub[v] /\ s # v
    BY <1>1, <2>1, Locally
  <2>3. s \in sub[r]
    BY <1>1, <2>2, Below
  <2> QED
    BY <1>1, <2>1, <2>2, <2>3, NullAssumption DEF Ptr
<1>3. /\ W(v) = s /\ W(s) = v /\ W(NULL) = NULL
      /\ \A x : W(W(x)) = x
      /\ \A x \in Ptr : W(x) \in Ptr
      /\ \A x \in Node : W(x) \in Node
      /\ \A x : x \notin {v, s} => W(x) = x
  BY <1>2 DEF Swap, Ptr
<1> HIDE DEF W
<1>4. /\ a2 \in [Node -> Ptr] /\ b2 \in [Node -> Ptr]
      /\ \A m \in Node : a2[m] = W(a[W(m)]) /\ b2[m] = W(b[W(m)])
  <2>1. \A m \in Node : W(a[W(m)]) \in Ptr /\ W(b[W(m)]) \in Ptr
    BY <1>2, <1>3
  <2> QED
    BY <2>1 DEF Exchanged, W
<1>5. /\ sub2 \in [Ptr -> SUBSET Node]
      /\ \A x \in Ptr : \A m \in Node : m \in sub2[x] <=> W(m) \in sub[W(x)]
  OBVIOUS
<1>6. K2 \in [Node -> Int] /\ \A m \in Node : K2[m] = K[W(m)]
  BY <1>1, <1>3
<1> HIDE DEF sub2, K2
<1>7. ASSUME NEW n \in Node, NEW m \in Node
      PROVE  /\ m \in sub2[a2[n]] <=> W(m) \in sub[a[W(n)]]
             /\ m \in sub2[b2[n]] <=> W(m) \in sub[b[W(n)]]
             /\ m \in sub2[n] <=> W(m) \in sub[W(n)]
  BY <1>2, <1>3, <1>4, <1>5
<1>8. Spans(a2, b2, sub2)
  <2>1. sub2[NULL] = {}
    BY <1>1, <1>2, <1>3, <1>5
  <2>2. ASSUME NEW n \in Node PROVE sub2[n] = {n} \cup sub2[a2[n]] \cup sub2[b2[n]]
    <3>1. sub[W(n)] = {W(n)} \cup sub[a[W(n)]] \cup sub[b[W(n)]]
      BY <1>1, <1>3
    <3>2. ASSUME NEW m \in Node
          PROVE m \in sub2[n] <=> m \in {n} \cup sub2[a2[n]] \cup sub2[b2[n]]
      <4>1. W(m) = W(n) <=> m = n
        BY <1>3
      <4> QED
        BY <1>7, <3>1, <4>1
    <3>3. sub2[n] \subseteq Node /\ sub2[a2[n]] \subseteq Node /\ sub2[b2[n]] \subseteq Node
      BY <1>2, <1>4, <1>5
    <3> QED
      BY <3>2, <3>3
  <2> QED
    BY <1>5, <2>1, <2>2 DEF Spans
<1>9. Ascends(a2, b2, sub2, K2)
  <2> SUFFICES ASSUME NEW n \in Node
               PROVE  /\ \A m \in sub2[a2[n]] : K2[m] < K2[n]
                      /\ \A m \in sub2[b2[n]] : K2[n] < K2[m]
    BY DEF Ascends
  <2>1. sub2[a2[n]] \subseteq Node /\ sub2[b2[n]] \subseteq Node
    BY <1>4, <1>5
  <2> QED
    BY <1>1, <1>3, <1>6, <1>7, <2>1
<1>10. AscendsBut(a2, b2, sub2, K, v)
  <2> SUFFICES ASSUME NEW n \in Node \ {v}
               PROVE  /\ \A m \in sub2[a2[n]] \ {v} : K[m] < K[n]
                      /\ \A m \in sub2[b2[n]] \ {v} : K[n] < K[m]
    BY DEF AscendsBut
  <2>1. sub2[a2[n]] \subseteq Node /\ sub2[b2[n]] \subseteq Node
    BY <1>4, <1>5
  <2>2. \A m \in Node : K[m] \in Int
    BY <1>1
  <2>3. K[v] < K[s]
    BY <1>1, <1>2
  <2>4. CASE n = s
    <3>1. ASSUME NEW m \in sub2[a2[n]] \ {v} PROVE K[m] < K[n]
      <4>1. W(m) \in sub[a[v]] /\ m \in Node
        BY <1>3, <1>7, <2>1, <2>4, <3>1
      <4>2. W(m) # v /\ m # s
        <5>1. v \notin sub[a[v]]
          BY <1>1, <1>2, Locally
        <5> QED
          BY <1>3, <4>1, <5>1
      <4>3. K[m] < K[v]
        BY <1>1, <1>2, <1>3, <3>1, <4>1, <4>2
      <4> QED
        BY <1>2, <2>2, <2>3, <2>4, <4>1, <4>3
    <3>2. ASSUME NEW m \in sub2[b2[n]] \ {v} PROVE K[n] < K[m]
      <4>1. W(m) \in sub[b[v]] /\ m \in Node
        BY <1>3, <1>7, <2>1, <2>4, <3>2
      <4>2. W(m) # v
        <5>1. v \notin sub[b[v]]
          BY <1>1, <1>2, Locally
        <5> QED
          BY <4>1, <5>1
      <4>3. m \notin {v, s}
        BY <1>3, <3>2, <4>2
      <4> QED
        BY <1>3, <2>4, <4>1, <4>3
    <3> QED
      BY <3>1, <3>2
  <2>5. CASE n # s
    <3>1. W(n) = n /\ n # v
      BY <1>3, <2>5
    <3>2. ASSUME NEW q \in {a[n], b[n]}, NEW m \in Node \ {v}, W(m) \in sub[q]
          PROVE  m \in sub[q]
      <4>1. CASE m # s
        BY <1>3, <3>2, <4>1
      <4>2. CASE m = s
        <5>1. v \in sub[q] /\ q \in Ptr
          BY <1>2, <1>3, <3>2, <4>2
        <5>2. sub[v] \subseteq sub[q]
          BY <1>1, <5>1, Below
        <5> QED
          BY <1>2, <4>2, <5>2
      <4> QED
        BY <4>1, <4>2
    <3>3. \A m \in sub2[a2[n]] \ {v} : m \in sub[a[n]]
      BY <1>7, <2>1, <3>1, <3>2
    <3>4. \A m \in sub2[b2[n]] \ {v} : m \in sub[b[n]]
      BY <1>7, <2>1, <3>1, <3>2
    <3> QED
      BY <1>1, <3>3, <3>4
  <2> QED
    BY <2>4, <2>5
<1>11. sub2[W(r)] = sub[r]
  <2>1. \A m \in Node : m \in sub2[W(r)] <=> W(m) \in sub[r]
    BY <1>1, <1>3, <1>5
  <2>2. \A m \in Node : W(m) \in sub[r] <=> m \in sub[r]
    BY <1>2, <1>3
  <2>3. sub2[W(r)] \subseteq Node /\ sub[r] \subseteq Node
    BY <1>1, <1>3, <1>5
  <2> QED
    BY <2>1, <2>2, <2>3
<1>12. ASSUME NEW m \in Node \ sub[r] PROVE a2[m] = NULL /\ b2[m] = NULL
  <2>1. m \notin {v, s}
    BY <1>2
  <2> QED
    BY <1>1, <1>3, <1>4, <2>1
<1>13. RootedTree(a2, b2, W(r), sub2, K2)
  BY <1>1, <1>3, <1>4, <1>6, <1>8, <1>9, <1>11, <1>12 DEF RootedTree, SearchTree
<1> QED
  BY <1>10, <1>11, <1>13 DEF W

-----------------------------------------------------------------------------
(* What changes of heights and colours when a few nodes are rearranged.    *)

\* No red node has a red child but the excused one (RBTree's RedRule).
RedFree(a, b, red, excused) ==
  \A n \in red : \A c \in {a[n], b[n]} : c = excused \/ c = NULL \/ c \notin red

\* Only the nodes of C are rearranged: x was their topmost, y is now.
Rearranged(a, b, a2, b2, C, x, y) ==
  /\ a2 \in [Node -> Ptr] /\ b2 \in [Node -> Ptr]
  /\ C \in SUBSET Node /\ x \in C /\ y \in C
  /\ \A m \in Node \ C : /\ a[m] \in Ptr \ (C \ {x}) /\ b[m] \in Ptr \ (C \ {x})
                         /\ a2[m] = Renamed(a[m], x, y) /\ b2[m] = Renamed(b[m], x, y)

\* If y has the height x had, the other nodes do not notice.
LEMMA RearrangedHeights ==
  ASSUME NEW a, NEW b, NEW a2, NEW b2, NEW C, NEW x, NEW y,
         Rearranged(a, b, a2, b2, C, x, y),
         NEW red, NEW red2, \A m \in Node \ C : m \in red2 <=> m \in red,
         NEW bh, NEW short \in C \cup {NULL}, NEW da, NEW db,
         Heights(a, b, red, bh, short, da, db),
         NEW bh2, HeightFunction(bh2), bh2[y] = bh[x], \A q \in Ptr \ C : bh2[q] = bh[q],
         NEW short2 \in C \cup {NULL}, NEW da2, NEW db2,
         \A m \in C : HeightAt(a2, b2, red2, bh2, m, short2, da2, db2)
  PROVE  Heights(a2, b2, red2, bh2, short2, da2, db2)
<1> SUFFICES ASSUME NEW m \in Node \ C
             PROVE  HeightAt(a2, b2, red2, bh2, m, short2, da2, db2)
  BY DEF Heights
<1>1. HeightAt(a, b, red, bh, m, short, da, db)
  BY DEF Heights
<1>2. m # short /\ m # short2 /\ m \in Ptr
  BY NullAssumption DEF Ptr
<1>3. bh2[a2[m]] = bh[a[m]]
  <2>1. CASE a[m] = x
    BY <2>1 DEF Rearranged, Renamed
  <2>2. CASE a[m] # x
    BY <2>2 DEF Rearranged, Renamed
  <2> QED
    BY <2>1, <2>2
<1>4. bh2[b2[m]] = bh[b[m]]
  <2>1. CASE b[m] = x
    BY <2>1 DEF Rearranged, Renamed
  <2>2. CASE b[m] # x
    BY <2>2 DEF Rearranged, Renamed
  <2> QED
    BY <2>1, <2>2
<1>5. bh2[m] = bh[m] /\ (m \in red2 <=> m \in red)
  BY <1>2
<1> QED
  BY <1>1, <1>2, <1>3, <1>4, <1>5 DEF HeightAt

\* If y is black, or red as x was, no red node outside gets a red child.
LEMMA RearrangedReds ==
  ASSUME NEW a, NEW b, NEW a2, NEW b2, NEW C, NEW x, NEW y,
         Rearranged(a, b, a2, b2, C, x, y),
         NEW red \in SUBSET Node, NEW red2 \in SUBSET Node,
         \A m \in Node \ C : m \in red2 <=> m \in red,
         NEW excused \in C \cup {NULL}, RedFree(a, b, red, excused), NEW excused2,
         y = excused2 \/ y \notin red2 \/ (x \in red /\ x # excused),
         \A m \in C : m \in red2 =>
            \A c \in {a2[m], b2[m]} : c = excused2 \/ c = NULL \/ c \notin red2
  PROVE  RedFree(a2, b2, red2, excused2)
<1> SUFFICES ASSUME NEW m \in red2, NEW c \in {a2[m], b2[m]}, m \notin C
             PROVE  c = excused2 \/ c = NULL \/ c \notin red2
  BY DEF RedFree
<1>1. m \in Node \ C /\ m \in red
  OBVIOUS
<1>2. PICK d \in {a[m], b[m]} : d \in Ptr \ (C \ {x}) /\ c = Renamed(d, x, y)
  BY <1>1 DEF Rearranged
<1>3. d = excused \/ d = NULL \/ d \notin red
  BY <1>1 DEF RedFree
<1>4. CASE d = x
  BY <1>2, <1>3, <1>4, NullAssumption DEF Renamed, Rearranged
<1>5. CASE d # x
  <2>1. c = d /\ d \notin C
    BY <1>2, <1>5 DEF Renamed
  <2>2. CASE d = NULL
    BY <2>1, <2>2
  <2>3. CASE d # NULL
    <3>1. d \in Node \ C /\ d # excused
      BY <1>2, <2>1, <2>3 DEF Ptr
    <3> QED
      BY <1>3, <2>1, <3>1
  <2> QED
    BY <2>2, <2>3
<1> QED
  BY <1>4, <1>5

-----------------------------------------------------------------------------
(* rbtree_insert_fixup: n and its parent p are red.                        *)

\* The grandparent g goes down on the other side, and exchanges colours with p.
LEMMA OuterColors ==
  ASSUME NEW a, NEW b, NEW r, NEW sub, NEW K, RootedTree(a, b, r, sub, K),
         NEW g \in Node, NEW p \in Node, NEW n \in Node, p = a[g], n = a[p],
         NEW a2, NEW b2, Rotated(b, a, b2, a2, g),
         NEW red \in SUBSET Node, p \in red, n \in red, g \notin red,
         b[g] = NULL \/ b[g] \notin red,
         RedFree(a, b, red, n), NEW bh, Heights(a, b, red, bh, NULL, 0, 0)
  PROVE  /\ \E bh2 : Heights(a2, b2, (red \ {p}) \cup {g}, bh2, NULL, 0, 0)
         /\ RedFree(a2, b2, (red \ {p}) \cup {g}, NULL)
<1> DEFINE red2 == (red \ {p}) \cup {g}
           bh2 == [bh EXCEPT ![g] = bh[p], ![p] = bh[g]]
           C == {g, p, n}
<1>1. p # NULL /\ n # NULL /\ g # NULL /\ \A m \in Node : m \in Ptr /\ m # NULL
  BY NullAssumption DEF Ptr
<1>2. /\ p # g /\ a2 \in [Node -> Ptr] /\ b2 \in [Node -> Ptr]
      /\ b2[p] = g /\ a2[p] = n /\ b2[g] = b[g] /\ a2[g] = b[p]
      /\ b[g] \notin {g, p} /\ b[p] \notin {g, p} /\ n \notin {g, p}
      /\ \A m \in Node \ {g, p} : a2[m] = Renamed(a[m], g, p) /\ b2[m] = Renamed(b[m], g, p)
  <2>1. RootedTree(b, a, r, sub, [m \in Node |-> -K[m]])
    BY MirroredRooted
  <2> QED
    BY <1>1, <2>1, RotatedPointers
<1>3. /\ a \in [Node -> Ptr] /\ b \in [Node -> Ptr]
      /\ a[n] \in Ptr \ C /\ b[n] \in Ptr \ C /\ b[p] # n /\ b[g] # n
      /\ \A m \in Node \ C : a[m] \in Ptr \ (C \ {g}) /\ b[m] \in Ptr \ (C \ {g})
  <2>1. /\ \A m \in Node : p \in {a[m], b[m]} => m = g
        /\ g \notin sub[p] /\ sub[n] \subseteq sub[p]
    BY <1>1, OnlyParent
  <2>2. /\ \A m \in Node : n \in {a[m], b[m]} => m = p
        /\ p \notin sub[n]
    BY <1>1, OnlyParent
  <2>3. /\ a \in [Node -> Ptr] /\ b \in [Node -> Ptr] /\ SearchTree(a, b, sub, K)
    BY DEF RootedTree, SearchTree
  <2>4. a[n] # n /\ b[n] # n /\ (a[n] # NULL => a[n] \in sub[n]) /\ (b[n] # NULL => b[n] \in sub[n])
    BY <2>3, Locally
  <2>5. b[p] # n
    BY <1>1, <2>3, Locally
  <2> QED
    BY <1>1, <1>2, <2>1, <2>2, <2>3, <2>4, <2>5
<1>4. Rearranged(a, b, a2, b2, C, g, p)
  BY <1>2, <1>3 DEF Rearranged
<1>5. /\ bh \in [Ptr -> Nat \ {0}] /\ bh[NULL] = 1
      /\ HeightAt(a, b, red, bh, g, NULL, 0, 0)
      /\ HeightAt(a, b, red, bh, p, NULL, 0, 0)
      /\ HeightAt(a, b, red, bh, n, NULL, 0, 0)
  BY DEF Heights, HeightFunction
<1>6. /\ bh2 \in [Ptr -> Nat \ {0}] /\ bh2[g] = bh[p] /\ bh2[p] = bh[g]
      /\ \A q \in Ptr \ {g, p} : bh2[q] = bh[q]
  BY <1>1, <1>2, <1>5
<1> HIDE DEF bh2
<1>7. b[p] \in Ptr /\ b[g] \in Ptr /\ a[n] \in Ptr /\ b[n] \in Ptr /\ n \in Ptr
  BY <1>1, <1>3
<1>8. /\ HeightAt(a2, b2, red2, bh2, g, NULL, 0, 0)
      /\ HeightAt(a2, b2, red2, bh2, p, NULL, 0, 0)
      /\ HeightAt(a2, b2, red2, bh2, n, NULL, 0, 0)
  <2>1. /\ bh2[b[p]] = bh[b[p]] /\ bh2[b[g]] = bh[b[g]] /\ bh2[n] = bh[n]
        /\ bh2[a[n]] = bh[a[n]] /\ bh2[b[n]] = bh[b[n]]
        /\ bh[b[p]] \in Nat /\ bh[b[g]] \in Nat /\ bh[n] \in Nat
        /\ bh[g] \in Nat /\ bh[p] \in Nat /\ bh[a[n]] \in Nat /\ bh[b[n]] \in Nat
    BY <1>1, <1>2, <1>3, <1>5, <1>6, <1>7
  <2>2. /\ a2[n] = a[n] /\ b2[n] = b[n]
        /\ n \in red2 /\ g \in red2 /\ p \notin red2
    BY <1>2, <1>3 DEF Renamed
  <2> QED
    BY <1>1, <1>2, <1>5, <1>6, <2>1, <2>2 DEF HeightAt
<1>9. Heights(a2, b2, red2, bh2, NULL, 0, 0)
  <2>1. HeightFunction(bh2)
    BY <1>1, <1>2, <1>5, <1>6 DEF HeightFunction, Ptr
  <2>2. bh2[p] = bh[g] /\ \A q \in Ptr \ C : bh2[q] = bh[q]
    BY <1>6
  <2>3. \A m \in C : HeightAt(a2, b2, red2, bh2, m, NULL, 0, 0)
    BY <1>8
  <2>4. \A m \in Node \ C : m \in red2 <=> m \in red
    OBVIOUS
  <2> HIDE DEF C, red2
  <2> QED
    BY <1>4, <2>1, <2>2, <2>3, <2>4, RearrangedHeights
<1>10. RedFree(a2, b2, red2, NULL)
  <2>1. /\ a[n] = NULL \/ a[n] \notin red
        /\ b[n] = NULL \/ b[n] \notin red
        /\ b[p] = NULL \/ b[p] \notin red
    BY <1>2, <1>3 DEF RedFree
  <2>2. \A m \in C : m \in red2 =>
          \A c \in {a2[m], b2[m]} : c = NULL \/ c = NULL \/ c \notin red2
    <3>1. a2[n] = a[n] /\ b2[n] = b[n]
      BY <1>2, <1>3 DEF Renamed
    <3> QED
      BY <1>2, <1>3, <2>1, <3>1
  <2>3. \A m \in Node \ C : m \in red2 <=> m \in red
    OBVIOUS
  <2>4. p \notin red2 /\ red2 \in SUBSET Node /\ n \in C \cup {NULL}
    BY <1>2
  <2> HIDE DEF C, red2
  <2> QED
    BY <1>4, <2>2, <2>3, <2>4, RearrangedReds
<1> QED
  BY <1>9, <1>10

\* n is the inner grandchild: first p goes down, then g, and n exchanges
\* colours with g.
LEMMA InnerColors ==
  ASSUME NEW a, NEW b, NEW r, NEW sub, NEW K, RootedTree(a, b, r, sub, K),
         NEW g \in Node, NEW p \in Node, NEW n \in Node, p = a[g], n = b[p],
         NEW a1, NEW b1, Rotated(a, b, a1, b1, p),
         NEW a2, NEW b2, Rotated(b1, a1, b2, a2, g),
         NEW red \in SUBSET Node, p \in red, n \in red, g \notin red,
         b[g] = NULL \/ b[g] \notin red,
         RedFree(a, b, red, n), NEW bh, Heights(a, b, red, bh, NULL, 0, 0)
  PROVE  /\ a1[n] = p /\ a1[g] = n
         /\ \E bh2 : Heights(a2, b2, (red \ {n}) \cup {g}, bh2, NULL, 0, 0)
         /\ RedFree(a2, b2, (red \ {n}) \cup {g}, NULL)
<1> DEFINE red2 == (red \ {n}) \cup {g}
           bh2 == [bh EXCEPT ![g] = bh[n], ![n] = bh[g]]
           C == {g, p, n}
<1>1. p # NULL /\ n # NULL /\ g # NULL /\ \A m \in Node : m \in Ptr /\ m # NULL
  BY NullAssumption DEF Ptr
<1>2. /\ n # p /\ a1 \in [Node -> Ptr] /\ b1 \in [Node -> Ptr]
      /\ a1[n] = p /\ b1[n] = b[n] /\ a1[p] = a[p] /\ b1[p] = a[n]
      /\ a[p] \notin {p, n} /\ a[n] \notin {p, n} /\ b[n] \notin {p, n}
      /\ \A m \in Node \ {p, n} : a1[m] = Renamed(a[m], p, n) /\ b1[m] = Renamed(b[m], p, n)
  BY <1>1, RotatedPointers
<1>3. /\ a \in [Node -> Ptr] /\ b \in [Node -> Ptr]
      /\ g \notin {p, n} /\ b[g] \notin {g, p, n}
      /\ a[n] \in Ptr \ C /\ b[n] \in Ptr \ C /\ a[p] \in Ptr \ C
      /\ \A m \in Node \ C : a[m] \in Ptr \ (C \ {g}) /\ b[m] \in Ptr \ (C \ {g})
  <2>1. /\ \A m \in Node : p \in {a[m], b[m]} => m = g
        /\ g \notin sub[p] /\ sub[n] \subseteq sub[p]
    BY <1>1, OnlyParent
  <2>2. /\ \A m \in Node : n \in {a[m], b[m]} => m = p
        /\ p \notin sub[n]
    BY <1>1, OnlyParent
  <2>3. /\ a \in [Node -> Ptr] /\ b \in [Node -> Ptr] /\ SearchTree(a, b, sub, K)
    BY DEF RootedTree, SearchTree
  <2>4. /\ a[n] # NULL => a[n] \in sub[n]
        /\ b[n] # NULL => b[n] \in sub[n]
        /\ p \in sub[p] /\ n \in sub[n]
        /\ sub[p] = {p} \cup sub[a[p]] \cup sub[b[p]]
        /\ a[p] # NULL => a[p] \in sub[a[p]]
        /\ b[g] # g /\ a[g] # b[g]
    BY <1>1, <2>3, Locally
  <2> QED
    BY <1>1, <1>2, <2>1, <2>2, <2>3, <2>4
<1>4. a1[g] = n /\ b1[g] = b[g]
  BY <1>2, <1>3 DEF Renamed
<1>5. /\ a2 \in [Node -> Ptr] /\ b2 \in [Node -> Ptr]
      /\ b2[n] = g /\ a2[n] = p /\ b2[g] = b[g] /\ a2[g] = b[n]
      /\ \A m \in Node \ {g, n} : a2[m] = Renamed(a1[m], g, n) /\ b2[m] = Renamed(b1[m], g, n)
  <2>1. \E sub1, r1 : RootedTree(a1, b1, r1, sub1, K)
    BY <1>1, RotatedTree
  <2>2. PICK sub1, r1 : RootedTree(a1, b1, r1, sub1, K)
    BY <2>1
  <2>3. RootedTree(b1, a1, r1, sub1, [m \in Node |-> -K[m]])
    BY <2>2, MirroredRooted
  <2> QED
    BY <1>1, <1>2, <1>4, <2>3, RotatedPointers
<1>6. a2[p] = a[p] /\ b2[p] = a[n]
  BY <1>2, <1>3, <1>5 DEF Renamed
<1>7. Rearranged(a, b, a2, b2, C, g, n)
  <2>1. ASSUME NEW m \in Node \ C
        PROVE a2[m] = Renamed(a[m], g, n) /\ b2[m] = Renamed(b[m], g, n)
    <3>1. a[m] # p /\ b[m] # p
      BY <1>3
    <3> QED
      BY <1>2, <1>5, <3>1 DEF Renamed
  <2> QED
    BY <1>3, <1>5, <2>1 DEF Rearranged
<1>8. /\ bh \in [Ptr -> Nat \ {0}] /\ bh[NULL] = 1
      /\ HeightAt(a, b, red, bh, g, NULL, 0, 0)
      /\ HeightAt(a, b, red, bh, p, NULL, 0, 0)
      /\ HeightAt(a, b, red, bh, n, NULL, 0, 0)
  BY DEF Heights, HeightFunction
<1>9. /\ bh2 \in [Ptr -> Nat \ {0}] /\ bh2[g] = bh[n] /\ bh2[n] = bh[g]
      /\ \A q \in Ptr \ {g, n} : bh2[q] = bh[q]
  BY <1>1, <1>3, <1>8
<1> HIDE DEF bh2
<1>10. /\ HeightAt(a2, b2, red2, bh2, g, NULL, 0, 0)
       /\ HeightAt(a2, b2, red2, bh2, p, NULL, 0, 0)
       /\ HeightAt(a2, b2, red2, bh2, n, NULL, 0, 0)
  <2>1. /\ bh2[a[p]] = bh[a[p]] /\ bh2[b[g]] = bh[b[g]] /\ bh2[p] = bh[p]
        /\ bh2[a[n]] = bh[a[n]] /\ bh2[b[n]] = bh[b[n]]
        /\ bh[a[p]] \in Nat /\ bh[b[g]] \in Nat /\ bh[n] \in Nat
        /\ bh[g] \in Nat /\ bh[p] \in Nat /\ bh[a[n]] \in Nat /\ bh[b[n]] \in Nat
    BY <1>1, <1>3, <1>8, <1>9
  <2>2. n \notin red2 /\ g \in red2 /\ p \in red2
    BY <1>2, <1>3
  <2> QED
    BY <1>1, <1>5, <1>6, <1>8, <1>9, <2>1, <2>2 DEF HeightAt
<1>11. Heights(a2, b2, red2, bh2, NULL, 0, 0)
  <2>1. HeightFunction(bh2)
    BY <1>1, <1>8, <1>9 DEF HeightFunction, Ptr
  <2>2. bh2[n] = bh[g] /\ \A q \in Ptr \ C : bh2[q] = bh[q]
    BY <1>9
  <2>3. \A m \in C : HeightAt(a2, b2, red2, bh2, m, NULL, 0, 0)
    BY <1>10
  <2>4. \A m \in Node \ C : m \in red2 <=> m \in red
    OBVIOUS
  <2> HIDE DEF C, red2
  <2> QED
    BY <1>7, <2>1, <2>2, <2>3, <2>4, RearrangedHeights
<1>12. RedFree(a2, b2, red2, NULL)
  <2>1. /\ a[n] = NULL \/ a[n] \notin red
        /\ b[n] = NULL \/ b[n] \notin red
        /\ a[p] = NULL \/ a[p] \notin red
    BY <1>3 DEF RedFree
  <2>2. \A m \in C : m \in red2 =>
          \A c \in {a2[m], b2[m]} : c = NULL \/ c = NULL \/ c \notin red2
    BY <1>3, <1>5, <1>6, <2>1
  <2>3. \A m \in Node \ C : m \in red2 <=> m \in red
    OBVIOUS
  <2>4. n \notin red2 /\ red2 \in SUBSET Node /\ n \in C \cup {NULL}
    BY <1>3
  <2> HIDE DEF C, red2
  <2> QED
    BY <1>7, <2>2, <2>3, <2>4, RearrangedReds
<1> QED
  BY <1>2, <1>4, <1>11, <1>12

\* The uncle u is red as well: it and p turn black, g red.
LEMMA RecolorColors ==
  ASSUME NEW a, NEW b, NEW r, NEW sub, NEW K, RootedTree(a, b, r, sub, K),
         NEW g \in Node, NEW p \in Node, NEW u \in Node, NEW n \in Node,
         p = a[g], u = b[g], n \in {a[p], b[p]},
         NEW red \in SUBSET Node, p \in red, u \in red, g \notin red,
         RedFree(a, b, red, n), NEW bh, Heights(a, b, red, bh, NULL, 0, 0)
  PROVE  /\ \E bh2 : Heights(a, b, (red \ {p, u}) \cup {g}, bh2, NULL, 0, 0)
         /\ RedFree(a, b, (red \ {p, u}) \cup {g}, g)
<1> DEFINE red2 == (red \ {p, u}) \cup {g}
           bh2 == [bh EXCEPT ![p] = bh[p] + 1, ![u] = bh[u] + 1]
<1>1. /\ p # NULL /\ u # NULL /\ \A m \in Node : m \in Ptr /\ m # NULL
      /\ a \in [Node -> Ptr] /\ b \in [Node -> Ptr] /\ SearchTree(a, b, sub, K)
  BY NullAssumption DEF Ptr, RootedTree, SearchTree
<1>2. /\ p # u /\ p # g /\ u # g
      /\ \A m \in Node : p \in {a[m], b[m]} \/ u \in {a[m], b[m]} => m = g
  BY <1>1, Locally, OnlyParent
<1>3. bh \in [Ptr -> Nat \ {0}] /\ bh[NULL] = 1
  BY DEF Heights, HeightFunction
<1>4. /\ bh2 \in [Ptr -> Nat \ {0}] /\ bh2[p] = bh[p] + 1 /\ bh2[u] = bh[u] + 1
      /\ \A q \in Ptr \ {p, u} : bh2[q] = bh[q]
  <2>1. p \in Ptr /\ u \in Ptr /\ bh[p] + 1 \in Nat \ {0} /\ bh[u] + 1 \in Nat \ {0}
    BY <1>1, <1>3
  <2> QED
    BY <1>2, <1>3, <2>1
<1> HIDE DEF bh2
<1>5. ASSUME NEW m \in Node PROVE HeightAt(a, b, red2, bh2, m, NULL, 0, 0)
  <2>1. /\ HeightAt(a, b, red, bh, m, NULL, 0, 0) /\ m # NULL /\ m \in Ptr
        /\ a[m] \in Ptr /\ b[m] \in Ptr
    BY <1>1 DEF Heights
  <2>2. bh[m] \in Nat /\ bh[a[m]] \in Nat /\ bh[b[m]] \in Nat
    BY <1>3, <2>1
  <2>3. CASE m = g
    BY <1>2, <1>4, <2>1, <2>2, <2>3 DEF HeightAt
  <2>4. CASE m \in {p, u}
    <3>1. bh2[m] = bh[m] + 1 /\ m \in red /\ m \notin red2
      BY <1>2, <1>4, <2>4
    <3>2. bh2[a[m]] = bh[a[m]] /\ bh2[b[m]] = bh[b[m]]
      BY <1>2, <1>4, <2>1, <2>4
    <3> QED
      BY <2>1, <2>2, <3>1, <3>2 DEF HeightAt
  <2>5. CASE m \notin {g, p, u}
    <3>1. bh2[m] = bh[m] /\ (m \in red2 <=> m \in red)
      BY <1>4, <2>1, <2>5
    <3>2. bh2[a[m]] = bh[a[m]] /\ bh2[b[m]] = bh[b[m]]
      BY <1>2, <1>4, <2>1, <2>5
    <3> QED
      BY <2>1, <2>2, <3>1, <3>2 DEF HeightAt
  <2> QED
    BY <2>3, <2>4, <2>5
<1>6. HeightFunction(bh2)
  BY <1>1, <1>3, <1>4 DEF HeightFunction, Ptr
<1>7. RedFree(a, b, red2, g)
  <2>1. ASSUME NEW m \in red2, NEW c \in {a[m], b[m]}, c # g, c # NULL, c \in red2 PROVE FALSE
    <3>1. c \in red /\ m \in Node /\ c \notin {p, u}
      BY <2>1
    <3>2. m # g
      BY <3>1
    <3>3. c = n
      BY <2>1, <3>1, <3>2 DEF RedFree
    <3>4. m = p
      BY <1>1, <3>1, <3>3, OnlyParent
    <3> QED
      BY <1>2, <2>1, <3>4
  <2> QED
    BY <2>1 DEF RedFree
<1> QED
  BY <1>5, <1>6, <1>7 DEF Heights

\* A red leaf where there was NULL.
LEMMA LeafColors ==
  ASSUME NEW a, NEW b, NEW r, NEW sub, NEW K, RootedTree(a, b, r, sub, K),
         NEW p \in Node, a[p] = NULL, NEW k \in Node \ sub[r], k # p,
         NEW red \in SUBSET Node, RedFree(a, b, red, NULL),
         NEW bh, Heights(a, b, red, bh, NULL, 0, 0)
  PROVE  /\ \E bh2 : Heights([a EXCEPT ![p] = k], b, red \cup {k}, bh2, NULL, 0, 0)
         /\ RedFree([a EXCEPT ![p] = k], b, red \cup {k}, k)
<1> DEFINE a2 == [a EXCEPT ![p] = k]
           red2 == red \cup {k}
           bh2 == [bh EXCEPT ![k] = 1]
<1>1. /\ \A m \in Node : m \in Ptr /\ m # NULL
      /\ a \in [Node -> Ptr] /\ b \in [Node -> Ptr]
      /\ a[k] = NULL /\ b[k] = NULL
  BY NullAssumption DEF Ptr, RootedTree, SearchTree
<1>2. \A m \in Node : k \notin {a[m], b[m]}
  BY <1>1, OnlyParent
<1>3. /\ a2 \in [Node -> Ptr] /\ a2[p] = k /\ \A m \in Node \ {p} : a2[m] = a[m]
  BY <1>1
<1>4. bh \in [Ptr -> Nat \ {0}] /\ bh[NULL] = 1
  BY DEF Heights, HeightFunction
<1>5. /\ bh2 \in [Ptr -> Nat \ {0}] /\ bh2[k] = 1 /\ \A q \in Ptr \ {k} : bh2[q] = bh[q]
  BY <1>1, <1>4
<1> HIDE DEF bh2, a2
<1>6. ASSUME NEW m \in Node PROVE HeightAt(a2, b, red2, bh2, m, NULL, 0, 0)
  <2>1. /\ HeightAt(a, b, red, bh, m, NULL, 0, 0) /\ m # NULL /\ m \in Ptr /\ NULL \in Ptr
        /\ a[m] \in Ptr \ {k} /\ b[m] \in Ptr \ {k} /\ k # NULL
    BY <1>1, <1>2 DEF Heights, Ptr
  <2>2. bh[m] \in Nat /\ bh[a[m]] \in Nat /\ bh[b[m]] \in Nat
    BY <1>4, <2>1
  <2>3. bh2[b[m]] = bh[b[m]] /\ bh2[a2[m]] = bh[a[m]]
    BY <1>3, <1>4, <1>5, <2>1
  <2>4. CASE m = k
    <3>1. /\ bh[a[m]] = 1 /\ bh[b[m]] = 1 /\ bh2[m] = 1 /\ m \in red2
      BY <1>1, <1>4, <1>5, <2>4
    <3> QED
      BY <2>1, <2>3, <3>1 DEF HeightAt
  <2>5. CASE m # k
    <3>1. bh2[m] = bh[m] /\ (m \in red2 <=> m \in red)
      BY <1>5, <2>1, <2>5
    <3> QED
      BY <2>1, <2>2, <2>3, <3>1 DEF HeightAt
  <2> QED
    BY <2>4, <2>5
<1>7. HeightFunction(bh2)
  BY <1>1, <1>4, <1>5 DEF HeightFunction, Ptr
<1>8. RedFree(a2, b, red2, k)
  <2>1. ASSUME NEW m \in red2, NEW c \in {a2[m], b[m]}, c # k, c # NULL, c \in red2 PROVE FALSE
    <3>1. c \in red /\ m \in Node
      BY <2>1
    <3>2. c \in {a[m], b[m]}
      BY <1>3, <2>1, <3>1
    <3>3. m # k
      BY <1>1, <2>1, <3>2
    <3> QED
      BY <2>1, <3>1, <3>2, <3>3 DEF RedFree
  <2> QED
    BY <2>1 DEF RedFree
<1> QED
  BY <1>6, <1>7, <1>8 DEF Heights, a2

-----------------------------------------------------------------------------
(* rbtree_remove_fixup: side a of P is one black node short.               *)

\* A rotation rearranges the two nodes that change places.
LEMMA RotatedRearranged ==
  ASSUME NEW a, NEW b, NEW r, NEW sub, NEW K, RootedTree(a, b, r, sub, K),
         NEW n \in Node, b[n] # NULL, NEW a2, NEW b2, Rotated(a, b, a2, b2, n)
  PROVE  Rearranged(a, b, a2, b2, {n, b[n]}, n, b[n])
<1>1. a \in [Node -> Ptr] /\ b \in [Node -> Ptr]
  BY DEF RootedTree, SearchTree
<1>2. /\ b[n] \in Node
      /\ a2 \in [Node -> Ptr] /\ b2 \in [Node -> Ptr]
      /\ \A m \in Node \ {n, b[n]} :
           /\ a2[m] = Renamed(a[m], n, b[n]) /\ b2[m] = Renamed(b[m], n, b[n])
           /\ a[m] # b[n] /\ b[m] # b[n]
  BY RotatedPointers
<1> QED
  BY <1>1, <1>2 DEF Rearranged

\* RBTree's height at a node to which nothing is lent.
CountsAt(a, b, red, bh, m) ==
  /\ bh[a[m]] = bh[b[m]]
  /\ bh[m] = bh[a[m]] + (IF m \in red THEN 0 ELSE 1)

\* "Sibling is guaranteed to exist": the side that is not short has a black
\* node more.
LEMMA OtherSide ==
  ASSUME NEW a \in [Node -> Ptr], NEW b \in [Node -> Ptr], NEW red, NEW P \in Node,
         NEW bh, Heights(a, b, red, bh, P, 1, 0)
  PROVE  /\ b[P] \in Node /\ b[P] # a[P]
         /\ bh[b[P]] = bh[a[P]] + 1
         /\ bh[P] = bh[a[P]] + 1 + (IF P \in red THEN 0 ELSE 1)
         /\ \A q \in Ptr : bh[q] \in Nat /\ bh[q] >= 1
         /\ bh[NULL] = 1
         /\ \A m \in Node \ {P} : CountsAt(a, b, red, bh, m)
<1>1. /\ bh \in [Ptr -> Nat \ {0}] /\ bh[NULL] = 1
      /\ \A m \in Node : HeightAt(a, b, red, bh, m, P, 1, 0)
  BY DEF Heights, HeightFunction
<1>2. \A q \in Ptr : bh[q] \in Nat /\ bh[q] >= 1
  BY <1>1
<1>3. a[P] \in Ptr /\ b[P] \in Ptr /\ \A m \in Node : a[m] \in Ptr /\ b[m] \in Ptr /\ m \in Ptr
  BY DEF Ptr
<1>4. bh[a[P]] + 1 = bh[b[P]] + 0 /\ bh[P] = bh[a[P]] + 1 + (IF P \in red THEN 0 ELSE 1)
  BY <1>1 DEF HeightAt
<1>5. bh[a[P]] \in Nat /\ bh[b[P]] \in Nat /\ bh[a[P]] >= 1
  BY <1>2, <1>3
<1>6. bh[b[P]] = bh[a[P]] + 1
  BY <1>4, <1>5
<1>7. b[P] # a[P] /\ b[P] # NULL
  BY <1>1, <1>5, <1>6
<1>8. ASSUME NEW m \in Node \ {P}
      PROVE  CountsAt(a, b, red, bh, m)
  <2>1. /\ bh[a[m]] + 0 = bh[b[m]] + 0
        /\ bh[m] = bh[a[m]] + 0 + (IF m \in red THEN 0 ELSE 1)
    BY <1>1 DEF HeightAt
  <2> QED
    BY <1>2, <1>3, <2>1 DEF CountsAt
<1> QED
  BY <1>1, <1>2, <1>3, <1>4, <1>6, <1>7, <1>8 DEF Ptr

\* A red sibling S is rotated up and exchanges colours with P: P is short still.
LEMMA SiblingColors ==
  ASSUME NEW a, NEW b, NEW r, NEW sub, NEW K, RootedTree(a, b, r, sub, K),
         NEW P \in Node, NEW S \in Node, S = b[P],
         NEW a2, NEW b2, Rotated(a, b, a2, b2, P),
         NEW red \in SUBSET Node, S \in red, a[P] \notin red,
         RedFree(a, b, red, NULL), NEW bh, Heights(a, b, red, bh, P, 1, 0)
  PROVE  /\ \E bh2 : Heights(a2, b2, (red \ {S}) \cup {P}, bh2, P, 1, 0)
         /\ RedFree(a2, b2, (red \ {S}) \cup {P}, NULL)
<1> DEFINE red2 == (red \ {S}) \cup {P}
           bh2 == [bh EXCEPT ![P] = bh[S], ![S] = bh[P]]
           C == {P, S}
<1>1. /\ \A m \in Node : m \in Ptr /\ m # NULL
      /\ a \in [Node -> Ptr] /\ b \in [Node -> Ptr] /\ P \in C \cup {NULL}
  BY NullAssumption DEF Ptr, RootedTree, SearchTree
<1>2. Rearranged(a, b, a2, b2, C, P, S)
  BY <1>1, RotatedRearranged
<1>3. /\ S # P /\ a2[S] = P /\ b2[S] = b[S] /\ a2[P] = a[P] /\ b2[P] = a[S]
      /\ a[P] \notin C /\ a[S] \notin C /\ b[S] \notin C
  BY <1>1, RotatedPointers
<1>4. /\ \A q \in Ptr : bh[q] \in Nat /\ bh[q] >= 1
      /\ bh[NULL] = 1 /\ bh[S] = bh[a[P]] + 1
      /\ bh[P] = bh[a[P]] + 1 + (IF P \in red THEN 0 ELSE 1)
      /\ bh[a[S]] = bh[b[S]] /\ bh[S] = bh[a[S]] + (IF S \in red THEN 0 ELSE 1)
  BY <1>1, <1>3, OtherSide, SMTT(30) DEF CountsAt
<1>5. /\ P \notin red
      /\ a[S] = NULL \/ a[S] \notin red
      /\ b[S] = NULL \/ b[S] \notin red
  BY <1>1 DEF RedFree
<1>6. a[P] \in Ptr /\ a[S] \in Ptr /\ b[S] \in Ptr
  BY <1>1
<1>7. /\ bh2 \in [Ptr -> Nat \ {0}] /\ bh2[P] = bh[S] /\ bh2[S] = bh[P]
      /\ \A q \in Ptr \ C : bh2[q] = bh[q]
  BY <1>1, <1>3 DEF Heights, HeightFunction
<1> HIDE DEF bh2
<1>8. /\ bh2[a[P]] = bh[a[P]] /\ bh2[a[S]] = bh[a[S]] /\ bh2[b[S]] = bh[b[S]]
      /\ bh[a[P]] \in Nat /\ bh[a[S]] \in Nat /\ bh[b[S]] \in Nat
      /\ bh[P] \in Nat /\ bh[S] \in Nat /\ bh2[NULL] = 1
  BY <1>1, <1>3, <1>4, <1>6, <1>7 DEF Ptr
<1>9. P \in red2 /\ S \notin red2
  BY <1>3
<1>10. HeightAt(a2, b2, red2, bh2, P, P, 1, 0)
  BY <1>3, <1>4, <1>7, <1>8, <1>9 DEF HeightAt
<1>11. HeightAt(a2, b2, red2, bh2, S, P, 1, 0)
  BY <1>3, <1>4, <1>5, <1>7, <1>8, <1>9 DEF HeightAt
<1>12. Heights(a2, b2, red2, bh2, P, 1, 0)
  <2>1. HeightFunction(bh2)
    BY <1>7, <1>8 DEF HeightFunction
  <2>2. \A m \in C : HeightAt(a2, b2, red2, bh2, m, P, 1, 0)
    BY <1>10, <1>11
  <2>3. \A m \in Node \ C : m \in red2 <=> m \in red
    OBVIOUS
  <2> HIDE DEF C, red2
  <2> QED
    BY <1>1, <1>2, <1>7, <2>1, <2>2, <2>3, RearrangedHeights
<1>13. RedFree(a2, b2, red2, NULL)
  <2>1. \A m \in C : m \in red2 =>
          \A c \in {a2[m], b2[m]} : c = NULL \/ c = NULL \/ c \notin red2
    BY <1>3, <1>5, <1>9
  <2>2. \A m \in Node \ C : m \in red2 <=> m \in red
    OBVIOUS
  <2>3. red2 \in SUBSET Node /\ NULL \in C \cup {NULL}
    OBVIOUS
  <2> HIDE DEF C, red2
  <2> QED
    BY <1>2, <1>9, <2>1, <2>2, <2>3, RearrangedReds
<1> QED
  BY <1>12, <1>13

\* The far nephew f is red: S is rotated up and takes the colour of P; P and f
\* turn black.
LEMMA FarColors ==
  ASSUME NEW a, NEW b, NEW r, NEW sub, NEW K, RootedTree(a, b, r, sub, K),
         NEW P \in Node, NEW S \in Node, NEW f \in Node, S = b[P], f = b[S],
         NEW a2, NEW b2, Rotated(a, b, a2, b2, P),
         NEW red \in SUBSET Node, S \notin red, f \in red,
         RedFree(a, b, red, NULL), NEW bh, Heights(a, b, red, bh, P, 1, 0),
         NEW red2 \in SUBSET Node, P \notin red2, f \notin red2, S \in red2 <=> P \in red,
         \A m \in Node \ {P, S, f} : m \in red2 <=> m \in red
  PROVE  /\ \E bh2 : Heights(a2, b2, red2, bh2, NULL, 0, 0)
         /\ RedFree(a2, b2, red2, NULL)
<1> DEFINE bh2 == [bh EXCEPT ![P] = bh[S], ![S] = bh[P], ![f] = bh[f] + 1]
           C == {P, S, f}
<1>1. /\ \A m \in Node : m \in Ptr /\ m # NULL
      /\ a \in [Node -> Ptr] /\ b \in [Node -> Ptr] /\ SearchTree(a, b, sub, K)
  BY NullAssumption DEF Ptr, RootedTree, SearchTree
<1>2. /\ S # P /\ a2[S] = P /\ b2[S] = b[S] /\ a2[P] = a[P] /\ b2[P] = a[S]
      /\ a2 \in [Node -> Ptr] /\ b2 \in [Node -> Ptr]
      /\ a[P] \notin {P, S} /\ a[S] \notin {P, S} /\ b[S] \notin {P, S}
      /\ \A m \in Node \ {P, S} : /\ a2[m] = Renamed(a[m], P, S) /\ b2[m] = Renamed(b[m], P, S)
                                  /\ a[m] # S /\ b[m] # S
  BY <1>1, RotatedPointers
<1>3. \A m \in Node : f \in {a[m], b[m]} => m = S
  BY <1>1, OnlyParent
<1>4. f \notin {P, S} /\ a[f] \notin C /\ b[f] \notin C /\ a[S] \notin C /\ a[P] \notin C
  <2>1. P \notin sub[S] /\ S \notin sub[f]
    BY <1>1, OnlyParent
  <2>2. /\ f \in sub[f] /\ sub[f] \subseteq sub[S]
        /\ a[f] # NULL => a[f] \in sub[f]
        /\ b[f] # NULL => b[f] \in sub[f]
        /\ a[f] # f /\ b[f] # f /\ (a[S] # NULL => a[S] # f)
    BY <1>1, Locally, OnlyParent
  <2> QED
    BY <1>1, <1>2, <1>3, <2>1, <2>2
<1>5. Rearranged(a, b, a2, b2, C, P, S)
  BY <1>1, <1>2, <1>3 DEF Rearranged
<1>6. /\ \A q \in Ptr : bh[q] \in Nat /\ bh[q] >= 1
      /\ bh[NULL] = 1 /\ bh[S] = bh[a[P]] + 1
      /\ bh[P] = bh[a[P]] + 1 + (IF P \in red THEN 0 ELSE 1)
      /\ bh[a[S]] = bh[b[S]] /\ bh[S] = bh[a[S]] + (IF S \in red THEN 0 ELSE 1)
      /\ bh[a[f]] = bh[b[f]] /\ bh[f] = bh[a[f]] + (IF f \in red THEN 0 ELSE 1)
  BY <1>1, <1>2, <1>4, OtherSide DEF CountsAt
<1>7. /\ bh2 \in [Ptr -> Nat \ {0}] /\ bh2[P] = bh[S] /\ bh2[S] = bh[P] /\ bh2[f] = bh[f] + 1
      /\ \A q \in Ptr \ C : bh2[q] = bh[q]
  <2>1. bh \in [Ptr -> Nat \ {0}] /\ bh[f] + 1 \in Nat \ {0}
    BY <1>1, <1>6 DEF Heights, HeightFunction
  <2> QED
    BY <1>1, <1>2, <1>4, <2>1
<1> HIDE DEF bh2
<1>8. /\ bh2[a[P]] = bh[a[P]] /\ bh2[a[S]] = bh[a[S]]
      /\ bh2[a[f]] = bh[a[f]] /\ bh2[b[f]] = bh[b[f]]
      /\ bh[a[P]] \in Nat /\ bh[a[S]] \in Nat /\ bh[a[f]] \in Nat /\ bh[b[f]] \in Nat
      /\ bh[P] \in Nat /\ bh[S] \in Nat /\ bh[f] \in Nat /\ bh2[NULL] = 1
  <2>1. a[P] \in Ptr /\ a[S] \in Ptr /\ a[f] \in Ptr /\ b[f] \in Ptr /\ NULL \in Ptr /\ NULL \notin C
    BY <1>1 DEF Ptr
  <2> QED
    BY <1>1, <1>4, <1>6, <1>7, <2>1
<1>9. a2[f] = a[f] /\ b2[f] = b[f]
  BY <1>2, <1>4 DEF Renamed
<1>10. /\ HeightAt(a2, b2, red2, bh2, P, NULL, 0, 0)
       /\ HeightAt(a2, b2, red2, bh2, S, NULL, 0, 0)
       /\ HeightAt(a2, b2, red2, bh2, f, NULL, 0, 0)
  <2>1. HeightAt(a2, b2, red2, bh2, P, NULL, 0, 0)
    <3>1. /\ P # NULL /\ bh2[P] = bh[a[P]] + 1 /\ bh2[a2[P]] = bh[a[P]]
          /\ bh2[b2[P]] = bh[a[P]] /\ bh[a[P]] \in Nat
      BY <1>1, <1>2, <1>6, <1>7, <1>8
    <3> QED
      BY <3>1 DEF HeightAt
  <2>2. HeightAt(a2, b2, red2, bh2, S, NULL, 0, 0)
    BY <1>1, <1>2, <1>6, <1>7, <1>8 DEF HeightAt
  <2>3. HeightAt(a2, b2, red2, bh2, f, NULL, 0, 0)
    BY <1>1, <1>6, <1>7, <1>8, <1>9 DEF HeightAt
  <2> QED
    BY <2>1, <2>2, <2>3
<1>11. Heights(a2, b2, red2, bh2, NULL, 0, 0)
  <2>1. HeightFunction(bh2)
    BY <1>7, <1>8 DEF HeightFunction
  <2>2. \A m \in C : HeightAt(a2, b2, red2, bh2, m, NULL, 0, 0)
    BY <1>10
  <2>3. P \in C \cup {NULL} /\ NULL \in C \cup {NULL} /\ bh2[S] = bh[P] /\ \A m \in Node \ C : m \in red2 <=> m \in red
    BY <1>7
  <2> HIDE DEF C
  <2> QED
    BY <1>5, <1>7, <2>1, <2>2, <2>3, RearrangedHeights
<1>12. RedFree(a2, b2, red2, NULL)
  <2>1. \A m \in C : m \in red2 =>
          \A c \in {a2[m], b2[m]} : c = NULL \/ c = NULL \/ c \notin red2
    BY <1>2
  <2>2. NULL \in C \cup {NULL} /\ \A m \in Node \ C : m \in red2 <=> m \in red
    OBVIOUS
  <2>3. S \notin red2 \/ (P \in red /\ P # NULL)
    BY <1>1
  <2> HIDE DEF C
  <2> QED
    BY <1>5, <2>1, <2>2, <2>3, RearrangedReds
<1> QED
  BY <1>11, <1>12

\* The near nephew q is red, the far one is not: q is rotated up twice and takes
\* the colour of P; P turns black, S stays black.
LEMMA NearColors ==
  ASSUME NEW a, NEW b, NEW r, NEW sub, NEW K, RootedTree(a, b, r, sub, K),
         NEW P \in Node, NEW S \in Node, NEW q \in Node, S = b[P], q = a[S],
         NEW a1, NEW b1, Rotated(b, a, b1, a1, S),
         NEW a2, NEW b2, Rotated(a1, b1, a2, b2, P),
         NEW red \in SUBSET Node, S \notin red, q \in red,
         RedFree(a, b, red, NULL), NEW bh, Heights(a, b, red, bh, P, 1, 0),
         NEW red2 \in SUBSET Node, P \notin red2, S \notin red2, q \in red2 <=> P \in red,
         \A m \in Node \ {P, S, q} : m \in red2 <=> m \in red
  PROVE  /\ b1[P] = q /\ b1[q] = S
         /\ \E bh2 : Heights(a2, b2, red2, bh2, NULL, 0, 0)
         /\ RedFree(a2, b2, red2, NULL)
<1> DEFINE bh2 == [bh EXCEPT ![P] = bh[S], ![q] = bh[P]]
           C == {P, S, q}
<1>1. /\ \A m \in Node : m \in Ptr /\ m # NULL
      /\ a \in [Node -> Ptr] /\ b \in [Node -> Ptr] /\ SearchTree(a, b, sub, K)
      /\ RootedTree(b, a, r, sub, [m \in Node |-> -K[m]])
  BY NullAssumption, MirroredRooted DEF Ptr, RootedTree, SearchTree
<1>2. /\ q # S /\ a1 \in [Node -> Ptr] /\ b1 \in [Node -> Ptr]
      /\ b1[q] = S /\ a1[q] = a[q] /\ b1[S] = b[S] /\ a1[S] = b[q]
      /\ \A m \in Node \ {S, q} : b1[m] = Renamed(b[m], S, q) /\ a1[m] = Renamed(a[m], S, q)
  BY <1>1, RotatedPointers
<1>3. /\ P \notin {S, q} /\ a[P] \notin C
      /\ a[q] \in Ptr \ C /\ b[q] \in Ptr \ C /\ b[S] \in Ptr \ C
      /\ \A m \in Node \ C : a[m] \in Ptr \ (C \ {P}) /\ b[m] \in Ptr \ (C \ {P})
  <2>1. /\ \A m \in Node : S \in {a[m], b[m]} => m = P
        /\ P \notin sub[S] /\ sub[q] \subseteq sub[S]
    BY <1>1, OnlyParent
  <2>2. /\ \A m \in Node : q \in {a[m], b[m]} => m = S
        /\ S \notin sub[q]
    BY <1>1, OnlyParent
  <2>3. /\ a[q] # NULL => a[q] \in sub[q]
        /\ b[q] # NULL => b[q] \in sub[q]
        /\ S \in sub[S] /\ q \in sub[q] /\ a[q] # q /\ b[q] # q
        /\ sub[S] = {S} \cup sub[a[S]] \cup sub[b[S]]
        /\ b[S] # NULL => b[S] \in sub[b[S]]
        /\ b[S] # S /\ a[P] # P /\ b[S] # q /\ a[P] # S
    BY <1>1, Locally
  <2> QED
    BY <1>1, <2>1, <2>2, <2>3
<1>4. b1[P] = q /\ a1[P] = a[P]
  BY <1>2, <1>3 DEF Renamed
<1>5. /\ a2 \in [Node -> Ptr] /\ b2 \in [Node -> Ptr]
      /\ a2[q] = P /\ b2[q] = S /\ a2[P] = a[P] /\ b2[P] = a[q]
      /\ \A m \in Node \ {P, q} : a2[m] = Renamed(a1[m], P, q) /\ b2[m] = Renamed(b1[m], P, q)
  <2>1. \E sub1, r1 : RootedTree(b1, a1, r1, sub1, [m \in Node |-> -K[m]])
    <3> DEFINE L == [m \in Node |-> -K[m]]
    <3>1. /\ RootedTree(b, a, r, sub, L) /\ S \in Node /\ a[S] # NULL
          /\ Rotated(b, a, b1, a1, S)
      BY <1>1
    <3> HIDE DEF L
    <3>2. \E sub1 : RootedTree(b1, a1, Renamed(r, S, a[S]), sub1, L)
      BY ONLY <3>1, RotatedTree
    <3> QED
      BY <3>2 DEF L
  <2>2. PICK sub1, r1 : RootedTree(b1, a1, r1, sub1, [m \in Node |-> -K[m]])
    BY <2>1
  <2>3. \E K1 : RootedTree(a1, b1, r1, sub1, K1)
    BY <2>2, MirroredRooted
  <2>4. PICK K1 : RootedTree(a1, b1, r1, sub1, K1)
    BY <2>3
  <2> QED
    BY <1>1, <1>2, <1>4, <2>4, RotatedPointers
<1>6. a2[S] = b[q] /\ b2[S] = b[S]
  BY <1>2, <1>3, <1>5 DEF Renamed
<1>7. Rearranged(a, b, a2, b2, C, P, q)
  <2>1. ASSUME NEW m \in Node \ C
        PROVE a2[m] = Renamed(a[m], P, q) /\ b2[m] = Renamed(b[m], P, q)
    <3>1. a[m] # S /\ b[m] # S
      BY <1>3
    <3> QED
      BY <1>2, <1>5, <3>1 DEF Renamed
  <2> QED
    BY <1>3, <1>5, <2>1 DEF Rearranged
<1>8. /\ \A x \in Ptr : bh[x] \in Nat /\ bh[x] >= 1
      /\ bh[NULL] = 1 /\ bh[S] = bh[a[P]] + 1
      /\ bh[P] = bh[a[P]] + 1 + (IF P \in red THEN 0 ELSE 1)
      /\ bh[a[S]] = bh[b[S]] /\ bh[S] = bh[a[S]] + (IF S \in red THEN 0 ELSE 1)
      /\ bh[a[q]] = bh[b[q]] /\ bh[q] = bh[a[q]] + (IF q \in red THEN 0 ELSE 1)
  BY <1>1, <1>3, OtherSide DEF CountsAt
<1>9. /\ bh2 \in [Ptr -> Nat \ {0}] /\ bh2[P] = bh[S] /\ bh2[q] = bh[P]
      /\ \A x \in Ptr \ {P, q} : bh2[x] = bh[x]
  BY <1>1, <1>3 DEF Heights, HeightFunction
<1> HIDE DEF bh2
<1>10. /\ bh2[a[P]] = bh[a[P]] /\ bh2[a[q]] = bh[a[q]] /\ bh2[b[q]] = bh[b[q]]
       /\ bh2[b[S]] = bh[b[S]] /\ bh2[S] = bh[S]
       /\ bh[a[P]] \in Nat /\ bh[a[q]] \in Nat /\ bh[b[q]] \in Nat /\ bh[b[S]] \in Nat
       /\ bh[P] \in Nat /\ bh[S] \in Nat /\ bh[q] \in Nat /\ bh2[NULL] = 1
  <2>1. a[P] \in Ptr /\ NULL \in Ptr /\ NULL \notin C
    BY <1>1 DEF Ptr
  <2> QED
    BY <1>1, <1>2, <1>3, <1>8, <1>9, <2>1
<1>11. /\ HeightAt(a2, b2, red2, bh2, P, NULL, 0, 0)
       /\ HeightAt(a2, b2, red2, bh2, S, NULL, 0, 0)
       /\ HeightAt(a2, b2, red2, bh2, q, NULL, 0, 0)
  BY <1>1, <1>5, <1>6, <1>8, <1>9, <1>10 DEF HeightAt
<1>12. Heights(a2, b2, red2, bh2, NULL, 0, 0)
  <2>1. HeightFunction(bh2)
    BY <1>9, <1>10 DEF HeightFunction
  <2>2. \A m \in C : HeightAt(a2, b2, red2, bh2, m, NULL, 0, 0)
    BY <1>11
  <2>3. P \in C \cup {NULL} /\ NULL \in C \cup {NULL} /\ bh2[q] = bh[P] /\ \A m \in Node \ C : m \in red2 <=> m \in red
    BY <1>9
  <2>4. \A x \in Ptr \ C : bh2[x] = bh[x]
    BY <1>9
  <2> HIDE DEF C
  <2> QED
    BY <1>7, <2>1, <2>2, <2>3, <2>4, RearrangedHeights
<1>13. RedFree(a2, b2, red2, NULL)
  <2>1. \A m \in C : m \in red2 =>
          \A c \in {a2[m], b2[m]} : c = NULL \/ c = NULL \/ c \notin red2
    BY <1>5
  <2>2. NULL \in C \cup {NULL} /\ \A m \in Node \ C : m \in red2 <=> m \in red
    OBVIOUS
  <2>3. q \notin red2 \/ (P \in red /\ P # NULL)
    BY <1>1
  <2> HIDE DEF C
  <2> QED
    BY <1>7, <2>1, <2>2, <2>3, RearrangedReds
<1> QED
  BY <1>2, <1>4, <1>12, <1>13

\* The subtree at q is the one that is lent a node: by its parent G, if any.
Lent(a, b, q, G, da, db) ==
  \/ G = NULL /\ da = 0 /\ db = 0 /\ \A m \in Node : q \notin {a[m], b[m]}
  \/ G \in Node /\ a[G] = q /\ da = 1 /\ db = 0
  \/ G \in Node /\ b[G] = q /\ da = 0 /\ db = 1

\* What Heights says of a node, as plain equations.
LEMMA HeightsAt ==
  ASSUME NEW a \in [Node -> Ptr], NEW b \in [Node -> Ptr], NEW red, NEW short,
         NEW da \in Nat, NEW db \in Nat, NEW bh, Heights(a, b, red, bh, short, da, db)
  PROVE  /\ bh \in [Ptr -> Nat \ {0}] /\ bh[NULL] = 1
         /\ \A q \in Ptr : bh[q] \in Nat /\ bh[q] >= 1
         /\ \A m \in Node :
              /\ m \in Ptr /\ m # NULL
              /\ a[m] \in Ptr /\ b[m] \in Ptr
              /\ m # short => CountsAt(a, b, red, bh, m)
<1>1. /\ bh \in [Ptr -> Nat \ {0}] /\ bh[NULL] = 1
      /\ \A m \in Node : HeightAt(a, b, red, bh, m, short, da, db)
  BY DEF Heights, HeightFunction
<1>2. \A q \in Ptr : bh[q] \in Nat /\ bh[q] >= 1
  BY <1>1
<1>3. \A m \in Node : m \in Ptr /\ m # NULL /\ a[m] \in Ptr /\ b[m] \in Ptr
  BY NullAssumption DEF Ptr
<1>4. ASSUME NEW m \in Node, m # short
      PROVE  CountsAt(a, b, red, bh, m)
  <2>1. /\ bh[a[m]] + 0 = bh[b[m]] + 0
        /\ bh[m] = bh[a[m]] + 0 + (IF m \in red THEN 0 ELSE 1)
    BY <1>1, <1>4 DEF HeightAt
  <2>2. bh[a[m]] \in Nat /\ bh[b[m]] \in Nat
    BY <1>2, <1>3
  <2> QED
    BY <2>1, <2>2 DEF CountsAt
<1> QED
  BY <1>1, <1>2, <1>3, <1>4

\* S is painted red: the subtree of P is one black node short as a whole, and
\* what was lent at P is lent above it.
LEMMA DownColors ==
  ASSUME NEW a, NEW b, NEW r, NEW sub, NEW K, RootedTree(a, b, r, sub, K),
         NEW P \in Node, NEW S \in Node, S = b[P],
         NEW red \in SUBSET Node, S \notin red,
         a[S] = NULL \/ a[S] \notin red, b[S] = NULL \/ b[S] \notin red,
         RedFree(a, b, red, NULL), NEW bh, Heights(a, b, red, bh, P, 1, 0),
         NEW G, NEW da, NEW db, Lent(a, b, P, G, da, db)
  PROVE  /\ \E bh2 : Heights(a, b, red \cup {S}, bh2, G, da, db)
         /\ RedFree(a, b, (red \cup {S}) \ {P}, NULL)
<1> DEFINE red2 == red \cup {S}
           bh2 == [bh EXCEPT ![P] = bh[P] - 1, ![S] = bh[S] - 1]
<1>1. /\ \A m \in Node : m \in Ptr /\ m # NULL /\ a[m] \in Ptr /\ b[m] \in Ptr
      /\ a \in [Node -> Ptr] /\ b \in [Node -> Ptr] /\ SearchTree(a, b, sub, K)
      /\ NULL \notin Node
  BY NullAssumption DEF Ptr, RootedTree, SearchTree
<1>2. /\ S # P /\ S # a[P] /\ a[S] \notin {S, P} /\ b[S] \notin {S, P} /\ a[P] # P
      /\ \A m \in Node : S \in {a[m], b[m]} => m = P
  <2>1. /\ \A m \in Node : S \in {a[m], b[m]} => m = P
        /\ P \notin sub[S]
    BY <1>1, OnlyParent
  <2>2. /\ a[S] # S /\ b[S] # S /\ sub[S] = {S} \cup sub[a[S]] \cup sub[b[S]]
        /\ a[S] # NULL => a[S] \in sub[a[S]]
        /\ b[S] # NULL => b[S] \in sub[b[S]]
        /\ a[P] # P /\ S # P /\ (a[P] # NULL => a[P] # S)
    BY <1>1, Locally
  <2> QED
    BY <1>1, <2>1, <2>2
<1>3. /\ bh[S] = bh[a[P]] + 1
      /\ bh[P] = bh[a[P]] + 1 + (IF P \in red THEN 0 ELSE 1)
      /\ \A q \in Ptr : bh[q] \in Nat /\ bh[q] >= 1
      /\ bh[NULL] = 1
      /\ \A m \in Node \ {P} : CountsAt(a, b, red, bh, m)
  BY <1>1, OtherSide
<1>4. /\ bh2 \in [Ptr -> Nat \ {0}] /\ bh2[P] = bh[P] - 1 /\ bh2[S] = bh[S] - 1
      /\ \A q \in Ptr \ {P, S} : bh2[q] = bh[q]
  <2>1. bh[P] - 1 \in Nat \ {0} /\ bh[S] - 1 \in Nat \ {0}
    BY <1>1, <1>3
  <2>2. bh \in [Ptr -> Nat \ {0}] /\ P \in Ptr /\ S \in Ptr
    BY <1>1 DEF Heights, HeightFunction
  <2> HIDE DEF Ptr
  <2> QED
    BY <1>2, <2>1, <2>2
<1> HIDE DEF bh2
<1>5. HeightFunction(bh2)
  BY <1>1, <1>3, <1>4 DEF HeightFunction, Ptr
<1>6. HeightAt(a, b, red2, bh2, P, G, da, db)
  <2>1. P # G
    BY <1>1, <1>2, Locally DEF Lent
  <2>2. /\ bh2[a[P]] = bh[a[P]] /\ bh2[b[P]] = bh[a[P]] /\ bh[a[P]] \in Nat
        /\ bh2[P] = bh[a[P]] + (IF P \in red2 THEN 0 ELSE 1)
    BY <1>1, <1>2, <1>3, <1>4 DEF CountsAt
  <2> QED
    BY <2>1, <2>2 DEF HeightAt
<1>7. HeightAt(a, b, red2, bh2, S, G, da, db)
  <2>1. S # G
    BY <1>1, <1>2 DEF Lent
  <2>2. /\ bh2[a[S]] = bh[a[S]] /\ bh2[b[S]] = bh[a[S]] /\ bh[a[S]] \in Nat
        /\ bh2[S] = bh[a[S]] /\ S \in red2
    BY <1>1, <1>2, <1>3, <1>4 DEF CountsAt
  <2> QED
    BY <2>1, <2>2 DEF HeightAt
<1>8. ASSUME NEW m \in Node \ {P, S} PROVE HeightAt(a, b, red2, bh2, m, G, da, db)
  <2>1. /\ bh2[m] = bh[m] /\ (m \in red2 <=> m \in red)
        /\ S \notin {a[m], b[m]}
        /\ bh[a[m]] \in Nat /\ bh[b[m]] = bh[a[m]]
        /\ bh[m] = bh[a[m]] + (IF m \in red THEN 0 ELSE 1)
    BY <1>1, <1>2, <1>3, <1>4 DEF CountsAt
  <2>2. CASE P \notin {a[m], b[m]}
    <3>1. m # G
      BY <1>1, <2>2 DEF Lent
    <3>2. bh2[a[m]] = bh[a[m]] /\ bh2[b[m]] = bh[a[m]]
      BY <1>1, <1>4, <2>1, <2>2
    <3> QED
      BY <2>1, <3>1, <3>2 DEF HeightAt
  <2>3. CASE P \in {a[m], b[m]}
    <3>1. m = G /\ a[m] # b[m]
      <4>1. \A x \in Node : P \in {a[x], b[x]} => x = m
        BY <1>1, <2>3, OnlyParent
      <4>2. a[m] # NULL => a[m] # b[m]
        BY <1>1, Locally
      <4> QED
        BY <1>1, <2>3, <4>1, <4>2 DEF Lent
    <3>2. CASE a[m] = P
      <4>1. /\ da = 1 /\ db = 0 /\ bh2[a[m]] = bh[a[m]] - 1 /\ bh2[b[m]] = bh[a[m]]
        BY <1>1, <1>4, <2>1, <3>1, <3>2 DEF Lent
      <4> QED
        BY <2>1, <3>1, <4>1 DEF HeightAt
    <3>3. CASE b[m] = P
      <4>1. /\ da = 0 /\ db = 1 /\ bh2[a[m]] = bh[a[m]] /\ bh2[b[m]] = bh[a[m]] - 1
        BY <1>1, <1>4, <2>1, <3>1, <3>3 DEF Lent
      <4> QED
        BY <2>1, <3>1, <4>1 DEF HeightAt
    <3> QED
      BY <2>3, <3>2, <3>3
  <2> QED
    BY <2>2, <2>3
<1>9. RedFree(a, b, red2 \ {P}, NULL)
  BY <1>1, <1>2 DEF RedFree
<1> QED
  BY <1>5, <1>6, <1>7, <1>8, <1>9 DEF Heights

\* What is lent is given for good: the red node at the end turns black.
LEMMA BlackenColors ==
  ASSUME NEW a, NEW b, NEW r, NEW sub, NEW K, RootedTree(a, b, r, sub, K),
         NEW e \in Node, NEW red \in SUBSET Node, e \in red,
         NEW G, NEW da, NEW db, Lent(a, b, e, G, da, db),
         NEW bh, Heights(a, b, red, bh, G, da, db)
  PROVE  \E bh2 : Heights(a, b, red \ {e}, bh2, NULL, 0, 0)
<1> DEFINE bh2 == [bh EXCEPT ![e] = bh[e] + 1]
           red2 == red \ {e}
<1>1. /\ a \in [Node -> Ptr] /\ b \in [Node -> Ptr] /\ SearchTree(a, b, sub, K)
      /\ da \in Nat /\ db \in Nat /\ NULL \notin Node
  BY NullAssumption DEF RootedTree, SearchTree, Lent
<1>2. /\ bh \in [Ptr -> Nat \ {0}] /\ bh[NULL] = 1
      /\ \A q \in Ptr : bh[q] \in Nat /\ bh[q] >= 1
      /\ \A m \in Node :
           /\ m \in Ptr /\ m # NULL
           /\ a[m] \in Ptr /\ b[m] \in Ptr
           /\ m # G => CountsAt(a, b, red, bh, m)
  BY <1>1, HeightsAt
<1>3. /\ bh2 \in [Ptr -> Nat \ {0}] /\ bh2[e] = bh[e] + 1
      /\ \A q \in Ptr \ {e} : bh2[q] = bh[q]
  <2>1. bh[e] + 1 \in Nat \ {0}
    BY <1>2
  <2> QED
    BY <1>2, <2>1
<1> HIDE DEF bh2
<1>4. HeightFunction(bh2)
  BY <1>1, <1>2, <1>3 DEF HeightFunction, Ptr
<1>5. ASSUME NEW m \in Node PROVE HeightAt(a, b, red2, bh2, m, NULL, 0, 0)
  <2>1. /\ bh[a[m]] \in Nat /\ bh[b[m]] \in Nat /\ bh[m] \in Nat /\ m # NULL
        /\ m # e => bh2[m] = bh[m] /\ (m \in red2 <=> m \in red)
    BY <1>1, <1>2, <1>3
  <2>2. CASE e \notin {a[m], b[m]}
    <3>1. m # G
      BY <1>1, <2>2 DEF Lent
    <3>2. /\ bh2[a[m]] = bh[a[m]] /\ bh2[b[m]] = bh[a[m]]
          /\ bh[m] = bh[a[m]] + (IF m \in red THEN 0 ELSE 1)
      BY <1>2, <1>3, <2>2, <3>1 DEF CountsAt
    <3>3. CASE m = e
      BY <1>3, <2>1, <3>2, <3>3 DEF HeightAt
    <3>4. CASE m # e
      BY <2>1, <3>2, <3>4 DEF HeightAt
    <3> QED
      BY <3>3, <3>4
  <2>3. CASE e \in {a[m], b[m]}
    <3>1. m = G /\ a[m] # b[m] /\ m # e
      <4>1. \A x \in Node : e \in {a[x], b[x]} => x = m
        BY <1>2, <2>3, OnlyParent
      <4>2. (a[m] # NULL => a[m] # b[m]) /\ a[m] # m /\ b[m] # m
        BY <1>1, Locally
      <4> QED
        BY <1>1, <1>2, <2>3, <4>1, <4>2 DEF Lent
    <3>2. HeightAt(a, b, red, bh, m, G, da, db)
      BY DEF Heights
    <3>3. CASE a[m] = e
      <4>1. /\ da = 1 /\ db = 0 /\ bh2[a[m]] = bh[a[m]] + 1 /\ bh2[b[m]] = bh[b[m]]
        BY <1>1, <1>2, <1>3, <2>1, <3>1, <3>3 DEF Lent
      <4> QED
        BY <2>1, <3>1, <3>2, <4>1 DEF HeightAt
    <3>4. CASE b[m] = e
      <4>1. /\ da = 0 /\ db = 1 /\ bh2[a[m]] = bh[a[m]] /\ bh2[b[m]] = bh[b[m]] + 1
        BY <1>1, <1>2, <1>3, <2>1, <3>1, <3>4 DEF Lent
      <4> QED
        BY <2>1, <3>1, <3>2, <4>1 DEF HeightAt
    <3> QED
      BY <2>3, <3>3, <3>4
  <2> QED
    BY <2>2, <2>3
<1> QED
  BY <1>4, <1>5 DEF Heights

-----------------------------------------------------------------------------
(* rbtree_remove: v, which has no child on side a, is taken out.           *)

\* v is gone and c, or NULL, is in its place below G.
Relieved(a2, b2, red, v, c, G, da, db) ==
  /\ v \in red => /\ c = NULL
                  /\ \E bh : Heights(a2, b2, red \ {v}, bh, NULL, 0, 0)
  /\ v \notin red => \E bh : Heights(a2, b2, red \ {v}, bh, G, da, db)
  /\ v \notin red /\ G # NULL => a2[G] # b2[G]
  /\ RedFree(a2, b2, red \ {v, c}, NULL)

\* Its child, if it has one, is red.  If v is red it has none and nothing more
\* happens; if v is black, what takes its place is one black node short.
LEMMA SpliceColors ==
  ASSUME NEW a, NEW b, NEW r, NEW sub, NEW K, RootedTree(a, b, r, sub, K),
         NEW v \in Node, a[v] = NULL,
         NEW a2, NEW b2, Spliced(a, b, a2, b2, v, b[v]),
         NEW red \in SUBSET Node, RedFree(a, b, red, NULL),
         NEW bh, Heights(a, b, red, bh, NULL, 0, 0),
         NEW G, NEW da, NEW db, Lent(a, b, v, G, da, db)
  PROVE  Relieved(a2, b2, red, v, b[v], G, da, db)
<1> DEFINE c == b[v]
           red2 == red \ {v}
           bh2 == [bh EXCEPT ![v] = 2]
<1>1. /\ a \in [Node -> Ptr] /\ b \in [Node -> Ptr] /\ SearchTree(a, b, sub, K)
      /\ NULL \notin Node /\ 0 \in Nat
  BY NullAssumption DEF RootedTree, SearchTree
<1>2. /\ bh \in [Ptr -> Nat \ {0}] /\ bh[NULL] = 1
      /\ \A q \in Ptr : bh[q] \in Nat /\ bh[q] >= 1
      /\ \A m \in Node :
           /\ m \in Ptr /\ m # NULL
           /\ a[m] \in Ptr /\ b[m] \in Ptr
           /\ CountsAt(a, b, red, bh, m)
  <2>1. /\ bh \in [Ptr -> Nat \ {0}] /\ bh[NULL] = 1
        /\ \A q \in Ptr : bh[q] \in Nat /\ bh[q] >= 1
    BY DEF Heights, HeightFunction
  <2>2. ASSUME NEW m \in Node
        PROVE  /\ m \in Ptr /\ m # NULL
               /\ a[m] \in Ptr /\ b[m] \in Ptr
               /\ CountsAt(a, b, red, bh, m)
    BY <1>1, HeightsAt
  <2> QED
    BY <2>1, <2>2
<1>3. /\ \A m \in Node \ {v} : a2[m] = Renamed(a[m], v, c) /\ b2[m] = Renamed(b[m], v, c)
      /\ a2[v] = NULL /\ b2[v] = NULL
  BY DEF Spliced
<1>4. /\ bh2 \in [Ptr -> Nat \ {0}] /\ bh2[v] = 2 /\ bh2[NULL] = 1
      /\ \A q \in Ptr \ {v} : bh2[q] = bh[q]
  BY <1>1, <1>2 DEF Ptr
<1> HIDE DEF bh2
<1>5. /\ bh[c] = 1 /\ bh[v] = 1 + (IF v \in red THEN 0 ELSE 1)
      /\ c \in Ptr \ {v}
  BY <1>1, <1>2, Locally DEF CountsAt
<1>6. c = NULL \/ c \in red
  <2> SUFFICES ASSUME c # NULL, c \notin red PROVE FALSE
    OBVIOUS
  <2>1. c \in Node
    BY <1>5 DEF Ptr
  <2>2. bh[c] = bh[a[c]] + 1 /\ bh[a[c]] \in Nat /\ bh[a[c]] >= 1
    BY <1>2, <2>1 DEF CountsAt
  <2> QED
    BY <1>5, <2>2
<1>7. v \in red => c = NULL
  BY <1>6 DEF RedFree
<1>8. \A m \in Node : v \in {a[m], b[m]} => m # v /\ a[m] # b[m]
  BY <1>1, <1>2, Locally
<1>9. \A m \in Node : v \in {a[m], b[m]} => \A x \in Node : v \in {a[x], b[x]} => x = m
  BY <1>2, OnlyParent
<1>10. HeightAt(a2, b2, red2, bh2, v, NULL, 0, 0)
  BY <1>1, <1>3, <1>4 DEF HeightAt
<1>11. ASSUME NEW m \in Node \ {v}, v \notin {a[m], b[m]}
       PROVE  HeightAt(a2, b2, red2, bh2, m, NULL, 0, 0)
  <2>1. a2[m] = a[m] /\ b2[m] = b[m]
    BY <1>3, <1>11 DEF Renamed
  <2>2. bh2[a[m]] = bh[a[m]] /\ bh2[b[m]] = bh[b[m]] /\ bh2[m] = bh[m] /\ bh[a[m]] \in Nat
    BY <1>2, <1>4, <1>11
  <2> QED
    BY <1>2, <2>1, <2>2 DEF HeightAt, CountsAt
<1>12. ASSUME NEW m \in Node, v \in {a[m], b[m]}
       PROVE  /\ m # v /\ bh2[m] = bh[m] /\ bh[m] \in Nat
              /\ bh[m] = bh[v] + (IF m \in red2 THEN 0 ELSE 1)
              /\ IF a[m] = v
                 THEN a2[m] = c /\ b2[m] # v /\ b2[m] = b[m] /\ bh2[a2[m]] = 1 /\ bh2[b2[m]] = bh[v]
                 ELSE b2[m] = c /\ a2[m] # v /\ a2[m] = a[m] /\ bh2[b2[m]] = 1 /\ bh2[a2[m]] = bh[v]
  <2>1. m # v /\ bh2[m] = bh[m] /\ bh[m] \in Nat /\ bh[a[m]] = bh[b[m]] /\ m # NULL
    BY <1>2, <1>4, <1>8, <1>12 DEF CountsAt
  <2>2. bh[m] = bh[v] + (IF m \in red2 THEN 0 ELSE 1)
    BY <1>2, <1>12, <2>1 DEF CountsAt
  <2>3. CASE a[m] = v
    <3>1. b[m] # v /\ b[m] \in Ptr
      BY <1>2, <1>8, <2>3
    <3>2. a2[m] = c /\ b2[m] = b[m]
      BY <1>3, <2>1, <2>3, <3>1 DEF Renamed
    <3> QED
      BY <1>4, <1>5, <2>1, <2>2, <2>3, <3>1, <3>2
  <2>4. CASE a[m] # v
    <3>1. b[m] = v /\ a[m] \in Ptr
      BY <1>2, <1>12, <2>4
    <3>2. b2[m] = c /\ a2[m] = a[m]
      BY <1>3, <2>1, <2>4, <3>1 DEF Renamed
    <3> QED
      BY <1>4, <1>5, <2>1, <2>2, <2>4, <3>1, <3>2
  <2> QED
    BY <2>3, <2>4
<1>13. HeightFunction(bh2)
  BY <1>4 DEF HeightFunction
<1>14. ASSUME v \in red PROVE Heights(a2, b2, red2, bh2, NULL, 0, 0)
  <2>1. ASSUME NEW m \in Node, v \in {a[m], b[m]}
        PROVE  HeightAt(a2, b2, red2, bh2, m, NULL, 0, 0)
    <3>1. bh[v] = 1
      BY <1>5, <1>14
    <3>2. bh2[a2[m]] = 1 /\ bh2[b2[m]] = 1 /\ bh2[m] = 1 + (IF m \in red2 THEN 0 ELSE 1)
      BY <1>12, <2>1, <3>1
    <3>3. m # NULL
      BY <1>1
    <3> QED
      BY <3>2, <3>3 DEF HeightAt
  <2> QED
    BY <1>10, <1>11, <1>13, <2>1 DEF Heights
<1>15. ASSUME v \notin red
       PROVE  /\ Heights(a2, b2, red2, bh2, G, da, db)
              /\ G # NULL => a2[G] # b2[G]
  <2>1. bh[v] = 2
    BY <1>5, <1>15
  <2>2. ASSUME NEW m \in Node, v \notin {a[m], b[m]}
        PROVE  HeightAt(a2, b2, red2, bh2, m, G, da, db)
    <3>1. m # G /\ m # NULL
      BY <1>1, <1>15, <2>2 DEF Lent
    <3>2. HeightAt(a2, b2, red2, bh2, m, NULL, 0, 0)
      BY <1>10, <1>11, <2>2
    <3> QED
      BY <3>1, <3>2 DEF HeightAt
  <2>3. ASSUME NEW m \in Node, v \in {a[m], b[m]}
        PROVE  /\ HeightAt(a2, b2, red2, bh2, m, G, da, db)
               /\ m = G /\ a2[m] # b2[m]
    <3>1. m = G
      BY <1>9, <1>15, <2>3 DEF Lent
    <3>2. a2[m] # b2[m]
      BY <1>12, <2>1, <2>3
    <3>3. CASE a[m] = v
      <4>1. da = 1 /\ db = 0
        BY <1>1, <1>8, <1>15, <3>1, <3>3 DEF Lent
      <4>2. bh2[a2[m]] = 1 /\ bh2[b2[m]] = 2 /\ bh2[m] = 2 + (IF m \in red2 THEN 0 ELSE 1)
        BY <1>12, <2>1, <2>3, <3>3
      <4> QED
        BY <3>1, <3>2, <4>1, <4>2 DEF HeightAt
    <3>4. CASE a[m] # v
      <4>1. da = 0 /\ db = 1
        BY <1>1, <1>8, <1>15, <2>3, <3>1, <3>4 DEF Lent
      <4>2. bh2[b2[m]] = 1 /\ bh2[a2[m]] = 2 /\ bh2[m] = 2 + (IF m \in red2 THEN 0 ELSE 1)
        BY <1>12, <2>1, <2>3, <3>4
      <4> QED
        BY <3>1, <3>2, <4>1, <4>2 DEF HeightAt
    <3> QED
      BY <3>3, <3>4
  <2>4. G # NULL => G \in Node /\ v \in {a[G], b[G]}
    BY <1>15 DEF Lent
  <2> QED
    BY <1>13, <2>2, <2>3, <2>4 DEF Heights
<1>16. RedFree(a2, b2, red \ {v, c}, NULL)
  <2> SUFFICES ASSUME NEW m \in red \ {v, c}, NEW x \in {a2[m], b2[m]},
                      x # NULL, x \in red \ {v, c}
               PROVE  FALSE
    BY DEF RedFree
  <2>1. x \in {a[m], b[m]}
    BY <1>3 DEF Renamed
  <2> QED
    BY <2>1 DEF RedFree
<1> QED
  BY <1>7, <1>14, <1>15, <1>16 DEF Relieved


-----------------------------------------------------------------------------
(* Trees whose nodes are exchanged, and trees without nodes.               *)

\* The colours that go with Exchanged.
ExchangedSet(red, v, s) == {m \in Node : Swap(m, v, s) \in red}

\* Nodes that change places and colours leave the heights and the red rule alone.
LEMMA ExchangedColors ==
  ASSUME NEW a \in [Node -> Ptr], NEW b \in [Node -> Ptr], NEW v \in Node, NEW s \in Node,
         NEW a2, NEW b2, Exchanged(a, a2, v, s), Exchanged(b, b2, v, s),
         NEW red \in SUBSET Node, RedFree(a, b, red, NULL),
         NEW bh, Heights(a, b, red, bh, NULL, 0, 0)
  PROVE  /\ \E bh2 : Heights(a2, b2, ExchangedSet(red, v, s), bh2, NULL, 0, 0)
         /\ RedFree(a2, b2, ExchangedSet(red, v, s), NULL)
<1> DEFINE W(x) == Swap(x, v, s)
           red2 == ExchangedSet(red, v, s)
           bh2 == [x \in Ptr |-> bh[W(x)]]
<1>1. /\ \A x \in Ptr : W(x) \in Ptr /\ W(W(x)) = x
      /\ \A x \in Node : W(x) \in Node /\ x # NULL /\ x \in Ptr
      /\ W(NULL) = NULL /\ NULL \in Ptr
  BY NullAssumption DEF Swap, Ptr
<1>2. \A m \in Node : /\ a2[m] = W(a[W(m)]) /\ b2[m] = W(b[W(m)])
                      /\ W(a2[m]) = a[W(m)] /\ W(b2[m]) = b[W(m)]
                      /\ a2[m] \in Ptr /\ b2[m] \in Ptr
  BY <1>1 DEF Exchanged
<1>3. \A m \in Node : m \in red2 <=> W(m) \in red
  BY DEF ExchangedSet
<1>4. /\ bh \in [Ptr -> Nat \ {0}] /\ bh[NULL] = 1
      /\ \A m \in Node : HeightAt(a, b, red, bh, m, NULL, 0, 0)
  BY DEF Heights, HeightFunction
<1>5. \A x \in Ptr : bh2[x] = bh[W(x)]
  OBVIOUS
<1>6. HeightFunction(bh2)
  <2>1. \A x \in Ptr : bh[W(x)] \in Nat \ {0}
    BY <1>1, <1>4
  <2> HIDE DEF W
  <2> QED
    BY <1>1, <1>4, <2>1 DEF HeightFunction
<1> HIDE DEF W, bh2, red2
<1>7. ASSUME NEW m \in Node PROVE HeightAt(a2, b2, red2, bh2, m, NULL, 0, 0)
  <2>1. HeightAt(a, b, red, bh, W(m), NULL, 0, 0) /\ W(m) # NULL /\ m # NULL
    BY <1>1, <1>4
  <2>2. /\ bh2[a2[m]] = bh[a[W(m)]] /\ bh2[b2[m]] = bh[b[W(m)]] /\ bh2[m] = bh[W(m)]
        /\ m \in red2 <=> W(m) \in red
    BY <1>1, <1>2, <1>3, <1>5
  <2> QED
    BY <2>1, <2>2 DEF HeightAt
<1>8. RedFree(a2, b2, red2, NULL)
  <2> SUFFICES ASSUME NEW m \in red2, NEW c \in {a2[m], b2[m]}, c # NULL, c \in red2
               PROVE  FALSE
    BY DEF RedFree
  <2>1. m \in Node /\ c \in Node
    BY DEF red2, ExchangedSet
  <2>2. W(m) \in red /\ W(c) \in red /\ W(c) \in {a[W(m)], b[W(m)]} /\ W(c) # NULL
    BY <1>1, <1>2, <1>3, <2>1
  <2> QED
    BY <2>2 DEF RedFree
<1> QED
  BY <1>6, <1>7, <1>8 DEF Heights, red2

\* Nodes without children are trees of one node each, whatever their colours.
LEMMA NoChildren ==
  ASSUME NEW a, NEW b, a = [n \in Node |-> NULL], b = [n \in Node |-> NULL],
         NEW r \in Ptr, NEW red \in SUBSET Node, NEW excused
  PROVE  /\ \E sub : RootedTree(a, b, r, sub, KeyOf)
         /\ \E bh : Heights(a, b, red, bh, NULL, 0, 0)
         /\ RedFree(a, b, red, excused)
<1> DEFINE sub == [x \in Ptr |-> IF x = NULL THEN {} ELSE {x}]
           bh == [x \in Ptr |-> IF x = NULL \/ x \in red THEN 1 ELSE 2]
<1>1. /\ a \in [Node -> Ptr] /\ b \in [Node -> Ptr] /\ NULL \in Ptr
      /\ \A n \in Node : n # NULL /\ n \in Ptr /\ a[n] = NULL /\ b[n] = NULL
  BY NullAssumption DEF Ptr
<1>2. /\ sub \in [Ptr -> SUBSET Node] /\ sub[NULL] = {}
      /\ \A n \in Node : sub[n] = {n}
  BY <1>1 DEF Ptr
<1>3. /\ bh \in [Ptr -> Nat \ {0}] /\ bh[NULL] = 1
      /\ \A n \in Node : bh[n] = IF n \in red THEN 1 ELSE 2
  BY <1>1
<1> HIDE DEF sub, bh
<1>4. RootedTree(a, b, r, sub, KeyOf)
  <2>1. Spans(a, b, sub)
    BY <1>1, <1>2 DEF Spans
  <2>2. Ascends(a, b, sub, KeyOf)
    BY <1>1, <1>2 DEF Ascends
  <2> QED
    BY <1>1, <2>1, <2>2, KeyAssumption DEF RootedTree, SearchTree
<1>5. Heights(a, b, red, bh, NULL, 0, 0)
  BY <1>1, <1>3 DEF Heights, HeightFunction, HeightAt
<1>6. RedFree(a, b, red, excused)
  BY <1>1 DEF RedFree
<1> QED
  BY <1>4, <1>5, <1>6

ExchangedSeq(p, p2, v, s) ==
  /\ Len(p2) = Len(p)
  /\ \A i \in 1 .. Len(p) : p2[i] = Swap(p[i], v, s)

\* A way down through a tree whose nodes are exchanged.
LEMMA ExchangedPath ==
  ASSUME NEW a \in [Node -> Ptr], NEW b \in [Node -> Ptr], NEW v \in Node, NEW s \in Node,
         NEW a2, NEW b2, Exchanged(a, a2, v, s), Exchanged(b, b2, v, s),
         NEW r, NEW p, IsPath(a, b, r, p),
         NEW p2 \in Seq(Ptr), ExchangedSeq(p, p2, v, s)
  PROVE  IsPath(a2, b2, Swap(r, v, s), p2)
<1>1. /\ p \in Seq(Ptr) /\ Len(p) \in Nat /\ (p # <<>> => p[1] = r)
      /\ \A i \in 1 .. Len(p) - 1 : p[i] \in Node /\ p[i + 1] \in {a[p[i]], b[p[i]]}
  BY DEF IsPath
<1>2. p2 # <<>> => p2[1] = Swap(r, v, s)
  <2>1. p2 # <<>> => 1 \in 1 .. Len(p) /\ p # <<>> /\ p2[1] = Swap(p[1], v, s)
    BY <1>1 DEF ExchangedSeq
  <2> QED
    BY <1>1, <2>1
<1>3. ASSUME NEW i \in 1 .. Len(p2) - 1
      PROVE  p2[i] \in Node /\ p2[i + 1] \in {a2[p2[i]], b2[p2[i]]}
  <2>1. /\ i \in 1 .. Len(p) - 1 /\ i \in 1 .. Len(p) /\ i + 1 \in 1 .. Len(p)
        /\ p2[i] = Swap(p[i], v, s) /\ p2[i + 1] = Swap(p[i + 1], v, s)
    BY <1>1 DEF ExchangedSeq
  <2>2. p[i] \in Node /\ p[i + 1] \in {a[p[i]], b[p[i]]}
    BY <1>1, <2>1
  <2>3. p2[i] \in Node /\ Swap(p2[i], v, s) = p[i]
    BY <2>1, <2>2 DEF Swap
  <2>4. a2[p2[i]] = Swap(a[p[i]], v, s) /\ b2[p2[i]] = Swap(b[p[i]], v, s)
    BY <2>3 DEF Exchanged
  <2> QED
    BY <2>1, <2>2, <2>3, <2>4
<1> QED
  BY <1>2, <1>3 DEF IsPath

=============================================================================
