---------------------------- MODULE HTableProofs ----------------------------
(***************************************************************************)
(* For every set of nodes, every hash function and every size of the first *)
(* plane: a hash table implements the keyed set its header promises.       *)
(*                                                                         *)
(* The argument is about tables in good order (Good).  The operators that  *)
(* change a table - push a node, unlink one, add a plane, merge two - each *)
(* keep it good, and say what they do to the set of its nodes; the calls   *)
(* are put together from these.                                            *)
(***************************************************************************)
EXTENDS HTable, DoublingProofs, FiniteSetTheorems

\* Planes have slots, and each twice as many as the one before.
LEMMA PlaneSizes ==
  /\ \A i \in Nat \ {0} : /\ PlaneSize(i) \in Nat \ {0}
                          /\ PlaneSize(i + 1) = 2 * PlaneSize(i)
<1> SUFFICES ASSUME NEW i \in Nat \ {0}
             PROVE  PlaneSize(i) \in Nat \ {0} /\ PlaneSize(i + 1) = 2 * PlaneSize(i)
  OBVIOUS
<1>1. i - 1 \in Nat /\ (i - 1) + 1 = (i + 1) - 1
  OBVIOUS
<1>2. FirstPlane \in Nat \ {0}
  BY HTableAssumption
<1> QED
  BY <1>1, <1>2, DoubledFacts DEF PlaneSize

\* A hash selects a slot of every plane.
LEMMA SlotType ==
  ASSUME NEW x \in Node, NEW i \in Nat \ {0}
  PROVE  Hash(x) \in Nat /\ SlotOf(x, i) \in Slots(i)
<1>1. Hash(x) \in Nat
  BY HTableAssumption DEF Hash
<1> QED
  BY <1>1, PlaneSizes, DivMod DEF SlotOf, Slots

\* What being a table says of one chain, and of one node in it.
LEMMA TableType ==
  ASSUME NEW ps, IsTable(ps)
  PROVE  /\ Len(ps) \in Nat
         /\ \A i \in 1 .. Len(ps) : \A s \in Slots(i) :
              /\ ps[i][s] \in Seq(Node) /\ Len(ps[i][s]) \in Nat
              /\ \A j \in 1 .. Len(ps[i][s]) : ps[i][s][j] \in Node
BY DEF IsTable

\* A sequence of planes of the right sizes is a table.
LEMMA TableIntro ==
  ASSUME NEW T, NEW ps \in Seq(T),
         \A i \in 1 .. Len(ps) : ps[i] \in [Slots(i) -> Seq(Node)]
  PROVE  IsTable(ps)
<1>1. ps \in [1 .. Len(ps) -> {ps[i] : i \in 1 .. Len(ps)}] /\ Len(ps) \in Nat
  OBVIOUS
<1>2. ps \in Seq({ps[i] : i \in 1 .. Len(ps)})
  BY <1>1
<1> QED
  BY <1>2 DEF IsTable

\* A table in good order: nodes where their hashes put them, and once.
Good(ps) == IsTable(ps) /\ Placed(ps) /\ OncePlaced(ps)

\* One chain is replaced.
Replaced(ps, i, s, c) == [ps EXCEPT ![i][s] = c]

\* A node found at two places of such a table is found at one.
LEMMA OnePlace ==
  ASSUME NEW ps, OncePlaced(ps), NEW k1 \in 1 .. Len(ps), NEW k2 \in 1 .. Len(ps),
         NEW t1 \in Slots(k1), NEW t2 \in Slots(k2),
         NEW j1 \in 1 .. Len(ps[k1][t1]), NEW j2 \in 1 .. Len(ps[k2][t2]),
         ps[k1][t1][j1] = ps[k2][t2][j2]
  PROVE  k1 = k2 /\ t1 = t2 /\ j1 = j2
<1>1. \A s \in Slots(k1), t \in Slots(k2) :
        \A j \in 1 .. Len(ps[k1][s]), l \in 1 .. Len(ps[k2][t]) :
          ps[k1][s][j] = ps[k2][t][l] => k1 = k2 /\ s = t /\ j = l
  BY DEF OncePlaced
<1>2. \A j \in 1 .. Len(ps[k1][t1]), l \in 1 .. Len(ps[k2][t2]) :
        ps[k1][t1][j] = ps[k2][t2][l] => k1 = k2 /\ t1 = t2 /\ j = l
  BY <1>1
<1> QED
  BY <1>2

\* Replacing one chain leaves the others alone.
LEMMA ChangeChain ==
  ASSUME NEW ps, IsTable(ps), NEW i \in 1 .. Len(ps), NEW s \in Slots(i), NEW c \in Seq(Node),
         NEW qs, qs = Replaced(ps, i, s, c)
  PROVE  /\ IsTable(qs) /\ Len(qs) = Len(ps)
         /\ qs[i][s] = c
         /\ \A k \in 1 .. Len(ps) : \A t \in Slots(k) :
              k # i \/ t # s => qs[k][t] = ps[k][t]
<1> DEFINE T == {ps[k] : k \in 1 .. Len(ps)} \cup {[ps[i] EXCEPT ![s] = c]}
<1>1. ps \in Seq(T)
  BY DEF IsTable
<1>2. /\ qs \in Seq(T) /\ Len(qs) = Len(ps) /\ qs[i] = [ps[i] EXCEPT ![s] = c]
      /\ \A k \in 1 .. Len(ps) : k # i => qs[k] = ps[k]
  <2> DEFINE v == [ps[i] EXCEPT ![s] = c]
  <2>1. qs = [ps EXCEPT ![i] = v]
    BY DEF Replaced
  <2>2. v \in T
    OBVIOUS
  <2> HIDE DEF v, T
  <2>3. /\ qs \in Seq(T) /\ Len(qs) = Len(ps) /\ qs[i] = v
        /\ \A k \in 1 .. Len(ps) : k # i => qs[k] = ps[k]
    BY <1>1, <2>1, <2>2
  <2> QED
    BY <2>3 DEF v
<1>3. ps[i] \in [Slots(i) -> Seq(Node)]
  BY DEF IsTable
<1>4. qs[i] \in [Slots(i) -> Seq(Node)] /\ qs[i][s] = c
      /\ \A t \in Slots(i) : t # s => qs[i][t] = ps[i][t]
  BY <1>2, <1>3
<1>5. \A k \in 1 .. Len(qs) : qs[k] \in [Slots(k) -> Seq(Node)]
  BY <1>2, <1>4 DEF IsTable
<1> HIDE DEF T
<1>6. IsTable(qs)
  BY <1>2, <1>5, TableIntro
<1>7. \A k \in 1 .. Len(ps) : \A t \in Slots(k) :
        k # i \/ t # s => qs[k][t] = ps[k][t]
  BY <1>2, <1>4
<1> QED
  BY <1>6, <1>2, <1>4, <1>7

\* A node that is not in the table is added to it by Pushed.
LEMMA PushedGood ==
  ASSUME NEW ps, Good(ps), Len(ps) > 0, NEW x \in Node, x \notin NodesIn(ps)
  PROVE  /\ Good(Pushed(ps, x)) /\ Len(Pushed(ps, x)) = Len(ps)
         /\ NodesIn(Pushed(ps, x)) = NodesIn(ps) \cup {x}
<1> DEFINE i == Len(ps)
           s == SlotOf(x, i)
           c == <<x>> \o ps[i][s]
           qs == Pushed(ps, x)
<1>1. i \in 1 .. Len(ps) /\ i \in Nat \ {0} /\ s \in Slots(i) /\ IsTable(ps)
  BY TableType, SlotType DEF Good
<1>2. /\ c \in Seq(Node) /\ Len(c) = Len(ps[i][s]) + 1 /\ Len(ps[i][s]) \in Nat
      /\ c[1] = x /\ \A j \in 2 .. Len(c) : j - 1 \in 1 .. Len(ps[i][s]) /\ c[j] = ps[i][s][j - 1]
      /\ \A j \in 1 .. Len(ps[i][s]) : c[j + 1] = ps[i][s][j]
  <2>1. ps[i][s] \in Seq(Node)
    BY <1>1, TableType
  <2> QED
    BY <2>1
<1>3. qs = Replaced(ps, i, s, c)
  BY DEF Pushed, Replaced
<1> HIDE DEF i, s, c, qs
<1>4. /\ IsTable(qs) /\ Len(qs) = Len(ps) /\ qs[i][s] = c
      /\ \A k \in 1 .. Len(ps) : \A t \in Slots(k) : k # i \/ t # s => qs[k][t] = ps[k][t]
  BY <1>1, <1>2, <1>3, ChangeChain
<1>5. \A k \in 1 .. Len(ps) : \A t \in Slots(k) : \A j \in 1 .. Len(ps[k][t]) : 
        ps[k][t][j] \in Node /\ ps[k][t][j] # x
  BY <1>1, TableType DEF NodesIn
\* The new node apart, every node of the table was there before.
<1> DEFINE Old(k, t, j) == IF k = i /\ t = s THEN j - 1 ELSE j
           New(k, t, j) == k = i /\ t = s /\ j = 1
<1>a. ASSUME NEW k \in 1 .. Len(qs), NEW t \in Slots(k), NEW j \in 1 .. Len(qs[k][t])
      PROVE  /\ New(k, t, j) => qs[k][t][j] = x
             /\ ~New(k, t, j) => /\ Old(k, t, j) \in 1 .. Len(ps[k][t])
                                 /\ qs[k][t][j] = ps[k][t][Old(k, t, j)]
                                 /\ qs[k][t][j] # x
  <2>1. CASE k # i \/ t # s
    BY <2>1, <1>4, <1>5
  <2>2. CASE k = i /\ t = s
    <3>1. qs[k][t] = c /\ j \in 1 .. Len(c) /\ Len(c) = Len(ps[k][t]) + 1 /\ Len(ps[k][t]) \in Nat
      BY <2>2, <1>2, <1>4
    <3>2. CASE j = 1
      BY <2>2, <3>1, <3>2, <1>2
    <3>3. CASE j \in 2 .. Len(c)
      <4>1. c[j] = ps[k][t][j - 1] /\ j - 1 \in 1 .. Len(ps[k][t])
        BY <2>2, <3>3, <1>2
      <4>2. ps[k][t][j - 1] # x
        BY <2>2, <4>1, <1>1, <1>5
      <4> QED
        BY <2>2, <3>1, <3>3, <4>1, <4>2
    <3> QED
      BY <3>1, <3>2, <3>3
  <2> QED
    BY <2>1, <2>2
<1>6. Placed(qs)
  <2> SUFFICES ASSUME NEW k \in 1 .. Len(qs), NEW t \in Slots(k), NEW j \in 1 .. Len(qs[k][t])
               PROVE  SlotOf(qs[k][t][j], k) = t
    BY DEF Placed
  <2>1. CASE New(k, t, j)
    BY <2>1, <1>a DEF s, i
  <2>2. CASE ~New(k, t, j)
    BY <2>2, <1>a, <1>4 DEF Good, Placed
  <2> QED
    BY <2>1, <2>2
<1>7. OncePlaced(qs)
  <2> SUFFICES ASSUME NEW k1 \in 1 .. Len(qs), NEW k2 \in 1 .. Len(qs),
                      NEW t1 \in Slots(k1), NEW t2 \in Slots(k2),
                      NEW j1 \in 1 .. Len(qs[k1][t1]), NEW j2 \in 1 .. Len(qs[k2][t2]),
                      qs[k1][t1][j1] = qs[k2][t2][j2]
               PROVE  k1 = k2 /\ t1 = t2 /\ j1 = j2
    BY DEF OncePlaced
  <2>1. New(k1, t1, j1) <=> New(k2, t2, j2)
    BY <1>a
  <2>2. CASE New(k1, t1, j1)
    BY <2>1, <2>2
  <2>3. CASE ~New(k1, t1, j1)
    <3>1. ps[k1][t1][Old(k1, t1, j1)] = ps[k2][t2][Old(k2, t2, j2)]
          /\ Old(k1, t1, j1) \in 1 .. Len(ps[k1][t1]) /\ Old(k2, t2, j2) \in 1 .. Len(ps[k2][t2])
      BY <2>1, <2>3, <1>a
    <3> DEFINE o1 == Old(k1, t1, j1)
               o2 == Old(k2, t2, j2)
    <3>2. /\ OncePlaced(ps) /\ k1 \in 1 .. Len(ps) /\ k2 \in 1 .. Len(ps)
          /\ t1 \in Slots(k1) /\ t2 \in Slots(k2)
          /\ o1 \in 1 .. Len(ps[k1][t1]) /\ o2 \in 1 .. Len(ps[k2][t2])
          /\ ps[k1][t1][o1] = ps[k2][t2][o2]
      BY <3>1, <1>4 DEF Good
    <3> HIDE DEF o1, o2
    <3>3. k1 = k2 /\ t1 = t2 /\ o1 = o2
      BY ONLY <3>2, OnePlace
    <3>4. j1 \in Int /\ j2 \in Int
      OBVIOUS
    <3> QED
      BY <2>1, <2>3, <3>3, <3>4 DEF o1, o2
  <2> QED
    BY <2>2, <2>3
<1>8. NodesIn(qs) = NodesIn(ps) \cup {x}
  <2>1. ASSUME NEW y \in NodesIn(qs) PROVE y \in NodesIn(ps) \cup {x}
    <3>1. PICK k \in 1 .. Len(qs) : \E t \in Slots(k) : \E j \in 1 .. Len(qs[k][t]) : qs[k][t][j] = y
      BY DEF NodesIn
    <3>2. PICK t \in Slots(k) : \E j \in 1 .. Len(qs[k][t]) : qs[k][t][j] = y
      BY <3>1
    <3>3. PICK j \in 1 .. Len(qs[k][t]) : qs[k][t][j] = y
      BY <3>2
    <3>4. CASE New(k, t, j)
      BY <3>3, <3>4, <1>a
    <3>5. CASE ~New(k, t, j)
      <4>1. Old(k, t, j) \in 1 .. Len(ps[k][t]) /\ ps[k][t][Old(k, t, j)] = y
        BY <3>3, <3>5, <1>a
      <4> HIDE DEF Old
      <4> QED
        BY <4>1, <1>4 DEF NodesIn
    <3> QED
      BY <3>4, <3>5
  <2>2. ASSUME NEW y \in NodesIn(ps) PROVE y \in NodesIn(qs)
    <3>a. PICK k \in 1 .. Len(ps) : \E t \in Slots(k) : \E j \in 1 .. Len(ps[k][t]) : ps[k][t][j] = y
      BY DEF NodesIn
    <3>b. PICK t \in Slots(k) : \E j \in 1 .. Len(ps[k][t]) : ps[k][t][j] = y
      BY <3>a
    <3>1. PICK j \in 1 .. Len(ps[k][t]) : ps[k][t][j] = y
      BY <3>b
    <3>2. CASE k # i \/ t # s
      BY <3>1, <3>2, <1>4 DEF NodesIn
    <3>3. CASE k = i /\ t = s
      <4>1. j + 1 \in 1 .. Len(qs[k][t]) /\ qs[k][t][j + 1] = y
        BY <3>1, <3>3, <1>2, <1>4
      <4> QED
        BY <4>1, <1>4 DEF NodesIn
    <3> QED
      BY <3>2, <3>3
  <2>3. x \in NodesIn(qs)
    <3>1. 1 \in 1 .. Len(qs[i][s]) /\ qs[i][s][1] = x
      BY <1>2, <1>4
    <3> QED
      BY <3>1, <1>1, <1>4 DEF NodesIn
  <2> QED
    BY <2>1, <2>2, <2>3
<1> QED
  BY <1>4, <1>6, <1>7, <1>8 DEF Good, qs

\* A node is unlinked.
LEMMA WithoutType ==
  ASSUME NEW c \in Seq(Node), NEW j0 \in 1 .. Len(c)
  PROVE  /\ WithoutPlace(c, j0) \in Seq(Node) /\ Len(WithoutPlace(c, j0)) = Len(c) - 1
         /\ \A j \in 1 .. Len(c) - 1 :
              WithoutPlace(c, j0)[j] = IF j >= j0 THEN c[j + 1] ELSE c[j]
<1> DEFINE a == SubSeq(c, 1, j0 - 1)
           b == SubSeq(c, j0 + 1, Len(c))
<1>1. a \in Seq(Node) /\ Len(a) = j0 - 1 /\ \A j \in 1 .. j0 - 1 : a[j] = c[j]
  OBVIOUS
<1>2. b \in Seq(Node) /\ Len(b) = Len(c) - j0
      /\ \A j \in 1 .. Len(c) - j0 : b[j] = c[j0 + j]
  OBVIOUS
<1> HIDE DEF a, b
<1>3. WithoutPlace(c, j0) = a \o b
  BY DEF WithoutPlace, a, b
<1>4. /\ a \o b \in Seq(Node) /\ Len(a \o b) = Len(a) + Len(b)
      /\ \A j \in 1 .. Len(a) + Len(b) : (a \o b)[j] = IF j <= Len(a) THEN a[j] ELSE b[j - Len(a)]
  <2>1. a \in Seq(Node) /\ b \in Seq(Node)
    BY <1>1, <1>2
  <2> QED
    BY ONLY <2>1
<1>5. ASSUME NEW j \in 1 .. Len(c) - 1
      PROVE  (a \o b)[j] = IF j >= j0 THEN c[j + 1] ELSE c[j]
  <2>1. CASE j >= j0
    <3>1. (a \o b)[j] = b[j - (j0 - 1)] /\ j - (j0 - 1) \in 1 .. Len(c) - j0
      BY <1>1, <1>2, <1>4, <2>1
    <3> QED
      BY <2>1, <3>1, <1>2
  <2>2. CASE j < j0
    BY <1>1, <1>2, <1>4, <2>2
  <2>3. j >= j0 \/ j < j0
    OBVIOUS
  <2> QED
    BY <2>1, <2>2, <2>3, Zenon
<1> QED
  BY <1>1, <1>2, <1>3, <1>4, <1>5

\* To take the head of a chain is to unlink its first place.
LEMMA TailIsWithout ==
  ASSUME NEW c \in Seq(Node), c # <<>>
  PROVE  1 \in 1 .. Len(c) /\ Tail(c) = WithoutPlace(c, 1) /\ Head(c) = c[1]
<1>1. 1 \in 1 .. Len(c)
  OBVIOUS
<1>2. /\ Tail(c) \in Seq(Node) /\ Len(Tail(c)) = Len(c) - 1
      /\ \A j \in 1 .. Len(c) - 1 : Tail(c)[j] = c[j + 1]
  OBVIOUS
<1>3. /\ WithoutPlace(c, 1) \in Seq(Node) /\ Len(WithoutPlace(c, 1)) = Len(c) - 1
      /\ \A j \in 1 .. Len(c) - 1 : WithoutPlace(c, 1)[j] = c[j + 1]
  BY <1>1, WithoutType
<1>4. Tail(c) = WithoutPlace(c, 1)
  BY <1>2, <1>3
<1> QED
  BY <1>1, <1>4

\* Unlinking one place takes exactly that node out of the table.
LEMMA UnlinkedGood ==
  ASSUME NEW ps, Good(ps), NEW i \in 1 .. Len(ps), NEW s \in Slots(i),
         NEW j0 \in 1 .. Len(ps[i][s]),
         NEW qs, qs = Replaced(ps, i, s, WithoutPlace(ps[i][s], j0))
  PROVE  /\ Good(qs) /\ Len(qs) = Len(ps)
         /\ ps[i][s][j0] \in NodesIn(ps)
         /\ NodesIn(qs) = NodesIn(ps) \ {ps[i][s][j0]}
<1> DEFINE c == WithoutPlace(ps[i][s], j0)
<1>1. /\ IsTable(ps) /\ ps[i][s] \in Seq(Node) /\ Len(ps[i][s]) \in Nat
      /\ \A k \in 1 .. Len(ps) : \A t \in Slots(k) : Len(ps[k][t]) \in Nat
      /\ \A k \in 1 .. Len(ps) : \A t \in Slots(k) : \A j \in 1 .. Len(ps[k][t]) :
           ps[k][t][j] \in Node
  BY TableType DEF Good
<1>2. /\ c \in Seq(Node) /\ Len(c) = Len(ps[i][s]) - 1
      /\ \A j \in 1 .. Len(c) : c[j] = IF j >= j0 THEN ps[i][s][j + 1] ELSE ps[i][s][j]
  BY <1>1, WithoutType
<1>3. qs = Replaced(ps, i, s, c)
  OBVIOUS
<1> HIDE DEF c
<1>4. /\ IsTable(qs) /\ Len(qs) = Len(ps) /\ qs[i][s] = c
      /\ \A k \in 1 .. Len(ps) : \A t \in Slots(k) : k # i \/ t # s => qs[k][t] = ps[k][t]
  BY <1>1, <1>2, <1>3, ChangeChain
<1> DEFINE Old(k, t, j) == IF k = i /\ t = s /\ j >= j0 THEN j + 1 ELSE j
           x == ps[i][s][j0]
<1>5. ASSUME NEW k \in 1 .. Len(qs), NEW t \in Slots(k), NEW j \in 1 .. Len(qs[k][t])
      PROVE  /\ Old(k, t, j) \in 1 .. Len(ps[k][t])
             /\ qs[k][t][j] = ps[k][t][Old(k, t, j)]
             /\ k = i /\ t = s => Old(k, t, j) # j0
  <2>1. CASE k # i \/ t # s
    BY <2>1, <1>4
  <2>2. CASE k = i /\ t = s
    BY <2>2, <1>1, <1>2, <1>4
  <2> QED
    BY <2>1, <2>2
<1>6. Placed(qs)
  <2> SUFFICES ASSUME NEW k \in 1 .. Len(qs), NEW t \in Slots(k), NEW j \in 1 .. Len(qs[k][t])
               PROVE  SlotOf(qs[k][t][j], k) = t
    BY DEF Placed
  <2> DEFINE o == Old(k, t, j)
  <2>1. /\ Placed(ps) /\ k \in 1 .. Len(ps) /\ t \in Slots(k)
        /\ o \in 1 .. Len(ps[k][t]) /\ qs[k][t][j] = ps[k][t][o]
    BY <1>4, <1>5 DEF Good
  <2> HIDE DEF o
  <2> QED
    BY ONLY <2>1 DEF Placed
<1>7. OncePlaced(qs)
  <2> SUFFICES ASSUME NEW k1 \in 1 .. Len(qs), NEW k2 \in 1 .. Len(qs),
                      NEW t1 \in Slots(k1), NEW t2 \in Slots(k2),
                      NEW j1 \in 1 .. Len(qs[k1][t1]), NEW j2 \in 1 .. Len(qs[k2][t2]),
                      qs[k1][t1][j1] = qs[k2][t2][j2]
               PROVE  k1 = k2 /\ t1 = t2 /\ j1 = j2
    BY DEF OncePlaced
  <2>1. ps[k1][t1][Old(k1, t1, j1)] = ps[k2][t2][Old(k2, t2, j2)]
        /\ Old(k1, t1, j1) \in 1 .. Len(ps[k1][t1]) /\ Old(k2, t2, j2) \in 1 .. Len(ps[k2][t2])
    BY <1>5
  <2>2. k1 = k2 /\ t1 = t2 /\ Old(k1, t1, j1) = Old(k2, t2, j2)
    <3>1. OncePlaced(ps) /\ k1 \in 1 .. Len(ps) /\ k2 \in 1 .. Len(ps)
      BY <1>4 DEF Good
    <3> DEFINE o1 == Old(k1, t1, j1)
               o2 == Old(k2, t2, j2)
    <3>2. /\ OncePlaced(ps) /\ k1 \in 1 .. Len(ps) /\ k2 \in 1 .. Len(ps)
          /\ t1 \in Slots(k1) /\ t2 \in Slots(k2)
          /\ o1 \in 1 .. Len(ps[k1][t1]) /\ o2 \in 1 .. Len(ps[k2][t2])
          /\ ps[k1][t1][o1] = ps[k2][t2][o2]
      BY <2>1, <3>1
    <3> HIDE DEF o1, o2
    <3>3. k1 = k2 /\ t1 = t2 /\ o1 = o2
      BY ONLY <3>2, OnePlace, SMTT(30)
    <3> QED
      BY <3>3 DEF o1, o2
  <2> QED
    BY <2>2
<1>8. x \in NodesIn(ps)
  BY <1>1 DEF NodesIn
<1>9. NodesIn(qs) = NodesIn(ps) \ {x}
  <2>1. ASSUME NEW y \in NodesIn(qs) PROVE y \in NodesIn(ps) \ {x}
    <3>1. PICK k \in 1 .. Len(qs) : \E t \in Slots(k) : \E j \in 1 .. Len(qs[k][t]) : qs[k][t][j] = y
      BY DEF NodesIn
    <3>2. PICK t \in Slots(k) : \E j \in 1 .. Len(qs[k][t]) : qs[k][t][j] = y
      BY <3>1
    <3>3. PICK j \in 1 .. Len(qs[k][t]) : qs[k][t][j] = y
      BY <3>2
    <3>4. /\ Old(k, t, j) \in 1 .. Len(ps[k][t]) /\ ps[k][t][Old(k, t, j)] = y
          /\ k = i /\ t = s => Old(k, t, j) # j0
      BY <3>3, <1>5
    <3> HIDE DEF Old
    <3>5. y \in NodesIn(ps)
      BY <3>4, <1>4 DEF NodesIn
    <3>6. y # x
      BY <3>4, <1>4 DEF Good, OncePlaced
    <3> QED
      BY <3>5, <3>6
  <2>2. ASSUME NEW y \in NodesIn(ps), y # x PROVE y \in NodesIn(qs)
    <3>1. PICK k \in 1 .. Len(ps) : \E t \in Slots(k) : \E j \in 1 .. Len(ps[k][t]) : ps[k][t][j] = y
      BY DEF NodesIn
    <3>2. PICK t \in Slots(k) : \E j \in 1 .. Len(ps[k][t]) : ps[k][t][j] = y
      BY <3>1
    <3>3. PICK j \in 1 .. Len(ps[k][t]) : ps[k][t][j] = y
      BY <3>2
    <3>4. CASE k # i \/ t # s
      BY <3>3, <3>4, <1>4 DEF NodesIn
    <3>5. CASE k = i /\ t = s
      <4>1. j # j0
        BY <2>2, <3>3, <3>5
      <4> DEFINE l == IF j > j0 THEN j - 1 ELSE j
      <4>2. l \in 1 .. Len(qs[k][t]) /\ qs[k][t][l] = y
        <5> DEFINE old == ps[i][s]
                   m == Len(old)
        <5>1. /\ m \in Nat /\ j0 \in 1 .. m /\ j \in 1 .. m /\ old[j] = y
              /\ Len(c) = m - 1 /\ qs[k][t] = c
              /\ \A q \in 1 .. Len(c) : c[q] = IF q >= j0 THEN old[q + 1] ELSE old[q]
          BY <3>3, <3>5, <1>1, <1>2, <1>4
        <5> HIDE DEF m, old
        <5>2. l \in 1 .. m - 1 /\ (l >= j0 => l + 1 = j) /\ (~(l >= j0) => l = j)
          BY ONLY <4>1, <5>1
        <5>3. c[l] = IF l >= j0 THEN old[l + 1] ELSE old[l]
          BY <5>1, <5>2
        <5> QED
          BY <5>1, <5>2, <5>3
      <4> QED
        BY <4>2, <1>4 DEF NodesIn
    <3> QED
      BY <3>4, <3>5
  <2> QED
    BY <2>1, <2>2
<1> QED
  BY <1>4, <1>6, <1>7, <1>8, <1>9 DEF Good

\* A new plane is empty: the table has the nodes it had.
LEMMA GrownGood ==
  ASSUME NEW ps, Good(ps), NEW qs, qs = Append(ps, EmptyPlane(Len(ps) + 1))
  PROVE  Good(qs) /\ Len(qs) = Len(ps) + 1 /\ NodesIn(qs) = NodesIn(ps)
<1> DEFINE e == EmptyPlane(Len(ps) + 1)
           T == {ps[k] : k \in 1 .. Len(ps)} \cup {e}
<1>1. ps \in Seq(T) /\ e \in T /\ IsTable(ps) /\ Len(ps) \in Nat
  BY DEF Good, IsTable
<1> HIDE DEF T
<1>2. /\ qs \in Seq(T) /\ Len(qs) = Len(ps) + 1 /\ qs[Len(ps) + 1] = e
      /\ \A k \in 1 .. Len(ps) : qs[k] = ps[k]
  BY <1>1
<1>3. e \in [Slots(Len(ps) + 1) -> Seq(Node)] /\ \A s \in Slots(Len(ps) + 1) : e[s] = <<>>
  BY DEF EmptyPlane
<1> HIDE DEF e
<1>4. IsTable(qs)
  <2>1. \A k \in 1 .. Len(qs) : qs[k] \in [Slots(k) -> Seq(Node)]
    BY <1>1, <1>2, <1>3 DEF IsTable
  <2> QED
    BY <1>2, <2>1, TableIntro
<1>5. ASSUME NEW k \in 1 .. Len(qs), NEW t \in Slots(k), NEW j \in 1 .. Len(qs[k][t])
      PROVE  k \in 1 .. Len(ps) /\ qs[k][t] = ps[k][t]
  <2>1. k # Len(ps) + 1
    BY <1>2, <1>3
  <2> QED
    BY <1>1, <1>2, <2>1
<1>6. Placed(qs)
  BY <1>5 DEF Good, Placed
<1>7. OncePlaced(qs)
  BY <1>5 DEF Good, OncePlaced
<1>8. NodesIn(qs) = NodesIn(ps)
  <2>1. 1 .. Len(ps) \subseteq 1 .. Len(qs)
    BY <1>1, <1>2
  <2> QED
    BY <1>2, <1>5, <2>1 DEF NodesIn
<1> QED
  BY <1>2, <1>4, <1>6, <1>7, <1>8 DEF Good

-----------------------------------------------------------------------------
\* Planes are merged: this is about the nodes of chains, wherever in them.
NodesOf(c) == {c[j] : j \in 1 .. Len(c)}
\* No node is in a chain twice.
Distinct(c) == \A j, l \in 1 .. Len(c) : c[j] = c[l] => j = l

\* What holds of two chains with no node in common holds of them joined.
LEMMA ConcatChain ==
  ASSUME NEW a \in Seq(Node), NEW b \in Seq(Node)
  PROVE  /\ a \o b \in Seq(Node)
         /\ NodesOf(a \o b) = NodesOf(a) \cup NodesOf(b)
         /\ Distinct(a) /\ Distinct(b) /\ NodesOf(a) \cap NodesOf(b) = {} => Distinct(a \o b)
<1> DEFINE c == a \o b
<1>1. /\ c \in Seq(Node) /\ Len(c) = Len(a) + Len(b)
      /\ Len(a) \in Nat /\ Len(b) \in Nat
      /\ \A j \in 1 .. Len(a) : j \in 1 .. Len(c) /\ c[j] = a[j]
      /\ \A j \in 1 .. Len(b) : Len(a) + j \in 1 .. Len(c) /\ c[Len(a) + j] = b[j]
  OBVIOUS
<1> HIDE DEF c
<1>2. ASSUME NEW j \in 1 .. Len(c)
      PROVE  \/ j \in 1 .. Len(a) /\ c[j] = a[j]
             \/ /\ j - Len(a) \in 1 .. Len(b) /\ c[j] = b[j - Len(a)] /\ j > Len(a)
  <2>1. CASE j <= Len(a)
    BY <1>1, <2>1
  <2>2. CASE j > Len(a)
    <3>1. j - Len(a) \in 1 .. Len(b) /\ Len(a) + (j - Len(a)) = j
      BY <1>1, <2>2
    <3> QED
      BY <1>1, <2>2, <3>1
  <2> QED
    BY <1>1, <2>1, <2>2
<1>3. NodesOf(c) = NodesOf(a) \cup NodesOf(b)
  <2>1. \A j \in 1 .. Len(c) : c[j] \in NodesOf(a) \cup NodesOf(b)
    BY <1>2 DEF NodesOf
  <2>2. \A j \in 1 .. Len(a) : a[j] \in NodesOf(c)
    BY <1>1 DEF NodesOf
  <2>3. \A j \in 1 .. Len(b) : b[j] \in NodesOf(c)
    BY <1>1 DEF NodesOf
  <2> QED
    BY <2>1, <2>2, <2>3 DEF NodesOf
<1>4. ASSUME Distinct(a), Distinct(b), NodesOf(a) \cap NodesOf(b) = {} PROVE Distinct(c)
  <2> SUFFICES ASSUME NEW j \in 1 .. Len(c), NEW l \in 1 .. Len(c), c[j] = c[l] PROVE j = l
    BY DEF Distinct
  <2>1. ASSUME NEW p \in 1 .. Len(a), NEW q \in 1 .. Len(b) PROVE a[p] # b[q]
    BY <1>4 DEF NodesOf
  <2>2. CASE j \in 1 .. Len(a) /\ l \in 1 .. Len(a)
    BY <1>1, <1>4, <2>2 DEF Distinct
  <2>3. CASE j - Len(a) \in 1 .. Len(b) /\ l - Len(a) \in 1 .. Len(b) /\ j > Len(a) /\ l > Len(a)
    <3>1. c[j] = b[j - Len(a)] /\ c[l] = b[l - Len(a)]
      BY <1>1, <1>2, <2>3
    <3>2. j - Len(a) = l - Len(a)
      BY <1>4, <2>3, <3>1 DEF Distinct
    <3> QED
      BY <3>2, <1>1
  <2> QED
    BY <1>2, <2>1, <2>2, <2>3
<1> QED
  BY <1>1, <1>3, <1>4 DEF c

\* The same three facts about tables in terms of the nodes of chains.
LEMMA ByChains ==
  ASSUME NEW ps, IsTable(ps)
  PROVE  /\ Placed(ps) <=> \A i \in 1 .. Len(ps) : \A s \in Slots(i) :
                             \A x \in NodesOf(ps[i][s]) : SlotOf(x, i) = s
         /\ NodesIn(ps) = {x \in Node : \E i \in 1 .. Len(ps) : \E s \in Slots(i) :
                             x \in NodesOf(ps[i][s])}
         /\ Placed(ps) =>
              (OncePlaced(ps) <=>
                /\ \A i \in 1 .. Len(ps) : \A s \in Slots(i) : Distinct(ps[i][s])
                /\ \A i, k \in 1 .. Len(ps) : \A s \in Slots(i), t \in Slots(k) :
                     i # k => NodesOf(ps[i][s]) \cap NodesOf(ps[k][t]) = {})
<1>1. Placed(ps) <=> \A i \in 1 .. Len(ps) : \A s \in Slots(i) :
                             \A x \in NodesOf(ps[i][s]) : SlotOf(x, i) = s
  BY DEF Placed, NodesOf
<1>2. NodesIn(ps) = {x \in Node : \E i \in 1 .. Len(ps) : \E s \in Slots(i) :
                             x \in NodesOf(ps[i][s])}
  BY DEF NodesIn, NodesOf
<1>3. ASSUME Placed(ps), OncePlaced(ps), NEW i \in 1 .. Len(ps), NEW s \in Slots(i)
      PROVE  Distinct(ps[i][s])
  BY <1>3 DEF OncePlaced, Distinct
<1>4. ASSUME Placed(ps), OncePlaced(ps), NEW i \in 1 .. Len(ps), NEW k \in 1 .. Len(ps),
             NEW s \in Slots(i), NEW t \in Slots(k), i # k
      PROVE  NodesOf(ps[i][s]) \cap NodesOf(ps[k][t]) = {}
  BY <1>4 DEF OncePlaced, NodesOf
<1>5. ASSUME Placed(ps),
             \A i \in 1 .. Len(ps) : \A s \in Slots(i) : Distinct(ps[i][s]),
             \A i, k \in 1 .. Len(ps) : \A s \in Slots(i), t \in Slots(k) :
                     i # k => NodesOf(ps[i][s]) \cap NodesOf(ps[k][t]) = {}
      PROVE  OncePlaced(ps)
  <2> SUFFICES ASSUME NEW i \in 1 .. Len(ps), NEW k \in 1 .. Len(ps),
                      NEW s \in Slots(i), NEW t \in Slots(k),
                      NEW j \in 1 .. Len(ps[i][s]), NEW l \in 1 .. Len(ps[k][t]),
                      ps[i][s][j] = ps[k][t][l]
               PROVE  i = k /\ s = t /\ j = l
    BY DEF OncePlaced
  <2>1. ps[i][s][j] \in NodesOf(ps[i][s]) /\ ps[k][t][l] \in NodesOf(ps[k][t])
    BY DEF NodesOf
  <2>2. i = k
    BY <1>5, <2>1
  <2>3. s = t
    BY <1>5, <2>2 DEF Placed
  <2> QED
    BY <1>5, <2>2, <2>3 DEF Distinct
<1> QED
  BY <1>1, <1>2, <1>3, <1>4, <1>5

\* Merging the last plane into the one before keeps every node, where it belongs.
LEMMA MergedGood ==
  ASSUME NEW ps, Good(ps), Len(ps) > 1, NEW qs, qs = Merged(ps)
  PROVE  Good(qs) /\ Len(qs) = Len(ps) - 1 /\ NodesIn(qs) = NodesIn(ps)
<1> DEFINE k == Len(ps) - 1
           m == PlaneSize(k)
           Chain(s) == ps[k + 1][s + m] \o ps[k + 1][s] \o ps[k][s]
           plane == [s \in Slots(k) |-> Chain(s)]
           T == {ps[i] : i \in 1 .. Len(ps)} \cup {plane}
<1>1. /\ IsTable(ps) /\ Len(ps) \in Nat /\ k \in Nat \ {0} /\ k \in 1 .. Len(ps) /\ k + 1 = Len(ps)
      /\ k + 1 \in 1 .. Len(ps) /\ m \in Nat \ {0} /\ PlaneSize(k + 1) = 2 * m
      /\ Slots(k) = 0 .. m - 1
      /\ \A s \in Slots(k) : s \in 0 .. m - 1 /\ s + m \in Slots(k + 1) /\ s \in Slots(k + 1)
      /\ \A s \in Slots(k + 1) : s \in Slots(k) \/ (s - m \in Slots(k) /\ (s - m) + m = s)
  <2>1. IsTable(ps) /\ Len(ps) \in Nat
    BY TableType DEF Good
  <2>2. k \in Nat \ {0} /\ k \in 1 .. Len(ps) /\ k + 1 = Len(ps) /\ k + 1 \in 1 .. Len(ps)
    <3>1. ASSUME NEW l \in Nat, l > 1
          PROVE  l - 1 \in Nat \ {0} /\ l - 1 \in 1 .. l /\ (l - 1) + 1 = l /\ l \in 1 .. l
      BY <3>1
    <3> QED
      BY <2>1, <3>1
  <2> HIDE DEF k
  <2>3. m \in Nat \ {0} /\ PlaneSize(k + 1) = 2 * m
    BY <2>2, PlaneSizes
  <2>4. Slots(k) = 0 .. m - 1 /\ Slots(k + 1) = 0 .. 2 * m - 1
    BY <2>3 DEF Slots
  <2> HIDE DEF m
  <2>5. \A s \in 0 .. m - 1 : s + m \in 0 .. 2 * m - 1 /\ s \in 0 .. 2 * m - 1
    BY <2>3
  <2>6. \A s \in 0 .. 2 * m - 1 : s \in 0 .. m - 1 \/ (s - m \in 0 .. m - 1 /\ (s - m) + m = s)
    BY <2>3
  <2> QED
    BY <2>1, <2>2, <2>3, <2>4, <2>5, <2>6
<1> HIDE DEF k, m
<1>2. /\ \A i \in 1 .. Len(ps) : \A s \in Slots(i) :
           /\ ps[i][s] \in Seq(Node) /\ Distinct(ps[i][s])
           /\ \A x \in NodesOf(ps[i][s]) : SlotOf(x, i) = s /\ x \in Node
      /\ \A i, j \in 1 .. Len(ps) : \A s \in Slots(i), t \in Slots(j) :
           i # j => NodesOf(ps[i][s]) \cap NodesOf(ps[j][t]) = {}
  <2>1. \A i \in 1 .. Len(ps) : \A s \in Slots(i) : \A x \in NodesOf(ps[i][s]) : x \in Node
    BY <1>1, TableType DEF NodesOf
  <2> QED
    BY <1>1, <2>1, TableType, ByChains DEF Good
<1>3. ASSUME NEW s \in Slots(k)
      PROVE  /\ Chain(s) \in Seq(Node) /\ Distinct(Chain(s))
             /\ NodesOf(Chain(s)) =
                  NodesOf(ps[k + 1][s + m]) \cup NodesOf(ps[k + 1][s]) \cup NodesOf(ps[k][s])
  <2> DEFINE a == ps[k + 1][s + m]
             b == ps[k + 1][s]
             d == ps[k][s]
  <2>1. /\ a \in Seq(Node) /\ b \in Seq(Node) /\ d \in Seq(Node)
        /\ Distinct(a) /\ Distinct(b) /\ Distinct(d)
    BY <1>1, <1>2
  <2>2. NodesOf(a) \cap NodesOf(b) = {}
    <3>1. \A x \in NodesOf(a) : SlotOf(x, k + 1) = s + m
      BY <1>1, <1>2
    <3>2. \A x \in NodesOf(b) : SlotOf(x, k + 1) = s
      BY <1>1, <1>2
    <3>3. s # s + m
      BY <1>1
    <3> QED
      BY <3>1, <3>2, <3>3
  <2>3. (NodesOf(a) \cup NodesOf(b)) \cap NodesOf(d) = {}
    <3>1. k # k + 1
      BY <1>1
    <3>2. NodesOf(a) \cap NodesOf(d) = {}
      BY <1>1, <1>2, <3>1
    <3>3. NodesOf(b) \cap NodesOf(d) = {}
      BY <1>1, <1>2, <3>1
    <3> QED
      BY <3>2, <3>3
  <2> HIDE DEF a, b, d
  <2>4. a \o b \in Seq(Node) /\ Distinct(a \o b) /\ NodesOf(a \o b) = NodesOf(a) \cup NodesOf(b)
    BY <2>1, <2>2, ConcatChain
  <2>5. /\ (a \o b) \o d \in Seq(Node) /\ Distinct((a \o b) \o d)
        /\ NodesOf((a \o b) \o d) = NodesOf(a \o b) \cup NodesOf(d)
    BY <2>1, <2>3, <2>4, ConcatChain
  <2> QED
    BY <2>4, <2>5 DEF a, b, d
<1> HIDE DEF Chain
<1>4. ps \in Seq(T) /\ plane \in T
  BY <1>1 DEF IsTable
<1>5. /\ qs \in Seq(T) /\ Len(qs) = k /\ qs[k] = plane
      /\ \A i \in 1 .. k : i # k => qs[i] = ps[i]
  <2> DEFINE front == SubSeq(ps, 1, k)
  <2>1. qs = [front EXCEPT ![k] = plane]
    BY DEF Merged, Chain, k, m
  <2> HIDE DEF plane, T
  <2>2. front \in Seq(T) /\ Len(front) = k /\ \A i \in 1 .. k : front[i] = ps[i]
    BY <1>1, <1>4
  <2> HIDE DEF front
  <2> QED
    BY <2>1, <2>2, <1>1, <1>4
<1> HIDE DEF T
<1>6. /\ plane \in [Slots(k) -> Seq(Node)]
      /\ \A s \in Slots(k) : plane[s] = Chain(s)
  BY <1>3
<1> HIDE DEF plane
<1>7. IsTable(qs)
  <2>1. ASSUME NEW i \in 1 .. Len(qs) PROVE qs[i] \in [Slots(i) -> Seq(Node)]
    <3>1. i = k \/ (i # k /\ i \in 1 .. Len(ps))
      BY <1>1, <1>5
    <3> QED
      BY <3>1, <1>1, <1>5, <1>6 DEF IsTable
  <2> QED
    BY <1>5, <2>1, TableIntro
\* A chain of the merged table is an old one or one of those put together.
<1>8. \A i \in 1 .. Len(qs) : \A s \in Slots(i) :
        \/ i = k /\ qs[i][s] = Chain(s)
        \/ i # k /\ i # k + 1 /\ i \in 1 .. Len(ps) /\ qs[i][s] = ps[i][s]
  <2> SUFFICES ASSUME NEW i \in 1 .. Len(qs), NEW s \in Slots(i)
               PROVE  \/ i = k /\ qs[i][s] = Chain(s)
                      \/ i # k /\ i # k + 1 /\ i \in 1 .. Len(ps) /\ qs[i][s] = ps[i][s]
    OBVIOUS
  <2>1. CASE i = k
    BY <2>1, <1>5, <1>6
  <2>2. CASE i # k
    <3>1. i \in 1 .. k /\ i # k + 1 /\ i \in 1 .. Len(ps)
      BY <2>2, <1>1, <1>5
    <3> QED
      BY <2>2, <3>1, <1>5
  <2> QED
    BY <2>1, <2>2
<1>9. Placed(qs)
  <2>1. ASSUME NEW s \in Slots(k), NEW x \in NodesOf(Chain(s)) PROVE SlotOf(x, k) = s
    <3>1. CASE x \in NodesOf(ps[k][s])
      BY <3>1, <1>1, <1>2
    <3>2. CASE x \in NodesOf(ps[k + 1][s + m]) \cup NodesOf(ps[k + 1][s])
      <4>1. x \in Node /\ (SlotOf(x, k + 1) = s \/ SlotOf(x, k + 1) = s + m)
        BY <3>2, <1>1, <1>2
      <4>2. Hash(x) % (2 * m) = s \/ Hash(x) % (2 * m) = s + m
        BY <4>1, <1>1 DEF SlotOf
      <4>3. Hash(x) \in Nat /\ s \in 0 .. m - 1
        BY <4>1, <1>1, SlotType
      <4>4. Hash(x) % m = s
        BY <4>2, <4>3, <1>1, ModDouble
      <4> QED
        BY <4>4 DEF SlotOf, m
    <3> QED
      BY <3>1, <3>2, <1>3
  <2>2. \A i \in 1 .. Len(qs) : \A s \in Slots(i) : \A x \in NodesOf(qs[i][s]) : SlotOf(x, i) = s
    BY <2>1, <1>2, <1>8
  <2> QED
    BY <1>7, <2>2, ByChains
<1>10. OncePlaced(qs)
  <2>1. \A i \in 1 .. Len(qs) : \A s \in Slots(i) : Distinct(qs[i][s])
    BY <1>2, <1>3, <1>8
  <2>2. ASSUME NEW i \in 1 .. Len(ps), NEW s \in Slots(i), NEW t \in Slots(k), i # k, i # k + 1
        PROVE  NodesOf(ps[i][s]) \cap NodesOf(Chain(t)) = {}
    <3>1. /\ NodesOf(ps[i][s]) \cap NodesOf(ps[k + 1][t + m]) = {}
          /\ NodesOf(ps[i][s]) \cap NodesOf(ps[k + 1][t]) = {}
          /\ NodesOf(ps[i][s]) \cap NodesOf(ps[k][t]) = {}
      BY <1>1, <1>2, <2>2
    <3> QED
      BY <3>1, <1>3
  <2>3. ASSUME NEW i \in 1 .. Len(qs), NEW j \in 1 .. Len(qs), NEW s \in Slots(i), NEW t \in Slots(j),
               i # j
        PROVE  NodesOf(qs[i][s]) \cap NodesOf(qs[j][t]) = {}
    <3>1. CASE i = k
      BY <3>1, <2>2, <2>3, <1>8
    <3>2. CASE j = k
      BY <3>2, <2>2, <2>3, <1>8
    <3>3. CASE i # k /\ j # k
      <4>1. qs[i][s] = ps[i][s] /\ qs[j][t] = ps[j][t] /\ i \in 1 .. Len(ps) /\ j \in 1 .. Len(ps)
        BY <3>3, <2>3, <1>1, <1>8
      <4> QED
        BY <4>1, <2>3, <1>2
    <3> QED
      BY <3>1, <3>2, <3>3
  <2> QED
    <3>1. IsTable(qs) /\ Placed(qs)
      BY <1>7, <1>9
    <3> QED
      BY ONLY <3>1, <2>1, <2>3, ByChains
<1>11. NodesIn(qs) = NodesIn(ps)
  <2> DEFINE In(ts, x) == \E i \in 1 .. Len(ts) : \E s \in Slots(i) : x \in NodesOf(ts[i][s])
  <2>1. ASSUME NEW x, In(qs, x) PROVE In(ps, x)
    <3>1. PICK i \in 1 .. Len(qs) : \E s \in Slots(i) : x \in NodesOf(qs[i][s])
      BY <2>1
    <3>2. PICK s \in Slots(i) : x \in NodesOf(qs[i][s])
      BY <3>1
    <3>3. CASE i # k
      BY <3>2, <3>3, <1>8
    <3>4. CASE i = k
      <4>1. x \in NodesOf(ps[k + 1][s + m]) \cup NodesOf(ps[k + 1][s]) \cup NodesOf(ps[k][s])
        BY <3>2, <3>4, <1>3, <1>8
      <4> QED
        BY <3>4, <4>1, <1>1
    <3> QED
      BY <3>3, <3>4
  <2>2. ASSUME NEW x, In(ps, x) PROVE In(qs, x)
    <3>1. PICK i \in 1 .. Len(ps) : \E s \in Slots(i) : x \in NodesOf(ps[i][s])
      BY <2>2
    <3>2. PICK s \in Slots(i) : x \in NodesOf(ps[i][s])
      BY <3>1
    <3>3. ASSUME NEW t \in Slots(k), x \in NodesOf(Chain(t)) PROVE In(qs, x)
      <4>1. k \in 1 .. Len(qs) /\ qs[k][t] = Chain(t)
        BY <1>1, <1>5, <1>6
      <4> QED
        BY <3>3, <4>1
    <3>4. CASE i < k
      <4>1. i \in 1 .. Len(qs) /\ qs[i] = ps[i]
        BY <3>4, <1>1, <1>5
      <4> QED
        BY <3>2, <4>1
    <3>5. CASE i = k
      BY <3>2, <3>3, <3>5, <1>3
    <3>6. CASE i = k + 1 /\ s \in Slots(k)
      BY <3>2, <3>3, <3>6, <1>3
    <3>7. CASE i = k + 1 /\ s \notin Slots(k)
      <4>1. s - m \in Slots(k) /\ (s - m) + m = s
        BY <3>7, <1>1
      <4>2. x \in NodesOf(Chain(s - m))
        BY <4>1, <3>2, <3>7, <1>3
      <4> QED
        BY <4>1, <4>2, <3>3
    <3> QED
      BY <3>4, <3>5, <3>6, <3>7, <1>1
  <2>3. NodesIn(qs) = {x \in Node : In(qs, x)} /\ NodesIn(ps) = {x \in Node : In(ps, x)}
    BY <1>1, <1>7, ByChains
  <2> HIDE DEF In
  <2> QED
    BY <2>1, <2>2, <2>3
<1> QED
  BY <1>5, <1>7, <1>9, <1>10, <1>11 DEF Good, k

-----------------------------------------------------------------------------
(* The state.  During htable_fini n is no longer the number of nodes, but   *)
(* it bounds it: htable_fini skips its loop when n is zero.                *)

\* The inductive invariant. While htable_fini runs, nodes go and the count stays:
\* it bounds what is left, so that the loop that counts down meets every node.
IInv ==
  /\ TypeOK /\ PlacedByHash /\ OncePlaced(planes) /\ CountIsRight
  /\ Cardinality(Linked) <= n

\* There are finitely many nodes in a table.
LEMMA LinkedFinite ==
  ASSUME NEW ps
  PROVE  IsFiniteSet(NodesIn(ps)) /\ Cardinality(NodesIn(ps)) \in Nat
<1>1. NodesIn(ps) \subseteq Node
  BY DEF NodesIn
<1> QED
  BY <1>1, HTableAssumption, FS_Subset, FS_CardinalityType

\* The number of slots of a table of l planes, and of its neighbours in size.
SlotsOf(l) == Doubled(FirstPlane)[l] - FirstPlane

\* Taking an element from a finite set makes it one smaller.
LEMMA OneLess ==
  ASSUME NEW S, IsFiniteSet(S), NEW y \in S
  PROVE  Cardinality(S \ {y}) = Cardinality(S) - 1 /\ Cardinality(S \ {y}) \in Nat
<1>1. Cardinality(S \ {y}) = IF y \in S THEN Cardinality(S) - 1 ELSE Cardinality(S)
  BY FS_RemoveElement
<1>2. Cardinality(S \ {y}) \in Nat
  BY FS_RemoveElement, FS_CardinalityType
<1> QED
  BY <1>1, <1>2

\* The slots of all planes, and how many another plane adds.
LEMMA SlotCounts ==
  ASSUME NEW l \in Nat
  PROVE  /\ SlotsOf(l) \in Nat /\ SlotsOf(0) = 0
         /\ SlotsOf(l + 1) = 2 * SlotsOf(l) + FirstPlane
         /\ l > 0 => SlotsOf(l) >= FirstPlane
<1> DEFINE d == Doubled(FirstPlane)
<1>1. /\ FirstPlane \in Nat \ {0} /\ d[0] = FirstPlane
      /\ \A k \in Nat : d[k] \in Nat /\ d[k] >= FirstPlane /\ d[k + 1] = 2 * d[k]
  <2>1. FirstPlane \in Nat \ {0}
    BY HTableAssumption
  <2>2. \A k \in Nat : d[k] \in Nat /\ d[k] >= FirstPlane + k /\ d[k + 1] = 2 * d[k]
    BY <2>1, DoubledFacts
  <2>3. d[0] = FirstPlane
    BY <2>1, DoubledFacts
  <2> HIDE DEF d
  <2> QED
    BY <2>1, <2>2, <2>3
<1> HIDE DEF d
<1>2. SlotsOf(l) = d[l] - FirstPlane /\ SlotsOf(0) = d[0] - FirstPlane
      /\ SlotsOf(l + 1) = d[l + 1] - FirstPlane
  BY DEF SlotsOf, d
<1>3. l > 0 => d[l] >= 2 * FirstPlane
  <2> SUFFICES ASSUME l > 0 PROVE d[l] >= 2 * FirstPlane
    OBVIOUS
  <2>1. l - 1 \in Nat /\ (l - 1) + 1 = l
    OBVIOUS
  <2>2. d[l] = 2 * d[l - 1] /\ d[l - 1] \in Nat /\ d[l - 1] >= FirstPlane
    BY <2>1, <1>1
  <2> QED
    BY <2>2, <1>1
<1>4. d[l] \in Nat /\ d[l] >= FirstPlane /\ d[l + 1] = 2 * d[l]
  BY <1>1
<1>5. SlotsOf(l) \in Nat /\ SlotsOf(l + 1) = 2 * SlotsOf(l) + FirstPlane
  <2>1. FirstPlane \in Nat
    BY HTableAssumption
  <2> QED
    BY ONLY <2>1, <1>2, <1>4
<1>6. SlotsOf(0) = 0
  BY <1>1, <1>2
<1>7. l > 0 => SlotsOf(l) >= FirstPlane
  <2>1. FirstPlane \in Nat
    BY HTableAssumption
  <2> QED
    BY ONLY <2>1, <1>2, <1>3, <1>4
<1> QED
  BY <1>5, <1>6, <1>7

\* The empty table.
LEMMA InitIInv == Init => IInv
<1> SUFFICES ASSUME Init PROVE IInv
  OBVIOUS
<1>1. planes = <<>> /\ n = 0 /\ pc = "idle" /\ ret = NULL /\ Len(planes) = 0
  BY DEF Init
<1>2. IsTable(planes)
  BY <1>1 DEF IsTable
<1>3. Linked = {}
  BY <1>1 DEF Linked, NodesIn
<1>4. Cardinality(Linked) = 0
  BY <1>3, FS_EmptySet
<1> QED
  BY <1>1, <1>2, <1>4 DEF IInv, TypeOK, PlacedByHash, Placed, OncePlaced, CountIsRight

\* What the inductive invariant says of the variables, in one place.
LEMMA StateType ==
  ASSUME IInv
  PROVE  /\ Good(planes) /\ IsTable(planes) /\ Len(planes) \in Nat /\ n \in Nat
         /\ IsFiniteSet(Linked) /\ Cardinality(Linked) \in Nat
         /\ SlotCount = SlotsOf(Len(planes)) /\ SlotCount \in Nat
<1>1. Good(planes)
  BY DEF IInv, TypeOK, PlacedByHash, Good
<1>2. Len(planes) \in Nat
  BY <1>1, TableType DEF Good
<1> QED
  BY <1>1, <1>2, LinkedFinite, SlotCounts DEF IInv, TypeOK, Good, Linked, SlotCount, SlotsOf

\* Linking a node, with or without a new plane.
LEMMA LinkIInv ==
  ASSUME IInv, NEW x \in Node \ Linked, pc = "idle", Link(x)
  PROVE  IInv' /\ Linked' = Linked \cup {x} /\ ret' = 0 /\ pc' = pc
<1>1. /\ Good(planes) /\ Len(planes) \in Nat /\ n \in Nat /\ IsFiniteSet(Linked)
      /\ SlotCount = SlotsOf(Len(planes)) /\ x \notin NodesIn(planes)
      /\ n = Cardinality(Linked)
      /\ Len(planes) > 1 => n >= SlotCount \div 4
  BY StateType DEF IInv, CountIsRight, Linked
<1>2. /\ Good(planes') /\ NodesIn(planes') = NodesIn(planes) \cup {x}
      /\ \/ Len(planes') = Len(planes)
         \/ Len(planes') = Len(planes) + 1 /\ TooFull
      /\ Len(planes') > 0
  <2>1. CASE ~TooFull /\ planes' = Pushed(planes, x)
    <3>1. Len(planes) > 0
      BY <1>1, <2>1, SlotCounts DEF TooFull
    <3> QED
      BY <1>1, <2>1, <3>1, PushedGood
  <2>2. CASE TooFull /\ planes' = Pushed(Grown, x)
    <3>1. Good(Grown) /\ Len(Grown) = Len(planes) + 1 /\ NodesIn(Grown) = NodesIn(planes)
      BY <1>1, GrownGood DEF Grown
    <3>2. Len(Grown) > 0 /\ x \notin NodesIn(Grown)
      BY <1>1, <3>1
    <3> QED
      BY <2>2, <3>1, <3>2, PushedGood
  <2>3. CASE TooFull /\ Len(planes) > 0 /\ planes' = Pushed(planes, x)
    BY <1>1, <2>3, PushedGood
  <2> QED
    BY <2>1, <2>2, <2>3 DEF Link
<1>3. n' = n + 1 /\ ret' = 0 /\ pc' = pc
  BY DEF Link
<1>4. Linked' = Linked \cup {x}
  BY <1>2 DEF Linked
<1>5. Cardinality(Linked') = n'
  <2>1. Cardinality(Linked \cup {x}) = Cardinality(Linked) + 1
    BY <1>1, FS_AddElement
  <2> QED
    BY <1>1, <1>3, <1>4, <2>1
<1>6. Len(planes') > 1 => n' >= SlotCount' \div 4
  <2>1. SlotCount' = SlotsOf(Len(planes')) /\ FirstPlane \in Nat
    BY HTableAssumption DEF SlotCount, SlotsOf
  <2>2. SlotsOf(Len(planes)) \in Nat
    BY <1>1, SlotCounts
  <2>3. CASE Len(planes') = Len(planes)
    BY <1>1, <1>3, <2>1, <2>2, <2>3
  <2>4. CASE Len(planes') = Len(planes) + 1 /\ TooFull /\ Len(planes) > 0
    <3>1. SlotsOf(Len(planes')) = 2 * SlotCount + FirstPlane /\ SlotCount >= FirstPlane
      BY <1>1, <2>4, SlotCounts
    <3>2. n >= SlotCount
      BY <2>4 DEF TooFull
    <3> QED
      BY <1>1, <1>3, <2>1, <2>2, <3>1, <3>2
  <2> QED
    BY <1>1, <1>2, <2>3, <2>4
<1>7. n' # 0
  BY <1>1, <1>3
<1>8. TypeOK'
  BY <1>1, <1>2, <1>3 DEF Good, TypeOK, IInv
<1>9. n' \in Nat
  BY <1>1, <1>3
<1> QED
  BY <1>2, <1>3, <1>4, <1>5, <1>6, <1>7, <1>8, <1>9 DEF Good, IInv, PlacedByHash, CountIsRight

\* What the searches find.
LEMMA HitsAre ==
  ASSUME IInv, NEW x \in Node
  PROVE  /\ \A h \in Hits(x) : /\ h = <<h[1], h[2]>> /\ h[1] \in 1 .. Len(planes)
                               /\ SlotOf(x, h[1]) \in Slots(h[1])
                               /\ h[2] \in 1 .. Len(planes[h[1]][SlotOf(x, h[1])])
                               /\ NodeAt(x, h) = planes[h[1]][SlotOf(x, h[1])][h[2]]
                               /\ KeyOf[NodeAt(x, h)] = KeyOf[x]
                               /\ NodeAt(x, h) \in Linked
         /\ \A i \in 1 .. Len(planes) : \A j \in 1 .. Len(planes[i][SlotOf(x, i)]) :
              KeyOf[planes[i][SlotOf(x, i)][j]] = KeyOf[x] => <<i, j>> \in Hits(x)
<1>1. /\ IsTable(planes) /\ Len(planes) \in Nat
      /\ \A i \in 1 .. Len(planes) : SlotOf(x, i) \in Slots(i)
  BY StateType, SlotType
<1>2. ASSUME NEW h \in Hits(x)
      PROVE  /\ h = <<h[1], h[2]>> /\ h[1] \in 1 .. Len(planes)
             /\ h[2] \in 1 .. Len(planes[h[1]][SlotOf(x, h[1])])
             /\ KeyOf[NodeAt(x, h)] = KeyOf[x]
  BY DEF Hits, ChainPlaces
<1>3. ASSUME NEW h \in Hits(x)
      PROVE  NodeAt(x, h) \in Linked
  <2>1. NodeAt(x, h) \in Node
    BY <1>1, <1>2, TableType DEF NodeAt
  <2> QED
    BY <1>1, <1>2, <2>1 DEF Linked, NodesIn, NodeAt
<1>4. ASSUME NEW i \in 1 .. Len(planes), NEW j \in 1 .. Len(planes[i][SlotOf(x, i)]),
             KeyOf[planes[i][SlotOf(x, i)][j]] = KeyOf[x]
      PROVE  <<i, j>> \in Hits(x)
  <2>1. <<i, j>> \in ChainPlaces(x)
    BY DEF ChainPlaces
  <2> QED
    BY <1>4, <2>1 DEF Hits, NodeAt
<1> QED
  BY <1>1, <1>2, <1>3, <1>4 DEF NodeAt

\* A node is found if and only if one of that key is in the table: a key has
\* one hash, and Placed says that every chain it may be in is searched.
LEMMA FoundIfLinked ==
  ASSUME IInv, NEW x \in Node
  PROVE  Hits(x) = {} <=> \A y \in Linked : KeyOf[y] # KeyOf[x]
<1>1. ASSUME NEW y \in Linked, KeyOf[y] = KeyOf[x] PROVE Hits(x) # {}
  <2>1. PICK i \in 1 .. Len(planes) : \E s \in Slots(i) :
               \E j \in 1 .. Len(planes[i][s]) : planes[i][s][j] = y
    BY DEF Linked, NodesIn
  <2>2. PICK s \in Slots(i) : \E j \in 1 .. Len(planes[i][s]) : planes[i][s][j] = y
    BY <2>1
  <2>3. PICK j \in 1 .. Len(planes[i][s]) : planes[i][s][j] = y
    BY <2>2
  <2>4. SlotOf(y, i) = s
    BY <2>3 DEF IInv, PlacedByHash, Placed
  <2>5. SlotOf(x, i) = s
    BY <1>1, <2>4 DEF SlotOf, Hash
  <2> QED
    BY <1>1, <2>3, <2>5, HitsAre
<1> QED
  BY <1>1, HitsAre

\* The search finds a first equal node when there is one.
LEMMA FirstHitIsHit ==
  ASSUME IInv, NEW x \in Node, Hits(x) # {}
  PROVE  FirstHit(x) \in Hits(x)
<1> DEFINE I == {h[1] : h \in Hits(x)}
<1>1. Len(planes) \in Nat
  BY StateType
<1>2. \A h \in Hits(x) : h[1] \in 1 .. Len(planes) /\ h[2] \in Nat
  BY HitsAre
<1>3. PICK i \in I : \A k \in I : k <= i
  <2>1. I \in SUBSET (0 .. Len(planes)) /\ I # {}
    BY <1>2
  <2> HIDE DEF I
  <2> QED
    BY <1>1, <2>1, GreatestNat
<1> DEFINE J == {h[2] : h \in {g \in Hits(x) : g[1] = i}}
<1>4. PICK j \in J : \A l \in J : j <= l
  <2>1. J \in SUBSET Nat /\ J # {}
    BY <1>2
  <2> HIDE DEF J
  <2> QED
    BY <2>1, LeastNat
<1>5. PICK h \in Hits(x) : h[1] = i /\ h[2] = j
  OBVIOUS
<1>6. ASSUME NEW g \in Hits(x) PROVE g[1] < h[1] \/ (g[1] = h[1] /\ h[2] <= g[2])
  <2>1. g[1] \in I
    OBVIOUS
  <2>2. g[1] <= i /\ g[1] \in Int /\ i \in Int
    BY <1>2, <1>3, <1>5, <2>1
  <2>3. CASE g[1] = i
    <3>1. g[2] \in J
      BY <2>3
    <3> QED
      BY <1>4, <1>5, <2>3, <3>1
  <2> QED
    BY <2>2, <2>3, <1>5
<1> HIDE DEF I, J
<1> QED
  BY <1>6 DEF FirstHit

\* htable_remove unlinks one node with the key, if there is one, and no other.
LEMMA RemoveIInv ==
  ASSUME IInv, NEW x \in Node, htable_remove(x)
  PROVE  /\ IInv' /\ pc = "idle" /\ pc' = pc
         /\ IF Hits(x) = {} THEN ret' = NULL /\ Linked' = Linked
            ELSE /\ ret' \in Linked /\ KeyOf[ret'] = KeyOf[x]
                 /\ Linked' = Linked \ {ret'}
<1>1. /\ Good(planes) /\ Len(planes) \in Nat /\ n \in Nat /\ IsFiniteSet(Linked)
      /\ SlotCount = SlotsOf(Len(planes)) /\ SlotCount \in Nat
      /\ pc = "idle" /\ pc' = pc /\ n = Cardinality(Linked)
      /\ Len(planes) > 1 => n >= SlotCount \div 4
  BY StateType DEF IInv, CountIsRight, htable_remove
<1>2. CASE Hits(x) = {}
  <2>1. planes' = planes /\ n' = n /\ ret' = NULL
    BY <1>2 DEF htable_remove
  <2>2. Linked' = Linked /\ SlotCount' = SlotCount
    BY <2>1 DEF Linked, SlotCount
  <2>3. IInv'
    BY <1>1, <2>1, <2>2 DEF IInv, TypeOK, PlacedByHash, CountIsRight
  <2> QED
    BY <1>1, <1>2, <2>1, <2>2, <2>3
<1>3. CASE Hits(x) # {}
  <2> DEFINE h == FirstHit(x)
             i == h[1]
             s == SlotOf(x, i)
             y == NodeAt(x, h)
             rest == [planes EXCEPT ![i][s] = WithoutPlace(@, h[2])]
  <2>1. ret' = y /\ n' = n - 1
        /\ planes' = IF TooEmpty(n - 1) THEN Shrunk(rest, n - 1) ELSE rest
    BY <1>3 DEF htable_remove
  <2>2. /\ i \in 1 .. Len(planes) /\ s \in Slots(i) /\ h[2] \in 1 .. Len(planes[i][s])
        /\ y = planes[i][s][h[2]] /\ KeyOf[y] = KeyOf[x] /\ y \in Linked
    BY <1>3, FirstHitIsHit, HitsAre
  <2>3. rest = Replaced(planes, i, s, WithoutPlace(planes[i][s], h[2]))
    BY <2>2 DEF Replaced
  <2> HIDE DEF h, i, s, y, rest
  <2>4. Good(rest) /\ Len(rest) = Len(planes) /\ NodesIn(rest) = Linked \ {y}
    BY <1>1, <2>2, <2>3, UnlinkedGood DEF Linked
  <2>5. Cardinality(Linked \ {y}) = n - 1 /\ n - 1 \in Nat /\ Len(planes) > 0
    <3>1. Cardinality(Linked \ {y}) = Cardinality(Linked) - 1
      BY ONLY <1>1, <2>2, OneLess
    <3>2. Cardinality(Linked \ {y}) \in Nat
      BY <2>4, LinkedFinite
    <3> QED
      BY <1>1, <2>2, <3>1, <3>2
  <2>6. SlotCount >= FirstPlane /\ FirstPlane \in Nat /\ FirstPlane >= 4
    BY <1>1, <2>5, SlotCounts, HTableAssumption
  <2>7. /\ Good(planes') /\ NodesIn(planes') = Linked \ {y}
        /\ Len(planes') > 1 => n - 1 >= SlotsOf(Len(planes')) \div 4
        /\ n - 1 = 0 => planes' = <<>>
    <3>1. CASE ~TooEmpty(n - 1)
      <4>1. n - 1 >= SlotCount \div 4 /\ n - 1 # 0
        BY <1>1, <2>5, <2>6, <3>1 DEF TooEmpty
      <4> QED
        BY <1>1, <2>1, <2>4, <3>1, <4>1
    <3>2. CASE TooEmpty(n - 1) /\ n - 1 = 0
      <4>1. planes' = <<>> /\ Len(planes') = 0
        BY <2>1, <3>2 DEF Shrunk
      <4>2. Linked \ {y} = {}
        <5>1. IsFiniteSet(Linked \ {y})
          BY <2>4, LinkedFinite
        <5> QED
          BY <5>1, <2>5, <3>2, FS_EmptySet
      <4> QED
        BY <4>1, <4>2, InitIInv, <3>2 DEF Good, IsTable, Placed, OncePlaced, NodesIn
    <3>3. CASE TooEmpty(n - 1) /\ n - 1 # 0 /\ Len(planes) <= 1
      BY <1>1, <2>1, <2>4, <3>3 DEF Shrunk
    <3>4. CASE TooEmpty(n - 1) /\ n - 1 # 0 /\ Len(planes) > 1
      <4>1. planes' = Merged(rest)
        BY <1>1, <2>1, <2>4, <3>4 DEF Shrunk
      <4>2. Good(planes') /\ Len(planes') = Len(planes) - 1 /\ NodesIn(planes') = Linked \ {y}
        BY <2>4, <3>4, <4>1, MergedGood
      <4>3. Len(planes') > 1 => n - 1 >= SlotsOf(Len(planes')) \div 4
        <5> SUFFICES ASSUME Len(planes') > 1 PROVE n - 1 >= SlotsOf(Len(planes')) \div 4
          OBVIOUS
        <5> DEFINE l == Len(planes')
        <5>1. l \in Nat /\ l > 1 /\ Len(planes) = l + 1
          BY <1>1, <4>2
        <5>2. /\ SlotCount = 2 * SlotsOf(l) + FirstPlane
              /\ SlotsOf(l) \in Nat /\ SlotsOf(l) >= FirstPlane
          BY <1>1, <5>1, SlotCounts
        <5>3. n >= SlotCount \div 4
          BY <1>1, <3>4
        <5> QED
          BY <1>1, <2>6, <5>2, <5>3
      <4> QED
        BY <3>4, <4>2, <4>3
    <3> QED
      BY <1>1, <3>1, <3>2, <3>3, <3>4
  <2>8. SlotCount' = SlotsOf(Len(planes')) /\ Linked' = Linked \ {y}
    BY <2>7 DEF SlotCount, SlotsOf, Linked
  <2>9. n' \in Nat /\ n' = Cardinality(Linked') /\ y \in Node
    BY <2>1, <2>2, <2>5, <2>8 DEF Linked, NodesIn
  <2>10. TypeOK'
    BY <1>1, <2>1, <2>7, <2>9 DEF Good, TypeOK, IInv
  <2>11. CountIsRight'
    BY <2>1, <2>7, <2>8, <2>9 DEF Good, CountIsRight
  <2>12. IInv'
    BY <2>7, <2>9, <2>10, <2>11 DEF Good, IInv, PlacedByHash
  <2> QED
    BY <1>1, <1>3, <2>1, <2>2, <2>8, <2>12
<1> QED
  BY <1>2, <1>3

\* A step that leaves the table alone.
LEMMA SameTable ==
  ASSUME IInv, planes' = planes, n' = n, pc' = pc \/ (pc = "idle" /\ pc' = "fini"),
         ret' \in Node \cup {NULL, 0, -1}
  PROVE  IInv' /\ Linked' = Linked
BY DEF IInv, TypeOK, PlacedByHash, CountIsRight, Linked, SlotCount

\* A step that frees it.
LEMMA EmptyTable ==
  ASSUME IInv, planes' = <<>>, n' = 0, pc' = "idle", ret' = ret
  PROVE  IInv' /\ Linked' = {}
<1>1. Len(planes') = 0 /\ IsTable(planes')
  BY DEF IsTable
<1>2. NodesIn(planes') = {}
  BY <1>1 DEF NodesIn
<1>3. Cardinality(NodesIn(planes')) = 0
  BY <1>2, FS_EmptySet
<1> QED
  BY <1>1, <1>2, <1>3
  DEF IInv, TypeOK, PlacedByHash, Placed, OncePlaced, CountIsRight, Linked

\* While a slot has a node, htable_fini finds such a slot.
LEMMA FirstNonEmptyIs ==
  ASSUME IInv, NonEmpty # {}
  PROVE  LET e == FirstNonEmpty
         IN  /\ e[1] \in 1 .. Len(planes) /\ e[2] \in Slots(e[1])
             /\ planes[e[1]][e[2]] # <<>>
<1>1. Len(planes) \in Nat
  BY StateType
<1>2. \A e \in NonEmpty : /\ e[1] \in 1 .. Len(planes) /\ e[2] \in Slots(e[1]) /\ e[2] \in Nat
                          /\ planes[e[1]][e[2]] # <<>>
  BY DEF NonEmpty, Slots
<1> DEFINE I == {e[1] : e \in NonEmpty}
<1>3. PICK i \in I : \A k \in I : i <= k
  <2>1. I \in SUBSET Nat /\ I # {}
    BY <1>1, <1>2
  <2> HIDE DEF I
  <2> QED
    BY <2>1, LeastNat
<1> DEFINE J == {e[2] : e \in {f \in NonEmpty : f[1] = i}}
<1>4. PICK s \in J : \A t \in J : s <= t
  <2>1. J \in SUBSET Nat /\ J # {}
    BY <1>2
  <2> HIDE DEF J
  <2> QED
    BY <2>1, LeastNat
<1>5. PICK e \in NonEmpty : e[1] = i /\ e[2] = s
  OBVIOUS
<1>6. ASSUME NEW f \in NonEmpty PROVE e[1] < f[1] \/ (e[1] = f[1] /\ e[2] <= f[2])
  <2>1. f[1] \in I
    OBVIOUS
  <2>2. i <= f[1] /\ f[1] \in Int /\ i \in Int
    BY <1>1, <1>2, <1>3, <1>5, <2>1
  <2>3. CASE f[1] = i
    <3>1. f[2] \in J
      BY <2>3
    <3> QED
      BY <1>4, <1>5, <2>3, <3>1
  <2> QED
    BY <2>2, <2>3, <1>5
<1> HIDE DEF I, J
<1>7. FirstNonEmpty \in NonEmpty
  BY <1>6 DEF FirstNonEmpty
<1> QED
  BY <1>2, <1>7

\* A step of htable_fini takes one linked node out, and no other.
LEMMA FiniDestroyIInv ==
  ASSUME IInv, FiniDestroy
  PROVE  IInv' /\ pc = "fini" /\ pc' = pc /\ ret' \in Linked /\ Linked' = Linked \ {ret'}
<1> DEFINE i == FirstNonEmpty[1]
           s == FirstNonEmpty[2]
           c == planes[i][s]
<1>1. /\ pc = "fini" /\ pc' = pc /\ n' = n /\ NonEmpty # {}
      /\ ret' = Head(c) /\ planes' = [planes EXCEPT ![i][s] = Tail(@)]
  BY DEF FiniDestroy
<1>2. Good(planes) /\ IsTable(planes) /\ i \in 1 .. Len(planes) /\ s \in Slots(i) /\ c # <<>>
      /\ IsFiniteSet(Linked) /\ n \in Nat
  BY <1>1, FirstNonEmptyIs, StateType
<1>3. c \in Seq(Node)
  BY <1>2, TableType
<1>4. 1 \in 1 .. Len(c) /\ Tail(c) = WithoutPlace(c, 1) /\ Head(c) = c[1]
  BY <1>2, <1>3, TailIsWithout
<1>5. planes' = Replaced(planes, i, s, WithoutPlace(planes[i][s], 1))
  BY <1>1, <1>4 DEF Replaced
<1> HIDE DEF i, s
<1>6. Good(planes') /\ ret' \in Linked /\ Linked' = Linked \ {ret'}
  <2>1. 1 \in 1 .. Len(planes[i][s]) /\ ret' = planes[i][s][1]
    BY <1>1, <1>4
  <2>2. /\ Good(planes')
        /\ planes[i][s][1] \in NodesIn(planes)
        /\ NodesIn(planes') = NodesIn(planes) \ {planes[i][s][1]}
    BY ONLY <1>2, <1>5, <2>1, UnlinkedGood
  <2> QED
    BY <2>1, <2>2 DEF Linked
<1>7. Cardinality(Linked') <= n'
  <2>1. Cardinality(Linked \ {ret'}) = Cardinality(Linked) - 1 /\ Cardinality(Linked) \in Nat
    BY <1>2, <1>6, OneLess, StateType
  <2> QED
    BY <1>1, <1>2, <1>6, <2>1 DEF IInv
<1>8. TypeOK'
  <2>1. ret' \in Node
    BY <1>6 DEF Linked, NodesIn
  <2> QED
    BY <1>1, <1>6, <2>1 DEF Good, IInv, TypeOK
<1> QED
  BY <1>1, <1>6, <1>7, <1>8 DEF IInv, Good, PlacedByHash, CountIsRight

\* htable_fini leaves its loop when every node has been destroyed.
LEMMA FiniReturnIInv ==
  ASSUME IInv, FiniReturn
  PROVE  IInv' /\ pc = "fini" /\ pc' = "idle" /\ ret' = ret /\ Linked = {} /\ Linked' = {}
<1>1. /\ pc = "fini" /\ pc' = "idle" /\ planes' = <<>> /\ n' = 0 /\ ret' = ret
      /\ n = 0 \/ NonEmpty = {}
  BY DEF FiniReturn
<1>2. CASE n = 0
  <2>1. Cardinality(Linked) = 0 /\ IsFiniteSet(Linked)
    BY <1>2, StateType DEF IInv
  <2>2. Linked = {}
    BY <2>1, FS_EmptySet
  <2> QED
    BY <1>1, <2>2, EmptyTable
<1>3. CASE NonEmpty = {}
  <2>1. ASSUME NEW i \in 1 .. Len(planes), NEW s \in Slots(i) PROVE planes[i][s] = <<>>
    <3>1. <<i, s>> \in UNION {{k} \X Slots(k) : k \in 1 .. Len(planes)}
      OBVIOUS
    <3> QED
      BY <1>3, <3>1 DEF NonEmpty
  <2>2. Linked = {}
    BY <2>1 DEF Linked, NodesIn
  <2> QED
    BY <1>1, <2>2, EmptyTable
<1> QED
  BY <1>1, <1>2, <1>3

\* htable_insert and htable_insert_unsafe either link the node or change nothing.
LEMMA GrowFailsIInv ==
  ASSUME IInv, pc = "idle", GrowFails
  PROVE  IInv' /\ Linked' = Linked /\ ret' = -1 /\ pc' = pc
BY SameTable DEF GrowFails

\* An insertion links the node, htable_insert only if no equal one is there.
LEMMA InsertIInv ==
  ASSUME IInv, NEW x \in Node \ Linked, htable_insert(x) \/ htable_insert_unsafe(x)
  PROVE  /\ IInv' /\ pc = "idle" /\ pc' = pc
         /\ \/ ret' = -1 /\ Linked' = Linked
            \/ ret' = 0 /\ Linked' = Linked \cup {x} /\ (htable_insert(x) => Hits(x) = {})
<1>1. pc = "idle"
  BY DEF htable_insert, htable_insert_unsafe
<1>2. CASE Hits(x) # {} /\ ret' = -1 /\ UNCHANGED <<planes, n, pc>>
  BY <1>1, <1>2, SameTable
<1>3. CASE GrowFails
  BY <1>1, <1>3, GrowFailsIInv
<1>4. CASE Link(x) /\ (htable_insert(x) => Hits(x) = {})
  BY <1>1, <1>4, LinkIInv
<1>5. CASE htable_insert(x)
  <2>1. CASE Hits(x) = {}
    BY <1>3, <1>4, <1>5, <2>1 DEF htable_insert
  <2> QED
    BY <1>2, <1>5, <2>1 DEF htable_insert
<1>6. CASE htable_insert_unsafe(x) /\ ~htable_insert(x)
  BY <1>3, <1>4, <1>6 DEF htable_insert_unsafe
<1> QED
  BY <1>5, <1>6

\* htable_lookup finds a node with the key when there is one, and changes nothing.
LEMMA LookupIInv ==
  ASSUME IInv, NEW x \in Node, htable_lookup(x)
  PROVE  /\ IInv' /\ pc = "idle" /\ pc' = pc /\ Linked' = Linked
         /\ IF Hits(x) = {} THEN ret' = NULL ELSE ret' \in Linked /\ KeyOf[ret'] = KeyOf[x]
<1>1. pc = "idle" /\ ret' = Lookup(x) /\ UNCHANGED <<planes, n, pc>>
  BY DEF htable_lookup
<1>2. CASE Hits(x) = {}
  BY <1>1, <1>2, SameTable DEF Lookup
<1>3. CASE Hits(x) # {}
  <2>1. ret' = NodeAt(x, FirstHit(x))
    BY <1>1, <1>3 DEF Lookup
  <2>2. ret' \in Linked /\ KeyOf[ret'] = KeyOf[x]
    BY <1>3, <2>1, FirstHitIsHit, HitsAre
  <2>3. ret' \in Node
    BY <2>2 DEF Linked, NodesIn
  <2> QED
    BY <1>1, <1>3, <2>2, <2>3, SameTable
<1> QED
  BY <1>2, <1>3

\* Every call, and every step of htable_fini, keeps the inductive invariant.
LEMMA NextIInv == IInv /\ [Next]_vars => IInv'
<1> SUFFICES ASSUME IInv, [Next]_vars PROVE IInv'
  OBVIOUS
<1>1. ASSUME NEW x \in Node \ Linked, htable_insert(x) \/ htable_insert_unsafe(x)
      PROVE  IInv'
  BY <1>1, InsertIInv
<1>2. ASSUME NEW x \in Node, htable_remove(x) PROVE IInv'
  BY <1>2, RemoveIInv
<1>3. ASSUME NEW x \in Node, htable_lookup(x) PROVE IInv'
  BY <1>3, LookupIInv
<1>4. CASE CallFini
  BY <1>4, SameTable DEF CallFini, IInv, TypeOK
<1>5. CASE FiniDestroy
  BY <1>5, FiniDestroyIInv
<1>6. CASE FiniReturn
  BY <1>6, FiniReturnIInv
<1>7. CASE FiniWithoutDtor
  BY <1>7, EmptyTable DEF FiniWithoutDtor
<1>8. CASE UNCHANGED vars
  BY <1>8, SameTable DEF vars, IInv, TypeOK
<1> QED
  BY <1>1, <1>2, <1>3, <1>4, <1>5, <1>6, <1>7, <1>8 DEF Next

\* The inductive invariant holds of every reachable state.
THEOREM Invariance == Spec => []IInv
BY InitIInv, NextIInv, PTL DEF Spec

\* Every node stays in the slot its hash selects in its plane, through growing,
\* merging of planes and removal: a lookup, which looks nowhere else, misses none.
THEOREM PlacedByHashHolds == Spec => []PlacedByHash
<1>1. IInv => PlacedByHash
  BY DEF IInv
<1> QED
  BY <1>1, Invariance, PTL

\* The count the code keeps, from which it decides to grow and to shrink, is
\* the number of nodes linked; no node is linked twice; the table never keeps
\* more than four slots for each node unless it has one plane only.
THEOREM CountIsRightHolds == Spec => []CountIsRight
<1>1. IInv => CountIsRight
  BY DEF IInv
<1> QED
  BY <1>1, Invariance, PTL

-----------------------------------------------------------------------------
(* The table is the set of nodes data/htable.h promises.                   *)

\* The insertions do what KeyedSet allows them to.
LEMMA InsertRefines ==
  ASSUME IInv, NEW x \in Node \ Linked
  PROVE  /\ htable_insert(x) => Set!Insert(x)
         /\ htable_insert_unsafe(x) => Set!InsertUnsafe(x)
<1>1. ASSUME htable_insert(x) PROVE Set!Insert(x)
  <2>1. /\ pc = "idle" /\ pc' = pc
        /\ \/ ret' = -1 /\ Linked' = Linked
           \/ ret' = 0 /\ Linked' = Linked \cup {x} /\ Hits(x) = {}
    BY <1>1, InsertIInv
  <2>2. Hits(x) = {} => Set!Equal(x) = {}
    BY FoundIfLinked DEF Set!Equal
  <2> QED
    BY <2>1, <2>2 DEF Set!Insert, Set!Fail, Set!Add
<1>2. ASSUME htable_insert_unsafe(x) PROVE Set!InsertUnsafe(x)
  BY <1>2, InsertIInv DEF Set!InsertUnsafe, Set!Fail, Set!Add
<1> QED
  BY <1>1, <1>2

\* So do htable_remove and htable_lookup.
LEMMA FindRefines ==
  ASSUME IInv, NEW x \in Node
  PROVE  /\ htable_remove(x) => Set!Remove(x)
         /\ htable_lookup(x) => Set!Lookup(x)
<1>1. Hits(x) = {} <=> Set!Equal(x) = {}
  BY FoundIfLinked DEF Set!Equal
<1>2. ASSUME NEW y \in Linked, KeyOf[y] = KeyOf[x] PROVE y \in Set!Equal(x)
  BY <1>2 DEF Set!Equal
<1>3. ASSUME htable_remove(x) PROVE Set!Remove(x)
  BY <1>1, <1>2, <1>3, RemoveIInv DEF Set!Remove
<1>4. ASSUME htable_lookup(x) PROVE Set!Lookup(x)
  BY <1>1, <1>2, <1>4, LookupIInv DEF Set!Lookup
<1> QED
  BY <1>3, <1>4

\* Every step of the table is one of the set, or none.
LEMMA StepRefines == IInv /\ [Next]_vars => [Set!Next]_(Set!vars)
<1> SUFFICES ASSUME IInv, [Next]_vars PROVE [Set!Next]_(Set!vars)
  OBVIOUS
<1>1. ASSUME NEW x \in Node \ Linked, htable_insert(x) \/ htable_insert_unsafe(x)
      PROVE  Set!Next
  BY <1>1, InsertRefines DEF Set!Next
<1>2. ASSUME NEW x \in Node, htable_remove(x) \/ htable_lookup(x)
      PROVE  Set!Next
  BY <1>2, FindRefines DEF Set!Next
<1>3. CASE CallFini
  <2>1. Linked' = Linked
    BY <1>3, SameTable DEF CallFini, IInv, TypeOK
  <2> QED
    BY <1>3, <2>1 DEF CallFini, Set!Next, Set!StartFini
<1>4. CASE FiniDestroy
  BY <1>4, FiniDestroyIInv DEF Set!Next, Set!FiniStep, Set!Destroy
<1>5. CASE FiniReturn
  BY <1>5, FiniReturnIInv DEF Set!Next, Set!FiniStep
<1>6. CASE FiniWithoutDtor
  BY <1>6, EmptyTable DEF FiniWithoutDtor, Set!Next, Set!Drop
<1>7. CASE UNCHANGED vars
  BY <1>7 DEF vars, Set!vars, Linked
<1> QED
  BY <1>1, <1>2, <1>3, <1>4, <1>5, <1>6, <1>7 DEF Next

\* The hash table implements KeyedSet: with every call the set of linked nodes
\* changes as the header promises, and what a call returns is right for it.
THEOREM KeyedSetImplemented == Spec => ImplementsKeyedSet
<1> DEFINE Called(x) ==
             /\ x \notin Linked /\ htable_insert(x) => Set!Insert(x)
             /\ x \notin Linked /\ htable_insert_unsafe(x) => Set!InsertUnsafe(x)
             /\ htable_remove(x) => Set!Remove(x)
             /\ htable_lookup(x) => Set!Lookup(x)
<1>1. Init => Set!Init
  <2>1. SUFFICES ASSUME Init PROVE Set!Init
    OBVIOUS
  <2>2. Linked = {}
    BY <2>1 DEF Init, Linked, NodesIn
  <2> QED
    BY <2>1, <2>2 DEF Init, Set!Init
<1>2. IInv => \A x \in Node : Called(x)
  BY InsertRefines, FindRefines
<1>3. IInv /\ [Next]_vars => [\A x \in Node : Called(x)]_vars
  BY <1>2
<1>4. Spec => Set!Spec
  BY <1>1, StepRefines, Invariance, PTL DEF Spec, Set!Spec
<1>5. Spec => [][\A x \in Node : Called(x)]_vars
  <2> HIDE DEF Called
  <2> QED
    BY <1>3, Invariance, PTL DEF Spec
<1> QED
  BY <1>4, <1>5, PTL DEF ImplementsKeyedSet

=============================================================================
