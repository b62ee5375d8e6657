------------------------------- MODULE HTable -------------------------------
(***************************************************************************)
(* The intrusive hash table of data/htable.[hc].  It grows by adding a     *)
(* plane of slots twice the size of the last, without moving a node, and   *)
(* shrinks by merging the last plane into the one before.  A slot is a     *)
(* chain of nodes, here a sequence.  Each call is one step, but for        *)
(* htable_fini, which calls back into the application for each node.       *)
(***************************************************************************)
EXTENDS Integers, Sequences, FiniteSets, Doubling

CONSTANTS Node,        \* the callers' HTABLE_NODEs, in the table or not
          NULL,
          KeyOf,       \* what cmp_func compares
          HashOf,      \* hash_func, of a key
          FirstPlane   \* HTABLE_PLANE_SIZE(0)

ASSUME HTableAssumption ==
  /\ IsFiniteSet(Node) /\ NULL \notin Node
  /\ KeyOf \in [Node -> Nat]
  /\ HashOf \in [{KeyOf[x] : x \in Node} -> Nat]
  /\ FirstPlane \in Nat /\ FirstPlane >= 4

VARIABLES planes,   \* planes[0 .. n_planes-1], each slot its chain of nodes
          n,        \* the node count the code keeps
          pc,       \* "idle", or "fini" within htable_fini
          ret       \* what the last call returned

vars == <<planes, n, pc, ret>>

\* planes are counted from 1 here, from 0 in the code.
PlaneSize(i) == Doubled(FirstPlane)[i - 1]
Slots(i) == 0 .. PlaneSize(i) - 1
SlotCount == Doubled(FirstPlane)[Len(planes)] - FirstPlane
TooFull == n >= SlotCount

Hash(x) == HashOf[KeyOf[x]]
SlotOf(x, i) == Hash(x) % PlaneSize(i)

\* A sequence of planes of the right sizes.
IsTable(ps) ==
  /\ ps \in Seq({ps[i] : i \in 1 .. Len(ps)})
  /\ \A i \in 1 .. Len(ps) : ps[i] \in [Slots(i) -> Seq(Node)]

TypeOK ==
  /\ IsTable(planes)
  /\ n \in Nat
  /\ pc \in {"idle", "fini"}
  /\ ret \in Node \cup {NULL, 0, -1}

Init == planes = <<>> /\ n = 0 /\ pc = "idle" /\ ret = NULL

-----------------------------------------------------------------------------
\* The chains where a node with the hash of x may be: planes and places in them.
ChainPlaces(x) ==
  UNION {{i} \X (1 .. Len(planes[i][SlotOf(x, i)])) : i \in 1 .. Len(planes)}
NodeAt(x, h) == planes[h[1]][SlotOf(x, h[1])][h[2]]

\* Faulty variant: only the last plane is searched.
Hits_LastPlane(x) ==
  {h \in ChainPlaces(x) : h[1] = Len(planes) /\ KeyOf[NodeAt(x, h)] = KeyOf[x]}

\* Where a chain has a node equal to x.
Hits(x) == {h \in ChainPlaces(x) : KeyOf[NodeAt(x, h)] = KeyOf[x]}

\* htable_lookup_internal: the last plane first, each chain from its head.
FirstHit(x) ==
  CHOOSE h \in Hits(x) : \A g \in Hits(x) : g[1] < h[1] \/ (g[1] = h[1] /\ h[2] <= g[2])
Lookup(x) == IF Hits(x) = {} THEN NULL ELSE NodeAt(x, FirstHit(x))

WithoutPlace(s, j) == SubSeq(s, 1, j - 1) \o SubSeq(s, j + 1, Len(s))

EmptyPlane(i) == [s \in Slots(i) |-> <<>>]

\* The new node becomes the head of its chain in the last plane of ps.
Pushed(ps, x) ==
  LET i == Len(ps)
  IN  [ps EXCEPT ![i][SlotOf(x, i)] = <<x>> \o @]

NodesIn(ps) ==
  {x \in Node : \E i \in 1 .. Len(ps) : \E s \in Slots(i) :
                  \E j \in 1 .. Len(ps[i][s]) : ps[i][s][j] = x}
Linked == NodesIn(planes)

\* htable_grow: a full table gets one more plane.  When the array of planes
\* cannot be enlarged the node goes into the planes there are, if any; when
\* the plane itself cannot be had, the insertion fails.
Grown == Append(planes, EmptyPlane(Len(planes) + 1))

Link(x) ==
  /\ \/ ~TooFull /\ planes' = Pushed(planes, x)
     \/ TooFull /\ planes' = Pushed(Grown, x)
     \/ TooFull /\ Len(planes) > 0 /\ planes' = Pushed(planes, x)
  /\ n' = n + 1
  /\ ret' = 0
  /\ UNCHANGED pc

GrowFails ==
  /\ TooFull
  /\ ret' = -1
  /\ UNCHANGED <<planes, n, pc>>

htable_insert(x) ==
  /\ pc = "idle"
  /\ \/ Hits(x) # {} /\ ret' = -1 /\ UNCHANGED <<planes, n, pc>>
     \/ Hits(x) = {} /\ (Link(x) \/ GrowFails)

htable_insert_unsafe(x) ==
  /\ pc = "idle"
  /\ Link(x) \/ GrowFails

-----------------------------------------------------------------------------
\* Faulty variants: neighbouring slots are merged; the previous chain is lost.
Merged_Neighbours(ps) ==
  LET k == Len(ps) - 1
  IN  [SubSeq(ps, 1, k) EXCEPT ![k] = [s \in Slots(k) |->
        ps[k + 1][2 * s + 1] \o ps[k + 1][2 * s] \o ps[k][s]]]
Merged_Overwrites(ps) ==
  LET k == Len(ps) - 1
  IN  [SubSeq(ps, 1, k) EXCEPT ![k] = [s \in Slots(k) |->
        IF ps[k + 1][s + PlaneSize(k)] \o ps[k + 1][s] = <<>> THEN ps[k][s]
        ELSE ps[k + 1][s + PlaneSize(k)] \o ps[k + 1][s]]]

\* htable_shrink: slot s + size, then slot s of the last plane go before what
\* slot s of the plane before it holds.
Merged(ps) ==
  LET k == Len(ps) - 1
  IN  [SubSeq(ps, 1, k) EXCEPT ![k] = [s \in Slots(k) |->
        ps[k + 1][s + PlaneSize(k)] \o ps[k + 1][s] \o ps[k][s]]]

Shrunk(ps, count) ==
  IF count = 0 THEN <<>> ELSE IF Len(ps) <= 1 THEN ps ELSE Merged(ps)

TooEmpty(count) == count < SlotCount \div 4

htable_remove(x) ==
  /\ pc = "idle"
  /\ IF Hits(x) = {} THEN ret' = NULL /\ UNCHANGED <<planes, n>>
     ELSE LET h == FirstHit(x)
              rest == [planes EXCEPT
                ![h[1]][SlotOf(x, h[1])] = WithoutPlace(@, h[2])]
          IN  /\ ret' = NodeAt(x, h)
              /\ n' = n - 1
              /\ planes' = IF TooEmpty(n - 1) THEN Shrunk(rest, n - 1) ELSE rest
  /\ UNCHANGED <<pc>>

htable_lookup(x) ==
  /\ pc = "idle"
  /\ ret' = Lookup(x)
  /\ UNCHANGED <<planes, n, pc>>

-----------------------------------------------------------------------------
(* htable_fini: with a dtor_func it empties slot after slot and calls it    *)
(* for each node; without one, the nodes are simply forgotten.             *)

CallFini ==
  /\ pc = "idle"
  /\ pc' = "fini"
  /\ UNCHANGED <<planes, n, ret>>

NonEmpty == {e \in UNION {{i} \X Slots(i) : i \in 1 .. Len(planes)} :
               planes[e[1]][e[2]] # <<>>}
FirstNonEmpty ==
  CHOOSE e \in NonEmpty : \A f \in NonEmpty : e[1] < f[1] \/ (e[1] = f[1] /\ e[2] <= f[2])

FiniDestroy ==
  /\ pc = "fini"
  /\ n > 0 /\ NonEmpty # {}
  /\ LET e == FirstNonEmpty
     IN  /\ ret' = Head(planes[e[1]][e[2]])
         /\ planes' = [planes EXCEPT ![e[1]][e[2]] = Tail(@)]
  /\ UNCHANGED <<n, pc>>

\* Faulty variant: the count survives.
FiniReturn_KeepsCount ==
  /\ pc = "fini"
  /\ n = 0 \/ NonEmpty = {}
  /\ planes' = <<>>
  /\ pc' = "idle"
  /\ UNCHANGED <<n, ret>>

FiniReturn ==
  /\ pc = "fini"
  /\ n = 0 \/ NonEmpty = {}
  /\ planes' = <<>>
  /\ n' = 0
  /\ pc' = "idle"
  /\ UNCHANGED ret

FiniWithoutDtor ==
  /\ pc = "idle"
  /\ planes' = <<>>
  /\ n' = 0
  /\ UNCHANGED <<pc, ret>>

-----------------------------------------------------------------------------
Next ==
  \/ \E x \in Node \ Linked : htable_insert(x) \/ htable_insert_unsafe(x)
  \/ \E x \in Node : htable_remove(x) \/ htable_lookup(x)
  \/ CallFini \/ FiniDestroy \/ FiniReturn \/ FiniWithoutDtor

Spec == Init /\ [][Next]_vars /\ WF_vars(FiniDestroy \/ FiniReturn)

-----------------------------------------------------------------------------
(* Properties.                                                             *)

\* Each node is in the slot its hash selects in its plane, also after planes
\* of different sizes were merged: htable_lookup looks nowhere else.
Placed(ps) ==
  \A i \in 1 .. Len(ps) : \A s \in Slots(i) :
    \A j \in 1 .. Len(ps[i][s]) : SlotOf(ps[i][s][j], i) = s
PlacedByHash == TypeOK /\ Placed(planes)

\* No node is linked in two places.
OncePlaced(ps) ==
  \A i, k \in 1 .. Len(ps) : \A s \in Slots(i), t \in Slots(k) :
    \A j \in 1 .. Len(ps[i][s]), l \in 1 .. Len(ps[k][t]) :
      ps[i][s][j] = ps[k][t][l] => i = k /\ s = t /\ j = l

\* n is the number of nodes linked, and none is linked twice. The planes are
\* worth their memory: a table of more than one plane has a node for every four
\* slots, an empty one keeps no plane at all.
CountIsRight ==
  pc = "idle" => /\ n = Cardinality(Linked) /\ OncePlaced(planes)
                 /\ Len(planes) > 1 => n >= SlotCount \div 4
                 /\ n = 0 => planes = <<>>

\* The header's promise: the table is a set of nodes found by their keys, a
\* failed call changes nothing, and htable_fini destroys each node once; and
\* each function does what its name promises with the node or key it is given.
Set == INSTANCE KeyedSet WITH members <- Linked, closing <- (pc = "fini")
ImplementsKeyedSet ==
  /\ Set!Spec
  /\ [][\A x \in Node :
          /\ x \notin Linked /\ htable_insert(x) => Set!Insert(x)
          /\ x \notin Linked /\ htable_insert_unsafe(x) => Set!InsertUnsafe(x)
          /\ htable_remove(x) => Set!Remove(x)
          /\ htable_lookup(x) => Set!Lookup(x)]_vars

\* htable_fini comes to an end and leaves an empty table.
FiniEmpties == pc = "fini" ~> pc = "idle" /\ planes = <<>> /\ n = 0

=============================================================================
