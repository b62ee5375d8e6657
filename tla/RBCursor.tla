------------------------------ MODULE RBCursor ------------------------------
(***************************************************************************)
(* RBTREE_CURSOR of data/rbtree.[hc], on the tree of RBTree: the path from *)
(* the root to the current node, kept by the caller between calls.         *)
(*                                                                         *)
(* One caller: a cursor call and a tree call never overlap.  Adding or     *)
(* removing a node invalidates the cursor (rbtree.h); the caller then sets *)
(* it to nowhere before it uses it again.                                  *)
(***************************************************************************)
EXTENDS RBTree

VARIABLES cur,     \* stack[0 .. n-1] of the cursor
          cpc,     \* the loop the cursor call is in, or "idle"
          cnode,   \* the node the descending loops are at
          cn,      \* the temporary copy of n in rbtree_next and rbtree_prev
          cop,     \* the cursor function called
          ckey,    \* the key of rbtree_lookup_ex
          was      \* where the cursor was when the call began (auxiliary)

cursorLocals == <<cpc, cnode, cn, cop, ckey, was>>
cursorVars == <<cur, cursorLocals>>
allVars == <<vars, cursorVars>>

CursorTypeOK ==
  /\ cur \in Seq(Node) /\ Len(cur) <= Capacity
  /\ cpc \in {"idle", "leftmost", "rightmost", "climb_next", "climb_prev", "lookup_ex"}
  /\ cnode \in Ptr
  /\ cn \in Nat
  /\ cop \in {"none", "lookup_ex", "head", "tail", "next", "prev"}
  /\ ckey \in Ptr
  /\ was \in Ptr

\* rbtree_current.
Current == FromEnd(cur, 1)

CursorInit ==
  /\ cur = <<>> /\ cpc = "idle" /\ cnode = NULL /\ cn = 0
  /\ cop = "none" /\ ckey = NULL /\ was = NULL

CursorReturn(r) ==
  /\ ret' = r
  /\ cpc' = "idle" /\ cnode' = NULL /\ cn' = 0
  /\ cop' = "none" /\ ckey' = NULL /\ was' = NULL
  /\ UNCHANGED <<tree, closing, pc, op, key, node, path, at>>

\* A cursor function f is called and enters a loop.
Enter(f, loop, stack, start, n, k) ==
  /\ cpc' = loop
  /\ cur' = stack
  /\ cnode' = start
  /\ cn' = n
  /\ cop' = f
  /\ ckey' = k
  /\ was' = Current
  /\ UNCHANGED vars

MayCall == pc = "idle" /\ cpc = "idle" /\ ~closing

CallHead == MayCall /\ Enter("head", "leftmost", <<>>, tree.root, 0, NULL)
CallTail == MayCall /\ Enter("tail", "rightmost", <<>>, tree.root, 0, NULL)
CallLookupEx ==
  MayCall /\ \E k \in Node : Enter("lookup_ex", "lookup_ex", <<>>, tree.root, 0, k)

\* Faulty variant: the child is pushed before the loop that pushes it.
CallNeighbour_PushesTwice(f, child, down, climb) ==
  /\ MayCall
  /\ IF cur # <<>> /\ child[Current] # NULL
     THEN Enter(f, down, Append(cur, child[Current]), child[Current], 0, NULL)
     ELSE Enter(f, climb, cur, NULL, Len(cur), NULL)

\* rbtree_next and rbtree_prev differ in the side they look at.  A cursor that
\* is nowhere has n = 0 and no way to climb.
CallNeighbour(f, child, down, climb) ==
  /\ MayCall
  /\ IF cur # <<>> /\ child[Current] # NULL
     THEN Enter(f, down, cur, child[Current], 0, NULL)
     ELSE Enter(f, climb, cur, NULL, Len(cur), NULL)

CallNext == CallNeighbour("next", tree.right, "leftmost", "climb_next")
CallPrev == CallNeighbour("prev", tree.left, "rightmost", "climb_prev")

\* rbtree_leftmost_path and rbtree_rightmost_path.
DescendStep ==
  /\ cpc \in {"leftmost", "rightmost"}
  /\ cnode # NULL
  /\ cur' = Append(cur, cnode)
  /\ cnode' = IF cpc = "leftmost" THEN tree.left[cnode] ELSE tree.right[cnode]
  /\ UNCHANGED <<vars, cpc, cn, cop, ckey, was>>

DescendReturn ==
  /\ cpc \in {"leftmost", "rightmost"}
  /\ cnode = NULL
  /\ CursorReturn(Current)
  /\ UNCHANGED cur

LookupExStep ==
  /\ cpc = "lookup_ex"
  /\ cnode # NULL
  /\ KeyOf[ckey] # KeyOf[cnode]
  /\ cur' = Append(cur, cnode)
  /\ cnode' = IF KeyOf[ckey] < KeyOf[cnode] THEN tree.left[cnode] ELSE tree.right[cnode]
  /\ UNCHANGED <<vars, cpc, cn, cop, ckey, was>>

\* Without an equal node the cursor points nowhere.
LookupExReturn ==
  /\ cpc = "lookup_ex"
  /\ cnode # NULL => KeyOf[ckey] = KeyOf[cnode]
  /\ cur' = IF cnode = NULL THEN <<>> ELSE Append(cur, cnode)
  /\ CursorReturn(cnode)

\* Up while we come from the side we want to go to; only n moves, not cur.
FromSide == IF cpc = "climb_next" THEN tree.right ELSE tree.left
ClimbsOn == cn > 1 /\ cur[cn] = FromSide[cur[cn - 1]]

ClimbStep ==
  /\ cpc \in {"climb_next", "climb_prev"}
  /\ ClimbsOn
  /\ cn' = cn - 1
  /\ UNCHANGED <<vars, cur, cpc, cnode, cop, ckey, was>>

\* Faulty variant: the climb ends one level too early.
ClimbReturn_OffByOne ==
  /\ cpc \in {"climb_next", "climb_prev"}
  /\ ~ClimbsOn
  /\ IF cn < 1 THEN CursorReturn(NULL) /\ UNCHANGED cur
     ELSE CursorReturn(cur[cn]) /\ cur' = SubSeq(cur, 1, cn)

ClimbReturn ==
  /\ cpc \in {"climb_next", "climb_prev"}
  /\ ~ClimbsOn
  /\ IF cn - 1 < 1 THEN CursorReturn(NULL) /\ UNCHANGED cur
     ELSE CursorReturn(cur[cn - 1]) /\ cur' = SubSeq(cur, 1, cn - 1)

CursorNext ==
  \/ CallHead \/ CallTail \/ CallLookupEx \/ CallNext \/ CallPrev
  \/ DescendStep \/ DescendReturn \/ LookupExStep \/ LookupExReturn
  \/ ClimbStep \/ ClimbReturn

\* A step of the tree; one that links or unlinks a node costs the cursor.
TreeNext ==
  /\ cpc = "idle"
  /\ Next
  /\ cur' = IF Linked(tree)' = Linked(tree) THEN cur ELSE <<>>
  /\ UNCHANGED cursorLocals

CInit == Init /\ CursorInit

CSpec == CInit /\ [][TreeNext \/ CursorNext]_allVars

-----------------------------------------------------------------------------
\* Between calls the cursor is nowhere or a way down from the root to its node.
CursorIsPath ==
  /\ CursorTypeOK
  /\ pc = "idle" /\ cpc = "idle" /\ cur # <<>> =>
       /\ cur[1] = tree.root
       /\ \A i \in 1 .. Len(cur) - 1 : cur[i + 1] \in {tree.left[cur[i]], tree.right[cur[i]]}

\* What OrderedSet sees: the nodes that can be reached from the root, the node of
\* the cursor, and the call that has been made and had no effect yet.
Members == LET s == InOrder(tree) IN {s[i] : i \in DOMAIN s}
Position == IF cpc = "idle" THEN Current ELSE was
Asked == IF cpc # "idle" THEN <<cop, ckey>>
         ELSE IF pc \in {"lookup", "leftmost", "disconnect", "fini"} THEN <<op, key>>
         ELSE <<"none", NULL>>

\* The header's promise: the tree with its cursor is an ordered set with a
\* position, and each call does to it what its function is for.
Set == INSTANCE OrderedSet WITH members <- Members, pos <- Position, asked <- Asked

ImplementsOrderedSet == Set!Spec

=============================================================================
