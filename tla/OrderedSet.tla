----------------------------- MODULE OrderedSet -----------------------------
(***************************************************************************)
(* What data/rbtree.h promises of a tree and one cursor over it: a set of  *)
(* nodes, no two of them equal, in the order of their keys, and a position *)
(* in it.  A call is made in one step and has its effect in another; how   *)
(* the tree is laid out is not said.                                       *)
(***************************************************************************)
EXTENDS Integers, FiniteSets

CONSTANTS Node, NULL, KeyOf

VARIABLES members,   \* the nodes in the tree
          closing,   \* the clean-up with rbtree_fini_step is under way
          pos,       \* the node the cursor points to, or NULL
          ret,       \* what the last call returned
          asked      \* the call that was made and has had no effect yet

vars == <<members, closing, pos, ret, asked>>

\* A call is its function and its argument, if it has one.
Calls == ({"insert", "remove", "lookup", "lookup_ex"} \X Node) \cup
         ({"head", "tail", "next", "prev", "fini"} \X {NULL})
NoCall == <<"none", NULL>>

Equal(k) == {m \in members : KeyOf[m] = KeyOf[k]}

\* The least of a set of nodes, the greatest, or NULL when it is empty.
First(S) == IF S = {} THEN NULL ELSE CHOOSE m \in S : \A n \in S : KeyOf[m] <= KeyOf[n]
Last(S) == IF S = {} THEN NULL ELSE CHOOSE m \in S : \A n \in S : KeyOf[m] >= KeyOf[n]

Init == members = {} /\ closing = FALSE /\ pos = NULL /\ ret = NULL /\ asked = NoCall

\* A node in the tree is not inserted again.  Once the clean-up has begun it
\* is the only call, until it has returned NULL.
Ask(c) ==
  /\ asked = NoCall
  /\ c[1] = "insert" => c[2] \notin members
  /\ c[1] # "fini" => ~closing
  /\ asked' = c
  /\ closing' = (closing \/ c[1] = "fini")
  /\ UNCHANGED <<members, pos, ret>>

Answer(f, k) == asked = <<f, k>> /\ asked' = NoCall

\* An equal node already there: nothing changes but the result.
Insert(n) ==
  /\ Answer("insert", n)
  /\ IF Equal(n) # {}
     THEN ret' = -1 /\ UNCHANGED <<members, pos>>
     ELSE ret' = 0 /\ members' = members \cup {n} /\ pos' = NULL
  /\ UNCHANGED closing

Remove(k) ==
  /\ Answer("remove", k)
  /\ IF Equal(k) = {}
     THEN ret' = NULL /\ UNCHANGED <<members, pos>>
     ELSE ret' = First(Equal(k)) /\ members' = members \ Equal(k) /\ pos' = NULL
  /\ UNCHANGED closing

Lookup(k) ==
  /\ Answer("lookup", k)
  /\ ret' = First(Equal(k))
  /\ UNCHANGED <<members, closing, pos>>

\* Calls that move the cursor to p and return it.
MoveTo(p) ==
  /\ pos' = p
  /\ ret' = p
  /\ UNCHANGED <<members, closing>>

LookupEx(k) == Answer("lookup_ex", k) /\ MoveTo(First(Equal(k)))
Head == Answer("head", NULL) /\ MoveTo(First(members))
Tail == Answer("tail", NULL) /\ MoveTo(Last(members))

\* The neighbours; when there is none the cursor stays.
Step(neighbour) ==
  IF neighbour = NULL
  THEN ret' = NULL /\ UNCHANGED <<members, closing, pos>>
  ELSE MoveTo(neighbour)

Successors == IF pos = NULL THEN {} ELSE {m \in members : KeyOf[m] > KeyOf[pos]}
Predecessors == IF pos = NULL THEN {} ELSE {m \in members : KeyOf[m] < KeyOf[pos]}

GoNext == Answer("next", NULL) /\ Step(First(Successors))
GoPrev == Answer("prev", NULL) /\ Step(Last(Predecessors))

\* The clean-up hands out each node once, in no promised order, then NULL.
FiniStep ==
  /\ Answer("fini", NULL)
  /\ pos' = NULL
  /\ IF members = {}
     THEN ret' = NULL /\ closing' = FALSE /\ UNCHANGED members
     ELSE \E n \in members : ret' = n /\ members' = members \ {n} /\ UNCHANGED closing

Next ==
  \/ \E c \in Calls : Ask(c)
  \/ \E n \in Node : Insert(n) \/ Remove(n) \/ Lookup(n) \/ LookupEx(n)
  \/ Head \/ Tail \/ GoNext \/ GoPrev \/ FiniStep

Spec == Init /\ [][Next]_vars

=============================================================================
