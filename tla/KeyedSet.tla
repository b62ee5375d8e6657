------------------------------ MODULE KeyedSet ------------------------------
(***************************************************************************)
(* What data/htable.h promises: a set of nodes found by their keys.  Only  *)
(* htable_insert_unsafe can put two nodes of one key in it; which of them  *)
(* is then found is not said.  A failed call leaves the set as it was.     *)
(***************************************************************************)
EXTENDS Integers

CONSTANTS Node, NULL, KeyOf

VARIABLES members,   \* the nodes in the table
          closing,   \* htable_fini is destroying them
          ret        \* what the last call returned, or the node dtor_func got

vars == <<members, closing, ret>>

Equal(k) == {m \in members : KeyOf[m] = KeyOf[k]}

Init == members = {} /\ closing = FALSE /\ ret = NULL

Add(x) == ret' = 0 /\ members' = members \cup {x}
Fail == ret' = -1 /\ UNCHANGED members

\* Memory can run out in any insertion; an equal key refuses a checked one.
Insert(x) ==
  /\ ~closing /\ x \notin members
  /\ Fail \/ (Equal(x) = {} /\ Add(x))
  /\ UNCHANGED closing

InsertUnsafe(x) ==
  /\ ~closing /\ x \notin members
  /\ Fail \/ Add(x)
  /\ UNCHANGED closing

Remove(k) ==
  /\ ~closing
  /\ IF Equal(k) = {} THEN ret' = NULL /\ UNCHANGED members
     ELSE \E m \in Equal(k) : ret' = m /\ members' = members \ {m}
  /\ UNCHANGED closing

Lookup(k) ==
  /\ ~closing
  /\ IF Equal(k) = {} THEN ret' = NULL ELSE ret' \in Equal(k)
  /\ UNCHANGED <<members, closing>>

\* htable_fini gives every node to dtor_func once; without a dtor_func it
\* forgets them.
StartFini == ~closing /\ closing' = TRUE /\ UNCHANGED <<members, ret>>
Destroy == \E m \in members : ret' = m /\ members' = members \ {m}
FiniStep ==
  /\ closing
  /\ \/ Destroy /\ UNCHANGED closing
     \/ members = {} /\ closing' = FALSE /\ UNCHANGED <<members, ret>>
Drop == ~closing /\ members' = {} /\ UNCHANGED <<closing, ret>>

Next ==
  \/ \E x \in Node : Insert(x) \/ InsertUnsafe(x) \/ Remove(x) \/ Lookup(x)
  \/ StartFini \/ FiniStep \/ Drop

Spec == Init /\ [][Next]_vars

=============================================================================
