------------------------------ MODULE MCRBTree ------------------------------
(***************************************************************************)
(* A small forest for TLC: Keys distinct keys, and one node more whose key *)
(* equals that of another, so that insertion can meet an equal node.       *)
(***************************************************************************)
EXTENDS RBTree

CONSTANT Keys    \* number of distinct keys

MCNode == 1 .. Keys + 1
MCKeyOf == [n \in MCNode |-> IF n > Keys THEN Keys ELSE n]

(***************************************************************************)
(* The complete tree of seven black nodes.  Inserting ten nodes and        *)
(* removing three can leave it, seven nodes alone cannot; it is the        *)
(* smallest tree from which rbtree_remove_fixup sends a deficit up through *)
(* more than one level.                                                    *)
(***************************************************************************)
Complete ==
  [root |-> 4,
   left |-> [n \in MCNode |-> CASE n = 2 -> 1 [] n = 4 -> 2 [] n = 6 -> 5
                                [] OTHER -> NULL],
   right |-> [n \in MCNode |-> CASE n = 2 -> 3 [] n = 4 -> 6 [] n = 6 -> 7
                                 [] OTHER -> NULL],
   red |-> {}]

MCInit ==
  \/ Init
  \/ /\ tree = Complete
     /\ closing = FALSE /\ pc = "idle" /\ op = "none" /\ key = NULL
     /\ node = NULL /\ path = <<>> /\ at = 0 /\ ret = NULL

MCSpec == MCInit /\ [][Next]_vars /\ WF_vars(Proceed)

=============================================================================
