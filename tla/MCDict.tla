------------------------------- MODULE MCDict -------------------------------
(***************************************************************************)
(* A small dictionary for TLC.  The custom comparer runs backwards and     *)
(* finds keys equal in pairs.  The order list multiplies the states, so    *)
(* MaxOrdered bounds its length: 4 nodes have a successor that is not the  *)
(* right child.  MaxLate keeps values that stay new to small dictionaries. *)
(***************************************************************************)
EXTENDS Dict

CONSTANTS Keys,         \* number of keys
          MaxOrdered    \* the most keys in a dictionary with an order list

MCKey == 1 .. Keys
MCRank == [k \in MCKey |-> -((k + 1) \div 2)]

ListBounded == "ORDERLIST" \in flags => d.size <= MaxOrdered

=============================================================================
