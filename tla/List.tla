-------------------------------- MODULE List --------------------------------
(***************************************************************************)
(* The intrusive lists of data/list.h: LIST (doubly linked), SLIST (singly *)
(* linked) and QLIST (singly linked, with a pointer to the tail).  All     *)
(* three are rings through a sentinel, the "main" node in the list handle. *)
(* kind says which of them this behaviour uses; a node is free or in one   *)
(* list.                                                                   *)
(*                                                                         *)
(* content is what the callers mean each list to hold, kept step by step   *)
(* beside the pointers and never read by the code.                         *)
(***************************************************************************)
EXTENDS Integers, SequencesExt

CONSTANTS Node,     \* the callers' list nodes
          Handle,   \* the lists, each known by its sentinel
          NULL      \* what the pointers of a node in no list are taken for

ASSUME ListAssumption ==
  /\ Node \cap Handle = {}
  /\ NULL \notin Node \cup Handle

Cell == Node \cup Handle

VARIABLES kind,      \* "LIST", "SLIST" or "QLIST"
          n,         \* next
          p,         \* previous, LIST only
          tail,      \* QLIST only
          content    \* the nodes in each list, in order

vars == <<kind, n, p, tail, content>>

TypeOK ==
  /\ kind \in {"LIST", "SLIST", "QLIST"}
  /\ n \in [Cell -> Cell \cup {NULL}]
  /\ p \in [Cell -> Cell \cup {NULL}]
  /\ tail \in [Handle -> Cell]
  /\ content \in [Handle -> Seq(Node)]

\* list_init, slist_init and qlist_init of every handle.
Init ==
  /\ kind \in {"LIST", "SLIST", "QLIST"}
  /\ n = [c \in Cell |-> IF c \in Handle THEN c ELSE NULL]
  /\ p = [c \in Cell |-> IF c \in Handle /\ kind = "LIST" THEN c ELSE NULL]
  /\ tail = [l \in Handle |-> l]
  /\ content = [l \in Handle |-> <<>>]

-----------------------------------------------------------------------------
\* The cell at place i of list l: place 0 and the place after the last node
\* are the sentinel.
CellAt(l, i) == IF i \in 1 .. Len(content[l]) THEN content[l][i] ELSE l

Used == UNION {{content[l][i] : i \in 1 .. Len(content[l])} : l \in Handle}

\* x comes to stand at place i of l; the node at place i leaves it.
Inserted(l, i, x) == content' = [content EXCEPT ![l] = InsertAt(@, i, x)]
Removed(l, i) == content' = [content EXCEPT ![l] = RemoveAt(@, i)]

\* The pointers of a node that left its list are the caller's memory.
Forgotten(f, c) == IF c \in Node THEN [f EXCEPT ![c] = NULL] ELSE f

-----------------------------------------------------------------------------
(* LIST.                                                                   *)

\* Faulty variant: the next node keeps its old previous node.
LinkAfter_NoBack(where, x) ==
  /\ n' = [n EXCEPT ![x] = n[where], ![where] = x]
  /\ p' = [p EXCEPT ![x] = where]

\* node->p = where; node->n = where->n; where->n = node; node->n->p = node.
LinkAfter(where, x) ==
  LET n1 == [n EXCEPT ![x] = n[where], ![where] = x]
  IN  /\ n' = n1
      /\ p' = [p EXCEPT ![x] = where, ![n1[x]] = x]

\* Faulty variant: where->p is overwritten before it is copied to node->p.
LinkBefore_Swapped(where, x) ==
  /\ p' = [p EXCEPT ![where] = x, ![x] = x]
  /\ n' = [n EXCEPT ![x] = x]

\* node->p = where->p; node->n = where; where->p = node; node->p->n = node.
LinkBefore(where, x) ==
  LET p1 == [p EXCEPT ![x] = p[where], ![where] = x]
  IN  /\ p' = p1
      /\ n' = [n EXCEPT ![x] = where, ![p1[x]] = x]

\* node->p->n = node->n; node->n->p = node->p.
Unlink(c) ==
  LET n1 == [n EXCEPT ![p[c]] = n[c]]
  IN  /\ n' = Forgotten(n1, c)
      /\ p' = Forgotten([p EXCEPT ![n1[c]] = p[c]], c)

list_insert_after(l, i, x) ==
  /\ kind = "LIST"
  /\ LinkAfter(CellAt(l, i), x)
  /\ Inserted(l, i + 1, x)
  /\ UNCHANGED <<kind, tail>>

\* The cell at place i + 1 is the one inserted before.
list_insert_before(l, i, x) ==
  /\ kind = "LIST"
  /\ LinkBefore(CellAt(l, i + 1), x)
  /\ Inserted(l, i + 1, x)
  /\ UNCHANGED <<kind, tail>>

list_append(l, x) ==
  /\ kind = "LIST"
  /\ LinkBefore(l, x)
  /\ Inserted(l, Len(content[l]) + 1, x)
  /\ UNCHANGED <<kind, tail>>

list_prepend(l, x) ==
  /\ kind = "LIST"
  /\ LinkAfter(l, x)
  /\ Inserted(l, 1, x)
  /\ UNCHANGED <<kind, tail>>

list_remove(l, i) ==
  /\ kind = "LIST"
  /\ i \in 1 .. Len(content[l])
  /\ Unlink(content[l][i])
  /\ Removed(l, i)
  /\ UNCHANGED <<kind, tail>>

\* On an empty list the next two unlink the sentinel from itself.
list_remove_head(l) ==
  /\ kind = "LIST"
  /\ Unlink(n[l])
  /\ Removed(l, 1)
  /\ UNCHANGED <<kind, tail>>

list_remove_tail(l) ==
  /\ kind = "LIST"
  /\ Unlink(p[l])
  /\ Removed(l, Len(content[l]))
  /\ UNCHANGED <<kind, tail>>

-----------------------------------------------------------------------------
(* SLIST, and QLIST, which follows the tail.                               *)

SLinkAfter(where, x) == n' = [n EXCEPT ![x] = n[where], ![where] = x]
SUnlink(prev, c) == n' = Forgotten([n EXCEPT ![prev] = n[c]], c)

slist_insert_after(l, i, x) ==
  /\ kind = "SLIST"
  /\ SLinkAfter(CellAt(l, i), x)
  /\ Inserted(l, i + 1, x)
  /\ UNCHANGED <<kind, p, tail>>

slist_prepend(l, x) ==
  /\ kind = "SLIST"
  /\ SLinkAfter(l, x)
  /\ Inserted(l, 1, x)
  /\ UNCHANGED <<kind, p, tail>>

\* The caller names the previous node as well.
slist_remove(l, i) ==
  /\ kind = "SLIST"
  /\ i \in 1 .. Len(content[l])
  /\ SUnlink(CellAt(l, i - 1), content[l][i])
  /\ Removed(l, i)
  /\ UNCHANGED <<kind, p, tail>>

slist_remove_head(l) ==
  /\ kind = "SLIST"
  /\ SUnlink(l, n[l])
  /\ Removed(l, 1)
  /\ UNCHANGED <<kind, p, tail>>

QLinkAfter(l, where, x) ==
  /\ SLinkAfter(where, x)
  /\ tail' = IF tail[l] = where THEN [tail EXCEPT ![l] = x] ELSE tail
\* Faulty variant: the tail is forgotten.
QUnlink_KeepsTail(l, prev, c) == SUnlink(prev, c) /\ l \in Handle /\ UNCHANGED tail
QUnlink(l, prev, c) ==
  /\ SUnlink(prev, c)
  /\ tail' = IF tail[l] = c THEN [tail EXCEPT ![l] = prev] ELSE tail

qlist_insert_after(l, i, x) ==
  /\ kind = "QLIST"
  /\ QLinkAfter(l, CellAt(l, i), x)
  /\ Inserted(l, i + 1, x)
  /\ UNCHANGED <<kind, p>>

qlist_append(l, x) ==
  /\ kind = "QLIST"
  /\ n' = [n EXCEPT ![x] = l, ![tail[l]] = x]
  /\ tail' = [tail EXCEPT ![l] = x]
  /\ Inserted(l, Len(content[l]) + 1, x)
  /\ UNCHANGED <<kind, p>>

qlist_prepend(l, x) ==
  /\ kind = "QLIST"
  /\ QLinkAfter(l, l, x)
  /\ Inserted(l, 1, x)
  /\ UNCHANGED <<kind, p>>

qlist_remove(l, i) ==
  /\ kind = "QLIST"
  /\ i \in 1 .. Len(content[l])
  /\ QUnlink(l, CellAt(l, i - 1), content[l][i])
  /\ Removed(l, i)
  /\ UNCHANGED <<kind, p>>

qlist_remove_head(l) ==
  /\ kind = "QLIST"
  /\ QUnlink(l, l, n[l])
  /\ Removed(l, 1)
  /\ UNCHANGED <<kind, p>>

-----------------------------------------------------------------------------
\* A node is given to a list only when it is in none (list.h).
InsertStep(l, x) ==
  \/ \E i \in 0 .. Len(content[l]) : \/ list_insert_after(l, i, x)
                                     \/ list_insert_before(l, i, x)
                                     \/ slist_insert_after(l, i, x)
                                     \/ qlist_insert_after(l, i, x)
  \/ list_append(l, x) \/ list_prepend(l, x)
  \/ slist_prepend(l, x)
  \/ qlist_append(l, x) \/ qlist_prepend(l, x)

RemoveStep(l) ==
  \/ \E i \in 1 .. Len(content[l]) :
       list_remove(l, i) \/ slist_remove(l, i) \/ qlist_remove(l, i)
  \/ list_remove_head(l) \/ list_remove_tail(l)
  \/ slist_remove_head(l) \/ qlist_remove_head(l)

Next ==
  \E l \in Handle : \/ \E x \in Node \ Used : InsertStep(l, x)
                    \/ RemoveStep(l)

Spec == Init /\ [][Next]_vars

-----------------------------------------------------------------------------
(* Properties.                                                             *)

\* Walking with *_next from the sentinel meets the nodes in order and comes
\* back to the sentinel.
ForwardLinks ==
  \A l \in Handle : \A i \in 0 .. Len(content[l]) :
    n[CellAt(l, i)] = CellAt(l, i + 1)

\* list_prev walks the same ring the other way.
BackwardLinks ==
  kind = "LIST" =>
    \A l \in Handle : \A i \in 0 .. Len(content[l]) :
      p[CellAt(l, i + 1)] = CellAt(l, i)

\* qlist_tail is the last node, or the sentinel of an empty list: the next
\* qlist_append links behind it.
TailIsLast ==
  kind = "QLIST" => \A l \in Handle : tail[l] = CellAt(l, Len(content[l]))

=============================================================================
