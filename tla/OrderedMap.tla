----------------------------- MODULE OrderedMap -----------------------------
(***************************************************************************)
(* What data/value.h promises of a dictionary: a set of keys in the order  *)
(* of its comparer, remembered in the order they were added if asked for,  *)
(* and walks in either order.  An entry is known by its key; its value is  *)
(* new until the caller initialises it.                                    *)
(***************************************************************************)
EXTENDS Integers, SequencesExt

CONSTANTS Key, NULL, Rank

VARIABLES exists,    \* the VALUE is a dictionary
          flags,     \* what it was created with
          members,   \* the keys in it
          added,     \* the same in the order they were added, if maintained
          unset,     \* those whose value is new
          rest,      \* the entries the walk in progress has yet to visit
          walking,
          seen,      \* the entry visit_func is looking at
          ret

vars == <<exists, flags, members, added, unset, rest, walking, seen, ret>>

Place(k) == IF "CUSTOMCMP" \in flags THEN Rank[k] ELSE k
Equal(k) == {m \in members : Place(m) = Place(k)}
Entry(k) == IF Equal(k) = {} THEN NULL ELSE CHOOSE m \in Equal(k) : TRUE
Sorted == SetToSortSeq(members, LAMBDA a, b : Place(a) < Place(b))

Init ==
  /\ exists = FALSE /\ flags = {} /\ members = {} /\ added = <<>> /\ unset = {}
  /\ rest = <<>> /\ walking = FALSE /\ seen = NULL /\ ret = NULL

Answer(r) == ~walking /\ ret' = r /\ UNCHANGED <<rest, walking, seen>>
Same == UNCHANGED <<exists, flags, members, added, unset>>

Create(f) ==
  /\ ~exists
  /\ \/ Answer(-1) /\ Same
     \/ Answer(0) /\ exists' = TRUE /\ flags' = f /\ UNCHANGED <<members, added, unset>>

Get(k) == Answer(Entry(k)) /\ Same

Insert(k) ==
  /\ exists /\ Equal(k) = {}
  /\ Answer(k)
  /\ members' = members \cup {k}
  /\ added' = IF "ORDERLIST" \in flags THEN Append(added, k) ELSE added
  /\ unset' = unset \cup {k}
  /\ UNCHANGED <<exists, flags>>

\* Without memory, or without a dictionary, both give NULL and change nothing.
OutOfMemory(k) == Equal(k) = {} /\ Answer(NULL) /\ Same
GetOrAdd(k) == Insert(k) \/ OutOfMemory(k) \/ (Equal(k) # {} /\ Get(k))
\* "Returns NULL if the key is already used", which goes for an initialised value.
Used(k) == Answer(IF Equal(k) \subseteq unset THEN Entry(k) ELSE NULL) /\ Same
Add(k) == Insert(k) \/ OutOfMemory(k) \/ (Equal(k) # {} /\ Used(k))

Initialise(k) ==
  /\ k \in unset /\ unset' = unset \ {k}
  /\ UNCHANGED <<exists, flags, members, added, rest, walking, seen, ret>>

Delete(k) ==
  IF Equal(k) = {} THEN Answer(-1) /\ Same
  ELSE /\ Answer(0)
       /\ members' = members \ Equal(k)
       /\ added' = Remove(added, Entry(k))
       /\ unset' = unset \ Equal(k)
       /\ UNCHANGED <<exists, flags>>

Walk(s) ==
  /\ ~walking
  /\ walking' = TRUE /\ rest' = s
  /\ UNCHANGED <<seen, ret>> /\ Same
WalkSorted == exists /\ Walk(Sorted)
WalkOrdered == exists /\ "ORDERLIST" \in flags /\ Walk(added)
NoWalk == ~exists \/ "ORDERLIST" \notin flags

Visit ==
  /\ walking /\ seen = NULL /\ rest # <<>>
  /\ seen' = Head(rest) /\ rest' = Tail(rest)
  /\ UNCHANGED <<walking, ret>> /\ Same
GoOn ==
  /\ seen # NULL /\ seen' = NULL
  /\ UNCHANGED <<walking, rest, ret>> /\ Same
\* visit_func says stop, or there is nothing left.
WalkReturns ==
  /\ walking /\ walking' = FALSE
  /\ ret' = IF seen # NULL THEN 1 ELSE 0
  /\ seen = NULL => rest = <<>>
  /\ seen' = NULL /\ rest' = <<>>
  /\ Same

Clean ==
  /\ exists /\ ~walking
  /\ members' = {} /\ added' = <<>> /\ unset' = {}
  /\ UNCHANGED <<exists, flags, rest, walking, seen, ret>>
Destroy ==
  /\ exists /\ ~walking
  /\ exists' = FALSE /\ flags' = {} /\ members' = {} /\ added' = <<>> /\ unset' = {}
  /\ UNCHANGED <<rest, walking, seen, ret>>

Next ==
  \/ \E f \in SUBSET {"ORDERLIST", "CUSTOMCMP"} : Create(f)
  \/ \E k \in Key : Get(k) \/ GetOrAdd(k) \/ Add(k) \/ Delete(k) \/ Initialise(k)
  \/ WalkSorted \/ WalkOrdered \/ (NoWalk /\ Answer(-1) /\ Same)
  \/ Visit \/ GoOn \/ WalkReturns \/ Clean \/ Destroy

Spec == Init /\ [][Next]_vars

=============================================================================
