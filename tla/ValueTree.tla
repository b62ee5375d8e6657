------------------------------ MODULE ValueTree ------------------------------
(***************************************************************************)
(* Nested values of data/value.c: arrays, dictionaries, and value_path_ex, *)
(* which finds a value by a path or builds the containers on the way.      *)
(*                                                                         *)
(* A VALUE is known by a cell; items of an array and entries of a          *)
(* dictionary are cells.  The inside of a dictionary is the subject of     *)
(* Dict; here it is a function.  Any malloc or realloc may fail.           *)
(***************************************************************************)
EXTENDS Integers, Sequences, FiniteSets, SequencesExt

CONSTANTS Cell,        \* the VALUEs there may be at once
          Root,
          Key,
          NULL,
          Paths        \* the paths that are asked for, as sequences of components

ASSUME TreeAssumption == Root \in Cell /\ NULL \notin Cell

VARIABLES store,   \* the values, those that exist, and what is malloc'ed
          pc,      \* "idle" or "walk"
          v,       \* in value_path_ex: the value reached
          rest,    \* the path from token_beg on
          call,    \* auxiliary: the call in progress and the store it began with
          ret

vars == <<store, pc, v, rest, call, ret>>

Types == {"NULL", "NEW", "PLAIN", "LONG", "ARRAY", "DICT"}
Empty(type) == [type |-> type, items |-> <<>>, alloc |-> 0, entries |-> [k \in Key |-> NULL]]
Blank == Empty("NULL")

Stores == [val : [Cell -> [type : Types, items : Seq(Cell), alloc : Nat,
                           entries : [Key -> Cell \cup {NULL}]]],
           live : SUBSET Cell,
           mem : SUBSET ({"payload", "buffer", "node"} \X Cell)]

NoCall == [path |-> <<>>, build |-> FALSE, nomem |-> FALSE, before |-> NULL]

TypeOK ==
  /\ store \in Stores
  /\ pc \in {"idle", "walk"} /\ v \in Cell \cup {NULL}
  /\ call.path \in Paths /\ IsSuffix(rest, call.path)
  /\ ret \in Cell \cup {NULL, 0, -1}

Init ==
  /\ store = [val |-> [c \in Cell |-> Blank], live |-> {Root}, mem |-> {}]
  /\ pc = "idle" /\ v = NULL /\ rest = <<>> /\ call = NoCall /\ ret = NULL

-----------------------------------------------------------------------------
(* Functions of a store and a cell c that give the set of their results: a *)
(* store, what is returned, and whether an allocation has failed.          *)

Result(st, r) == [store |-> st, ret |-> r, nomem |-> FALSE]
NoMemory(st, r) == [store |-> st, ret |-> r, nomem |-> TRUE]

Type(st, c) == IF c = NULL THEN "NULL" ELSE st.val[c].type
Items(st, c) == IF Type(st, c) = "ARRAY" THEN st.val[c].items ELSE <<>>
Unused(st) == Cell \ st.live
Fresh(st) == CHOOSE c \in Unused(st) : TRUE

Kids(st, c) == ToSet(st.val[c].items) \cup ({st.val[c].entries[k] : k \in Key} \ {NULL})
Below(st, c) ==
  LET below[x \in Cell] == Kids(st, x) \cup UNION {below[y] : y \in Kids(st, x)}
  IN  below[c]

\* Faulty variant: only the items of a container are freed, not theirs.
Finished_OneLevel(st, dead) ==
  LET gone == UNION {Kids(st, c) : c \in dead}
  IN  [st EXCEPT !.val = [c \in dead \cup gone |-> Blank] @@ @,
                 !.live = @ \ gone,
                 !.mem = @ \ (({"payload", "buffer"} \X (dead \cup gone)) \cup ({"node"} \X gone))]

\* value_fini of the values in dead, which also frees what is below them.
Finished(st, dead) ==
  LET gone == UNION {Below(st, c) : c \in dead}
  IN  [st EXCEPT !.val = [c \in dead \cup gone |-> Blank] @@ @,
                 !.live = @ \ gone,
                 !.mem = @ \ (({"payload", "buffer"} \X (dead \cup gone)) \cup ({"node"} \X gone))]

\* The values in dead are gone with the memory they were in.
Destroyed(st, dead) ==
  LET fin == Finished(st, dead)
  IN  [fin EXCEPT !.live = @ \ dead, !.mem = @ \ ({"node"} \X dead)]

\* value_init_ex for a payload that is malloc'ed.
Malloced(st, c, type) ==
  { Result([st EXCEPT !.val[c].type = type, !.mem = @ \cup {<<"payload", c>>}], 0),
    NoMemory([st EXCEPT !.val[c].type = "NULL"], -1) }

\* Powers of two, less two from the 17th item on.
value_array_good_alloc_size(alloc) ==
  LET Least(S) == CHOOSE x \in S : \A y \in S : x <= y
  IN  IF alloc <= 16 THEN Least({n \in {1, 2, 4, 8, 16} : n >= alloc})
      ELSE Least({n \in {2 ^ k : k \in 5 .. 12} : n - 2 >= alloc}) - 2

\* value_array_realloc.
Reallocated(st, c, alloc) ==
  { Result([st EXCEPT !.val[c].alloc = alloc, !.mem = @ \cup {<<"buffer", c>>}], 0),
    NoMemory(st, -1) }

\* Room for one more item.
ArrayGrown(st, c) ==
  IF Len(st.val[c].items) < st.val[c].alloc THEN {Result(st, 0)}
  ELSE Reallocated(st, c, value_array_good_alloc_size(st.val[c].alloc + 1))

ArrayInsert(st, c, index) ==
  IF Type(st, c) # "ARRAY" \/ index > Len(Items(st, c)) THEN {Result(st, NULL)}
  ELSE { IF g.ret # 0 THEN NoMemory(st, NULL)
         ELSE LET new == Fresh(st)
              IN  Result([g.store EXCEPT !.val[c].items = InsertAt(@, index + 1, new),
                                         !.val[new] = Empty("NEW"),
                                         !.live = @ \cup {new}], new)
         : g \in ArrayGrown(st, c) }

\* A failure to give memory back is ignored.
ArrayShrunk(st, c) ==
  IF Len(st.val[c].items) >= st.val[c].alloc \div 4 THEN {Result(st, 0)}
  ELSE Reallocated(st, c, value_array_good_alloc_size(Len(st.val[c].items) * 2))

ArrayRemoveRange(st, c, index, count) ==
  LET items == Items(st, c)
      dead == {items[k] : k \in index + 1 .. index + count}
      cut == SubSeq(items, 1, index) \o SubSeq(items, index + count + 1, Len(items))
  IN  IF Type(st, c) # "ARRAY" \/ index + count > Len(items) THEN {Result(st, -1)}
      ELSE {Result(g.store, 0) : g \in ArrayShrunk([Destroyed(st, dead) EXCEPT !.val[c].items = cut], c)}

ArrayCleaned(st, c) ==
  LET clean == Destroyed(st, ToSet(Items(st, c)))
  IN  [clean EXCEPT !.val[c].items = <<>>, !.val[c].alloc = 0, !.mem = @ \ {<<"buffer", c>>}]

\* value_dict_get_or_add_, which mallocs a node.
DictGetOrAdd(st, c, k) ==
  IF Type(st, c) # "DICT" THEN {Result(st, NULL)}
  ELSE IF st.val[c].entries[k] # NULL THEN {Result(st, st.val[c].entries[k])}
  ELSE LET new == Fresh(st)
       IN  { Result([st EXCEPT !.val[c].entries[k] = new, !.val[new] = Empty("NEW"),
                               !.live = @ \cup {new}, !.mem = @ \cup {<<"node", new>>}], new),
             NoMemory(st, NULL) }

DictWithout(st, c, ks) ==
  LET dead == {st.val[c].entries[k] : k \in ks} \ {NULL}
  IN  [Destroyed(st, dead) EXCEPT
        !.val[c].entries = [k \in Key |-> IF k \in ks THEN NULL ELSE st.val[c].entries[k]]]

-----------------------------------------------------------------------------
(* The calls of a program on the values it has.  Only a value that holds   *)
(* no memory may be initialised.                                           *)

Returns(results) ==
  /\ pc = "idle"
  /\ \E res \in results : store' = res.store /\ ret' = res.ret
  /\ UNCHANGED <<pc, v, rest, call>>

Room == Unused(store) # {}
MayInit(c) == Type(store, c) \in {"NULL", "NEW", "PLAIN"}

value_init_null(c) ==
  MayInit(c) /\ Returns({Result([store EXCEPT !.val[c].type = "NULL"], ret)})
\* value_init_bool and the numbers, and strings that fit into the VALUE.
value_init_simple(c) ==
  MayInit(c) /\ Returns({Result([store EXCEPT !.val[c].type = "PLAIN"], 0)})
value_init_string(c) == MayInit(c) /\ Returns(Malloced(store, c, "LONG"))
value_init_array(c) == MayInit(c) /\ Returns(Malloced(store, c, "ARRAY"))
value_init_dict(c) == MayInit(c) /\ Returns(Malloced(store, c, "DICT"))
value_fini(c) == Returns({Result(Finished(store, {c}), ret)})

value_array_insert(c, index) == Room /\ Returns(ArrayInsert(store, c, index))
value_array_append(c) == value_array_insert(c, Len(Items(store, c)))
value_array_remove_range(c, index, count) ==
  Returns(ArrayRemoveRange(store, c, index, count))
value_array_remove(c, index) == value_array_remove_range(c, index, 1)
value_array_clean(c) ==
  Type(store, c) = "ARRAY" /\ Returns({Result(ArrayCleaned(store, c), ret)})

value_dict_get_or_add(c, k) == Room /\ Returns(DictGetOrAdd(store, c, k))
value_dict_remove(c, k) ==
  /\ Type(store, c) = "DICT"
  /\ Returns({Result(DictWithout(store, c, {k}), IF store.val[c].entries[k] = NULL THEN -1 ELSE 0)})
value_dict_clean(c) ==
  Type(store, c) = "DICT" /\ Returns({Result(DictWithout(store, c, Key), ret)})

-----------------------------------------------------------------------------
(* value_path and value_build_path.  A component is a key, an index with a *)
(* sign (0 for "[]"), or an index that is none.                            *)

IsKey(comp) == comp.sort = "key"

\* A value that is new becomes the container that the component needs.
Prepared(st, c, type) ==
  IF call.build /\ Type(st, c) = "NEW" THEN Malloced(st, c, type) ELSE {Result(st, 0)}

ByKey(st, c, k) ==
  IF call.build THEN DictGetOrAdd(st, c, k)
  ELSE {Result(st, IF Type(st, c) = "DICT" THEN st.val[c].entries[k] ELSE NULL)}

\* value_array_get.
ItemAt(st, c, index) ==
  IF index < Len(Items(st, c)) THEN Items(st, c)[index + 1] ELSE NULL

\* Faulty variant: a negative index is not compared with the size.
ByIndex_NoBound(st, c, sign, n) ==
  LET size == Len(Items(st, c))
  IN  IF sign < 0
      THEN {Result(st, IF 0 < n THEN ItemAt(st, c, IF n <= size THEN size - n ELSE 0) ELSE NULL)}
      ELSE IF sign > 0 THEN {Result(st, ItemAt(st, c, n))}
      ELSE IF call.build THEN ArrayInsert(st, c, size)
      ELSE {Result(st, NULL)}

ByIndex(st, c, sign, n) ==
  LET size == Len(Items(st, c))
  IN  IF sign < 0
      THEN {Result(st, IF 0 < n /\ n <= size THEN ItemAt(st, c, size - n) ELSE NULL)}
      ELSE IF sign > 0 THEN {Result(st, ItemAt(st, c, n))}
      ELSE IF call.build THEN ArrayInsert(st, c, size)
      ELSE {Result(st, NULL)}

\* One component: the results of preparing c and of going on from it.
Descended(st, c, comp) ==
  IF comp.sort = "malformed" THEN {Result(st, NULL)}
  ELSE UNION { IF p.ret # 0 THEN {NoMemory(p.store, NULL)}
               ELSE IF IsKey(comp) THEN ByKey(p.store, c, comp.key)
               ELSE ByIndex(p.store, c, comp.sign, comp.n)
               : p \in Prepared(st, c, IF IsKey(comp) THEN "DICT" ELSE "ARRAY") }

value_path_ex(path, build) ==
  /\ pc = "idle" /\ Cardinality(Unused(store)) >= Len(path)
  /\ pc' = "walk" /\ v' = Root /\ rest' = path
  /\ call' = [path |-> path, build |-> build, nomem |-> FALSE, before |-> store]
  /\ UNCHANGED <<store, ret>>

WalkReturns(r, nomem) ==
  /\ pc' = "idle" /\ v' = NULL /\ rest' = <<>> /\ ret' = r
  /\ call' = [NoCall EXCEPT !.nomem = nomem]

WalkStep ==
  /\ pc = "walk" /\ rest # <<>>
  /\ \E res \in Descended(store, v, Head(rest)) :
       /\ store' = res.store
       /\ IF res.ret = NULL THEN WalkReturns(NULL, res.nomem)
          ELSE /\ v' = res.ret /\ rest' = Tail(rest)
               /\ UNCHANGED <<pc, call, ret>>

WalkEnds ==
  /\ pc = "walk" /\ rest = <<>>
  /\ WalkReturns(v, FALSE) /\ UNCHANGED store

-----------------------------------------------------------------------------
Next ==
  \/ \E c \in store.live :
       \/ value_init_null(c) \/ value_init_simple(c) \/ value_init_string(c)
       \/ value_init_array(c) \/ value_init_dict(c) \/ value_fini(c)
       \/ value_array_append(c) \/ value_array_clean(c) \/ value_dict_clean(c)
       \/ \E k \in Key : value_dict_get_or_add(c, k) \/ value_dict_remove(c, k)
       \/ \E index \in 0 .. Len(Items(store, c)) :
            \/ value_array_insert(c, index)
            \/ value_array_remove(c, index)
            \/ \E count \in 0 .. 2 : value_array_remove_range(c, index, count)
  \/ \E path \in Paths, build \in BOOLEAN : value_path_ex(path, build)
  \/ WalkStep
  \/ WalkEnds

Spec == Init /\ [][Next]_vars

-----------------------------------------------------------------------------
(* Every value but the root is in one place of one container, and what is  *)
(* malloc'ed is what the values that can be reached from the root use:     *)
(* nothing leaks when containers are removed, cleaned, finished or built,  *)
(* whatever allocation fails on the way, and an array never holds more     *)
(* items than its buffer has room for.                                     *)
OwnsItsMemory ==
  LET Places(c) == UNION {{<<p, k>> : k \in {j \in DOMAIN store.val[p].items : store.val[p].items[j] = c}}
                        \cup {<<p, k>> : k \in {j \in Key : store.val[p].entries[j] = c}} : p \in store.live}
      Entries == UNION {{store.val[c].entries[k] : k \in Key} \ {NULL} : c \in store.live}
  IN  /\ TypeOK
      /\ store.live = {Root} \cup Below(store, Root)
      /\ \A c \in store.live : Cardinality(Places(c)) = IF c = Root THEN 0 ELSE 1
      /\ \A c \in store.live : Len(store.val[c].items) <= store.val[c].alloc
      /\ store.mem = {<<"payload", c>> : c \in {x \in store.live : Type(store, x) \in {"LONG", "ARRAY", "DICT"}}}
                     \cup {<<"buffer", c>> : c \in {x \in store.live : store.val[x].alloc > 0}}
                     \cup {<<"node", c>> : c \in Entries}

(* What a path names, read off the store: the value that comp leads to     *)
(* from c, and the one that a whole path leads to from the root.           *)
Named(st, c, comp) ==
  LET items == Items(st, c)
  IN  CASE c = NULL \/ comp.sort = "malformed" -> NULL
        [] comp.sort = "key" -> IF Type(st, c) = "DICT" THEN st.val[c].entries[comp.key] ELSE NULL
        [] comp.sign > 0 /\ comp.n < Len(items) -> items[comp.n + 1]
        [] comp.sign < 0 /\ comp.n \in 1 .. Len(items) -> items[Len(items) + 1 - comp.n]
        [] OTHER -> NULL
At(st, path) == FoldLeft(LAMBDA c, comp : Named(st, c, comp), Root, path)
LastOf(comp) == IF comp.sort = "index" /\ comp.sign = 0 THEN [comp EXCEPT !.sign = -1, !.n = 1] ELSE comp

\* Where the path cannot be built: what is there is of another type, an index is out of bounds.
Blocked(st, c, comp) ==
  \/ comp.sort = "malformed"
  \/ comp.sort = "key" /\ Type(st, c) # "DICT"
  \/ comp.sort = "index" /\ (Type(st, c) # "ARRAY" \/ (comp.sign # 0 /\ Named(st, c, comp) = NULL))

\* to is from with more values: what was there is there still, at the place where it was.
OnlyAdds(from, to) ==
  \A c \in from.live :
    /\ c \in to.live
    /\ Type(from, c) # "NEW" => Type(to, c) = Type(from, c)
    /\ IsPrefix(from.val[c].items, to.val[c].items)
    /\ \A k \in Key : from.val[c].entries[k] \in {NULL, to.val[c].entries[k]}

(* value_path changes nothing and finds what the path names. value_build_  *)
(* path only adds; it returns what the path then names, "[]" being the     *)
(* last item; that value is new when it was not there before; a path that  *)
(* exists is only looked up; and NULL is for a failed allocation, a value  *)
(* of another type or an index out of bounds (value.h:105-169). After a    *)
(* failed allocation, all that can stop a second call where the first was  *)
(* stopped is a value that was new and whose payload could not be had.     *)
WalkKeepsPromise ==
  LET st == call.before  path == call.path  closed == [k \in DOMAIN path |-> LastOf(path[k])]
  IN  pc = "walk" /\ pc' = "idle" =>
        IF ~call.build \/ At(st, path) # NULL
        THEN store' = st /\ ret' = At(st, path)
        ELSE /\ OnlyAdds(st, store')
             /\ ret' # NULL => /\ ret' = At(store', closed)
                               /\ ret' \notin st.live /\ Type(store', ret') = "NEW"
             /\ ret' = NULL /\ ~call'.nomem =>
                  \E k \in DOMAIN path : LET c == At(store', SubSeq(closed, 1, k - 1))
                                         IN  c # NULL /\ Blocked(store', c, path[k])
             /\ call'.nomem =>
                  \A k \in DOMAIN path :
                    LET c == At(store', SubSeq(path, 1, k - 1))
                    IN  c # NULL /\ Type(store', c) # "NEW" /\ Blocked(store', c, path[k]) =>
                          Type(store', c) = "NULL" /\ (c \in st.live => Type(st, c) = "NEW")
BuildKeepsPromise == [][WalkKeepsPromise]_vars

=============================================================================
