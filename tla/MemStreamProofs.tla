--------------------------- MODULE MemStreamProofs ---------------------------
(***************************************************************************)
(* For any number of threads, references and streams, and every width of   *)
(* the integers: a stream's count is the number of references to it, it is *)
(* freed by exactly one Release, and calls stay inside the buffer.         *)
(***************************************************************************)
EXTENDS MemStream, FiniteSetTheorems, TLAPS

\* A count that does not wrap when a position is added to it.
NoWrap == \A n \in Counts : n + Ulong <= Quad

\* A call in progress goes through a reference that points to something.
BusyOn == \A r \in Ref : pc[r] # "idle" => on[r] # NULL

IInv == TypeOK /\ BusyOn /\ RefsCounted

\* The references to a stream can be counted.
LEMMA HoldersFinite ==
  ASSUME NEW s PROVE IsFiniteSet(Holders(s)) /\ Cardinality(Holders(s)) \in Nat
<1>1. Holders(s) \in SUBSET Ref /\ IsFiniteSet(Ref)
  BY StreamAssumption DEF Holders
<1> QED
  BY <1>1, FS_Subset, FS_CardinalityType

\* A stream somebody refers to is there and its count is positive.
LEMMA HeldCounts ==
  ASSUME IInv, NEW r \in Ref, on[r] # NULL, pc[r] # "release"
  PROVE  /\ on[r] \in heap /\ on[r] \in Stream
         /\ obj[on[r]].refs = Cardinality(Holders(on[r])) /\ obj[on[r]].refs \in Nat \ {0}
         /\ \A q \in Ref : LastOut(q) => on[q] # on[r]
<1>1. on[r] \in Stream /\ r \in Holders(on[r])
  BY DEF IInv, TypeOK, Holders
<1>2. on[r] \in heap /\ obj[on[r]].refs = Cardinality(Holders(on[r]))
  BY <1>1 DEF IInv, RefsCounted
<1>3. Cardinality(Holders(on[r])) \in Nat \ {0}
  BY <1>1, HoldersFinite, FS_EmptySet
<1>4. ASSUME NEW q \in Ref, LastOut(q), on[q] = on[r] PROVE FALSE
  BY <1>1, <1>4 DEF IInv, RefsCounted
<1> QED
  BY <1>1, <1>2, <1>3, <1>4

\* Calls that change no reference, no count and no stream's place in memory.
LEMMA SameRefs ==
  ASSUME IInv, TypeOK', heap' = heap, on' = on,
         \A s \in Stream : obj'[s].refs = obj[s].refs,
         \A r \in Ref : pc'[r] = "release" <=> pc[r] = "release",
         \A r \in Ref : pc[r] = "release" => local'[r] = local[r]
  PROVE  RefsCounted'
<1>1. \A s : Holders(s)' = Holders(s)
  BY DEF Holders
<1>2. \A r \in Ref : LastOut(r)' <=> LastOut(r)
  BY DEF LastOut
<1>3. heap \subseteq Stream
  BY DEF IInv, TypeOK
<1> QED
  BY <1>1, <1>2, <1>3 DEF IInv, RefsCounted

\* No streams and no references at first.
LEMMA InitIInv == Init => IInv
<1> SUFFICES ASSUME Init PROVE IInv
  OBVIOUS
<1>1. TypeOK
  BY StreamAssumption DEF Init, TypeOK, Freed, NoBytes
<1>2. RefsCounted
  BY StreamAssumption DEF Init, RefsCounted, Holders, LastOut
<1> QED
  BY <1>1, <1>2 DEF IInv, BusyOn, Init

-----------------------------------------------------------------------------
(* One lemma for each action.                                              *)

\* A new stream, also by Clone, starts with its one reference.
LEMMA CreateIInv ==
  ASSUME IInv, NEW r \in Ref, NEW size \in 0 .. Ulong - 1, NEW pos \in 0 .. Ulong - 1,
         Create(r, size, pos)
  PROVE  IInv'
<1>1. CASE UNCHANGED <<heap, obj, on>>
  <2>1. TypeOK' /\ BusyOn'
    BY <1>1 DEF IInv, TypeOK, BusyOn, Create, NoCall, NoData, NoBytes
  <2> QED
    BY <1>1, <2>1, SameRefs DEF IInv, Create, NoCall
<1>2. ASSUME NEW s \in Stream \ heap,
             heap' = heap \cup {s},
             obj' = [obj EXCEPT ![s] = [refs |-> 1, pos |-> pos, size |-> size]],
             on' = [on EXCEPT ![r] = s]
      PROVE  IInv'
  <2>1. TypeOK' /\ BusyOn'
    BY <1>2, StreamAssumption DEF IInv, TypeOK, BusyOn, Create, NoCall, NoData, NoBytes
  <2>2. pc' = pc /\ local' = local /\ pc[r] = "idle" /\ on[r] = NULL /\ s # NULL
    BY StreamAssumption DEF Create, NoCall, Unused
  <2>3. Holders(s) = {} /\ \A q \in Ref : LastOut(q) => on[q] # s
    BY DEF IInv, RefsCounted
  <2>4. Holders(s)' = {r}
    BY <1>2, <2>2, <2>3 DEF Holders, IInv, TypeOK
  <2>5. \A x \in Stream : x # s => Holders(x)' = Holders(x)
    BY <1>2, <2>2, StreamAssumption DEF Holders, IInv, TypeOK
  <2>6. \A q \in Ref : LastOut(q)' => LastOut(q) /\ on'[q] = on[q] /\ on[q] # s /\ on[q] \in Stream
    BY <1>2, <2>2, <2>3 DEF LastOut, IInv, TypeOK, RefsCounted
  <2>7. obj'[s].refs = Cardinality(Holders(s)')
    BY <1>2, <2>4, FS_Singleton DEF IInv, TypeOK
  <2>8. \A x \in heap' : obj'[x].refs = Cardinality(Holders(x)')
    BY <1>2, <2>5, <2>7 DEF IInv, TypeOK, RefsCounted
  <2>9. \A x \in Stream : Holders(x)' # {} => x \in heap'
    BY <1>2, <2>5 DEF IInv, RefsCounted
  <2>10. \A q \in Ref : LastOut(q)' =>
           /\ on'[q] \in heap' /\ Holders(on[q])' = {}
           /\ \A p \in Ref : LastOut(p)' /\ on'[p] = on'[q] => p = q
    BY <1>2, <2>5, <2>6 DEF IInv, RefsCounted
  <2> QED
    BY <2>1, <2>6, <2>8, <2>9, <2>10 DEF IInv, RefsCounted
<1> QED
  BY <1>1, <1>2 DEF Create

\* AddRef and QueryInterface add a reference and count it.
LEMMA AddRefIInv ==
  ASSUME IInv, NEW r \in Ref, NEW q \in Ref, memstream_AddRef(r, q)
  PROVE  IInv'
<1> DEFINE s == on[r]
<1>1. /\ pc[r] = "idle" /\ on[r] # NULL /\ pc[q] = "idle" /\ on[q] = NULL
      /\ heap' = heap /\ pc' = pc /\ local' = local
      /\ obj' = [obj EXCEPT ![s].refs = @ + 1] /\ on' = [on EXCEPT ![q] = s]
  BY DEF memstream_AddRef, Ready, Unused, NoCall
<1>2. /\ s \in heap /\ s \in Stream /\ obj[s].refs = Cardinality(Holders(s))
      /\ obj[s].refs \in Nat \ {0} /\ \A p \in Ref : LastOut(p) => on[p] # s
  BY <1>1, HeldCounts
<1>3. /\ obj'[s] = [obj[s] EXCEPT !.refs = @ + 1] /\ obj'[s].refs = obj[s].refs + 1
      /\ \A x \in Stream : x # s => obj'[x] = obj[x]
  BY <1>1, <1>2 DEF IInv, TypeOK
<1>4. TypeOK' /\ BusyOn'
  BY <1>1, <1>2, <1>3 DEF IInv, TypeOK, BusyOn, memstream_AddRef, NoData, NoBytes
<1>5. Holders(s)' = Holders(s) \cup {q} /\ q \notin Holders(s)
  BY <1>1, <1>2 DEF Holders, IInv, TypeOK
<1>6. \A x \in Stream : x # s => Holders(x)' = Holders(x)
  BY <1>1, StreamAssumption DEF Holders, IInv, TypeOK
<1>7. obj'[s].refs = Cardinality(Holders(s)')
  BY <1>2, <1>3, <1>5, HoldersFinite, FS_AddElement
<1>8. \A p \in Ref : LastOut(p)' => LastOut(p) /\ on'[p] = on[p] /\ on[p] # s /\ on[p] \in Stream
  BY <1>1, <1>2 DEF LastOut, IInv, TypeOK, RefsCounted
<1>9. \A x \in heap' : obj'[x].refs = Cardinality(Holders(x)')
  BY <1>1, <1>3, <1>6, <1>7 DEF IInv, TypeOK, RefsCounted
<1>10. \A x \in Stream : Holders(x)' # {} => x \in heap'
  BY <1>1, <1>2, <1>6 DEF IInv, RefsCounted
<1>11. \A p \in Ref : LastOut(p)' =>
         /\ on'[p] \in heap' /\ Holders(on[p])' = {}
         /\ \A z \in Ref : LastOut(z)' /\ on'[z] = on'[p] => z = p
  BY <1>1, <1>6, <1>8 DEF IInv, RefsCounted
<1> QED
  BY <1>4, <1>8, <1>9, <1>10, <1>11 DEF IInv, RefsCounted

\* Release takes one away and counts it.
LEMMA ReleaseIInv ==
  ASSUME IInv, NEW r \in Ref, memstream_Release(r)
  PROVE  IInv'
<1> DEFINE s == on[r]
<1>1. /\ pc[r] = "idle" /\ on[r] # NULL /\ heap' = heap /\ on' = on
      /\ obj' = [obj EXCEPT ![s].refs = @ - 1]
      /\ pc' = [pc EXCEPT ![r] = "release"]
      /\ local' = [local EXCEPT ![r] = obj[s].refs - 1]
  BY DEF memstream_Release, Ready
<1>2. /\ s \in heap /\ s \in Stream /\ obj[s].refs = Cardinality(Holders(s))
      /\ obj[s].refs \in Nat \ {0} /\ \A p \in Ref : LastOut(p) => on[p] # s
  BY <1>1, HeldCounts
<1>3. /\ obj'[s] = [obj[s] EXCEPT !.refs = @ - 1] /\ obj'[s].refs = obj[s].refs - 1
      /\ \A x \in Stream : x # s => obj'[x] = obj[x]
  BY <1>1, <1>2 DEF IInv, TypeOK
<1>4. TypeOK' /\ BusyOn'
  <2>1. obj[s].refs - 1 \in Nat
    BY <1>2
  <2>2. /\ obj' \in [Stream -> [refs : Nat, pos : 0 .. Ulong - 1, size : 0 .. Ulong - 1]]
        /\ local' \in [Ref -> Nat] /\ pc' \in [Ref -> {"idle", "release", "copy"}]
    BY <1>1, <1>2, <2>1 DEF IInv, TypeOK
  <2>3. io' = NoBytes
    BY DEF memstream_Release, NoData
  <2> QED
    BY <1>1, <2>2, <2>3 DEF IInv, TypeOK, BusyOn, NoBytes
<1>5. Holders(s)' = Holders(s) \ {r} /\ r \in Holders(s)
  BY <1>1, <1>2 DEF Holders, IInv, TypeOK
<1>6. \A x \in Stream : x # s => Holders(x)' = Holders(x)
  BY <1>1 DEF Holders, IInv, TypeOK
<1>7. obj'[s].refs = Cardinality(Holders(s)')
  BY <1>2, <1>3, <1>5, HoldersFinite, FS_RemoveElement
<1>8. LastOut(r)' => Holders(s)' = {}
  <2>1. local'[r] = obj'[s].refs
    BY <1>1, <1>3 DEF IInv, TypeOK
  <2>2. IsFiniteSet(Holders(s)')
    BY <1>5, HoldersFinite, FS_RemoveElement
  <2> QED
    BY <1>7, <2>1, <2>2, FS_EmptySet DEF LastOut
<1>9. \A p \in Ref : p # r /\ LastOut(p)' => LastOut(p) /\ on[p] # s /\ on[p] \in Stream
  BY <1>1, <1>2 DEF LastOut, IInv, TypeOK, RefsCounted
<1>10. \A x \in heap' : obj'[x].refs = Cardinality(Holders(x)')
  BY <1>1, <1>3, <1>6, <1>7 DEF IInv, TypeOK, RefsCounted
<1>11. \A x \in Stream : Holders(x)' # {} => x \in heap'
  BY <1>1, <1>2, <1>6 DEF IInv, RefsCounted
<1>12. \A p \in Ref : LastOut(p)' =>
         /\ on'[p] \in heap' /\ Holders(on[p])' = {}
         /\ \A z \in Ref : LastOut(z)' /\ on'[z] = on'[p] => z = p
  BY <1>1, <1>2, <1>6, <1>8, <1>9 DEF IInv, RefsCounted
<1> QED
  BY <1>1, <1>4, <1>10, <1>11, <1>12 DEF IInv, RefsCounted

\* Who saw zero frees a stream to which nobody refers.
LEMMA ReleaseEndsIInv ==
  ASSUME IInv, NEW r \in Ref, ReleaseEnds(r)
  PROVE  IInv'
<1> DEFINE s == on[r]
<1>1. /\ pc[r] = "release" /\ on' = [on EXCEPT ![r] = NULL]
      /\ pc' = [pc EXCEPT ![r] = "idle"] /\ local' = [local EXCEPT ![r] = 0]
      /\ s \in Stream
  BY DEF ReleaseEnds, CallEnds, IInv, BusyOn, TypeOK
<1>2. \A x \in Stream : Holders(x)' = Holders(x)
  BY <1>1, StreamAssumption DEF Holders, IInv, TypeOK
<1>3. \A p \in Ref : LastOut(p)' => p # r /\ LastOut(p) /\ on'[p] = on[p]
  BY <1>1 DEF LastOut, IInv, TypeOK
<1>4. CASE local[r] = 0
  <2>1. heap' = heap \ {s} /\ obj' = [obj EXCEPT ![s] = Freed]
    BY <1>4 DEF ReleaseEnds, Forget
  <2>2. TypeOK' /\ BusyOn'
    BY <1>1, <2>1, StreamAssumption
    DEF IInv, TypeOK, BusyOn, Freed, ReleaseEnds, NoData, NoBytes
  <2>3. Holders(s) = {} /\ \A p \in Ref : LastOut(p) /\ on[p] = s => p = r
    BY <1>1, <1>4 DEF IInv, RefsCounted, LastOut
  <2>4. \A x \in heap' : obj'[x].refs = Cardinality(Holders(x)')
    BY <1>2, <2>1 DEF IInv, TypeOK, RefsCounted
  <2>5. \A x \in Stream : Holders(x)' # {} => x \in heap'
    BY <1>2, <2>1, <2>3 DEF IInv, RefsCounted
  <2>6. \A p \in Ref : LastOut(p)' =>
          /\ on'[p] \in heap' /\ Holders(on[p])' = {}
          /\ \A z \in Ref : LastOut(z)' /\ on'[z] = on'[p] => z = p
    <3>1. \A p \in Ref : LastOut(p) => on[p] \in Stream
      BY DEF IInv, TypeOK, RefsCounted
    <3> QED
      BY <1>2, <1>3, <2>1, <2>3, <3>1 DEF IInv, RefsCounted
  <2> QED
    BY <1>3, <2>2, <2>4, <2>5, <2>6 DEF IInv, RefsCounted
<1>5. CASE local[r] # 0
  <2>1. heap' = heap /\ obj' = obj
    BY <1>5 DEF ReleaseEnds
  <2>2. TypeOK' /\ BusyOn'
    BY <1>1, <2>1 DEF IInv, TypeOK, BusyOn, ReleaseEnds, NoData, NoBytes
  <2>3. \A p \in Ref : LastOut(p)' =>
          /\ on'[p] \in heap' /\ Holders(on[p])' = {}
          /\ \A z \in Ref : LastOut(z)' /\ on'[z] = on'[p] => z = p
    <3>1. \A p \in Ref : LastOut(p) => on[p] \in Stream
      BY DEF IInv, TypeOK, RefsCounted
    <3> QED
      BY <1>2, <1>3, <2>1, <3>1 DEF IInv, RefsCounted
  <2>4. /\ \A x \in heap' : obj'[x].refs = Cardinality(Holders(x)')
        /\ \A x \in Stream : Holders(x)' # {} => x \in heap'
    BY <1>2, <2>1 DEF IInv, TypeOK, RefsCounted
  <2> QED
    BY <1>3, <2>2, <2>3, <2>4 DEF IInv, RefsCounted
<1> QED
  BY <1>4, <1>5

-----------------------------------------------------------------------------
(* The calls that use the position.                                        *)

\* Arithmetic in a ULONG.
LEMMA ModType == ASSUME NEW x \in Int PROVE x % Ulong \in 0 .. Ulong - 1
BY StreamAssumption

\* A call that only moves the position of its stream.
LEMMA MovesIInv ==
  ASSUME IInv, NEW r \in Ref, on[r] # NULL, pc[r] # "release", NEW p \in 0 .. Ulong - 1,
         obj' = [obj EXCEPT ![on[r]].pos = p], heap' = heap, on' = on, TypeOK',
         \A q \in Ref : pc'[q] = "release" <=> pc[q] = "release",
         \A q \in Ref : pc[q] = "release" => local'[q] = local[q]
  PROVE  RefsCounted'
<1>1. \A s \in Stream : obj'[s].refs = obj[s].refs
  BY HeldCounts DEF IInv, TypeOK
<1> QED
  BY <1>1, SameRefs

\* Seek keeps the position a ULONG.
LEMMA SeekIInv ==
  ASSUME IInv, NEW r \in Ref, NEW delta \in Deltas, NEW origin \in Origins,
         memstream_Seek(r, delta, origin)
  PROVE  IInv'
<1> DEFINE p == SeekPos(obj[on[r]], delta, origin)
<1>1. /\ on[r] # NULL /\ pc[r] = "idle" /\ obj' = [obj EXCEPT ![on[r]].pos = p]
      /\ heap' = heap /\ on' = on /\ pc' = pc /\ local' = local /\ io' = NoBytes
  BY DEF memstream_Seek, Alone, Ready, NoCall, NoData
<1>2. on[r] \in Stream /\ obj[on[r]].pos \in 0 .. Ulong - 1 /\ obj[on[r]].size \in 0 .. Ulong - 1
  BY <1>1, HeldCounts DEF IInv, TypeOK
<1>3. SeekTarget(obj[on[r]], delta, origin) \in Int
  BY <1>2, StreamAssumption DEF SeekTarget, SeekBase, Signed, Deltas
<1>4. p \in 0 .. Ulong - 1
  BY <1>2, <1>3, ModType DEF SeekPos
<1>5. TypeOK' /\ BusyOn'
  BY <1>1, <1>2, <1>4 DEF IInv, TypeOK, BusyOn, NoBytes
<1> QED
  BY <1>1, <1>4, <1>5, MovesIInv DEF IInv

\* Read does too.
LEMMA ReadIInv ==
  ASSUME IInv, NEW r \in Ref, NEW count \in Counts, memstream_Read(r, count)
  PROVE  IInv' /\ AccessInside'
<1> DEFINE s == obj[on[r]]
           n == IF count > s.size - s.pos THEN s.size - s.pos ELSE count
<1>1. /\ on[r] # NULL /\ pc[r] = "idle"
      /\ heap' = heap /\ on' = on /\ pc' = pc /\ local' = local
  BY DEF memstream_Read, Alone, Ready, NoCall
<1>2. /\ on[r] \in Stream /\ s.pos \in 0 .. Ulong - 1 /\ s.size \in 0 .. Ulong - 1
      /\ count \in Nat
  BY <1>1, HeldCounts, StreamAssumption DEF IInv, TypeOK
<1>3. CASE s.pos >= s.size
  <2>1. obj' = obj /\ io' = NoBytes
    BY <1>3 DEF memstream_Read, NoData
  <2>2. TypeOK' /\ BusyOn'
    BY <1>1, <2>1 DEF IInv, TypeOK, BusyOn, NoBytes
  <2> QED
    BY <1>1, <2>1, <2>2, SameRefs DEF IInv, AccessInside, NoBytes
<1>4. CASE ~(s.pos >= s.size)
  <2>1. /\ io' = [from |-> s.pos, n |-> n, size |-> s.size]
        /\ obj' = [obj EXCEPT ![on[r]].pos = s.pos + n]
    BY <1>2, <1>4 DEF memstream_Read, IInv, TypeOK
  <2>2. n \in Nat /\ s.pos + n <= s.size /\ s.pos + n \in 0 .. Ulong - 1
    BY <1>2, <1>4, StreamAssumption
  <2>3. TypeOK' /\ BusyOn'
    <3> HIDE DEF n
    <3> QED
      BY <1>1, <1>2, <2>1, <2>2 DEF IInv, TypeOK, BusyOn
  <2>4. RefsCounted'
    BY <1>1, <2>1, <2>2, <2>3, MovesIInv
  <2>5. AccessInside'
    <3> HIDE DEF n
    <3> QED
      BY <2>1, <2>2 DEF AccessInside
  <2> QED
    BY <2>3, <2>4, <2>5 DEF IInv
<1> QED
  BY <1>3, <1>4

\* CopyTo begins on a stream that is there, ...
LEMMA CopyToIInv ==
  ASSUME IInv, NEW r \in Ref, NEW count \in Counts, memstream_CopyTo(r, count)
  PROVE  IInv' /\ (NoWrap => AccessInside')
<1> DEFINE s == obj[on[r]]
           n == Clamped(s, count) % Ulong
<1>1. /\ on[r] # NULL /\ pc[r] = "idle" /\ heap' = heap /\ obj' = obj /\ on' = on
      /\ pc' = [pc EXCEPT ![r] = "copy"] /\ local' = [local EXCEPT ![r] = n]
      /\ io' = [from |-> s.pos, n |-> n, size |-> s.size]
  BY DEF memstream_CopyTo, Alone, Ready
<1>2. /\ on[r] \in Stream /\ s.pos \in 0 .. Ulong - 1 /\ s.size \in 0 .. Ulong - 1
      /\ count \in Nat
  BY <1>1, HeldCounts, StreamAssumption DEF IInv, TypeOK
<1>3. Clamped(s, count) \in Int
  BY <1>2 DEF Clamped
<1>4. n \in Nat
  BY <1>3, ModType
<1>5. TypeOK' /\ BusyOn' /\ RefsCounted'
  <2> HIDE DEF n
  <2>1. TypeOK' /\ BusyOn'
    BY <1>1, <1>2, <1>4 DEF IInv, TypeOK, BusyOn
  <2>2. /\ \A q \in Ref : pc'[q] = "release" <=> pc[q] = "release"
        /\ \A q \in Ref : pc[q] = "release" => local'[q] = local[q]
    BY <1>1 DEF IInv, TypeOK
  <2> QED
    BY <1>1, <2>1, <2>2, SameRefs
<1>6. ASSUME NoWrap PROVE AccessInside'
  <2>1. (s.pos + count) % Quad = s.pos + count
    <3>1. s.pos + count \in 0 .. Quad - 1
      BY <1>2, <1>6, StreamAssumption DEF NoWrap
    <3>2. ASSUME NEW x \in 0 .. Quad - 1 PROVE x % Quad = x
      BY StreamAssumption
    <3> QED
      BY <3>1, <3>2
  <2>2. \/ Clamped(s, count) = 0
        \/ Clamped(s, count) \in 0 .. Ulong - 1 /\ s.pos + Clamped(s, count) <= s.size
    BY <1>2, <2>1, StreamAssumption DEF Clamped
  <2>3. \A x \in 0 .. Ulong - 1 : x % Ulong = x
    BY StreamAssumption
  <2>4. n > 0 => s.pos + n <= s.size
    BY <2>2, <2>3, StreamAssumption
  <2> HIDE DEF n
  <2> QED
    BY <1>1, <2>4 DEF AccessInside
<1> QED
  BY <1>5, <1>6 DEF IInv

\* ... and ends on it.
LEMMA CopyEndsIInv ==
  ASSUME IInv, NEW r \in Ref, CopyEnds(r)
  PROVE  IInv'
<1>1. /\ pc[r] = "copy" /\ on[r] # NULL /\ on[r] \in Stream /\ heap' = heap /\ on' = on
      /\ pc' = [pc EXCEPT ![r] = "idle"] /\ local' = [local EXCEPT ![r] = 0]
      /\ io' = NoBytes
  BY DEF CopyEnds, CallEnds, NoData, IInv, BusyOn, TypeOK
<1>2. /\ \A q \in Ref : pc'[q] = "release" <=> pc[q] = "release"
      /\ \A q \in Ref : pc[q] = "release" => local'[q] = local[q]
  BY <1>1 DEF IInv, TypeOK
<1>3. CASE obj' = obj
  <2>1. TypeOK' /\ BusyOn'
    BY <1>1, <1>3 DEF IInv, TypeOK, BusyOn, NoBytes
  <2> QED
    BY <1>1, <1>2, <1>3, <2>1, SameRefs DEF IInv
<1>4. ASSUME NEW written \in 0 .. local[r],
             obj' = [obj EXCEPT ![on[r]].pos = (@ + written) % Ulong]
      PROVE  IInv'
  <2> DEFINE p == (obj[on[r]].pos + written) % Ulong
  <2>1. p \in 0 .. Ulong - 1 /\ obj' = [obj EXCEPT ![on[r]].pos = p]
    BY <1>1, <1>4, ModType DEF IInv, TypeOK
  <2> HIDE DEF p
  <2>2. TypeOK' /\ BusyOn'
    BY <1>1, <2>1 DEF IInv, TypeOK, BusyOn, NoBytes
  <2> QED
    BY <1>1, <1>2, <2>1, <2>2, MovesIInv DEF IInv
<1> QED
  BY <1>3, <1>4 DEF CopyEnds

-----------------------------------------------------------------------------
\* Every step keeps the invariant.
LEMMA NextIInv == IInv /\ [Next]_vars => IInv'
<1> SUFFICES ASSUME IInv, [Next]_vars PROVE IInv'
  OBVIOUS
<1>1. ASSUME NEW r \in Ref, UserCalls(r) PROVE IInv'
  <2>1. CASE memstream_create(r) \/ memstream_create_from_resource(r)
    BY <2>1, CreateIInv, StreamAssumption
    DEF memstream_create, memstream_create_from_resource
  <2>2. ASSUME NEW q \in Ref, memstream_Clone(r, q) PROVE IInv'
    <3>1. on[r] # NULL /\ pc[r] # "release"
      BY <2>2 DEF memstream_Clone, Alone, Ready
    <3>2. obj[on[r]].size \in 0 .. Ulong - 1 /\ obj[on[r]].pos \in 0 .. Ulong - 1
      BY <3>1, HeldCounts DEF IInv, TypeOK
    <3> QED
      BY <2>2, <3>2, CreateIInv DEF memstream_Clone
  <2>3. ASSUME NEW q \in Ref, memstream_AddRef(r, q) PROVE IInv'
    BY <2>3, AddRefIInv
  <2>4. ASSUME NEW q \in Ref, NEW riid \in Interfaces, memstream_QueryInterface(r, riid, q)
        PROVE  IInv'
    BY <2>4, AddRefIInv DEF memstream_QueryInterface
  <2>5. CASE memstream_Release(r)
    BY <2>5, ReleaseIInv
  <2>6. ASSUME NEW n \in Counts, memstream_Read(r, n) \/ memstream_CopyTo(r, n) PROVE IInv'
    BY <2>6, ReadIInv, CopyToIInv
  <2>7. ASSUME NEW delta \in Deltas, NEW origin \in Origins, memstream_Seek(r, delta, origin)
        PROVE  IInv'
    BY <2>7, SeekIInv
  <2> QED
    BY <1>1, <2>1, <2>2, <2>3, <2>4, <2>5, <2>6, <2>7 DEF UserCalls
<1>2. ASSUME NEW r \in Ref, ReleaseEnds(r) PROVE IInv'
  BY <1>2, ReleaseEndsIInv
<1>3. ASSUME NEW r \in Ref, CopyEnds(r) PROVE IInv'
  BY <1>3, CopyEndsIInv
<1>4. CASE UNCHANGED vars
  <2>1. TypeOK' /\ BusyOn'
    BY <1>4 DEF vars, IInv, TypeOK, BusyOn
  <2> QED
    BY <1>4, <2>1, SameRefs DEF vars, IInv
<1> QED
  BY <1>1, <1>2, <1>3, <1>4 DEF Next

\* Every step keeps accesses inside the buffer.
LEMMA NextAccess == NoWrap /\ IInv /\ AccessInside /\ [Next]_vars => AccessInside'
<1> SUFFICES ASSUME NoWrap, IInv, AccessInside, [Next]_vars PROVE AccessInside'
  OBVIOUS
<1>1. CASE io' = NoBytes
  BY <1>1 DEF AccessInside, NoBytes
<1>2. ASSUME NEW r \in Ref, NEW n \in Counts, memstream_Read(r, n) \/ memstream_CopyTo(r, n)
      PROVE  AccessInside'
  BY <1>2, ReadIInv, CopyToIInv
<1>3. CASE UNCHANGED vars
  BY <1>3 DEF vars, AccessInside
<1> QED
  BY <1>1, <1>2, <1>3
  DEF Next, UserCalls, memstream_create, memstream_create_from_resource, memstream_Clone, Create,
      memstream_QueryInterface, memstream_AddRef, memstream_Release, ReleaseEnds,
      memstream_Seek, CopyEnds, NoData

-----------------------------------------------------------------------------
\* The inductive invariant of the streams.
THEOREM Invariance == Spec => []IInv
<1> QED
  BY InitIInv, NextIInv, PTL DEF Spec

\* The count of a stream of memstream.c is the number of references to it at
\* every moment, and exactly one Release frees it, after the last reference.
THEOREM CountsReferences == Spec => []RefsCounted
<1>1. IInv => RefsCounted
  BY DEF IInv
<1> QED
  BY <1>1, Invariance, PTL

\* The types of the streams' state.
THEOREM TypeCorrect == Spec => []TypeOK
<1>1. IInv => TypeOK
  BY DEF IInv
<1> QED
  BY <1>1, Invariance, PTL

\* Read and CopyTo stay inside the buffer as long as no count wraps.
THEOREM StaysInside == ASSUME NoWrap PROVE Spec => []AccessInside
<1>1. Init => AccessInside
  BY DEF Init, AccessInside, NoBytes
<1>2. AccessInside /\ IInv /\ [Next]_vars => AccessInside'
  BY NextAccess
<1> QED
  BY <1>1, <1>2, Invariance, PTL DEF Spec

\* A sum that wraps is negative, and beyond any ULONG.
LEMMA SignedSum ==
  ASSUME NEW base \in 0 .. Ulong - 1, NEW delta \in Deltas
  PROVE  IF base + delta < Quad \div 2 THEN Signed(base + delta) = base + delta
         ELSE Signed(base + delta) < 0 /\ base + delta >= Ulong
<1>1. /\ Quad \div 2 \in Nat /\ Quad = 2 * (Quad \div 2) /\ Ulong <= Quad \div 2
      /\ Ulong \in Nat \ {0}
  BY StreamAssumption
<1> QED
  BY <1>1 DEF Signed, Deltas

\* Seek, for integers of any width.
THEOREM SeeksWhereAsked == Spec => []SeeksExactly
<1>1. TypeOK => SeeksExactly
  <2> SUFFICES ASSUME TypeOK, NEW r \in Ref, NEW delta \in Deltas,
                      NEW origin \in Origins \ {"other"}, Ready(r)
               PROVE  LET s == obj[on[r]]
                          target == SeekBase(s, origin) + delta
                      IN  SeekPos(s, delta, origin)
                            = IF target \in 0 .. Ulong - 1 THEN target ELSE s.pos
    BY DEF SeeksExactly
  <2> DEFINE s == obj[on[r]]
             base == SeekBase(s, origin)
  <2>1. base \in 0 .. Ulong - 1
    BY StreamAssumption DEF TypeOK, Ready, SeekBase
  <2>2. SeekTarget(s, delta, origin) = Signed(base + delta)
    BY DEF SeekTarget
  <2>3. \A x \in 0 .. Ulong - 1 : x % Ulong = x
    BY StreamAssumption
  <2>4. \A x \in Int : x % Ulong \in 0 .. Ulong - 1
    BY ModType
  <2>5. delta \in Int /\ Signed(base + delta) \in Int /\ Ulong \in Nat /\ Quad \div 2 \in Nat
        /\ Ulong <= Quad \div 2
    BY <2>1, StreamAssumption DEF Deltas, Signed
  <2> HIDE DEF base
  <2>6. CASE base + delta < Quad \div 2
    BY <2>1, <2>2, <2>3, <2>4, <2>5, <2>6, SignedSum, SMTT(30) DEF SeekPos, base
  <2>7. CASE ~(base + delta < Quad \div 2)
    BY <2>1, <2>2, <2>5, <2>7, SignedSum DEF SeekPos, base
  <2> QED
    BY <2>6, <2>7
<1> QED
  BY <1>1, TypeCorrect, PTL

=============================================================================
