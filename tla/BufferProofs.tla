---------------------------- MODULE BufferProofs ----------------------------
(***************************************************************************)
(* For any number of buffers, any bytes and every choice of the sizes      *)
(* allocations go by: a buffer never uses more bytes than it has, keeps    *)
(* the room it reserved, and is the sequence of bytes its header promises. *)
(***************************************************************************)
EXTENDS Buffer, DoublingProofs

\* The allocation for n bytes holds n bytes.
LEMMA LeastDoublingFits ==
  ASSUME NEW first \in Nat \ {0}, NEW slack \in 0 .. first, NEW n \in Nat
  PROVE  LeastDoubling(first, slack, n) \in Nat /\ LeastDoubling(first, slack, n) >= n
<1> DEFINE Good(k) == Doubled(first)[k] - slack
           Fitting == {k \in 0 .. n : Good(k) >= n}
           Least(k) == Good(k) >= n /\ \A j \in 0 .. k - 1 : Good(j) < n
<1>1. \A k \in Nat : Good(k) \in Int /\ Good(k) >= k
  <2>1. \A k \in Nat : Doubled(first)[k] \in Nat /\ Doubled(first)[k] >= first + k
    BY DoubledFacts
  <2> QED
    BY <2>1
<1>2. PICK k \in Fitting : \A j \in Fitting : k <= j
  <2> HIDE DEF Good
  <2>1. Fitting \in SUBSET Nat /\ Fitting # {}
    BY <1>1
  <2> HIDE DEF Fitting
  <2> QED
    BY <2>1, LeastNat
<1>3. k \in 0 .. n /\ Least(k)
  <2> HIDE DEF Good
  <2>1. ASSUME NEW j \in 0 .. k - 1 PROVE Good(j) < n
    <3>1. j \in 0 .. n /\ j \notin Fitting
      BY <1>2
    <3> QED
      BY <1>1, <3>1
  <2> QED
    BY <1>2, <2>1
<1> DEFINE least == CHOOSE l \in 0 .. n : Least(l)
<1>4. least \in 0 .. n /\ Least(least)
  <2> HIDE DEF Least
  <2> QED
    BY <1>3
<1>5. LeastDoubling(first, slack, n) = Good(least)
  BY DEF LeastDoubling
<1> QED
  <2> HIDE DEF least, Good
  <2> QED
    BY <1>1, <1>4, <1>5

\* So with both ways of counting, at the thresholds too.
LEMMA GoodAlloc ==
  ASSUME NEW n \in Nat
  PROVE  buffer_good_alloc_size(n) \in Nat /\ buffer_good_alloc_size(n) >= n
<1>1. LeastDoubling(MinAlloc, 0, n) \in Nat /\ LeastDoubling(MinAlloc, 0, n) >= n
  BY BufferAssumption, LeastDoublingFits
<1>2. LeastDoubling(2 * SmallLimit, Slack, n) \in Nat
      /\ LeastDoubling(2 * SmallLimit, Slack, n) >= n
  <2>1. 2 * SmallLimit \in Nat \ {0} /\ Slack \in 0 .. 2 * SmallLimit
    BY BufferAssumption
  <2> QED
    BY <2>1, LeastDoublingFits
<1> QED
  BY <1>1, <1>2 DEF buffer_good_alloc_size

-----------------------------------------------------------------------------
(* Sequences.                                                              *)

\* A sequence is known by its length and its elements.
LEMMA SameSeq ==
  ASSUME NEW S, NEW s \in Seq(S), NEW t \in Seq(S), Len(s) = Len(t),
         \A i \in 1 .. Len(s) : s[i] = t[i]
  PROVE  s = t
<1>1. s = [i \in 1 .. Len(s) |-> s[i]] /\ t = [i \in 1 .. Len(t) |-> t[i]]
  OBVIOUS
<1> QED
  BY <1>1

\* The first elements of a sequence.
LEMMA Prefix ==
  ASSUME NEW S, NEW s \in Seq(S), NEW n \in 0 .. Len(s)
  PROVE  /\ SubSeq(s, 1, n) \in Seq(S) /\ Len(SubSeq(s, 1, n)) = n
         /\ \A i \in 1 .. n : SubSeq(s, 1, n)[i] = s[i]
OBVIOUS

\* Two sequences joined.
LEMMA Joined ==
  ASSUME NEW S, NEW s \in Seq(S), NEW t \in Seq(S)
  PROVE  /\ s \o t \in Seq(S) /\ Len(s \o t) = Len(s) + Len(t)
         /\ \A i \in 1 .. Len(s) : (s \o t)[i] = s[i]
         /\ \A i \in 1 .. Len(t) : (s \o t)[Len(s) + i] = t[i]
OBVIOUS

\* e is c with w elements, those behind off, replaced by d.
IsSplice(e, c, off, w, d) ==
  /\ Len(e) = Len(c) - w + Len(d)
  /\ \A i \in 1 .. off : e[i] = c[i]
  /\ \A i \in 1 .. Len(d) : e[off + i] = d[i]
  /\ \A i \in off + w + 1 .. Len(c) : e[i - w + Len(d)] = c[i]

\* Then it is the three parts joined.
LEMMA Splice ==
  ASSUME NEW S, NEW c \in Seq(S), NEW d \in Seq(S), NEW e \in Seq(S),
         NEW off \in 0 .. Len(c), NEW w \in 0 .. Len(c) - off, IsSplice(e, c, off, w, d)
  PROVE  e = SubSeq(c, 1, off) \o d \o SubSeq(c, off + w + 1, Len(c))
<1> DEFINE p == SubSeq(c, 1, off)
           q == SubSeq(c, off + w + 1, Len(c))
           f == p \o d \o q
<1> USE DEF IsSplice
<1>1. p \in Seq(S) /\ Len(p) = off /\ \A i \in 1 .. off : p[i] = c[i]
  BY Prefix
<1>2. q \in Seq(S) /\ Len(q) = Len(c) - off - w
      /\ \A i \in 1 .. Len(q) : q[i] = c[off + w + i]
  OBVIOUS
<1> HIDE DEF p, q
<1>3. f \in Seq(S) /\ Len(f) = Len(e)
  <2>1. p \o d \in Seq(S) /\ Len(p \o d) = off + Len(d)
    BY <1>1, Joined
  <2>2. f \in Seq(S) /\ Len(f) = off + Len(d) + Len(q)
    <3> DEFINE u == p \o d
    <3>1. u \in Seq(S) /\ Len(u) = off + Len(d) /\ q \in Seq(S)
      BY <1>2, <2>1
    <3> HIDE DEF u
    <3>2. u \o q \in Seq(S) /\ Len(u \o q) = Len(u) + Len(q)
      BY ONLY <3>1, Joined
    <3> QED
      BY <3>1, <3>2 DEF u
  <2>3. Len(c) \in Nat /\ Len(d) \in Nat
    OBVIOUS
  <2> HIDE DEF f
  <2> QED
    BY <1>2, <2>2, <2>3
<1> DEFINE u == p \o d
<1>a. /\ u \in Seq(S) /\ Len(u) = off + Len(d)
      /\ \A i \in 1 .. off : u[i] = p[i]
      /\ \A i \in 1 .. Len(d) : u[off + i] = d[i]
  <2>1. p \in Seq(S) /\ d \in Seq(S)
    BY <1>1
  <2>2. /\ u \in Seq(S) /\ Len(u) = Len(p) + Len(d)
        /\ \A i \in 1 .. Len(p) : u[i] = p[i]
        /\ \A i \in 1 .. Len(d) : u[Len(p) + i] = d[i]
    BY ONLY <2>1, Joined
  <2> HIDE DEF u
  <2> QED
    BY <1>1, <2>2
<1> HIDE DEF u
<1>b. /\ \A i \in 1 .. off + Len(d) : f[i] = u[i]
      /\ \A i \in 1 .. Len(q) : f[off + Len(d) + i] = q[i]
  <2>1. f = u \o q
    BY DEF u
  <2>2. u \in Seq(S) /\ q \in Seq(S)
    BY <1>a, <1>2
  <2> HIDE DEF f
  <2>3. /\ \A i \in 1 .. Len(u) : f[i] = u[i]
        /\ \A i \in 1 .. Len(q) : f[Len(u) + i] = q[i]
    BY ONLY <2>1, <2>2, Joined
  <2> QED
    BY <1>a, <2>3
<1>c. off \in Nat /\ Len(d) \in Nat /\ Len(c) \in Nat /\ w \in Nat
  OBVIOUS
<1> HIDE DEF f
<1>4. ASSUME NEW i \in 1 .. Len(e) PROVE e[i] = f[i]
  <2>1. CASE i <= off
    <3>1. i \in 1 .. off /\ i \in 1 .. off + Len(d)
      BY <2>1, <1>c
    <3>2. f[i] = p[i]
      BY <3>1, <1>a, <1>b
    <3>3. p[i] = c[i]
      BY <3>1, <1>1
    <3>4. e[i] = c[i]
      BY <3>1
    <3> QED
      BY <3>2, <3>3, <3>4
  <2>2. CASE i > off /\ i <= off + Len(d)
    <3>1. i - off \in 1 .. Len(d) /\ off + (i - off) = i /\ i \in 1 .. off + Len(d)
      BY <2>2, <1>c
    <3>2. f[i] = u[off + (i - off)]
      BY <3>1, <1>b
    <3> QED
      BY <3>1, <3>2, <1>a
  <2>3. CASE i > off + Len(d)
    <3> DEFINE k == i - Len(d) + w
    <3>1. f[i] = q[i - off - Len(d)] /\ i - off - Len(d) \in 1 .. Len(q)
      <4>1. /\ i - off - Len(d) \in 1 .. Len(q)
            /\ off + Len(d) + (i - off - Len(d)) = i
        BY <2>3, <1>2, <1>c
      <4> QED
        BY <4>1, <1>b
    <3>2. k \in off + w + 1 .. Len(c) /\ k - w + Len(d) = i
          /\ off + w + (i - off - Len(d)) = k
      BY <2>3, <1>1, <1>2
    <3>3. q[i - off - Len(d)] = c[k]
      BY <1>2, <3>1, <3>2
    <3> QED
      BY <3>1, <3>2, <3>3
  <2>4. i \in Int /\ off \in Int /\ Len(d) \in Int
    OBVIOUS
  <2> HIDE DEF f
  <2> QED
    BY <2>1, <2>2, <2>3, <2>4
<1>5. e = f
  BY <1>3, <1>4, SameSeq
<1> QED
  BY <1>5 DEF f, p, q

-----------------------------------------------------------------------------
(* What the functions on memory return.                                    *)

\* A realloc that fails changes nothing; one that succeeds gives the memory asked
\* for, and keeps the bytes that fit.
LEMMA ReallocFacts ==
  ASSUME NEW m \in Seq(Byte), NEW s \in 0 .. Len(m), NEW alloc \in Nat,
         NEW r \in Realloc(m, s, alloc)
  PROVE  /\ r.mem \in Seq(Byte)
         /\ r.failed => r.mem = m /\ r.size = s
         /\ ~r.failed => /\ Len(r.mem) = alloc /\ r.size = Lesser(s, alloc)
                         /\ \A i \in 1 .. r.size : r.mem[i] = m[i]
<1>1. CASE alloc = Len(m)
  <2>1. r.mem = m /\ r.size = s /\ ~r.failed
    BY <1>1 DEF Realloc, Result
  <2> QED
    BY <1>1, <2>1 DEF Lesser
<1>2. CASE alloc # Len(m) /\ alloc = 0
  <2>1. r.mem = <<>> /\ r.size = 0 /\ ~r.failed
    BY <1>2 DEF Realloc, Result
  <2> QED
    BY <1>2, <2>1 DEF Lesser
<1>3. CASE alloc # Len(m) /\ alloc # 0
  <2> DEFINE q == [i \in 1 .. alloc |-> IF i <= Len(m) THEN m[i] ELSE Junk]
  <2>1. q \in Seq(Byte) /\ Len(q) = alloc /\ \A i \in 1 .. Lesser(s, alloc) : q[i] = m[i]
    BY BufferAssumption DEF Lesser
  <2>2. \/ r.mem = q /\ r.size = Lesser(s, alloc) /\ ~r.failed
        \/ r.mem = m /\ r.size = s /\ r.failed
    <3>1. r \in {Result(q, Lesser(s, alloc), FALSE), Result(m, s, TRUE)}
      BY <1>3 DEF Realloc
    <3> HIDE DEF q
    <3> QED
      BY <3>1 DEF Result
  <2> HIDE DEF q
  <2> QED
    BY <2>1, <2>2
<1> QED
  BY <1>1, <1>2, <1>3

\* buffer_reserve keeps all bytes, and has room for n more unless it fails.
LEMMA ReserveFacts ==
  ASSUME NEW m \in Seq(Byte), NEW s \in 0 .. Len(m), NEW n \in Nat, NEW r \in Reserve(m, s, n)
  PROVE  /\ r.mem \in Seq(Byte) /\ r.size = s
         /\ r.failed => r.mem = m
         /\ ~r.failed => Len(r.mem) >= s + n /\ \A i \in 1 .. s : r.mem[i] = m[i]
         /\ s + n < Len(m) => r.mem = m
<1>1. CASE s + n < Len(m)
  <2>1. r.mem = m /\ r.size = s /\ ~r.failed
    BY <1>1 DEF Reserve, Result
  <2> QED
    BY <1>1, <2>1
<1>2. CASE ~(s + n < Len(m))
  <2> DEFINE good == buffer_good_alloc_size(s + n)
  <2>1. good \in Nat /\ good >= s + n
    <3>1. s + n \in Nat
      OBVIOUS
    <3> QED
      BY ONLY <3>1, GoodAlloc
  <2>2. r \in Realloc(m, s, good)
    BY <1>2 DEF Reserve
  <2> HIDE DEF good
  <2>3. Lesser(s, good) = s
    BY <2>1 DEF Lesser
  <2> QED
    BY <1>2, <2>1, <2>2, <2>3, ReallocFacts
<1> QED
  BY <1>1, <1>2

\* buffer_insert_raw moves what is behind off by n, and nothing else.
LEMMA InsertRawFacts ==
  ASSUME NEW m \in Seq(Byte), NEW s \in 0 .. Len(m), NEW off \in 0 .. s, NEW n \in Nat,
         NEW r \in InsertRaw(m, s, off, n)
  PROVE  /\ r.mem \in Seq(Byte)
         /\ r.failed => r.mem = m /\ r.size = s
         /\ ~r.failed => /\ r.size = s + n /\ Len(r.mem) >= s + n
                         /\ \A i \in 1 .. off : r.mem[i] = m[i]
                         /\ \A i \in off + 1 .. s : r.mem[i + n] = m[i]
         /\ ~r.failed /\ s + n <= Len(m) => Len(r.mem) = Len(m)
<1> DEFINE Q == IF s + n > Len(m) THEN Reserve(m, s, n) ELSE {Result(m, s, FALSE)}
<1>1. PICK q \in Q :
        r = IF q.failed THEN q ELSE Result(MakeGap(q.mem, q.size, off, n), q.size + n, FALSE)
  BY DEF InsertRaw
<1>2. /\ q.mem \in Seq(Byte) /\ q.size = s
      /\ q.failed => q.mem = m
      /\ ~q.failed => Len(q.mem) >= s + n /\ \A i \in 1 .. s : q.mem[i] = m[i]
      /\ s + n <= Len(m) => q.mem = m
  <2>1. CASE s + n > Len(m)
    BY <2>1, ReserveFacts
  <2>2. CASE ~(s + n > Len(m))
    <3>1. q.mem = m /\ q.size = s /\ ~q.failed
      BY <2>2 DEF Result
    <3>2. s + n <= Len(m)
      BY <2>2
    <3> QED
      BY <3>1, <3>2
  <2> QED
    BY <2>1, <2>2
<1> HIDE DEF Q
<1>3. CASE q.failed
  BY <1>1, <1>2, <1>3
<1>4. CASE ~q.failed
  <2> DEFINE g == MakeGap(q.mem, s, off, n)
  <2>1. r.mem = g /\ r.size = s + n /\ ~r.failed
    BY <1>1, <1>2, <1>4 DEF Result
  <2>2. g \in Seq(Byte) /\ Len(g) = Len(q.mem)
    BY <1>2, <1>4 DEF MakeGap
  <2>3. ASSUME NEW i \in 1 .. off PROVE g[i] = m[i]
    BY <1>2, <1>4 DEF MakeGap
  <2>4. ASSUME NEW i \in off + 1 .. s PROVE g[i + n] = m[i]
    BY <1>2, <1>4 DEF MakeGap
  <2> HIDE DEF g
  <2> QED
    BY <1>2, <1>4, <2>1, <2>2, <2>3, <2>4
<1> QED
  BY <1>3, <1>4

\* buffer_remove takes out the n bytes behind off, or all there are.
LEMMA RemovedFacts ==
  ASSUME NEW m \in Seq(Byte), NEW s \in 0 .. Len(m), NEW off \in 0 .. s, NEW n \in Nat,
         NEW r \in Removed(m, s, off, n)
  PROVE  /\ r.mem \in Seq(Byte) /\ r.size \in 0 .. Len(r.mem)
         /\ r.size = IF off + n < s THEN s - n ELSE off
         /\ \A i \in 1 .. off : r.mem[i] = m[i]
         /\ \A i \in off + n + 1 .. s : r.mem[i - n] = m[i]
<1> DEFINE left == IF off + n < s THEN s - n ELSE off
           kept == IF off + n < s THEN CloseGap(m, s, off, n) ELSE m
           good == buffer_good_alloc_size(2 * left)
<1>1. left \in 0 .. s
  OBVIOUS
<1>2. /\ kept \in Seq(Byte) /\ Len(kept) = Len(m)
      /\ \A i \in 1 .. off : kept[i] = m[i]
      /\ \A i \in off + n + 1 .. s : kept[i - n] = m[i]
  <2>1. CASE off + n < s
    <3>1. kept = [i \in 1 .. Len(m) |-> IF i > off /\ i <= s - n THEN m[i + n] ELSE m[i]]
      BY <2>1 DEF CloseGap
    <3>2. kept \in Seq(Byte) /\ Len(kept) = Len(m)
      BY <2>1, <3>1
    <3> HIDE DEF kept
    <3>3. ASSUME NEW i \in off + n + 1 .. s PROVE kept[i - n] = m[i]
      <4>1. i - n \in 1 .. Len(m) /\ i - n > off /\ i - n <= s - n /\ (i - n) + n = i
        BY <2>1
      <4> QED
        BY <3>1, <4>1
    <3> QED
      BY <2>1, <3>1, <3>2, <3>3
  <2>2. CASE ~(off + n < s)
    BY <2>2
  <2> QED
    BY <2>1, <2>2
<1>3. good \in Nat /\ good >= left
  <2>1. good \in Nat /\ good >= 2 * left
    <3> HIDE DEF left
    <3>1. 2 * left \in Nat
      BY <1>1
    <3> QED
      BY <3>1, GoodAlloc
  <2> HIDE DEF left, good
  <2> QED
    BY <1>1, <2>1
<1>4. \/ left = 0 /\ r.mem = <<>> /\ r.size = 0
      \/ left # 0 /\ r \in Realloc(kept, left, good)
      \/ left # 0 /\ r.mem = kept /\ r.size = left
  BY DEF Removed, Result
<1>5. left = IF off + n < s THEN s - n ELSE off
  OBVIOUS
<1> HIDE DEF left, kept, good
<1>6. /\ \A i \in 1 .. off : i \in 1 .. left
      /\ \A i \in off + n + 1 .. s : i - n \in 1 .. left
  BY <1>5
<1>7. CASE left = 0
  <2>1. r.mem = <<>> /\ r.size = 0
    BY <1>4, <1>7
  <2>2. r.mem \in Seq(Byte) /\ r.size \in 0 .. Len(r.mem)
    BY <2>1
  <2> QED
    BY <1>5, <1>6, <1>7, <2>1, <2>2
<1>8. CASE left # 0
  <2>1. /\ r.mem \in Seq(Byte) /\ r.size = left /\ Len(r.mem) >= left
        /\ \A i \in 1 .. left : r.mem[i] = kept[i]
    <3>1. CASE r \in Realloc(kept, left, good)
      <4>1. Lesser(left, good) = left /\ left \in 0 .. Len(kept)
        BY <1>1, <1>2, <1>3 DEF Lesser
      <4> QED
        BY <1>2, <1>3, <3>1, <4>1, ReallocFacts
    <3>2. CASE r.mem = kept /\ r.size = left
      BY <1>1, <1>2, <3>2
    <3> QED
      BY <1>4, <1>8, <3>1, <3>2
  <2>2. r.size \in 0 .. Len(r.mem)
    BY <1>1, <2>1
  <2> QED
    BY <1>2, <1>5, <1>6, <2>1, <2>2
<1> QED
  BY <1>7, <1>8

-----------------------------------------------------------------------------
(* What a step does to the state.                                          *)

\* The bytes of a buffer are the first of its memory.
LEMMA ContentType ==
  ASSUME RoomAsReserved, NEW b \in Buf
  PROVE  /\ mem[b] \in Seq(Byte) /\ size[b] \in 0 .. Len(mem[b])
         /\ room[b] \in Nat /\ size[b] + room[b] <= Len(mem[b])
         /\ Content[b] = SubSeq(mem[b], 1, size[b])
         /\ Content[b] \in Seq(Byte) /\ Len(Content[b]) = size[b]
         /\ \A i \in 1 .. size[b] : Content[b][i] = mem[b][i]
<1>1. mem[b] \in Seq(Byte) /\ size[b] \in Nat /\ room[b] \in Nat
      /\ size[b] + room[b] <= Len(mem[b])
  BY DEF RoomAsReserved, TypeOK
<1>2. size[b] \in 0 .. Len(mem[b])
  BY <1>1
<1>3. Content[b] = SubSeq(mem[b], 1, size[b])
  BY DEF Content
<1> QED
  BY <1>1, <1>2, <1>3, Prefix

\* One buffer changes; what it keeps reserved fits.
LEMMA BecomeFacts ==
  ASSUME RoomAsReserved, NEW b \in Buf, NEW r, r.mem \in Seq(Byte), r.size \in 0 .. Len(r.mem),
         Become(b, r), ret' \in {0, -1},
         room' \in [Buf -> Nat], \A a \in Buf \ {b} : room'[a] = room[a],
         r.size + room'[b] <= Len(r.mem)
  PROVE  /\ RoomAsReserved'
         /\ Content' = [Content EXCEPT ![b] = SubSeq(r.mem, 1, r.size)]
<1> DEFINE q == [i \in 1 .. Len(r.mem) |-> IF i <= r.size THEN r.mem[i] ELSE Junk]
<1>1. q \in Seq(Byte) /\ Len(q) = Len(r.mem)
  BY BufferAssumption
<1>2. SubSeq(q, 1, r.size) = SubSeq(r.mem, 1, r.size)
  <2>1. /\ SubSeq(q, 1, r.size) \in Seq(Byte) /\ Len(SubSeq(q, 1, r.size)) = r.size
        /\ \A i \in 1 .. r.size : SubSeq(q, 1, r.size)[i] = q[i]
    <3> HIDE DEF q
    <3> QED
      BY <1>1, Prefix
  <2>2. \A i \in 1 .. r.size : q[i] = r.mem[i]
    OBVIOUS
  <2> HIDE DEF q
  <2> QED
    BY <2>1, <2>2, Prefix, SameSeq
<1>3. mem' = [mem EXCEPT ![b] = q] /\ size' = [size EXCEPT ![b] = r.size]
  BY DEF Become
<1>4. mem \in [Buf -> Seq(Byte)] /\ size \in [Buf -> Nat] /\ room \in [Buf -> Nat]
      /\ \A a \in Buf : size[a] + room[a] <= Len(mem[a])
  BY DEF RoomAsReserved, TypeOK
<1> HIDE DEF q
<1>5. TypeOK'
  BY <1>1, <1>3, <1>4 DEF TypeOK
<1>6. ASSUME NEW a \in Buf PROVE size'[a] + room'[a] <= Len(mem'[a])
  <2>1. CASE a = b
    BY <1>1, <1>3, <1>4, <2>1
  <2>2. CASE a # b
    BY <1>3, <1>4, <2>2
  <2> QED
    BY <2>1, <2>2
<1>7. Content' = [Content EXCEPT ![b] = SubSeq(r.mem, 1, r.size)]
  BY <1>2, <1>3, <1>4 DEF Content
<1> QED
  BY <1>5, <1>6, <1>7 DEF RoomAsReserved

\* The room a buffer has left is set.
LEMMA PromiseFacts ==
  ASSUME RoomAsReserved, NEW b \in Buf, NEW n \in Nat, Promise(b, n)
  PROVE  room' \in [Buf -> Nat] /\ room'[b] = n /\ \A a \in Buf \ {b} : room'[a] = room[a]
BY DEF RoomAsReserved, TypeOK, Promise

\* An insertion that succeeds uses up what was reserved, or has made new room.
LEMMA UseFacts ==
  ASSUME RoomAsReserved, NEW b \in Buf, NEW off \in 0 .. size[b], NEW n \in Nat,
         NEW r \in InsertRaw(mem[b], size[b], off, n), Use(b, r, n)
  PROVE  /\ r.mem \in Seq(Byte) /\ r.size \in 0 .. Len(r.mem)
         /\ room' \in [Buf -> Nat] /\ \A a \in Buf \ {b} : room'[a] = room[a]
         /\ r.size + room'[b] <= Len(r.mem)
<1>1. mem[b] \in Seq(Byte) /\ size[b] \in 0 .. Len(mem[b]) /\ room[b] \in Nat
      /\ size[b] + room[b] <= Len(mem[b]) /\ room \in [Buf -> Nat]
  BY ContentType DEF RoomAsReserved, TypeOK
<1>2. /\ r.mem \in Seq(Byte)
      /\ r.failed => r.mem = mem[b] /\ r.size = size[b]
      /\ ~r.failed => r.size = size[b] + n /\ Len(r.mem) >= size[b] + n
      /\ ~r.failed /\ size[b] + n <= Len(mem[b]) => Len(r.mem) = Len(mem[b])
  BY <1>1, InsertRawFacts
<1>3. CASE r.failed
  BY <1>1, <1>2, <1>3 DEF Use
<1>4. CASE ~r.failed
  <2> DEFINE k == IF room[b] > n THEN room[b] - n ELSE 0
  <2>1. k \in Nat /\ Promise(b, k)
    BY <1>1, <1>4 DEF Use
  <2>2. room' \in [Buf -> Nat] /\ room'[b] = k /\ \A a \in Buf \ {b} : room'[a] = room[a]
    BY <2>1, PromiseFacts
  <2>3. size[b] + n + k <= Len(r.mem)
    BY <1>1, <1>2, <1>4
  <2> HIDE DEF k
  <2>4. r.size \in 0 .. Len(r.mem)
    BY <1>1, <1>2, <1>4
  <2> QED
    BY <1>2, <1>4, <2>2, <2>3, <2>4
<1> QED
  BY <1>3, <1>4

-----------------------------------------------------------------------------
(* The calls, one by one: they keep the invariant, and do what ByteString  *)
(* says.                                                                   *)

\* Putting the bytes a buffer has in their place changes nothing.
LEMMA SameContent ==
  ASSUME RoomAsReserved, NEW b \in Buf
  PROVE  [Content EXCEPT ![b] = SubSeq(mem[b], 1, size[b])] = Content
BY DEF Content

\* Where a result has d between the first off bytes and the rest, it is d inserted.
LEMMA InsertedBytes ==
  ASSUME RoomAsReserved, NEW b \in Buf, NEW off \in 0 .. size[b], NEW d \in Seq(Byte),
         NEW m \in Seq(Byte), Len(m) >= size[b] + Len(d),
         \A i \in 1 .. off : m[i] = mem[b][i],
         \A i \in 1 .. Len(d) : m[off + i] = d[i],
         \A i \in off + 1 .. size[b] : m[i + Len(d)] = mem[b][i],
         ret' = 0,
         Content' = [Content EXCEPT ![b] = SubSeq(m, 1, size[b] + Len(d))]
  PROVE  String!Insert(b, off, d)
<1> DEFINE c == Content[b]
           e == SubSeq(m, 1, size[b] + Len(d))
<1>1. /\ c \in Seq(Byte) /\ Len(c) = size[b] /\ \A i \in 1 .. size[b] : c[i] = mem[b][i]
      /\ size[b] \in Nat /\ Len(d) \in Nat
  BY ContentType
<1>2. size[b] + Len(d) \in 0 .. Len(m)
  BY <1>1
<1>3. /\ e \in Seq(Byte) /\ Len(e) = size[b] + Len(d)
      /\ \A i \in 1 .. size[b] + Len(d) : e[i] = m[i]
  BY <1>2, Prefix
<1> HIDE DEF c, e
<1> DEFINE w == 0
<1>4. IsSplice(e, c, off, w, d) /\ off \in 0 .. Len(c) /\ w \in 0 .. Len(c) - off
  <2>1. ASSUME NEW i \in off + 0 + 1 .. Len(c) PROVE e[i - 0 + Len(d)] = c[i]
    <3>1. i \in off + 1 .. size[b] /\ i - 0 + Len(d) = i + Len(d)
      BY <1>1
    <3> QED
      BY <1>1, <1>3, <3>1, SMTT(30)
  <2>2. ASSUME NEW i \in 1 .. off PROVE e[i] = c[i]
    <3>1. i \in 1 .. size[b] /\ i \in 1 .. size[b] + Len(d)
      BY <1>1
    <3> QED
      BY <1>1, <1>3, <3>1
  <2>3. ASSUME NEW i \in 1 .. Len(d) PROVE e[off + i] = d[i]
    <3>1. off + i \in 1 .. size[b] + Len(d)
      BY <1>1
    <3> QED
      BY <1>3, <3>1
  <2>4. off \in 0 .. Len(c) /\ w \in 0 .. Len(c) - off /\ Len(e) = Len(c) - w + Len(d)
    BY <1>1, <1>3
  <2> QED
    BY <2>1, <2>2, <2>3, <2>4 DEF IsSplice
<1> HIDE DEF w
<1>5. e = SubSeq(c, 1, off) \o d \o SubSeq(c, off + w + 1, Len(c))
  BY ONLY <1>1, <1>3, <1>4, d \in Seq(Byte), Splice
<1>6. off + w + 1 = off + 1
  BY <1>1 DEF w
<1> QED
  BY <1>5, <1>6 DEF c, e, String!Insert, String!Before, String!Behind

\* The bytes between are whatever is there, until the application writes them.
LEMMA InsertRawStep ==
  ASSUME RoomAsReserved, NEW b \in Buf, NEW off \in 0 .. size[b], NEW n \in Nat,
         buffer_insert_raw(b, off, n)
  PROVE  RoomAsReserved' /\ String!InsertRaw(b, off, n)
<1>1. PICK r \in InsertRaw(mem[b], size[b], off, n) :
        Become(b, r) /\ Status(NullResult(r)) /\ Use(b, r, n)
  BY DEF buffer_insert_raw
<1>2. /\ mem[b] \in Seq(Byte) /\ size[b] \in 0 .. Len(mem[b])
      /\ ret' = IF NullResult(r) THEN -1 ELSE 0
  BY <1>1, ContentType DEF Status
<1>3. RoomAsReserved' /\ Content' = [Content EXCEPT ![b] = SubSeq(r.mem, 1, r.size)]
  <2>1. ret' \in {0, -1}
    BY <1>2
  <2> QED
    BY <1>1, <2>1, UseFacts, BecomeFacts
<1>4. /\ r.mem \in Seq(Byte)
      /\ r.failed => r.mem = mem[b] /\ r.size = size[b]
      /\ ~r.failed => /\ r.size = size[b] + n /\ Len(r.mem) >= size[b] + n
                      /\ \A i \in 1 .. off : r.mem[i] = mem[b][i]
                      /\ \A i \in off + 1 .. size[b] : r.mem[i + n] = mem[b][i]
  BY <1>2, InsertRawFacts, SMTT(30)
<1>5. CASE NullResult(r)
  <2>1. Content' = Content
    <3>1. CASE r.failed
      BY <1>3, <1>4, <3>1, SameContent
    <3>2. CASE ~r.failed /\ r.mem = <<>>
      <4>1. size[b] = 0 /\ r.size = 0
        BY <1>2, <1>4, <3>2
      <4>2. SubSeq(r.mem, 1, 0) = <<>> /\ SubSeq(mem[b], 1, 0) = <<>>
        BY <1>2, <1>4
      <4> QED
        BY <1>3, <4>1, <4>2, SameContent
    <3> QED
      BY <1>5, <3>1, <3>2 DEF NullResult
  <2>2. [i \in 1 .. n |-> Junk] \in [1 .. n -> Byte]
    BY BufferAssumption
  <2> QED
    BY <1>2, <1>3, <1>5, <2>1, <2>2 DEF String!InsertRaw, String!Insert, String!Fail
<1>6. CASE ~NullResult(r)
  <2> DEFINE d == [i \in 1 .. n |-> r.mem[off + i]]
  <2>1. ~r.failed /\ ret' = 0
    BY <1>2, <1>6 DEF NullResult
  <2>2. d \in [1 .. n -> Byte] /\ d \in Seq(Byte) /\ Len(d) = n
    BY <1>2, <1>4, <2>1
  <2>3. \A i \in 1 .. n : r.mem[off + i] = d[i]
    OBVIOUS
  <2> HIDE DEF d
  <2>4. String!Insert(b, off, d)
    BY <1>3, <1>4, <2>1, <2>2, <2>3, InsertedBytes
  <2> QED
    BY <1>3, <2>2, <2>4 DEF String!InsertRaw
<1> QED
  BY <1>5, <1>6

\* buffer_insert writes them itself.
LEMMA InsertStep ==
  ASSUME RoomAsReserved, NEW b \in Buf, NEW off \in 0 .. size[b], NEW data \in Chunk,
         buffer_insert(b, off, data)
  PROVE  RoomAsReserved' /\ String!Insert(b, off, data)
<1> DEFINE n == Len(data)
<1>1. PICK r \in InsertRaw(mem[b], size[b], off, n) :
        /\ Become(b, IF NullResult(r) THEN r
                     ELSE Result(Written(r.mem, off, data), r.size, FALSE))
        /\ Status(NullResult(r)) /\ Use(b, r, n)
  BY DEF buffer_insert
<1>2. /\ mem[b] \in Seq(Byte) /\ size[b] \in 0 .. Len(mem[b])
      /\ data \in Seq(Byte) /\ n \in Nat
      /\ ret' = IF NullResult(r) THEN -1 ELSE 0
  BY <1>1, ContentType, BufferAssumption DEF Status
<1>3. /\ r.mem \in Seq(Byte) /\ r.size \in 0 .. Len(r.mem)
      /\ room' \in [Buf -> Nat] /\ \A a \in Buf \ {b} : room'[a] = room[a]
      /\ r.size + room'[b] <= Len(r.mem)
  BY <1>1, <1>2, UseFacts
<1>4. /\ r.failed => r.mem = mem[b] /\ r.size = size[b]
      /\ ~r.failed => /\ r.size = size[b] + n /\ Len(r.mem) >= size[b] + n
                      /\ \A i \in 1 .. off : r.mem[i] = mem[b][i]
                      /\ \A i \in off + 1 .. size[b] : r.mem[i + n] = mem[b][i]
  BY <1>2, InsertRawFacts
<1>5. CASE NullResult(r)
  <2>1. RoomAsReserved' /\ Content' = [Content EXCEPT ![b] = SubSeq(r.mem, 1, r.size)]
    BY <1>1, <1>2, <1>3, <1>5, BecomeFacts
  <2>2. Content' = Content
    <3>1. CASE r.failed
      BY <2>1, <1>4, <3>1, SameContent
    <3>2. CASE ~r.failed /\ r.mem = <<>>
      <4>1. size[b] = 0 /\ r.size = 0
        BY <1>2, <1>4, <3>2
      <4>2. SubSeq(r.mem, 1, 0) = <<>> /\ SubSeq(mem[b], 1, 0) = <<>>
        BY <1>2, <1>3
      <4> QED
        BY <2>1, <4>1, <4>2, SameContent
    <3> QED
      BY <1>5, <3>1, <3>2 DEF NullResult
  <2> QED
    BY <1>2, <1>5, <2>1, <2>2 DEF String!Insert, String!Fail
<1>6. CASE ~NullResult(r)
  <2> DEFINE w == Written(r.mem, off, data)
             q == Result(w, r.size, FALSE)
  <2>1. ~r.failed /\ ret' = 0 /\ Become(b, q)
    BY <1>1, <1>2, <1>6 DEF NullResult
  <2>2. /\ w \in Seq(Byte) /\ Len(w) = Len(r.mem)
        /\ \A i \in 1 .. Len(w) :
             w[i] = IF i \in off + 1 .. off + n THEN data[i - off] ELSE r.mem[i]
    BY <1>2, <1>3 DEF Written
  <2>3. q.mem = w /\ q.size = r.size
    BY DEF Result
  <2> HIDE DEF w, q
  <2>4. RoomAsReserved' /\ Content' = [Content EXCEPT ![b] = SubSeq(w, 1, r.size)]
    <3>1. /\ RoomAsReserved /\ b \in Buf /\ q.mem \in Seq(Byte) /\ q.size \in 0 .. Len(q.mem)
          /\ Become(b, q) /\ ret' \in {0, -1}
          /\ room' \in [Buf -> Nat] /\ \A a \in Buf \ {b} : room'[a] = room[a]
          /\ q.size + room'[b] <= Len(q.mem)
      BY <1>3, <2>1, <2>2, <2>3
    <3>2. RoomAsReserved' /\ Content' = [Content EXCEPT ![b] = SubSeq(q.mem, 1, q.size)]
      BY ONLY <3>1, BecomeFacts
    <3> QED
      BY <2>3, <3>2
  <2>5. /\ \A i \in 1 .. off : w[i] = mem[b][i]
        /\ \A i \in 1 .. n : w[off + i] = data[i]
        /\ \A i \in off + 1 .. size[b] : w[i + n] = mem[b][i]
    <3>1. ASSUME NEW i \in 1 .. off PROVE w[i] = mem[b][i]
      BY <1>2, <1>3, <1>4, <2>1, <2>2
    <3>2. ASSUME NEW i \in 1 .. n PROVE w[off + i] = data[i]
      <4>1. off + i \in 1 .. Len(w) /\ off + i \in off + 1 .. off + n /\ (off + i) - off = i
        BY <1>2, <1>3, <1>4, <2>1, <2>2
      <4> QED
        BY <2>2, <4>1
    <3>3. ASSUME NEW i \in off + 1 .. size[b] PROVE w[i + n] = mem[b][i]
      <4>1. i + n \in 1 .. Len(w) /\ i + n \notin off + 1 .. off + n
        BY <1>2, <1>3, <1>4, <2>1, <2>2
      <4> QED
        BY <1>4, <2>1, <2>2, <4>1
    <3> QED
      BY <3>1, <3>2, <3>3
  <2>6. String!Insert(b, off, data)
    BY <1>2, <1>4, <2>1, <2>2, <2>4, <2>5, InsertedBytes
  <2> QED
    BY <2>4, <2>6
<1> QED
  BY <1>5, <1>6

\* Memory that has the first k bytes of a buffer has its content so far.
LEMMA PrefixContent ==
  ASSUME RoomAsReserved, NEW b \in Buf, NEW m \in Seq(Byte), NEW k \in 0 .. size[b],
         k <= Len(m), \A i \in 1 .. k : m[i] = mem[b][i]
  PROVE  /\ SubSeq(m, 1, k) = SubSeq(Content[b], 1, k)
         /\ k = size[b] => SubSeq(m, 1, k) = Content[b]
<1> DEFINE c == Content[b]
<1>1. /\ c \in Seq(Byte) /\ Len(c) = size[b] /\ \A i \in 1 .. size[b] : c[i] = mem[b][i]
      /\ size[b] \in Nat /\ Len(m) \in Nat
  BY ContentType
<1> HIDE DEF c
<1>2. k \in 0 .. Len(m) /\ k \in 0 .. Len(c)
  BY <1>1
<1>3. /\ SubSeq(m, 1, k) \in Seq(Byte) /\ Len(SubSeq(m, 1, k)) = k
      /\ \A i \in 1 .. k : SubSeq(m, 1, k)[i] = m[i]
  BY <1>2, Prefix
<1>4. /\ SubSeq(c, 1, k) \in Seq(Byte) /\ Len(SubSeq(c, 1, k)) = k
      /\ \A i \in 1 .. k : SubSeq(c, 1, k)[i] = c[i]
  BY <1>1, <1>2, Prefix
<1>5. \A i \in 1 .. k : m[i] = c[i]
  BY <1>1
<1>6. SubSeq(m, 1, k) = SubSeq(c, 1, k)
  BY <1>3, <1>4, <1>5, SameSeq
<1>7. ASSUME k = size[b] PROVE SubSeq(m, 1, k) = c
  BY <1>1, <1>3, <1>5, <1>7, SameSeq
<1> QED
  BY <1>6, <1>7 DEF c

\* Cutting a buffer off, or leaving it, is what SetCapacity allows.
LEMMA CapacitySet ==
  ASSUME RoomAsReserved, NEW b \in Buf, NEW v, NEW k \in 0 .. size[b],
         v = IF k < size[b] THEN SubSeq(Content[b], 1, k) ELSE Content[b],
         Content' = [Content EXCEPT ![b] = v], ret' = 0
  PROVE  String!SetCapacity(b, k)
<1>1. Len(Content[b]) = size[b]
  BY ContentType
<1> QED
  BY <1>1 DEF String!SetCapacity, String!Before

\* buffer_realloc gives all the reserved room up.
LEMMA ReallocStep ==
  ASSUME RoomAsReserved, NEW b \in Buf, NEW n \in Nat, buffer_realloc(b, n)
  PROVE  RoomAsReserved' /\ String!SetCapacity(b, n)
<1>1. PICK r \in Realloc(mem[b], size[b], n) :
        Become(b, r) /\ Status(r.failed) /\ Promise(b, 0)
  BY DEF buffer_realloc
<1>2. /\ mem[b] \in Seq(Byte) /\ size[b] \in 0 .. Len(mem[b]) /\ size[b] \in Nat
      /\ Len(Content[b]) = size[b]
      /\ ret' = IF r.failed THEN -1 ELSE 0
  BY <1>1, ContentType DEF Status
<1>3. /\ r.mem \in Seq(Byte)
      /\ r.failed => r.mem = mem[b] /\ r.size = size[b]
      /\ ~r.failed => /\ Len(r.mem) = n /\ r.size = Lesser(size[b], n)
                      /\ \A i \in 1 .. r.size : r.mem[i] = mem[b][i]
  BY <1>2, ReallocFacts
<1>4. r.size \in 0 .. Len(r.mem)
  BY <1>2, <1>3 DEF Lesser
<1>5. RoomAsReserved' /\ Content' = [Content EXCEPT ![b] = SubSeq(r.mem, 1, r.size)]
  <2>1. room' \in [Buf -> Nat] /\ room'[b] = 0 /\ \A a \in Buf \ {b} : room'[a] = room[a]
    BY <1>1, PromiseFacts
  <2>2. ret' \in {0, -1} /\ r.size + room'[b] <= Len(r.mem)
    BY <1>2, <1>4, <2>1
  <2> QED
    BY <1>1, <1>3, <1>4, <2>1, <2>2, BecomeFacts
<1>6. CASE r.failed
  BY <1>2, <1>3, <1>5, <1>6, SameContent DEF String!SetCapacity, String!Fail
<1>7. CASE ~r.failed
  <2>1. r.size \in 0 .. size[b] /\ r.size <= Len(r.mem)
    BY <1>2, <1>3, <1>4, <1>7 DEF Lesser
  <2>2. /\ SubSeq(r.mem, 1, r.size) = SubSeq(Content[b], 1, r.size)
        /\ r.size = size[b] => SubSeq(r.mem, 1, r.size) = Content[b]
    BY <1>3, <1>7, <2>1, PrefixContent
  <2>3. SubSeq(r.mem, 1, r.size) =
          IF n < Len(Content[b]) THEN SubSeq(Content[b], 1, n) ELSE Content[b]
    BY <1>2, <1>3, <1>7, <2>2 DEF Lesser
  <2> QED
    BY <1>2, <1>5, <1>7, <2>3 DEF String!SetCapacity, String!Before
<1> QED
  BY <1>6, <1>7

\* buffer_reserve finds the room there is enough, or makes it.
LEMMA ReserveStep ==
  ASSUME RoomAsReserved, NEW b \in Buf, NEW n \in Nat, buffer_reserve(b, n)
  PROVE  RoomAsReserved' /\ String!Reserve
<1>1. PICK r \in Reserve(mem[b], size[b], n) :
        /\ Become(b, r) /\ Status(r.failed)
        /\ IF r.failed \/ room[b] > n THEN UNCHANGED room ELSE Promise(b, n)
  BY DEF buffer_reserve
<1>2. /\ mem[b] \in Seq(Byte) /\ size[b] \in 0 .. Len(mem[b]) /\ size[b] \in Nat
      /\ room[b] \in Nat /\ size[b] + room[b] <= Len(mem[b]) /\ room \in [Buf -> Nat]
      /\ ret' \in {0, -1}
  BY <1>1, ContentType DEF Status, RoomAsReserved, TypeOK
<1>3. /\ r.mem \in Seq(Byte) /\ r.size = size[b]
      /\ r.failed => r.mem = mem[b]
      /\ ~r.failed => Len(r.mem) >= size[b] + n /\ \A i \in 1 .. size[b] : r.mem[i] = mem[b][i]
      /\ size[b] + n < Len(mem[b]) => r.mem = mem[b]
  BY <1>2, ReserveFacts
<1>4. r.size \in 0 .. Len(r.mem) /\ \A i \in 1 .. size[b] : r.mem[i] = mem[b][i]
  BY <1>2, <1>3
<1>5. room' \in [Buf -> Nat] /\ (\A a \in Buf \ {b} : room'[a] = room[a])
      /\ r.size + room'[b] <= Len(r.mem)
  <2>1. CASE r.failed \/ room[b] > n
    <3>1. room' = room
      BY <1>1, <2>1
    <3>2. size[b] + room[b] <= Len(r.mem)
      BY <1>2, <1>3, <2>1
    <3> QED
      BY <1>2, <1>3, <3>1, <3>2
  <2>2. CASE ~r.failed /\ ~(room[b] > n)
    BY <1>1, <1>3, <2>2, PromiseFacts
  <2> QED
    BY <2>1, <2>2
<1>6. RoomAsReserved' /\ Content' = [Content EXCEPT ![b] = SubSeq(r.mem, 1, r.size)]
  BY <1>1, <1>2, <1>3, <1>4, <1>5, BecomeFacts
<1>7. SubSeq(r.mem, 1, r.size) = Content[b]
  <2>1. size[b] \in 0 .. size[b] /\ size[b] <= Len(r.mem)
    BY <1>2, <1>3, <1>4
  <2> QED
    BY <1>3, <1>4, <2>1, PrefixContent
<1>8. Content' = Content
  BY <1>6, <1>7 DEF Content
<1> QED
  BY <1>2, <1>6, <1>8 DEF String!Reserve

\* A step that gives up the reserved room of a buffer and cannot fail.
LEMMA GiveUp ==
  ASSUME RoomAsReserved, NEW b \in Buf, NEW r, r.mem \in Seq(Byte), r.size \in 0 .. Len(r.mem),
         Become(b, r), Status(FALSE), Promise(b, 0)
  PROVE  /\ RoomAsReserved' /\ ret' = 0
         /\ Content' = [Content EXCEPT ![b] = SubSeq(r.mem, 1, r.size)]
<1>1. room' \in [Buf -> Nat] /\ room'[b] = 0 /\ \A a \in Buf \ {b} : room'[a] = room[a]
  BY PromiseFacts
<1>2. ret' = 0 /\ ret' \in {0, -1}
  BY DEF Status
<1>3. r.size + room'[b] <= Len(r.mem)
  BY <1>1
<1> QED
  BY <1>1, <1>2, <1>3, BecomeFacts

\* buffer_shrink gives memory back if it can, and is seen by nobody.
LEMMA ShrinkStep ==
  ASSUME RoomAsReserved, NEW b \in Buf, buffer_shrink(b)
  PROVE  RoomAsReserved' /\ String!Shrink
<1>1. /\ mem[b] \in Seq(Byte) /\ size[b] \in 0 .. Len(mem[b]) /\ size[b] \in Nat
      /\ Len(mem[b]) \in Nat
  BY ContentType
<1>2. Status(FALSE) /\ Promise(b, 0)
  BY DEF buffer_shrink
<1>3. PICK r : /\ Become(b, r)
               /\ \/ r.mem = mem[b] /\ r.size = size[b]
                  \/ r \in Realloc(mem[b], size[b], size[b])
  <2> DEFINE q == Result(mem[b], size[b], FALSE)
  <2>1. q.mem = mem[b] /\ q.size = size[b]
    BY DEF Result
  <2>2. Become(b, q) \/ \E r \in Realloc(mem[b], size[b], size[b]) : Become(b, r)
    BY DEF buffer_shrink
  <2> HIDE DEF q
  <2> QED
    BY <2>1, <2>2
<1>4. /\ r.mem \in Seq(Byte) /\ r.size = size[b] /\ r.size <= Len(r.mem)
      /\ \A i \in 1 .. size[b] : r.mem[i] = mem[b][i]
  <2>1. CASE r.mem = mem[b] /\ r.size = size[b]
    BY <1>1, <2>1
  <2>2. CASE r \in Realloc(mem[b], size[b], size[b])
    <3>1. Lesser(size[b], size[b]) = size[b]
      BY DEF Lesser
    <3>2. /\ r.mem \in Seq(Byte)
          /\ r.failed => r.mem = mem[b] /\ r.size = size[b]
          /\ ~r.failed => /\ Len(r.mem) = size[b] /\ r.size = size[b]
                          /\ \A i \in 1 .. r.size : r.mem[i] = mem[b][i]
      BY <1>1, <2>2, <3>1, ReallocFacts
    <3> QED
      BY <1>1, <3>2
  <2> QED
    BY <1>3, <2>1, <2>2
<1>5. r.size \in 0 .. Len(r.mem) /\ size[b] \in 0 .. size[b]
  BY <1>1, <1>4
<1>6. RoomAsReserved' /\ ret' = 0 /\ Content' = [Content EXCEPT ![b] = SubSeq(r.mem, 1, r.size)]
  BY <1>2, <1>3, <1>4, <1>5, GiveUp
<1>7. SubSeq(r.mem, 1, r.size) = Content[b]
  BY <1>4, <1>5, PrefixContent
<1>8. Content' = Content
  BY <1>6, <1>7 DEF Content
<1> QED
  BY <1>6, <1>8 DEF String!Shrink

\* Taking bytes out; what is left, and where, is what the header says.
LEMMA RemoveStep ==
  ASSUME RoomAsReserved, NEW b \in Buf, NEW off \in 0 .. size[b], NEW n \in Nat,
         buffer_remove(b, off, n)
  PROVE  /\ RoomAsReserved' /\ String!Remove(b, off, n)
         /\ off + n >= size[b] \/ n = 0 => String!SetCapacity(b, IF n = 0 THEN size[b] ELSE off)
<1> DEFINE c == Content[b]
<1>1. PICK r \in Removed(mem[b], size[b], off, n) : Become(b, r)
  BY DEF buffer_remove
<1>2. /\ mem[b] \in Seq(Byte) /\ size[b] \in 0 .. Len(mem[b]) /\ size[b] \in Nat
      /\ c \in Seq(Byte) /\ Len(c) = size[b] /\ \A i \in 1 .. size[b] : c[i] = mem[b][i]
  BY ContentType
<1>3. /\ r.mem \in Seq(Byte) /\ r.size \in 0 .. Len(r.mem)
      /\ r.size = IF off + n < size[b] THEN size[b] - n ELSE off
      /\ \A i \in 1 .. off : r.mem[i] = mem[b][i]
      /\ \A i \in off + n + 1 .. size[b] : r.mem[i - n] = mem[b][i]
  BY <1>2, RemovedFacts
<1>4. RoomAsReserved' /\ ret' = 0 /\ Content' = [Content EXCEPT ![b] = SubSeq(r.mem, 1, r.size)]
  BY <1>1, <1>3, GiveUp DEF buffer_remove
<1> DEFINE e == SubSeq(r.mem, 1, r.size)
<1>5. e \in Seq(Byte) /\ Len(e) = r.size /\ \A i \in 1 .. r.size : e[i] = r.mem[i]
  BY <1>3, Prefix
<1>6. CASE off + n < size[b]
  <2> DEFINE none == <<>>
  <2> HIDE DEF c, e
  <2>1. IsSplice(e, c, off, n, none) /\ off \in 0 .. Len(c) /\ n \in 0 .. Len(c) - off
        /\ none \in Seq(Byte)
    <3>1. ASSUME NEW i \in 1 .. off PROVE e[i] = c[i]
      <4>1. i \in 1 .. r.size /\ i \in 1 .. size[b]
        BY <1>2, <1>3, <1>6
      <4> QED
        BY <1>2, <1>3, <1>5, <4>1
    <3>2. ASSUME NEW i \in off + n + 1 .. Len(c) PROVE e[i - n + 0] = c[i]
      <4>1. i - n \in 1 .. r.size /\ i - n + 0 = i - n /\ i \in off + n + 1 .. size[b]
            /\ i \in 1 .. size[b]
        BY <1>2, <1>3, <1>6
      <4> QED
        BY <1>2, <1>3, <1>5, <4>1
    <3>3. Len(e) = Len(c) - n + 0 /\ off \in 0 .. Len(c) /\ n \in 0 .. Len(c) - off
      BY <1>2, <1>3, <1>5, <1>6
    <3>4. Len(none) = 0 /\ none \in Seq(Byte) /\ 1 .. Len(none) = {}
      OBVIOUS
    <3> QED
      BY <3>1, <3>2, <3>3, <3>4 DEF IsSplice
  <2> HIDE DEF none
  <2>2. e = SubSeq(c, 1, off) \o none \o SubSeq(c, off + n + 1, Len(c))
    BY ONLY <1>2, <1>5, <2>1, Splice
  <2>3. SubSeq(c, 1, off) \o none = SubSeq(c, 1, off)
    <3>1. SubSeq(c, 1, off) \in Seq(Byte)
      BY <1>2, Prefix
    <3> QED
      BY <3>1 DEF none
  <2>4. String!Remove(b, off, n)
    BY <1>2, <1>4, <1>6, <2>2, <2>3
    DEF c, e, String!Remove, String!Before, String!Behind
  <2>5. ASSUME n = 0 PROVE String!SetCapacity(b, size[b])
    <3>1. r.size \in 0 .. size[b] /\ r.size = size[b] /\ r.size <= Len(r.mem)
      BY <1>2, <1>3, <1>6, <2>5
    <3>2. ASSUME NEW i \in 1 .. size[b] PROVE r.mem[i] = mem[b][i]
      BY <1>2, <1>3, <2>5
    <3>3. e = c
      <4> DEFINE m == r.mem
                 k == r.size
      <4>1. /\ RoomAsReserved /\ b \in Buf /\ m \in Seq(Byte) /\ k \in 0 .. size[b]
            /\ k <= Len(m) /\ k = size[b] /\ \A i \in 1 .. k : m[i] = mem[b][i]
        BY <1>3, <3>1, <3>2
      <4>2. e = SubSeq(m, 1, k) /\ c = Content[b]
        BY DEF c, e
      <4> HIDE DEF m, k
      <4> QED
        BY ONLY <4>1, <4>2, PrefixContent
    <3>4. size[b] \in 0 .. size[b] /\ e = IF size[b] < size[b] THEN SubSeq(c, 1, size[b]) ELSE c
      BY <1>2, <3>3
    <3> QED
      BY <1>4, <3>4, CapacitySet DEF c, e
  <2> QED
    BY <1>2, <1>4, <1>6, <2>4, <2>5
<1>7. CASE ~(off + n < size[b])
  <2>1. r.size = off /\ off <= Len(r.mem)
    BY <1>2, <1>3, <1>7
  <2>2. e = SubSeq(c, 1, off) /\ (off = size[b] => e = c)
    BY <1>3, <2>1, PrefixContent
  <2>3. String!Remove(b, off, n)
    BY <1>2, <1>4, <1>7, <2>2 DEF String!Remove, String!Before
  <2>4. String!SetCapacity(b, IF n = 0 THEN size[b] ELSE off)
    <3> HIDE DEF c, e
    <3>1. n = 0 => off = size[b]
      BY <1>2, <1>7
    <3>2. e = IF off < size[b] THEN SubSeq(c, 1, off) ELSE c
      BY <1>2, <2>2
    <3>3. String!SetCapacity(b, off)
      BY <1>4, <3>2, CapacitySet DEF c, e
    <3> QED
      BY <3>1, <3>3
  <2> QED
    BY <1>4, <2>3, <2>4
<1> QED
  BY <1>6, <1>7

\* stack_pop_raw cuts the end off; what was reserved stays.
LEMMA PopRawStep ==
  ASSUME RoomAsReserved, NEW b \in Buf, NEW n \in 0 .. size[b], stack_pop_raw(b, n)
  PROVE  RoomAsReserved' /\ String!SetCapacity(b, size[b] - n)
<1> DEFINE r == Result(mem[b], size[b] - n, FALSE)
<1>1. /\ mem[b] \in Seq(Byte) /\ size[b] \in 0 .. Len(mem[b]) /\ size[b] \in Nat
      /\ room[b] \in Nat /\ size[b] + room[b] <= Len(mem[b]) /\ room \in [Buf -> Nat]
      /\ Len(Content[b]) = size[b]
  BY ContentType DEF RoomAsReserved, TypeOK
<1>2. r.mem = mem[b] /\ r.size = size[b] - n
  BY DEF Result
<1>3. Become(b, r) /\ ret' = 0 /\ room' = room
  BY DEF stack_pop_raw, Status
<1> HIDE DEF r
<1>4. r.mem \in Seq(Byte) /\ r.size \in 0 .. Len(r.mem) /\ r.size + room'[b] <= Len(r.mem)
      /\ r.size \in 0 .. size[b]
  <2> DEFINE l == Len(mem[b])
  <2>1. /\ l \in Nat /\ size[b] \in 0 .. l /\ room[b] \in Nat /\ size[b] + room[b] <= l
        /\ n \in 0 .. size[b]
    BY <1>1
  <2>2. l = Len(r.mem) /\ r.mem \in Seq(Byte) /\ room'[b] = room[b]
    BY <1>1, <1>2, <1>3
  <2> HIDE DEF l
  <2> QED
    BY ONLY <2>1, <2>2, <1>2
<1>5. RoomAsReserved' /\ Content' = [Content EXCEPT ![b] = SubSeq(r.mem, 1, r.size)]
  <2>1. ret' \in {0, -1} /\ room' \in [Buf -> Nat] /\ \A a \in Buf \ {b} : room'[a] = room[a]
    BY <1>1, <1>3
  <2> QED
    BY <1>3, <1>4, <2>1, BecomeFacts
<1>6. /\ SubSeq(r.mem, 1, r.size) = SubSeq(Content[b], 1, size[b] - n)
      /\ n = 0 => SubSeq(r.mem, 1, r.size) = Content[b]
  <2> DEFINE m == r.mem
             k == r.size
  <2>1. /\ RoomAsReserved /\ b \in Buf /\ m \in Seq(Byte) /\ k \in 0 .. size[b]
        /\ k <= Len(m) /\ \A i \in 1 .. k : m[i] = mem[b][i]
    BY <1>1, <1>2, <1>4
  <2>2. k = size[b] - n /\ (n = 0 => k = size[b])
    BY <1>1, <1>2
  <2> HIDE DEF m, k
  <2>3. /\ SubSeq(m, 1, k) = SubSeq(Content[b], 1, k)
        /\ k = size[b] => SubSeq(m, 1, k) = Content[b]
    BY ONLY <2>1, PrefixContent
  <2> QED
    BY <2>2, <2>3 DEF m, k
<1>7. n # 0 <=> size[b] - n < Len(Content[b])
  BY <1>1
<1> QED
  BY <1>3, <1>5, <1>6, <1>7 DEF String!SetCapacity, String!Before

\* An array writes over the item it has at an offset.
LEMMA SetStep ==
  ASSUME RoomAsReserved, NEW b \in Buf, NEW i \in Nat, NEW item \in Chunk,
         i * Len(item) + Len(item) <= size[b], array_set(b, i, item)
  PROVE  RoomAsReserved' /\ String!Overwrite(b, i * Len(item), item)
<1> DEFINE off == i * Len(item)
           w == Written(mem[b], off, item)
           c == Content[b]
           e == SubSeq(w, 1, size[b])
<1>1. /\ mem[b] \in Seq(Byte) /\ size[b] \in 0 .. Len(mem[b]) /\ size[b] \in Nat
      /\ c \in Seq(Byte) /\ Len(c) = size[b] /\ \A k \in 1 .. size[b] : c[k] = mem[b][k]
      /\ item \in Seq(Byte) /\ Len(item) \in Nat
  BY ContentType, BufferAssumption
<1>2. off \in Nat /\ off + Len(item) <= size[b]
  BY <1>1
<1>3. mem' = [mem EXCEPT ![b] = w] /\ ret' = 0 /\ size' = size /\ room' = room
  BY DEF array_set, Status
<1> HIDE DEF off
<1>4. /\ w \in Seq(Byte) /\ Len(w) = Len(mem[b])
      /\ \A k \in 1 .. Len(w) :
           w[k] = IF k \in off + 1 .. off + Len(item) THEN item[k - off] ELSE mem[b][k]
  BY <1>1, <1>2 DEF Written
<1> HIDE DEF w, c
<1>5. RoomAsReserved'
  <2>1. mem \in [Buf -> Seq(Byte)]
    BY DEF RoomAsReserved, TypeOK
  <2>2. mem' \in [Buf -> Seq(Byte)] /\ \A a \in Buf : Len(mem'[a]) = Len(mem[a])
    BY <1>3, <1>4, <2>1
  <2> QED
    BY <1>3, <2>2 DEF RoomAsReserved, TypeOK
<1>6. Content' = [Content EXCEPT ![b] = e]
  <2>1. mem \in [Buf -> Seq(Byte)]
    BY DEF RoomAsReserved, TypeOK
  <2> QED
    BY <1>3, <2>1 DEF Content
<1>7. e \in Seq(Byte) /\ Len(e) = size[b] /\ \A k \in 1 .. size[b] : e[k] = w[k]
  <2>1. w \in Seq(Byte) /\ size[b] \in 0 .. Len(w)
    BY <1>1, <1>4
  <2> QED
    BY ONLY <2>1, Prefix
<1> HIDE DEF e
<1>8. IsSplice(e, c, off, Len(item), item) /\ off \in 0 .. Len(c) /\ Len(item) \in 0 .. Len(c) - off
  <2>1. ASSUME NEW k \in 1 .. off PROVE e[k] = c[k]
    <3>1. k \in 1 .. size[b] /\ k \in 1 .. Len(w) /\ k \notin off + 1 .. off + Len(item)
      BY <1>1, <1>2, <1>4
    <3> QED
      BY <1>1, <1>4, <1>7, <3>1
  <2>2. ASSUME NEW k \in 1 .. Len(item) PROVE e[off + k] = item[k]
    <3>1. /\ off + k \in 1 .. size[b] /\ off + k \in 1 .. Len(w)
          /\ off + k \in off + 1 .. off + Len(item) /\ (off + k) - off = k
      BY <1>1, <1>2, <1>4
    <3> QED
      BY <1>4, <1>7, <3>1
  <2>3. ASSUME NEW k \in off + Len(item) + 1 .. Len(c)
        PROVE  e[k - Len(item) + Len(item)] = c[k]
    <3>1. /\ k \in 1 .. size[b] /\ k \in 1 .. Len(w) /\ k \notin off + 1 .. off + Len(item)
          /\ k - Len(item) + Len(item) = k
      BY <1>1, <1>2, <1>4
    <3> QED
      BY <1>1, <1>4, <1>7, <3>1
  <2>4. Len(e) = Len(c) - Len(item) + Len(item) /\ off \in 0 .. Len(c)
        /\ Len(item) \in 0 .. Len(c) - off
    BY <1>1, <1>2, <1>7
  <2> QED
    BY <2>1, <2>2, <2>3, <2>4 DEF IsSplice
<1>9. e = SubSeq(c, 1, off) \o item \o SubSeq(c, off + Len(item) + 1, Len(c))
  BY ONLY <1>1, <1>7, <1>8, Splice
<1> QED
  BY <1>3, <1>5, <1>6, <1>9
  DEF c, off, String!Overwrite, String!Before, String!Behind

\* buffer_acquire leaves the buffer without memory.
LEMMA AcquireStep ==
  ASSUME RoomAsReserved, NEW b \in Buf, buffer_acquire(b)
  PROVE  RoomAsReserved' /\ String!Acquire(b)
<1> DEFINE r == Result(<<>>, 0, FALSE)
<1>1. r.mem = <<>> /\ r.size = 0
  BY DEF Result
<1>2. Become(b, r) /\ Status(FALSE) /\ Promise(b, 0)
  BY DEF buffer_acquire
<1> HIDE DEF r
<1>3. r.mem \in Seq(Byte) /\ r.size \in 0 .. Len(r.mem) /\ SubSeq(r.mem, 1, r.size) = <<>>
  <2>1. SubSeq(<<>>, 1, 0) = <<>>
    OBVIOUS
  <2> QED
    BY <1>1, <2>1
<1>4. RoomAsReserved' /\ ret' = 0 /\ Content' = [Content EXCEPT ![b] = <<>>]
  BY <1>2, <1>3, GiveUp
<1> QED
  BY <1>4 DEF String!Acquire

\* buffer_swap exchanges everything two buffers have.
LEMMA SwapStep ==
  ASSUME RoomAsReserved, NEW a \in Buf, NEW b \in Buf, buffer_swap(a, b)
  PROVE  RoomAsReserved' /\ String!Swap(a, b)
<1>1. mem \in [Buf -> Seq(Byte)] /\ size \in [Buf -> Nat] /\ room \in [Buf -> Nat]
      /\ \A k \in Buf : size[k] + room[k] <= Len(mem[k])
  BY DEF RoomAsReserved, TypeOK
<1>2. /\ mem' = [mem EXCEPT ![a] = mem[b], ![b] = mem[a]]
      /\ size' = [size EXCEPT ![a] = size[b], ![b] = size[a]]
      /\ room' = [room EXCEPT ![a] = room[b], ![b] = room[a]]
      /\ ret' = 0
  BY DEF buffer_swap, Status
<1>3. TypeOK'
  BY <1>1, <1>2 DEF TypeOK
<1>4. ASSUME NEW k \in Buf PROVE size'[k] + room'[k] <= Len(mem'[k])
  BY <1>1, <1>2
<1>5. Content' = [Content EXCEPT ![a] = Content[b], ![b] = Content[a]]
  <2>1. ASSUME NEW k \in Buf
        PROVE  SubSeq(mem'[k], 1, size'[k]) =
                 IF k = b THEN Content[a] ELSE IF k = a THEN Content[b] ELSE Content[k]
    BY <1>1, <1>2 DEF Content
  <2> QED
    BY <2>1 DEF Content
<1> QED
  BY <1>2, <1>3, <1>4, <1>5 DEF RoomAsReserved, String!Swap

\* Item i of an array is within it, and so is its end.
LEMMA ItemOffset ==
  ASSUME NEW s \in Nat, NEW width \in Nat \ {0}, NEW i \in 0 .. s \div width
  PROVE  i * width \in 0 .. s /\ (i < s \div width => i * width + width <= s)
<1> DEFINE q == s \div width
<1>1. q \in Nat /\ s >= width * q
  BY DivMod
<1> HIDE DEF q
<1>2. i \in Nat /\ i <= q
  BY <1>1 DEF q
<1>3. i * width \in Nat /\ i * width <= width * q
  BY <1>1, <1>2
<1>4. i < q => i * width + width <= width * q
  <2> SUFFICES ASSUME i + 1 <= q PROVE (i + 1) * width <= width * q
    BY <1>1, <1>2
  <2> QED
    BY <1>1, <1>2
<1> QED
  BY <1>1, <1>3, <1>4 DEF q

-----------------------------------------------------------------------------
(* Every step of the buffers.                                              *)

\* A removal is one the header lists: of nothing, of some bytes, or of all behind off.
LEMMA RemoveListed ==
  ASSUME RoomAsReserved, NEW b \in Buf, NEW off \in 0 .. size[b], NEW n \in Nat,
         buffer_remove(b, off, n)
  PROVE  RoomAsReserved' /\ String!Next
<1>1. size[b] \in Nat /\ Len(Content[b]) = size[b]
  BY ContentType
<1>2. /\ RoomAsReserved' /\ String!Remove(b, off, n)
      /\ off + n >= size[b] \/ n = 0 => String!SetCapacity(b, IF n = 0 THEN size[b] ELSE off)
  BY RemoveStep
<1>3. CASE off + n >= size[b] \/ n = 0
  <2>1. (IF n = 0 THEN size[b] ELSE off) \in 0 .. Len(Content[b])
    BY <1>1
  <2> QED
    BY <1>2, <1>3, <2>1 DEF String!Next
<1>4. CASE ~(off + n >= size[b] \/ n = 0)
  <2>1. off \in 0 .. Len(Content[b]) /\ n \in 1 .. Len(Content[b])
    BY <1>1, <1>4
  <2> QED
    BY <1>2, <2>1 DEF String!Next
<1> QED
  BY <1>3, <1>4

\* So with insertions, where the bytes are of those applications insert.
LEMMA InsertListed ==
  ASSUME RoomAsReserved, NEW b \in Buf, NEW off \in 0 .. size[b], NEW data \in Chunk,
         buffer_insert(b, off, data) \/ buffer_insert_raw(b, off, Len(data))
  PROVE  RoomAsReserved' /\ String!Next
<1>1. off \in 0 .. Len(Content[b]) /\ Len(data) \in Nat
  BY ContentType, BufferAssumption
<1>2. RoomAsReserved' /\ (String!Insert(b, off, data) \/ String!InsertRaw(b, off, Len(data)))
  BY <1>1, InsertStep, InsertRawStep
<1> QED
  BY <1>1, <1>2 DEF String!Next

\* Each way buffer_realloc can be called is a step of ByteString.
LEMMA CapacityListed ==
  ASSUME RoomAsReserved, NEW b \in Buf, NEW n \in Nat, buffer_realloc(b, n)
  PROVE  RoomAsReserved' /\ String!Next
<1>1. RoomAsReserved' /\ String!SetCapacity(b, n)
  BY ReallocStep
<1>2. size[b] \in Nat /\ Len(Content[b]) = size[b]
  BY ContentType
<1>3. CASE n \in 0 .. Len(Content[b])
  BY <1>1, <1>3 DEF String!Next
<1>4. CASE n \notin 0 .. Len(Content[b])
  <2>1. ~(n < Len(Content[b]))
    BY <1>2, <1>4
  <2>2. [Content EXCEPT ![b] = Content[b]] = Content
    BY DEF Content
  <2>3. Content' = Content /\ ret' \in {0, -1}
    BY <1>1, <2>1, <2>2 DEF String!SetCapacity, String!Fail
  <2> QED
    BY <1>1, <2>3 DEF String!Next, String!Reserve
<1> QED
  BY <1>3, <1>4

\* So is each call of a stack, ...
LEMMA StackListed ==
  ASSUME RoomAsReserved, NEW b \in Buf, CallStack(b)
  PROVE  RoomAsReserved' /\ String!Next
<1>1. size[b] \in Nat /\ Len(Content[b]) = size[b]
  BY ContentType
<1>2. ASSUME NEW data \in Chunk, stack_push(b, data) PROVE RoomAsReserved' /\ String!Next
  <2>1. size[b] \in 0 .. size[b] /\ buffer_insert(b, size[b], data)
    BY <1>1, <1>2 DEF stack_push
  <2> QED
    BY <2>1, InsertListed
<1>3. ASSUME NEW n \in 0 .. size[b], stack_pop(b, n) PROVE RoomAsReserved' /\ String!Next
  <2>1. size[b] - n \in 0 .. size[b] /\ n \in Nat /\ buffer_remove(b, size[b] - n, n)
    BY <1>1, <1>3 DEF stack_pop
  <2> QED
    BY <2>1, RemoveListed
<1>4. ASSUME NEW n \in 0 .. size[b], stack_pop_raw(b, n) PROVE RoomAsReserved' /\ String!Next
  <2>1. size[b] - n \in 0 .. Len(Content[b])
    BY <1>1
  <2> QED
    BY <1>4, <2>1, PopRawStep DEF String!Next
<1> QED
  BY <1>2, <1>3, <1>4 DEF CallStack

\* ... each call of an array, ...
LEMMA ArrayListed ==
  ASSUME RoomAsReserved, NEW b \in Buf, CallArray(b)
  PROVE  RoomAsReserved' /\ String!Next
<1>1. size[b] \in Nat /\ Len(Content[b]) = size[b]
  BY ContentType
<1>2. PICK item \in Chunk :
        LET width == Len(item)
        IN  /\ IsArray(b, width)
            /\ \/ /\ size[b] + width <= MaxSize
                  /\ \/ array_append(b, item)
                     \/ \E i \in 0 .. size[b] \div width : array_insert(b, i, item)
               \/ \E i \in 0 .. size[b] \div width - 1 :
                    \/ array_set(b, i, item)
                    \/ \E n \in 1 .. size[b] \div width - i : array_remove_n(b, i, n, width)
  BY DEF CallArray
<1> DEFINE width == Len(item)
<1>3. width \in Nat \ {0} /\ size[b] \div width \in Nat
  <2>1. width \in Nat
    BY BufferAssumption
  <2>2. width > 0
    BY <1>2 DEF IsArray
  <2> HIDE DEF width
  <2> QED
    BY <1>1, <2>1, <2>2, DivMod
<1>4. CASE array_append(b, item)
  <2>1. size[b] \in 0 .. size[b] /\ buffer_insert(b, size[b], item)
    BY <1>1, <1>4 DEF array_append
  <2> QED
    BY <2>1, InsertListed
<1>5. ASSUME NEW i \in 0 .. size[b] \div width, array_insert(b, i, item)
      PROVE  RoomAsReserved' /\ String!Next
  <2>1. i * width \in 0 .. size[b]
    <3> HIDE DEF width
    <3> QED
      BY <1>1, <1>3, ItemOffset
  <2>2. buffer_insert(b, i * width, item)
    BY <1>5 DEF array_insert
  <2> QED
    BY <2>1, <2>2, InsertListed
<1>6. ASSUME NEW i \in 0 .. size[b] \div width - 1
      PROVE  /\ i \in Nat /\ i * width \in 0 .. size[b] /\ i * width + width <= size[b]
  <2> HIDE DEF width
  <2>1. i \in 0 .. size[b] \div width /\ i < size[b] \div width /\ i \in Nat
    BY <1>3
  <2> QED
    BY <1>1, <1>3, <2>1, ItemOffset
<1>7. ASSUME NEW i \in 0 .. size[b] \div width - 1, array_set(b, i, item)
      PROVE  RoomAsReserved' /\ String!Next
  <2>1. RoomAsReserved' /\ String!Overwrite(b, i * width, item)
    BY <1>6, <1>7, SetStep
  <2> QED
    BY <1>1, <1>6, <2>1 DEF String!Next
<1>8. ASSUME NEW i \in 0 .. size[b] \div width - 1, NEW n \in 1 .. size[b] \div width - i,
             array_remove_n(b, i, n, width)
      PROVE  RoomAsReserved' /\ String!Next
  <2>1. buffer_remove(b, i * width, n * width)
    BY <1>8 DEF array_remove_n
  <2>2. n * width \in Nat
    <3> HIDE DEF width
    <3>1. n \in Nat
      BY <1>3
    <3> QED
      BY <1>3, <3>1
  <2> QED
    BY <1>6, <2>1, <2>2, RemoveListed
<1> QED
  BY <1>2, <1>4, <1>5, <1>7, <1>8

\* ... and with them every step of the buffers.
LEMMA NextListed ==
  ASSUME RoomAsReserved, Next
  PROVE  RoomAsReserved' /\ String!Next
<1> SUFFICES ASSUME NEW b \in Buf,
                    \/ Grow(b) \/ CallStack(b) \/ CallArray(b)
                    \/ \E n \in 0 .. 2 * MaxSize : buffer_realloc(b, n)
                    \/ \E n \in 0 .. MaxSize - size[b] : buffer_reserve(b, n)
                    \/ buffer_shrink(b)
                    \/ \E off \in 0 .. size[b] : \E n \in 0 .. MaxSize : buffer_remove(b, off, n)
                    \/ buffer_acquire(b)
                    \/ \E a \in Buf : buffer_swap(a, b)
             PROVE  RoomAsReserved' /\ String!Next
  BY DEF Next
<1>1. CASE Grow(b)
  BY <1>1, InsertListed DEF Grow
<1>2. CASE CallStack(b)
  BY <1>2, StackListed
<1>3. CASE CallArray(b)
  BY <1>3, ArrayListed
<1>4. ASSUME NEW n \in 0 .. 2 * MaxSize, buffer_realloc(b, n) PROVE RoomAsReserved' /\ String!Next
  BY <1>4, CapacityListed
<1>5. ASSUME NEW n \in 0 .. MaxSize - size[b], buffer_reserve(b, n)
      PROVE  RoomAsReserved' /\ String!Next
  BY <1>5, ReserveStep DEF String!Next
<1>6. CASE buffer_shrink(b)
  BY <1>6, ShrinkStep DEF String!Next
<1>7. ASSUME NEW off \in 0 .. size[b], NEW n \in 0 .. MaxSize, buffer_remove(b, off, n)
      PROVE  RoomAsReserved' /\ String!Next
  BY <1>7, RemoveListed
<1>8. CASE buffer_acquire(b)
  BY <1>8, AcquireStep DEF String!Next
<1>9. ASSUME NEW a \in Buf, buffer_swap(a, b) PROVE RoomAsReserved' /\ String!Next
  BY <1>9, SwapStep DEF String!Next
<1> QED
  BY <1>1, <1>2, <1>3, <1>4, <1>5, <1>6, <1>7, <1>8, <1>9

\* The buffers start with nothing promised and as empty strings.
LEMMA InitRoom == Init => RoomAsReserved /\ String!Init
<1> SUFFICES ASSUME Init PROVE RoomAsReserved /\ String!Init
  OBVIOUS
<1>1. \A b \in Buf : mem[b] = <<>> /\ size[b] = 0 /\ room[b] = 0
  BY DEF Init
<1>2. SubSeq(<<>>, 1, 0) = <<>> /\ Len(<<>>) = 0
  OBVIOUS
<1>3. Content = [b \in Buf |-> <<>>]
  BY <1>1, <1>2 DEF Content
<1> QED
  BY <1>1, <1>2, <1>3 DEF Init, RoomAsReserved, TypeOK, String!Init

\* Bytes in use, and those reserved and not used yet, always fit in the memory,
\* whichever reallocs fail: memmove, memcpy and promised appends stay inside it.
THEOREM RoomIsThere == Spec => []RoomAsReserved
<1>1. RoomAsReserved /\ [Next]_vars => RoomAsReserved'
  <2>1. RoomAsReserved /\ UNCHANGED vars => RoomAsReserved'
    BY DEF vars, RoomAsReserved, TypeOK
  <2> QED
    BY <2>1, NextListed
<1> QED
  BY <1>1, InitRoom, PTL DEF Spec

\* A buffer is the sequence of bytes its header promises, and each call does
\* with it what its name says or, if it reports an error, nothing.
THEOREM ByteStringImplemented == Spec => ImplementsByteString
<1> DEFINE Inserts(b) ==
             \A off \in 0 .. size[b] :
               /\ \A data \in Chunk :
                    /\ buffer_insert(b, off, data) => String!Insert(b, off, data)
                    /\ buffer_insert_raw(b, off, Len(data)) => String!InsertRaw(b, off, Len(data))
               /\ \A n \in 0 .. MaxSize : buffer_remove(b, off, n) => String!Remove(b, off, n)
           Sizes(b) ==
             \A n \in 0 .. MaxSize : /\ buffer_realloc(b, n) => String!SetCapacity(b, n)
                                     /\ buffer_reserve(b, n) => String!Reserve
           Sets(b) ==
             \A item \in Chunk \ {<<>>} :
               \A i \in 0 .. size[b] \div Len(item) - 1 :
                 array_set(b, i, item) => String!Overwrite(b, i * Len(item), item)
           Called == \A b \in Buf : /\ Inserts(b)
                                    /\ Sizes(b)
                                    /\ buffer_shrink(b) => String!Shrink
                                    /\ Sets(b)
<1>1. ASSUME RoomAsReserved, NEW b \in Buf PROVE Inserts(b)
  <2>1. \A data \in Chunk : Len(data) \in Nat
    BY BufferAssumption
  <2>2. \A n \in 0 .. MaxSize : n \in Nat
    OBVIOUS
  <2> QED
    BY <1>1, <2>1, <2>2, InsertStep, InsertRawStep, RemoveStep
<1>2. ASSUME RoomAsReserved, NEW b \in Buf PROVE Sizes(b)
  BY <1>2, ReallocStep, ReserveStep
<1>3. ASSUME RoomAsReserved, NEW b \in Buf PROVE Sets(b)
  <2> SUFFICES ASSUME NEW item \in Chunk \ {<<>>}, NEW i \in 0 .. size[b] \div Len(item) - 1,
                      array_set(b, i, item)
               PROVE  String!Overwrite(b, i * Len(item), item)
    OBVIOUS
  <2>1. Len(item) \in Nat \ {0} /\ size[b] \in Nat
    BY <1>3, ContentType, BufferAssumption
  <2>2. size[b] \div Len(item) \in Nat
    BY <2>1, DivMod
  <2>3. i \in Nat /\ i \in 0 .. size[b] \div Len(item) /\ i < size[b] \div Len(item)
    BY <2>2
  <2>4. i * Len(item) + Len(item) <= size[b]
    BY <2>1, <2>3, ItemOffset
  <2> QED
    BY <1>3, <2>3, <2>4, SetStep
<1>4. RoomAsReserved => Called
  <2> HIDE DEF Inserts, Sizes, Sets
  <2> QED
    BY <1>1, <1>2, <1>3, ShrinkStep
<1>5. RoomAsReserved /\ [Next]_vars => [String!Next]_(String!vars)
  <2>1. UNCHANGED vars => UNCHANGED String!vars
    BY DEF vars, String!vars, Content
  <2> QED
    BY <2>1, NextListed
<1>6. Spec => String!Spec
  BY <1>5, InitRoom, RoomIsThere, PTL DEF Spec, String!Spec
<1>7. Spec => [][Called]_vars
  <2>1. RoomAsReserved /\ [Next]_vars => [Called]_vars
    BY <1>4
  <2> HIDE DEF Called
  <2> QED
    BY <2>1, RoomIsThere, PTL DEF Spec
<1> QED
  BY <1>6, <1>7, PTL DEF ImplementsByteString

=============================================================================
