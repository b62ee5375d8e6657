------------------------------ MODULE MemStream ------------------------------
(***************************************************************************)
(* The read-only IStream of win32/memstream.c.  Users of several threads   *)
(* hold references to the same streams: AddRef and Release may interleave, *)
(* and Release is two steps, because it decides from what                  *)
(* InterlockedDecrement returned.  The position is not protected, so the   *)
(* calls that use it are not made at once on one stream (Alone).           *)
(***************************************************************************)
EXTENDS Integers, FiniteSets

CONSTANTS Stream,    \* where malloc may put a MEMSTREAM; used again once freed
          Ref,       \* the places of the users' interface pointers
          NULL,
          Ulong,     \* 2^32, one more than the largest ULONG
          Quad,      \* 2^64
          Sizes,     \* the sizes of the users' buffers
          Counts     \* the counts they give to Read and CopyTo

ASSUME StreamAssumption ==
  /\ IsFiniteSet(Ref) /\ NULL \notin Stream
  /\ Ulong \in Nat \ {0} /\ Quad \in Nat /\ 2 * Ulong <= Quad /\ Quad % 2 = 0
  /\ Sizes \subseteq 0 .. Ulong - 1 /\ Counts \subseteq 0 .. Quad - 1

VARIABLES heap,   \* the streams that are malloc'ed
          obj,    \* MEMSTREAM: refs, pos, size
          on,     \* the stream a reference points to
          pc,     \* the call in progress through a reference
          local,  \* what that call keeps: refs in Release, n in CopyTo
          io      \* auxiliary: the bytes of the buffer the last call used

vars == <<heap, obj, on, pc, local, io>>

Freed == [refs |-> 0, pos |-> 0, size |-> 0]
NoBytes == [from |-> 0, n |-> 0, size |-> 0]

TypeOK ==
  /\ heap \subseteq Stream
  /\ obj \in [Stream -> [refs : Nat, pos : 0 .. Ulong - 1, size : 0 .. Ulong - 1]]
  /\ on \in [Ref -> Stream \cup {NULL}]
  /\ pc \in [Ref -> {"idle", "release", "copy"}]
  /\ local \in [Ref -> Nat]
  /\ io \in [from : Nat, n : Nat, size : Nat]

Init ==
  /\ heap = {} /\ obj = [s \in Stream |-> Freed]
  /\ on = [r \in Ref |-> NULL]
  /\ pc = [r \in Ref |-> "idle"] /\ local = [r \in Ref |-> 0]
  /\ io = NoBytes

Unused(r) == pc[r] = "idle" /\ on[r] = NULL
\* The user may call a method through r.
Ready(r) == pc[r] = "idle" /\ on[r] # NULL
\* No other thread uses the position.
Alone(r) == Ready(r) /\ \A q \in Ref : on[q] = on[r] => pc[q] # "copy"

NoCall == pc' = pc /\ local' = local
NoData == io' = NoBytes

-----------------------------------------------------------------------------
(* Making streams and references.                                          *)

\* memstream_create, with r as p_stream and the given position: malloc may fail.
Create(r, size, pos) ==
  /\ Unused(r)
  /\ \/ UNCHANGED <<heap, obj, on>>
     \/ \E s \in Stream \ heap :
          /\ heap' = heap \cup {s}
          /\ obj' = [obj EXCEPT ![s] = [refs |-> 1, pos |-> pos, size |-> size]]
          /\ on' = [on EXCEPT ![r] = s]
  /\ NoCall /\ NoData

memstream_create(r) == \E size \in Sizes : Create(r, size, 0)

\* An empty resource counts as one that is not found.
memstream_create_from_resource(r) == \E size \in Sizes \ {0} : Create(r, size, 0)

\* Faulty variant: the new stream is created and then AddRef'ed.
memstream_Clone_Twice(r, q) ==
  /\ Alone(r) /\ Unused(q)
  /\ \/ UNCHANGED <<heap, obj, on>>
     \/ \E s \in Stream \ heap :
          /\ heap' = heap \cup {s}
          /\ obj' = [obj EXCEPT ![s] = [obj[on[r]] EXCEPT !.refs = 2]]
          /\ on' = [on EXCEPT ![q] = s]
  /\ NoCall /\ NoData

memstream_Clone(r, q) ==
  Alone(r) /\ Create(q, obj[on[r]].size, obj[on[r]].pos)

\* InterlockedIncrement; q becomes another reference to the stream.
memstream_AddRef(r, q) ==
  /\ Ready(r) /\ Unused(q)
  /\ obj' = [obj EXCEPT ![on[r]].refs = @ + 1]
  /\ on' = [on EXCEPT ![q] = on[r]]
  /\ UNCHANGED heap /\ NoCall /\ NoData

Interfaces == {"IUnknown", "IDispatch", "ISequentialStream", "IStream"}
memstream_QueryInterface(r, riid, q) ==
  /\ riid \in Interfaces
  /\ memstream_AddRef(r, q)

-----------------------------------------------------------------------------
(* Release.                                                                *)

memstream_Release(r) ==
  /\ Ready(r)
  /\ obj' = [obj EXCEPT ![on[r]].refs = @ - 1]
  /\ pc' = [pc EXCEPT ![r] = "release"]
  /\ local' = [local EXCEPT ![r] = obj[on[r]].refs - 1]
  /\ UNCHANGED <<heap, on>> /\ NoData

Forget(s) == heap' = heap \ {s} /\ obj' = [obj EXCEPT ![s] = Freed]

CallEnds(r) ==
  /\ pc' = [pc EXCEPT ![r] = "idle"]
  /\ local' = [local EXCEPT ![r] = 0]

\* Faulty variant: s->refs is read again instead of the result.
ReleaseEnds_ReadsAgain(r) ==
  /\ pc[r] = "release"
  /\ IF obj[on[r]].refs = 0 THEN Forget(on[r]) ELSE UNCHANGED <<heap, obj>>
  /\ on' = [on EXCEPT ![r] = NULL]
  /\ CallEnds(r) /\ NoData

ReleaseEnds(r) ==
  /\ pc[r] = "release"
  /\ IF local[r] = 0 THEN Forget(on[r]) ELSE UNCHANGED <<heap, obj>>
  /\ on' = [on EXCEPT ![r] = NULL]
  /\ CallEnds(r) /\ NoData

-----------------------------------------------------------------------------
(* The position.                                                           *)

memstream_Read(r, count) ==
  LET s == obj[on[r]]
      n == IF count > s.size - s.pos THEN s.size - s.pos ELSE count
  IN  /\ Alone(r) /\ count < Ulong
      /\ IF s.pos >= s.size THEN UNCHANGED obj /\ NoData
         ELSE /\ io' = [from |-> s.pos, n |-> n, size |-> s.size]
              /\ obj' = [obj EXCEPT ![on[r]].pos = @ + n]
      /\ UNCHANGED <<heap, on>> /\ NoCall

\* The sum of a ULONG and a LONGLONG: past the largest LONGLONG it wraps.
Signed(x) == IF x < Quad \div 2 THEN x ELSE x - Quad
Origins == {"SET", "CUR", "END", "other"}
SeekBase(s, origin) ==
  CASE origin = "CUR" -> s.pos [] origin = "END" -> s.size [] OTHER -> 0
SeekTarget(s, delta, origin) == Signed(SeekBase(s, origin) + delta)

\* Faulty variant: only a negative position is refused.
SeekPos_Truncates(s, delta, origin) ==
  LET target == SeekTarget(s, delta, origin)
  IN  IF origin # "other" /\ target >= 0 THEN target % Ulong ELSE s.pos

SeekPos(s, delta, origin) ==
  LET target == SeekTarget(s, delta, origin)
  IN  IF origin # "other" /\ target >= 0 /\ target = target % Ulong THEN target ELSE s.pos

memstream_Seek(r, delta, origin) ==
  /\ Alone(r)
  /\ obj' = [obj EXCEPT ![on[r]].pos = SeekPos(obj[on[r]], delta, origin)]
  /\ UNCHANGED <<heap, on>> /\ NoCall /\ NoData

\* Faulty variant: a position beyond the end is not thought of.
Clamped_AtAnyPos(s, count) ==
  IF (s.pos + count) % Quad >= s.size THEN (s.size - s.pos) % Quad ELSE count

Clamped(s, count) ==
  IF (s.pos + count) % Quad < s.size THEN count
  ELSE IF s.pos < s.size THEN s.size - s.pos ELSE 0

\* IStream_Write of the other stream is called.
memstream_CopyTo(r, count) ==
  LET s == obj[on[r]]
      n == Clamped(s, count) % Ulong
  IN  /\ Alone(r)
      /\ pc' = [pc EXCEPT ![r] = "copy"]
      /\ local' = [local EXCEPT ![r] = n]
      /\ io' = [from |-> s.pos, n |-> n, size |-> s.size]
      /\ UNCHANGED <<heap, obj, on>>

\* It has failed, or written some of the bytes.
CopyEnds(r) ==
  /\ pc[r] = "copy"
  /\ \/ UNCHANGED obj
     \/ \E written \in 0 .. local[r] :
          obj' = [obj EXCEPT ![on[r]].pos = (@ + written) % Ulong]
  /\ CallEnds(r) /\ UNCHANGED <<heap, on>> /\ NoData

-----------------------------------------------------------------------------
Deltas == -(Quad \div 2) .. Quad \div 2 - 1

UserCalls(r) ==
  \/ memstream_create(r) \/ memstream_create_from_resource(r)
  \/ \E q \in Ref : memstream_Clone(r, q) \/ memstream_AddRef(r, q)
  \/ \E q \in Ref, riid \in Interfaces : memstream_QueryInterface(r, riid, q)
  \/ memstream_Release(r)
  \/ \E n \in Counts : memstream_Read(r, n) \/ memstream_CopyTo(r, n)
  \/ \E delta \in Deltas, origin \in Origins : memstream_Seek(r, delta, origin)

Next == \E r \in Ref : UserCalls(r) \/ ReleaseEnds(r) \/ CopyEnds(r)

\* A call that was entered runs on.
Fairness == \A r \in Ref : WF_vars(ReleaseEnds(r)) /\ WF_vars(CopyEnds(r))

Spec == Init /\ [][Next]_vars /\ Fairness

-----------------------------------------------------------------------------
(* Properties.                                                             *)

\* A reference counts until its Release has decremented refs.
Holders(s) == {r \in Ref : on[r] = s /\ pc[r] # "release"}
LastOut(r) == pc[r] = "release" /\ local[r] = 0

\* refs is the number of references, whatever order the threads take their
\* steps in: no stream is freed under a reference, and at most one Release sees
\* zero, while the stream is still there for it to free.
RefsCounted ==
  /\ \A s \in heap : obj[s].refs = Cardinality(Holders(s))
  /\ \A s \in Stream : Holders(s) # {} => s \in heap
  /\ \A r \in Ref : LastOut(r) => /\ on[r] \in heap /\ Holders(on[r]) = {}
                                  /\ \A q \in Ref : LastOut(q) /\ on[q] = on[r] => q = r

\* Read and CopyTo use bytes of the buffer only, also after a Seek beyond its
\* end, for counts that do not wrap when the position is added.
AccessInside == io.n > 0 => io.from + io.n <= io.size

\* Seek, which adds in 64 bits what it keeps in 32, moves to the position asked
\* for if there is one, and else not at all.
SeeksExactly ==
  \A r \in Ref, delta \in Deltas, origin \in Origins \ {"other"} :
    Ready(r) =>
      LET s == obj[on[r]]
          target == SeekBase(s, origin) + delta
      IN  SeekPos(s, delta, origin) = IF target \in 0 .. Ulong - 1 THEN target ELSE s.pos

\* A stream nobody refers to any more is freed.
LastReleaseFrees ==
  \A s \in Stream : s \in heap /\ Holders(s) = {} ~> s \notin heap

=============================================================================
