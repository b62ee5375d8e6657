----------------------------- MODULE ByteString -----------------------------
(***************************************************************************)
(* What data/buffer.h promises of a buffer: a sequence of bytes.  A call   *)
(* that reports an error has changed nothing; bytes that a _raw insertion  *)
(* makes room for are of any value until the application writes them.      *)
(***************************************************************************)
EXTENDS Integers, Sequences

CONSTANTS Buf,    \* the buffers
          Byte,   \* what a byte can be
          Chunk   \* the byte sequences inserted in one call

VARIABLES content,   \* the bytes in each buffer
          ret        \* what the last call returned

vars == <<content, ret>>

Init == content = [b \in Buf |-> <<>>] /\ ret = 0

\* The first off bytes, and those behind them.
Before(b, off) == SubSeq(content[b], 1, off)
Behind(b, off) == SubSeq(content[b], off + 1, Len(content[b]))

Fail == ret' = -1 /\ UNCHANGED content

Insert(b, off, s) ==
  \/ content' = [content EXCEPT ![b] = Before(b, off) \o s \o Behind(b, off)] /\ ret' = 0
  \/ Fail

\* The application is to write the n bytes.
InsertRaw(b, off, n) == \E s \in [1 .. n -> Byte] : Insert(b, off, s)

\* Removal ends where the bytes end.
Remove(b, off, n) ==
  /\ content' = [content EXCEPT ![b] =
       IF off + n < Len(@) THEN Before(b, off) \o Behind(b, off + n) ELSE Before(b, off)]
  /\ ret' = 0

\* The bytes from off on are replaced; none are added.
Overwrite(b, off, s) ==
  /\ content' = [content EXCEPT ![b] = Before(b, off) \o s \o Behind(b, off + Len(s))]
  /\ ret' = 0

\* A capacity below the size truncates; any other leaves the bytes alone.
SetCapacity(b, n) ==
  \/ content' = [content EXCEPT ![b] = IF n < Len(@) THEN Before(b, n) ELSE @] /\ ret' = 0
  \/ Fail

\* Room is reserved, or given back, and nothing is seen of it.
Reserve == UNCHANGED content /\ ret' \in {0, -1}
Shrink == UNCHANGED content /\ ret' = 0

\* buffer_acquire takes the bytes away.
Acquire(b) == content' = [content EXCEPT ![b] = <<>>] /\ ret' = 0

Swap(a, b) ==
  /\ content' = [content EXCEPT ![a] = content[b], ![b] = content[a]]
  /\ ret' = 0

Next ==
  \/ \E b \in Buf :
       \/ \E off \in 0 .. Len(content[b]) :
            \/ \E s \in Chunk : Insert(b, off, s) \/ InsertRaw(b, off, Len(s))
            \/ \E n \in 1 .. Len(content[b]) : Remove(b, off, n)
            \/ \E s \in Chunk : off + Len(s) <= Len(content[b]) /\ Overwrite(b, off, s)
       \/ \E n \in 0 .. Len(content[b]) : SetCapacity(b, n)
       \/ Acquire(b)
       \/ \E a \in Buf : Swap(a, b)
  \/ Reserve \/ Shrink

Spec == Init /\ [][Next]_vars

=============================================================================
