----------------------------- MODULE MCMemStream -----------------------------
(***************************************************************************)
(* Streams for TLC: a ULONG has 2 bits and a LONGLONG 4.  The counts reach *)
(* beyond the end of any buffer and beyond a ULONG, but not the last Ulong *)
(* values of a ULARGE_INTEGER, where position plus count wraps.            *)
(***************************************************************************)
EXTENDS MemStream

MCCounts == 0 .. Quad - Ulong
=============================================================================
