---------------------------- MODULE Conversions ----------------------------
(***************************************************************************)
(* A program that makes one conversion: it encodes or decodes, or asks a   *)
(* scalar VALUE for what it holds.                                         *)
(***************************************************************************)
EXTENDS Codecs, Scalars

Init == CodecInit /\ ScalarInit

Next ==
  \/ value = NoValue /\ CodecNext /\ UNCHANGED svars
  \/ step = "start" /\ ScalarNext /\ UNCHANGED cvars

Spec == Init /\ [][Next]_<<cvars, svars>>

=============================================================================
