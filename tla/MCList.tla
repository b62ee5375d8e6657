------------------------------- MODULE MCList -------------------------------
(* Two lists that five nodes wander between.                               *)
EXTENDS List

=============================================================================
