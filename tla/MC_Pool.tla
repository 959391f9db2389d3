------------------------------ MODULE MC_Pool ------------------------------
(***************************************************************************)
(* Pool with processors as model values.                                   *)
(***************************************************************************)
EXTENDS Pool

CONSTANTS c1, c2, c3

Processors == {c1, c2, c3}
=============================================================================
