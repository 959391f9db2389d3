------------------------------ MODULE MC_Tlsf ------------------------------
(***************************************************************************)
(* Tlsf on pools of a few words of two bytes: first-level ranges of two    *)
(* lists each, so that blocks of several sizes share a list and a search   *)
(* has to round up.                                                        *)
(***************************************************************************)
EXTENDS Tlsf

\* Two neighbouring pools, each an address to a number of bytes.
TwoPools == [base \in {4, 36} |-> IF base = 4 THEN 32 ELSE 24]
=============================================================================
