----------------------------- MODULE MC_Objects -----------------------------
(***************************************************************************)
(* Objects in a pool of six cells: the root, a directory and two nodes in  *)
(* either, or the root and four nodes; and two names, so that two nodes of *)
(* one directory may have the same.                                        *)
(***************************************************************************)
EXTENDS Objects, TLC

CONSTANTS a1, a2, a3, a4, a5, a6

Cells == {a1, a2, a3, a4, a5, a6}

Symmetry == Permutations(Cells)
=============================================================================
