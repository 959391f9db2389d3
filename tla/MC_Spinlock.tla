---------------------------- MODULE MC_Spinlock ----------------------------
(***************************************************************************)
(* Spinlock with three processors: enough for two of them to wait for one  *)
(* lock while the third holds it.                                          *)
(***************************************************************************)
EXTENDS Spinlock

CONSTANTS c1, c2, c3, nobody

MCCPU == {c1, c2, c3}
MCNoCPU == nobody
=============================================================================
