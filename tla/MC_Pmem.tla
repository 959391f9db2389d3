------------------------------ MODULE MC_Pmem ------------------------------
(***************************************************************************)
(* Pmem with small memory maps.  A frame holds one byte of the bitmap, so  *)
(* that bits past the end of the bitmap lie in other frames.               *)
(***************************************************************************)
EXTENDS Pmem, TLC

CONSTANTS p1, p2, nobody

Usable(base, length) == [base |-> base, length |-> length, usable |-> TRUE]
Reserved(base, length) == [base |-> base, length |-> length, usable |-> FALSE]

MCCPU == {p1, p2}
MCNoCPU == nobody

\* One usable range; two with a hole that the bitmap still covers, where larger
\* regions are found behind a run of one frame; and two entries that make one
\* range.
CoveredMaps == {<<Usable(1, 4)>>,
                <<Reserved(0, 1), Usable(1, 1), Reserved(2, 1), Usable(3, 3)>>,
                <<Usable(1, 2), Usable(3, 2)>>}

OneRange == {<<Usable(1, 4)>>}

\* Three usable frames need one byte of bits; frames 8 and 9 have none.
HoleMaps == {<<Usable(1, 2), Reserved(3, 7), Usable(10, 1)>>}

\* States after an owner wrote over the bitmap are not explored further: all
\* but the types holds there trivially, and TypeCorrect proves the types.
Unscribbled == ~scribbled

Symmetry == Permutations(MCCPU)
=============================================================================
