------------------------------ MODULE MC_Pmap ------------------------------
(***************************************************************************)
(* Pmap with tables of two entries.                                        *)
(***************************************************************************)
EXTENDS Pmap

\* A table with one entry, and one that holds what a page of data may hold.
One(index, frame, flags) == [ZeroPage EXCEPT ![index] = [frame |-> frame, flags |-> flags]]
Junk == [i \in Index |-> [frame |-> CR3, flags |-> {"w"}]]

\* The bootloader has mapped the first page of each half through a chain of
\* tables of its own, to frame 20; the rest of memory is free.
Booted(other) ==
  [f \in Frame |->
     CASE f = 1 -> [i \in Index |-> [frame |-> IF i = 0 THEN 5 ELSE 2, flags |-> {"w"}]]
       [] f \in {2, 3, 5, 6} -> One(0, f + 1, {"w"})
       [] f \in {4, 7} -> One(0, 20, {"w", "nx"})
       [] OTHER -> other]

BootChoices == {Booted(ZeroPage), Booted(Junk)}

\* With five levels the bootloader has mapped nothing in the lower half.
FiveLevels ==
  {[f \in Frame |-> IF f = 1 THEN One(1, 2, {"w"})
                    ELSE IF f \in {2, 3, 4} THEN One(0, f + 1, {"w"})
                    ELSE IF f = 5 THEN One(0, 20, {"w", "nx"})
                    ELSE ZeroPage]}

Rights == {{"w"}, {"u", "x"}}
=============================================================================
