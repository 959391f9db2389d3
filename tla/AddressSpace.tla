---------------------------- MODULE AddressSpace ----------------------------
(***************************************************************************)
(* What an address space is to the code that maps memory into it           *)
(* (inc/mu/pmap.h): a page is mapped to one frame with one set of rights,  *)
(* or to nothing, and mapping a page touches no other.                     *)
(***************************************************************************)
CONSTANTS
  Pages,      \* virtual pages
  Mappings    \* what callers map a page to

VARIABLE mapping   \* page -> what it is mapped to, or nothing: a set

\* The bootloader leaves mappings of its own.
Init == DOMAIN mapping = Pages

Map(v, m) == mapping' = [mapping EXCEPT ![v] = {m}]

\* Pages are unmapped at boot only: those of the lower half.
Clear(lower) == mapping' = [v \in Pages |-> IF v \in lower THEN {} ELSE mapping[v]]

Next == \/ \E v \in Pages, m \in Mappings : Map(v, m)
        \/ \E lower \in SUBSET Pages : Clear(lower)

Spec == Init /\ [][Next]_mapping
=============================================================================
