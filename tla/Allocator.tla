----------------------------- MODULE Allocator -----------------------------
(***************************************************************************)
(* What a heap promises its callers: the areas it has handed out lie in    *)
(* the memory it was given and never overlap.  An area keeps its place     *)
(* until its owner gives it back or asks for another size.  The heap may   *)
(* refuse any request.                                                     *)
(***************************************************************************)
EXTENDS Integers

CONSTANTS
  Space,   \* the addresses the heap may be given
  Sizes    \* the sizes callers ask for

VARIABLES
  arena,   \* the addresses the heap has been given
  live     \* the areas handed out: from start address to size

AllocVars == <<arena, live>>

Area(p, size) == p .. p + size - 1

Init == arena = {} /\ live = [p \in {} |-> 0]

\* An area that overlaps none in use.
Vacant(p, size, used) ==
  /\ Area(p, size) \subseteq arena
  /\ \A q \in DOMAIN used : /\ p # q
                            /\ Area(p, size) \cap Area(q, used[q]) = {}

With(used, p, size) == [q \in DOMAIN used \cup {p} |-> IF q = p THEN size ELSE used[q]]

Without(used, p) == [q \in DOMAIN used \ {p} |-> used[q]]

Allocate(p, size) == /\ Vacant(p, size, live)
                     /\ live' = With(live, p, size)
                     /\ UNCHANGED arena

Free(p) == /\ live' = Without(live, p)
           /\ UNCHANGED arena

\* A new size at the same place.
Resize(p, size) == /\ Vacant(p, size, Without(live, p))
                   /\ live' = With(live, p, size)
                   /\ UNCHANGED arena

\* A new size at another place; the contents are copied, so the two areas do
\* not overlap.
Move(p, q, size) == /\ Vacant(q, size, live)
                    /\ live' = With(Without(live, p), q, size)
                    /\ UNCHANGED arena

\* The heap is given memory, or gives back memory nobody uses.
Grow == /\ arena' \in SUBSET Space
        /\ arena \subseteq arena'
        /\ UNCHANGED live

Shrink == /\ arena' \in SUBSET arena
          /\ \A p \in DOMAIN live : Area(p, live[p]) \subseteq arena'
          /\ UNCHANGED live

Next == \/ \E p \in Space, size \in Sizes : Allocate(p, size)
        \/ \E p \in DOMAIN live :
             \/ Free(p)
             \/ \E size \in Sizes : Resize(p, size)
             \/ \E q \in Space, size \in Sizes : Move(p, q, size)
        \/ Grow
        \/ Shrink

Spec == Init /\ [][Next]_AllocVars
=============================================================================
