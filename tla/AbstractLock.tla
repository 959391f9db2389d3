---------------------------- MODULE AbstractLock ----------------------------
(***************************************************************************)
(* What a lock of the kernel promises its callers (inc/core/spinlock.h):   *)
(* at any time at most one processor owns it, a processor becomes its      *)
(* owner only when nobody is, and only the owner gives it up.  Spinlock    *)
(* implements this specification; the modules whose code takes a lock use  *)
(* its Acquire and Release as the lock operations.                         *)
(***************************************************************************)
CONSTANTS
  CPU,     \* the processors
  NoCPU    \* the owner of a lock nobody holds; not a processor

VARIABLE owner

Init == owner = NoCPU

Acquire(c) == /\ owner = NoCPU
              /\ owner' = c

Release(c) == /\ owner = c
              /\ owner' = NoCPU

Next == \E c \in CPU : Acquire(c) \/ Release(c)

Spec == Init /\ [][Next]_owner
=============================================================================
