-------------------------------- MODULE Pool --------------------------------
(***************************************************************************)
(* The kernel's root pool (os/pool.c): the heap that every kernel object   *)
(* comes from, behind one spinlock.                                        *)
(*                                                                         *)
(* The heap (Tlsf) is seen through what it promises (Allocator): a call    *)
(* reads its lists, chooses, and writes them back.  The two halves of a    *)
(* call are steps of their own, so that a call that another one interrupts *)
(* writes back what it read before.  The lock is AbstractLock.             *)
(***************************************************************************)
EXTENDS Integers

CONSTANTS
  CPU, NoCPU,   \* the processors, and the owner of a free lock
  Space,        \* the addresses of the pool that can be handed out
  Sizes,        \* the sizes callers ask for
  NULL          \* no area

ASSUME PoolAssumption == /\ NoCPU \notin CPU
                         /\ Space \subseteq Int
                         /\ Sizes \subseteq Nat \ {0}
                         /\ NULL \notin Space

VARIABLES
  is_init,  \* has os_pool_init run?
  arena,    \* the memory of tlsf_ctx
  live,     \* the used blocks of tlsf_ctx: address -> size asked for
  lock,     \* the owner of the lock
  pc,       \* where each processor is
  op,       \* the call it makes: "allocate" or "free"
  ptr,      \* the area it is about to return, or was given to free
  length,   \* the length it was asked for
  seen,     \* the used blocks as its call of the heap read them
  owned     \* the callers' view: areas they got and have not freed

heapVars == <<is_init, arena, live>>
vars == <<is_init, arena, live, lock, pc, op, ptr, length, seen, owned>>

Lock == INSTANCE AbstractLock WITH owner <- lock
Heap == INSTANCE Allocator

Nothing == [p \in {} |-> 0]

Init == /\ is_init = FALSE
        /\ arena = {}
        /\ live = Nothing
        /\ lock = NoCPU
        /\ pc = [c \in CPU |-> "idle"]
        /\ op = [c \in CPU |-> "none"]
        /\ ptr = [c \in CPU |-> NULL]
        /\ length = [c \in CPU |-> 0]
        /\ seen = [c \in CPU |-> Nothing]
        /\ owned = Nothing

\* os_pool_init, called by kmain before any object exists.  When there is no
\* memory for the pool the kernel panics, and nothing happens after it.
OsPoolInit == /\ ~is_init
              /\ is_init' = TRUE
              /\ arena' = Space
              /\ UNCHANGED <<live, lock, pc, op, ptr, length, seen, owned>>

CallAllocate(c, size) ==
  /\ is_init
  /\ pc[c] = "idle"
  /\ pc' = [pc EXCEPT ![c] = "acquire"]
  /\ op' = [op EXCEPT ![c] = "allocate"]
  /\ length' = [length EXCEPT ![c] = size]
  /\ UNCHANGED <<heapVars, lock, ptr, seen, owned>>

\* The caller gives up the area when it calls.
CallFree(c, p) ==
  /\ pc[c] = "idle"
  /\ pc' = [pc EXCEPT ![c] = "acquire"]
  /\ op' = [op EXCEPT ![c] = "free"]
  /\ ptr' = [ptr EXCEPT ![c] = p]
  /\ owned' = Heap!Without(owned, p)
  /\ UNCHANGED <<heapVars, lock, length, seen>>

\* Mutant: the call does not wait for the lock.
TakeUnasked(c) == lock' = c

Take(c) == Lock!Acquire(c)

Acquire(c) == /\ pc[c] = "acquire"
              /\ Take(c)
              /\ pc' = [pc EXCEPT ![c] = "read"]
              /\ UNCHANGED <<heapVars, op, ptr, length, seen, owned>>

\* tlsf_malloc can use p.
Fits(p, size, used) == Heap!Vacant(p, size, used)

\* tlsf_malloc and tlsf_free read the heap; tlsf_malloc may find nothing.
Read(c) ==
  /\ pc[c] = "read"
  /\ seen' = [seen EXCEPT ![c] = live]
  /\ \/ op[c] = "free" /\ UNCHANGED ptr
     \/ op[c] = "allocate" /\ \E p \in Space : /\ Fits(p, length[c], live)
                                               /\ ptr' = [ptr EXCEPT ![c] = p]
     \/ op[c] = "allocate" /\ ptr' = [ptr EXCEPT ![c] = NULL]
  /\ pc' = [pc EXCEPT ![c] = "write"]
  /\ UNCHANGED <<heapVars, lock, op, length, owned>>

\* Mutant: a failed search is not noticed.
WrittenUnchecked(c) == IF op[c] = "free" THEN Heap!Without(seen[c], ptr[c])
                       ELSE Heap!With(seen[c], ptr[c], length[c])

\* Mutant: a freed block stays marked as used.
WrittenWithoutFree(c) == IF op[c] = "free" \/ ptr[c] = NULL THEN seen[c]
                         ELSE Heap!With(seen[c], ptr[c], length[c])

\* The heap as the call leaves it.
Written(c) == IF op[c] = "free" THEN Heap!Without(seen[c], ptr[c])
              ELSE IF ptr[c] = NULL THEN seen[c]
              ELSE Heap!With(seen[c], ptr[c], length[c])

Write(c) == /\ pc[c] = "write"
            /\ live' = Written(c)
            /\ pc' = [pc EXCEPT ![c] = "release"]
            /\ UNCHANGED <<is_init, arena, lock, op, ptr, length, seen, owned>>

\* Mutant: a return without spinlock_release.
KeepLock(c) == UNCHANGED lock

GiveBack(c) == Lock!Release(c)

\* The lock is given back and the caller of os_pool_allocate has its area,
\* or NULL.
Release(c) ==
  /\ pc[c] = "release"
  /\ GiveBack(c)
  /\ owned' = IF op[c] = "allocate" /\ ptr[c] # NULL
              THEN Heap!With(owned, ptr[c], length[c]) ELSE owned
  /\ pc' = [pc EXCEPT ![c] = "idle"]
  /\ op' = [op EXCEPT ![c] = "none"]
  /\ ptr' = [ptr EXCEPT ![c] = NULL]
  /\ length' = [length EXCEPT ![c] = 0]
  /\ seen' = [seen EXCEPT ![c] = Nothing]
  /\ UNCHANGED heapVars

Step(c) == \/ \E size \in Sizes : CallAllocate(c, size)
           \/ \E p \in DOMAIN owned : CallFree(c, p)
           \/ Acquire(c)
           \/ Read(c)
           \/ Write(c)
           \/ Release(c)

Next == OsPoolInit \/ \E c \in CPU : Step(c)

\* A processor runs on; it may have to wait for the lock.
Fairness == \A c \in CPU : WF_vars(Acquire(c) \/ Read(c) \/ Write(c) \/ Release(c))

Spec == Init /\ [][Next]_vars

FairSpec == Spec /\ Fairness
-----------------------------------------------------------------------------
\* Sets of areas: a function from some addresses to sizes.
IsAreas(areas) == /\ DOMAIN areas \subseteq Space
                  /\ areas = [p \in DOMAIN areas |-> areas[p]]
                  /\ \A p \in DOMAIN areas : areas[p] \in Sizes

TypeOK ==
  /\ is_init \in BOOLEAN
  /\ arena \in {{}, Space}
  /\ IsAreas(live)
  /\ lock \in CPU \cup {NoCPU}
  /\ pc \in [CPU -> {"idle", "acquire", "read", "write", "release"}]
  /\ op \in [CPU -> {"none", "allocate", "free"}]
  /\ ptr \in [CPU -> Space \cup {NULL}]
  /\ length \in [CPU -> Sizes \cup {0}]
  /\ DOMAIN seen = CPU /\ \A c \in CPU : IsAreas(seen[c])
  /\ IsAreas(owned)

\* Areas the heap keeps for a call that has not returned: about to be
\* returned by os_pool_allocate, or still to be freed by os_pool_free.
InFlight ==
  {ptr[c] : c \in {d \in CPU :
    ptr[d] # NULL /\ \/ op[d] = "allocate" /\ pc[d] = "release"
                     \/ op[d] = "free" /\ pc[d] \in {"acquire", "read", "write"}}}

\* What callers own is in use in the heap at the size they asked for, and
\* nothing else is but what a running call returns or frees: no call undoes
\* another one's, and nothing leaks.
HeapMatchesOwners ==
  /\ DOMAIN owned \cap InFlight = {}
  /\ DOMAIN live = DOMAIN owned \cup InFlight
  /\ \A p \in DOMAIN owned : live[p] = owned[p]

\* Whatever the processors do, the heap's areas change as Allocator allows:
\* no area in use is handed out, and one call changes one area.
ImplementsAllocator == Heap!Spec

\* os_pool_allocate never returns an area that overlaps one somebody owns.
OwnersDisjoint ==
  \A p, q \in DOMAIN owned :
    p # q => Heap!Area(p, owned[p]) \cap Heap!Area(q, owned[q]) = {}

\* Calls do not block each other for good: when every processor is in a call,
\* one of them returns.
SomeCallReturns ==
  (\A c \in CPU : pc[c] # "idle") ~> (\E c \in CPU : pc[c] = "idle")
=============================================================================
