----------------------------- MODULE Pool_proof -----------------------------
(***************************************************************************)
(* Proofs about Pool: its lock makes the two halves of a call one step, so *)
(* the pool implements Allocator for any number of processors and any      *)
(* memory, and nothing a caller owns is lost, leaked or handed out twice.  *)
(***************************************************************************)
EXTENDS Pool, TLAPS

\* A processor is between the lock and the unlock exactly when it owns the
\* lock.
LockInv == \A c \in CPU : pc[c] \in {"read", "write", "release"} <=> lock = c

\* What a call carries at each point.
CallInv ==
  \A c \in CPU :
    /\ op[c] = "none" <=> pc[c] = "idle"
    /\ op[c] = "none" => ptr[c] = NULL
    /\ op[c] = "free" => ptr[c] # NULL
    /\ op[c] = "allocate" => length[c] \in Sizes
    /\ op[c] = "allocate" /\ pc[c] \in {"acquire", "read"} => ptr[c] = NULL

\* What a call has read is still true when it writes.
ReadInv ==
  \A c \in CPU :
    pc[c] = "write" =>
      /\ seen[c] = live
      /\ op[c] = "allocate" /\ ptr[c] # NULL => Heap!Vacant(ptr[c], length[c], live)

InFlightAt(c) ==
  /\ ptr[c] # NULL
  /\ \/ op[c] = "allocate" /\ pc[c] = "release"
     \/ op[c] = "free" /\ pc[c] \in {"acquire", "read", "write"}

\* Every area in use belongs to one call or to one owner.
FlightInv ==
  /\ \A c \in CPU : InFlightAt(c) => ptr[c] \in DOMAIN live /\ ptr[c] \notin DOMAIN owned
  /\ \A c, d \in CPU : c # d /\ InFlightAt(c) /\ InFlightAt(d) => ptr[c] # ptr[d]
  /\ \A c \in CPU : InFlightAt(c) /\ op[c] = "allocate" => live[ptr[c]] = length[c]

OwnedInv ==
  /\ \A p \in DOMAIN owned : p \in DOMAIN live /\ live[p] = owned[p]
  /\ \A p \in DOMAIN live : p \in DOMAIN owned \/ \E c \in CPU : InFlightAt(c) /\ ptr[c] = p

LiveDisjoint ==
  \A p, q \in DOMAIN live :
    p # q => Heap!Area(p, live[p]) \cap Heap!Area(q, live[q]) = {}

PoolInv == /\ TypeOK
           /\ LockInv
           /\ CallInv
           /\ ReadInv
           /\ FlightInv
           /\ OwnedInv
           /\ LiveDisjoint
-----------------------------------------------------------------------------
\* Adding an area or removing one leaves a set of areas.
LEMMA WithIsAreas ==
  ASSUME NEW used, IsAreas(used), NEW p \in Space, NEW size \in Sizes
  PROVE  /\ IsAreas(Heap!With(used, p, size))
         /\ DOMAIN Heap!With(used, p, size) = DOMAIN used \cup {p}
         /\ Heap!With(used, p, size)[p] = size
         /\ \A q \in DOMAIN used \ {p} : Heap!With(used, p, size)[q] = used[q]
  BY DEF IsAreas, Heap!With

LEMMA WithoutIsAreas ==
  ASSUME NEW used, IsAreas(used), NEW p
  PROVE  /\ IsAreas(Heap!Without(used, p))
         /\ DOMAIN Heap!Without(used, p) = DOMAIN used \ {p}
         /\ \A q \in DOMAIN used \ {p} : Heap!Without(used, p)[q] = used[q]
  BY DEF IsAreas, Heap!Without

LEMMA NothingIsAreas == IsAreas(Nothing) /\ DOMAIN Nothing = {}
  BY DEF IsAreas, Nothing

\* The properties follow from the invariant.
LEMMA PoolInvImplies ==
  PoolInv => TypeOK /\ HeapMatchesOwners /\ OwnersDisjoint
<1> SUFFICES ASSUME PoolInv PROVE HeapMatchesOwners /\ OwnersDisjoint
  BY DEF PoolInv
<1>1. \A p : p \in InFlight <=> \E c \in CPU : InFlightAt(c) /\ ptr[c] = p
  BY DEF InFlight, InFlightAt
<1>2. HeapMatchesOwners
  BY <1>1 DEF PoolInv, HeapMatchesOwners, FlightInv, OwnedInv
<1>3. OwnersDisjoint
  BY DEF PoolInv, OwnersDisjoint, OwnedInv, LiveDisjoint
<1> QED
  BY <1>2, <1>3

LEMMA InitPoolInv == Init => PoolInv
<1> SUFFICES ASSUME Init PROVE PoolInv
  OBVIOUS
<1> USE PoolAssumption DEF Init
<1>1. TypeOK
  BY NothingIsAreas DEF TypeOK
<1>2. LockInv /\ CallInv /\ ReadInv /\ FlightInv
  BY NothingIsAreas DEF LockInv, CallInv, ReadInv, FlightInv, InFlightAt
<1>3. OwnedInv /\ LiveDisjoint
  BY NothingIsAreas DEF OwnedInv, LiveDisjoint
<1> QED
  BY <1>1, <1>2, <1>3 DEF PoolInv
-----------------------------------------------------------------------------
\* The processor that owns the lock is the only one between lock and unlock.
LEMMA OneInside ==
  ASSUME PoolInv, NEW c \in CPU, NEW d \in CPU,
         pc[c] \in {"read", "write", "release"},
         pc[d] \in {"read", "write", "release"}
  PROVE  c = d
  BY DEF PoolInv, LockInv

LEMMA OsPoolInitKeeps == PoolInv /\ OsPoolInit => PoolInv'
<1> SUFFICES ASSUME PoolInv, OsPoolInit PROVE PoolInv'
  OBVIOUS
<1> USE DEF OsPoolInit
<1>1. TypeOK'
  BY DEF PoolInv, TypeOK, IsAreas
<1>2. LockInv' /\ CallInv'
  BY DEF PoolInv, LockInv, CallInv
<1>3. ReadInv'
  BY DEF PoolInv, ReadInv, Heap!Vacant, TypeOK
<1>4. FlightInv' /\ OwnedInv' /\ LiveDisjoint'
  BY DEF PoolInv, FlightInv, OwnedInv, LiveDisjoint, InFlightAt
<1> QED
  BY <1>1, <1>2, <1>3, <1>4 DEF PoolInv

LEMMA CallAllocateKeeps ==
  ASSUME PoolInv, NEW c \in CPU, NEW size \in Sizes, CallAllocate(c, size)
  PROVE  PoolInv'
<1> USE DEF CallAllocate, heapVars
<1>1. TypeOK'
  BY DEF PoolInv, TypeOK, IsAreas
<1>2. LockInv'
  BY DEF PoolInv, TypeOK, LockInv
<1>3. CallInv'
  BY DEF PoolInv, TypeOK, CallInv
<1>4. ReadInv'
  BY DEF PoolInv, TypeOK, ReadInv, Heap!Vacant
<1>5. \A d \in CPU : /\ InFlightAt(d)' <=> InFlightAt(d)
                     /\ InFlightAt(d) => d # c
  BY DEF PoolInv, TypeOK, CallInv, InFlightAt
<1>6. FlightInv' /\ OwnedInv' /\ LiveDisjoint'
  BY <1>5 DEF PoolInv, TypeOK, FlightInv, OwnedInv, LiveDisjoint
<1> QED
  BY <1>1, <1>2, <1>3, <1>4, <1>6 DEF PoolInv

LEMMA CallFreeKeeps ==
  ASSUME PoolInv, NEW c \in CPU, NEW p \in DOMAIN owned, CallFree(c, p)
  PROVE  PoolInv'
<1> USE DEF CallFree, heapVars
<1>1. /\ p \in Space /\ p # NULL
      /\ IsAreas(owned')
      /\ DOMAIN owned' = DOMAIN owned \ {p}
      /\ \A q \in DOMAIN owned \ {p} : owned'[q] = owned[q]
  <2>1. IsAreas(owned)
    BY DEF PoolInv, TypeOK
  <2>2. p \in Space
    BY <2>1 DEF IsAreas
  <2> QED
    BY <2>1, <2>2, WithoutIsAreas, PoolAssumption
<1>2. TypeOK'
  BY <1>1 DEF PoolInv, TypeOK, IsAreas
<1>3. LockInv'
  BY DEF PoolInv, TypeOK, LockInv
<1>4. CallInv'
  BY <1>1 DEF PoolInv, TypeOK, CallInv
<1>5. ReadInv'
  BY DEF PoolInv, TypeOK, ReadInv, Heap!Vacant
<1>6. /\ ~InFlightAt(c) /\ InFlightAt(c)' /\ ptr'[c] = p /\ op'[c] = "free"
      /\ \A d \in CPU \ {c} : /\ InFlightAt(d)' <=> InFlightAt(d)
                              /\ ptr'[d] = ptr[d] /\ op'[d] = op[d]
  BY <1>1 DEF PoolInv, TypeOK, CallInv, InFlightAt
<1>7. FlightInv'
  BY <1>1, <1>6 DEF PoolInv, FlightInv, OwnedInv
<1>8. OwnedInv'
  BY <1>1, <1>6 DEF PoolInv, OwnedInv
<1>9. LiveDisjoint'
  BY DEF PoolInv, LiveDisjoint
<1> QED
  BY <1>2, <1>3, <1>4, <1>5, <1>7, <1>8, <1>9 DEF PoolInv

LEMMA AcquireKeeps ==
  ASSUME PoolInv, NEW c \in CPU, Acquire(c)
  PROVE  PoolInv'
<1> USE DEF Acquire, Take, Lock!Acquire, heapVars
<1>1. TypeOK'
  BY DEF PoolInv, TypeOK, IsAreas
<1>2. LockInv'
  BY PoolAssumption DEF PoolInv, TypeOK, LockInv
<1>3. CallInv'
  BY DEF PoolInv, TypeOK, CallInv
<1>4. ReadInv'
  BY DEF PoolInv, TypeOK, ReadInv, Heap!Vacant
<1>5. \A d \in CPU : InFlightAt(d)' <=> InFlightAt(d)
  BY DEF PoolInv, TypeOK, CallInv, InFlightAt
<1>6. FlightInv' /\ OwnedInv' /\ LiveDisjoint'
  BY <1>5 DEF PoolInv, TypeOK, FlightInv, OwnedInv, LiveDisjoint
<1> QED
  BY <1>1, <1>2, <1>3, <1>4, <1>6 DEF PoolInv

LEMMA ReadKeeps ==
  ASSUME PoolInv, NEW c \in CPU, Read(c)
  PROVE  PoolInv'
<1> USE DEF Read, heapVars
<1>1. /\ ptr' \in [CPU -> Space \cup {NULL}]
      /\ \A d \in CPU \ {c} : ptr'[d] = ptr[d]
      /\ op[c] = "free" => ptr'[c] = ptr[c]
      /\ op[c] = "allocate" /\ ptr'[c] # NULL => Heap!Vacant(ptr'[c], length[c], live)
  BY DEF PoolInv, TypeOK, CallInv, Fits
<1>2. TypeOK'
  BY <1>1 DEF PoolInv, TypeOK, IsAreas
<1>3. LockInv'
  BY DEF PoolInv, TypeOK, LockInv
<1>4. CallInv'
  BY <1>1 DEF PoolInv, TypeOK, CallInv
<1>5. ReadInv'
  <2>1. \A d \in CPU : pc'[d] = "write" => d = c
    BY OneInside DEF PoolInv, TypeOK
  <2>2. seen'[c] = live /\ UNCHANGED <<live, op, length, arena>>
    BY DEF PoolInv, TypeOK
  <2> QED
    BY <1>1, <2>1, <2>2 DEF ReadInv, Heap!Vacant
<1>6. \A d \in CPU : /\ InFlightAt(d)' <=> InFlightAt(d)
                     /\ InFlightAt(d) => ptr'[d] = ptr[d]
  BY <1>1 DEF PoolInv, TypeOK, CallInv, InFlightAt
<1>7. FlightInv' /\ OwnedInv' /\ LiveDisjoint'
  BY <1>6 DEF PoolInv, TypeOK, FlightInv, OwnedInv, LiveDisjoint
<1> QED
  BY <1>2, <1>3, <1>4, <1>5, <1>7 DEF PoolInv

\* The heap after a write: the area of the call is gone, or new, or nothing
\* has changed; the other areas are as they were.
LEMMA WriteEffect ==
  ASSUME PoolInv, NEW c \in CPU, Write(c)
  PROVE  /\ IsAreas(live')
         /\ \/ /\ op[c] = "free"
               /\ live' = Heap!Without(live, ptr[c])
               /\ DOMAIN live' = DOMAIN live \ {ptr[c]}
            \/ /\ op[c] = "allocate" /\ ptr[c] = NULL
               /\ live' = live
            \/ /\ op[c] = "allocate" /\ ptr[c] # NULL
               /\ ptr[c] \in Space /\ length[c] \in Sizes
               /\ Heap!Vacant(ptr[c], length[c], live)
               /\ live' = Heap!With(live, ptr[c], length[c])
               /\ DOMAIN live' = DOMAIN live \cup {ptr[c]}
               /\ live'[ptr[c]] = length[c]
         /\ \A q \in DOMAIN live \cap DOMAIN live' : q # ptr[c] => live'[q] = live[q]
<1>1. /\ IsAreas(live)
      /\ seen[c] = live
      /\ op[c] \in {"free", "allocate"}
      /\ ptr[c] \in Space \cup {NULL}
      /\ live' = Written(c)
  BY DEF PoolInv, TypeOK, CallInv, ReadInv, Write
<1>2. CASE op[c] = "free"
  <2>1. live' = Heap!Without(live, ptr[c])
    BY <1>1, <1>2 DEF Written
  <2>2. /\ IsAreas(Heap!Without(live, ptr[c]))
        /\ DOMAIN Heap!Without(live, ptr[c]) = DOMAIN live \ {ptr[c]}
        /\ \A q \in DOMAIN live \ {ptr[c]} : Heap!Without(live, ptr[c])[q] = live[q]
    BY <1>1, WithoutIsAreas
  <2> QED
    BY <1>2, <2>1, <2>2 DEF IsAreas
<1>3. CASE op[c] = "allocate" /\ ptr[c] = NULL
  BY <1>1, <1>3 DEF Written
<1>4. CASE op[c] = "allocate" /\ ptr[c] # NULL
  <2>1. /\ ptr[c] \in Space /\ length[c] \in Sizes
        /\ Heap!Vacant(ptr[c], length[c], live)
        /\ live' = Heap!With(live, ptr[c], length[c])
    BY <1>1, <1>4 DEF Written, PoolInv, CallInv, ReadInv, Write
  <2>2. /\ IsAreas(Heap!With(live, ptr[c], length[c]))
        /\ DOMAIN Heap!With(live, ptr[c], length[c]) = DOMAIN live \cup {ptr[c]}
        /\ Heap!With(live, ptr[c], length[c])[ptr[c]] = length[c]
        /\ \A q \in DOMAIN live \ {ptr[c]} :
             Heap!With(live, ptr[c], length[c])[q] = live[q]
    BY <1>1, <2>1, WithIsAreas
  <2> QED
    BY <1>4, <2>1, <2>2 DEF IsAreas
<1> QED
  BY <1>1, <1>2, <1>3, <1>4

LEMMA WriteKeeps ==
  ASSUME PoolInv, NEW c \in CPU, Write(c)
  PROVE  PoolInv'
<1>1. /\ pc[c] = "write" /\ pc' = [pc EXCEPT ![c] = "release"]
      /\ UNCHANGED <<is_init, arena, lock, op, ptr, length, seen, owned>>
  BY DEF Write
<1>0. /\ \/ op[c] = "free" /\ DOMAIN live' = DOMAIN live \ {ptr[c]}
         \/ op[c] = "allocate" /\ ptr[c] = NULL /\ DOMAIN live' = DOMAIN live
         \/ /\ op[c] = "allocate" /\ ptr[c] # NULL
            /\ DOMAIN live' = DOMAIN live \cup {ptr[c]}
      /\ \A q \in DOMAIN live : q \in DOMAIN live' /\ q # ptr[c] => live'[q] = live[q]
  BY WriteEffect
<1>2. TypeOK'
  BY <1>1, WriteEffect DEF PoolInv, TypeOK, IsAreas
<1>3. LockInv' /\ CallInv'
  BY <1>1 DEF PoolInv, TypeOK, LockInv, CallInv
<1>4. ReadInv'
  <2>1. \A d \in CPU : pc'[d] # "write"
    BY <1>1, OneInside DEF PoolInv, TypeOK
  <2> QED
    BY <2>1 DEF ReadInv
<1>5. \A d \in CPU \ {c} : InFlightAt(d)' <=> InFlightAt(d)
  BY <1>1 DEF PoolInv, TypeOK, InFlightAt
<1>6. /\ op[c] = "free" => InFlightAt(c) /\ ~InFlightAt(c)'
      /\ op[c] = "allocate" => /\ ~InFlightAt(c)
                               /\ InFlightAt(c)' <=> ptr[c] # NULL
  BY <1>1 DEF PoolInv, TypeOK, CallInv, InFlightAt
<1>7. \A d \in CPU \ {c} : InFlightAt(d) =>
        /\ ptr[d] # ptr[c] \/ ptr[c] = NULL
        /\ ptr[d] \in DOMAIN live
        /\ op[d] # "none"
  <2> SUFFICES ASSUME NEW d \in CPU \ {c}, InFlightAt(d)
               PROVE  /\ ptr[d] # ptr[c] \/ ptr[c] = NULL
                      /\ ptr[d] \in DOMAIN live
                      /\ op[d] # "none"
    OBVIOUS
  <2>1. ptr[d] \in DOMAIN live /\ op[d] # "none"
    BY DEF PoolInv, FlightInv, InFlightAt
  <2>2. CASE op[c] = "free"
    BY <1>6, <2>1, <2>2 DEF PoolInv, FlightInv
  <2>3. CASE op[c] = "allocate" /\ ptr[c] # NULL
    BY <1>1, <2>1, <2>3 DEF PoolInv, ReadInv, Heap!Vacant
  <2> QED
    BY <1>1, <2>1, <2>2, <2>3 DEF PoolInv, TypeOK, CallInv
<1>8. \A p \in DOMAIN owned : p # ptr[c] \/ ptr[c] = NULL
  <2>1. CASE op[c] = "free"
    BY <1>6, <2>1 DEF PoolInv, FlightInv
  <2>2. CASE op[c] = "allocate" /\ ptr[c] # NULL
    BY <1>1, <2>2 DEF PoolInv, ReadInv, OwnedInv, Heap!Vacant
  <2> QED
    BY <1>1, <2>1, <2>2 DEF PoolInv, TypeOK, CallInv
<1>9. NULL \notin DOMAIN live /\ NULL \notin DOMAIN owned
  BY PoolAssumption DEF PoolInv, TypeOK, IsAreas
<1>10. FlightInv'
  <2>1. \A d \in CPU \ {c} : InFlightAt(d) => ptr[d] \in DOMAIN live'
    BY <1>7, <1>9, WriteEffect
  <2>2. InFlightAt(c)' => /\ op[c] = "allocate" /\ ptr[c] \in DOMAIN live'
                          /\ live'[ptr[c]] = length[c]
    BY <1>1, <1>6, WriteEffect DEF PoolInv, TypeOK, CallInv
  <2>3. \A d \in CPU \ {c} : InFlightAt(d) /\ op[d] = "allocate" => live'[ptr[d]] = length[d]
    BY <1>0, <1>7, <1>9, <2>1 DEF PoolInv, FlightInv
  <2> QED
    BY <1>1, <1>5, <1>7, <1>8, <1>9, <2>1, <2>2, <2>3 DEF PoolInv, FlightInv, InFlightAt
<1>11. OwnedInv'
  <2>1. \A p \in DOMAIN owned : p \in DOMAIN live' /\ live'[p] = owned[p]
    BY <1>0, <1>8, <1>9 DEF PoolInv, OwnedInv
  <2>2. \A p \in DOMAIN live' : p \in DOMAIN owned \/ \E d \in CPU : InFlightAt(d)' /\ ptr[d] = p
    BY <1>0, <1>1, <1>5, <1>6 DEF PoolInv, OwnedInv
  <2> QED
    BY <1>1, <2>1, <2>2 DEF OwnedInv
<1>12. LiveDisjoint'
  <2>1. CASE op[c] = "free" \/ live' = live
    BY <2>1, WriteEffect DEF PoolInv, LiveDisjoint
  <2>2. CASE op[c] = "allocate" /\ ptr[c] # NULL
    <3>1. \A q \in DOMAIN live : /\ q # ptr[c]
                                 /\ live'[q] = live[q]
                                 /\ Heap!Area(ptr[c], length[c]) \cap Heap!Area(q, live[q]) = {}
      BY <2>2, WriteEffect DEF Heap!Vacant
    <3>2. DOMAIN live' = DOMAIN live \cup {ptr[c]} /\ live'[ptr[c]] = length[c]
      BY <2>2, WriteEffect
    <3> QED
      BY <3>1, <3>2 DEF PoolInv, LiveDisjoint
  <2> QED
    BY <2>1, <2>2, WriteEffect
<1> QED
  BY <1>2, <1>3, <1>4, <1>10, <1>11, <1>12 DEF PoolInv

LEMMA ReleaseKeeps ==
  ASSUME PoolInv, NEW c \in CPU, Release(c)
  PROVE  PoolInv'
<1>1. /\ pc[c] = "release" /\ lock = c /\ lock' = NoCPU
      /\ pc' = [pc EXCEPT ![c] = "idle"] /\ op' = [op EXCEPT ![c] = "none"]
      /\ ptr' = [ptr EXCEPT ![c] = NULL] /\ length' = [length EXCEPT ![c] = 0]
      /\ seen' = [seen EXCEPT ![c] = Nothing]
      /\ UNCHANGED <<is_init, arena, live>>
      /\ owned' = IF op[c] = "allocate" /\ ptr[c] # NULL
                  THEN Heap!With(owned, ptr[c], length[c]) ELSE owned
  BY DEF Release, GiveBack, Lock!Release, heapVars
<1>2. IsAreas(owned)
  BY DEF PoolInv, TypeOK
<1>3. InFlightAt(c) <=> op[c] = "allocate" /\ ptr[c] # NULL
  BY <1>1 DEF PoolInv, TypeOK, InFlightAt
<1>4. /\ IsAreas(owned')
      /\ \/ /\ InFlightAt(c)
            /\ DOMAIN owned' = DOMAIN owned \cup {ptr[c]}
            /\ owned'[ptr[c]] = length[c]
            /\ \A q \in DOMAIN owned \ {ptr[c]} : owned'[q] = owned[q]
         \/ ~InFlightAt(c) /\ owned' = owned
  <2>1. CASE InFlightAt(c)
    <3>1. ptr[c] \in Space /\ length[c] \in Sizes
      BY <1>3, <2>1 DEF PoolInv, TypeOK, CallInv
    <3>2. owned' = Heap!With(owned, ptr[c], length[c])
      BY <1>1, <1>3, <2>1
    <3>3. /\ IsAreas(Heap!With(owned, ptr[c], length[c]))
          /\ DOMAIN Heap!With(owned, ptr[c], length[c]) = DOMAIN owned \cup {ptr[c]}
          /\ Heap!With(owned, ptr[c], length[c])[ptr[c]] = length[c]
          /\ \A q \in DOMAIN owned \ {ptr[c]} :
               Heap!With(owned, ptr[c], length[c])[q] = owned[q]
      BY <1>2, <3>1, WithIsAreas
    <3> QED
      BY <2>1, <3>2, <3>3 DEF IsAreas
  <2>2. CASE ~InFlightAt(c)
    BY <1>1, <1>2, <1>3, <2>2 DEF IsAreas
  <2> QED
    BY <2>1, <2>2
<1>5. TypeOK'
  BY <1>1, <1>4, NothingIsAreas DEF PoolInv, TypeOK, IsAreas
<1>6. LockInv'
  <2>1. \A d \in CPU \ {c} : pc[d] \notin {"read", "write", "release"}
    BY <1>1, OneInside
  <2> QED
    BY <1>1, <2>1, PoolAssumption DEF PoolInv, TypeOK, LockInv
<1>7. CallInv'
  BY <1>1 DEF PoolInv, TypeOK, CallInv
<1>8. ReadInv'
  BY <1>1 DEF PoolInv, TypeOK, ReadInv, Heap!Vacant
<1>9. /\ ~InFlightAt(c)'
      /\ \A d \in CPU \ {c} : /\ InFlightAt(d)' <=> InFlightAt(d)
                              /\ ptr'[d] = ptr[d] /\ op'[d] = op[d]
                              /\ length'[d] = length[d]
  BY <1>1 DEF PoolInv, TypeOK, InFlightAt
<1>10. FlightInv'
  BY <1>1, <1>4, <1>9 DEF PoolInv, FlightInv
<1>11. OwnedInv'
  <2>1. InFlightAt(c) => ptr[c] \in DOMAIN live /\ live[ptr[c]] = length[c]
    BY <1>3 DEF PoolInv, FlightInv
  <2> QED
    BY <1>1, <1>4, <1>9, <2>1 DEF PoolInv, OwnedInv
<1>12. LiveDisjoint'
  BY <1>1 DEF PoolInv, LiveDisjoint
<1> QED
  BY <1>5, <1>6, <1>7, <1>8, <1>10, <1>11, <1>12 DEF PoolInv

LEMMA NextPoolInv == PoolInv /\ [Next]_vars => PoolInv'
<1> SUFFICES ASSUME PoolInv, [Next]_vars PROVE PoolInv'
  OBVIOUS
<1>1. CASE OsPoolInit
  BY <1>1, OsPoolInitKeeps
<1>2. CASE \E c \in CPU : Step(c)
  <2> PICK c \in CPU : Step(c)
    BY <1>2
  <2> QED
    BY CallAllocateKeeps, CallFreeKeeps, AcquireKeeps, ReadKeeps, WriteKeeps,
       ReleaseKeeps DEF Step
<1>3. CASE UNCHANGED vars
  BY <1>3 DEF vars, PoolInv, TypeOK, IsAreas, LockInv, CallInv, ReadInv, FlightInv,
              OwnedInv, LiveDisjoint, InFlightAt, Heap!Vacant
<1> QED
  BY <1>1, <1>2, <1>3 DEF Next

LEMMA SpecPoolInv == Spec => []PoolInv
  BY InitPoolInv, NextPoolInv, PTL DEF Spec
-----------------------------------------------------------------------------
\* The types of os/pool.c's state hold in every reachable state.
THEOREM TypeCorrect == Spec => []TypeOK
  BY SpecPoolInv, PoolInvImplies, PTL

\* No call of os_pool_allocate or os_pool_free undoes another one, and no
\* area leaks: the heap knows exactly what callers own or are being handed.
THEOREM NothingLost == Spec => []HeapMatchesOwners
  BY SpecPoolInv, PoolInvImplies, PTL

\* os_pool_allocate hands out disjoint areas.
THEOREM Disjoint == Spec => []OwnersDisjoint
  BY SpecPoolInv, PoolInvImplies, PTL

\* Every step of the pool is a step of the heap's promise, or changes
\* neither its memory nor its areas.
LEMMA StepImplements == PoolInv /\ [Next]_vars => [Heap!Next]_Heap!AllocVars
<1> SUFFICES ASSUME PoolInv, [Next]_vars PROVE Heap!Next \/ UNCHANGED <<arena, live>>
  BY DEF Heap!AllocVars
<1>1. CASE OsPoolInit
  <2>1. Heap!Grow
    BY <1>1 DEF OsPoolInit, Heap!Grow, PoolInv, TypeOK
  <2> QED
    BY <2>1 DEF Heap!Next
<1>2. ASSUME NEW c \in CPU, Write(c)
      PROVE  Heap!Next \/ UNCHANGED <<arena, live>>
  <2>1. arena' = arena
    BY <1>2 DEF Write
  <2>2. CASE op[c] = "free"
    <3>1. ptr[c] \in DOMAIN live
      BY <1>2, <2>2 DEF Write, PoolInv, FlightInv, InFlightAt, CallInv
    <3>2. live' = Heap!Without(live, ptr[c])
      BY <1>2, <2>2, WriteEffect
    <3>3. Heap!Free(ptr[c])
      BY <2>1, <3>2 DEF Heap!Free
    <3> QED
      BY <3>1, <3>3 DEF Heap!Next
  <2>3. CASE op[c] = "allocate" /\ ptr[c] # NULL
    <3>1. /\ ptr[c] \in Space /\ length[c] \in Sizes
          /\ Heap!Vacant(ptr[c], length[c], live)
          /\ live' = Heap!With(live, ptr[c], length[c])
      BY <1>2, <2>3, WriteEffect
    <3>2. Heap!Allocate(ptr[c], length[c])
      BY <2>1, <3>1 DEF Heap!Allocate
    <3> QED
      BY <3>1, <3>2 DEF Heap!Next
  <2>4. CASE op[c] = "allocate" /\ ptr[c] = NULL
    BY <1>2, <2>1, <2>4, WriteEffect
  <2> QED
    BY <1>2, <2>2, <2>3, <2>4, WriteEffect
<1>3. CASE \E c \in CPU : Step(c)
  <2> PICK c \in CPU : Step(c)
    BY <1>3
  <2>1. Write(c) \/ UNCHANGED <<arena, live>>
    BY DEF Step, CallAllocate, CallFree, Acquire, Read, Release, heapVars
  <2> QED
    BY <1>2, <2>1
<1>4. CASE UNCHANGED vars
  BY <1>4 DEF vars
<1> QED
  BY <1>1, <1>3, <1>4 DEF Next

\* The pool implements the heap its callers are promised, for any number of
\* processors.
THEOREM Implements == Spec => ImplementsAllocator
<1>1. Init => Heap!Init
  BY DEF Init, Heap!Init, Nothing
<1>2. PoolInv /\ [Next]_vars => [Heap!Next]_Heap!AllocVars
  BY StepImplements
<1> QED
  BY <1>1, <1>2, SpecPoolInv, PTL DEF Spec, ImplementsAllocator, Heap!Spec
=============================================================================
