--------------------------- MODULE Spinlock_proof ---------------------------
(***************************************************************************)
(* Proofs about Spinlock, for any set of processors.                       *)
(*                                                                         *)
(* The inductive invariant is LockInv: the lock word is 1 exactly while    *)
(* somebody is past the exchange loop, and at most one processor is.       *)
(* Neither half is inductive alone.                                        *)
(***************************************************************************)
EXTENDS Spinlock, TLAPS

LockInv == /\ TypeOK
           /\ MutualExclusion
           /\ WordTellsHeld

\* The initial states satisfy the invariant.
LEMMA InitLockInv == Init => LockInv
BY DEF Init, LockInv, TypeOK, MutualExclusion, WordTellsHeld, Holders, Locations

\* Every step of a processor that leaves the word and the set of holders
\* alone preserves the invariant.
LEMMA NextLockInv == LockInv /\ [Next]_vars => LockInv'
<1> SUFFICES ASSUME LockInv, [Next]_vars PROVE LockInv'
  OBVIOUS
<1> USE DEF LockInv, TypeOK, MutualExclusion, WordTellsHeld, Holders, Locations
<1>1. ASSUME NEW c \in CPU, NEW mut \in BOOLEAN, Enter(c, mut) PROVE LockInv'
  <2>1. TypeOK'
    BY <1>1 DEF Enter, IrqTest, IrqSet
  <2>2. word' = word /\ Holders' = Holders
    BY <1>1 DEF Enter
  <2> QED
    BY <2>1, <2>2
<1>2. ASSUME NEW c \in CPU, Swap(c) PROVE LockInv'
  <2>1. TypeOK'
    BY <1>2 DEF Swap, AfterSwap, Stored
  <2>2. CASE word = 1
    BY <1>2, <2>1, <2>2 DEF Swap, AfterSwap, Stored
  <2>3. CASE word = 0
    <3>1. Holders' = {c}
      BY <1>2, <2>3 DEF Swap, AfterSwap, Stored
    <3>2. word' = 1
      BY <1>2 DEF Swap, Stored
    <3> QED
      BY <2>1, <3>1, <3>2
  <2> QED
    BY <2>2, <2>3
<1>3. ASSUME NEW c \in CPU, Return(c) PROVE LockInv'
  <2>1. TypeOK'
    BY <1>3 DEF Return, IrqSet, Mutates
  <2>2. word' = word /\ Holders' = Holders
    BY <1>3 DEF Return
  <2> QED
    BY <2>1, <2>2
<1>4. ASSUME NEW c \in CPU, Release(c) PROVE LockInv'
  <2>1. Holders = {c}
    BY <1>4 DEF Release
  <2>2. Holders' = {}
    BY <1>4, <2>1 DEF Release
  <2> QED
    BY <1>4, <2>2 DEF Release
<1>5. CASE UNCHANGED vars
  BY <1>5 DEF vars
<1> QED
  BY <1>1, <1>2, <1>3, <1>4, <1>5 DEF Next

\* The variables keep their types, whatever the number of processors.
THEOREM TypeCorrect == Spec => []TypeOK
<1>1. LockInv => TypeOK
  BY DEF LockInv
<1> QED
  BY InitLockInv, NextLockInv, <1>1, PTL DEF Spec

\* At most one processor is between spinlock_acquire and spinlock_release.
THEOREM Exclusion == Spec => []MutualExclusion
<1>1. LockInv => MutualExclusion
  BY DEF LockInv
<1> QED
  BY InitLockInv, NextLockInv, <1>1, PTL DEF Spec

\* The lock word is 1 exactly while a processor holds the lock.
THEOREM WordIsTrue == Spec => []WordTellsHeld
<1>1. LockInv => WordTellsHeld
  BY DEF LockInv
<1> QED
  BY InitLockInv, NextLockInv, <1>1, PTL DEF Spec
-----------------------------------------------------------------------------
\* What the interrupt flag does in spinlock_acquire is inductive by itself,
\* once a processor in the loop is known to have left it as the code says:
\* masked if it mutates, as found on entry if it does not.
IrqInv ==
  /\ TypeOK
  /\ IrqDiscipline
  /\ \A c \in CPU :
       pc[c] \in {"spin", "return"} =>
         unmasked[c] = (irq_state[c] /\ ~Mutates(irq_state[c], irqmut[c]))

\* Every step preserves it.
LEMMA NextIrqInv == IrqInv /\ [Next]_vars => IrqInv'
<1> SUFFICES ASSUME IrqInv, [Next]_vars PROVE IrqInv'
  OBVIOUS
<1> USE DEF IrqInv, TypeOK, IrqDiscipline, Locations, Mutates
<1>1. ASSUME NEW c \in CPU, NEW mut \in BOOLEAN, Enter(c, mut) PROVE IrqInv'
  BY <1>1 DEF Enter, IrqTest, IrqSet
<1>2. ASSUME NEW c \in CPU, Swap(c) PROVE IrqInv'
  BY <1>2 DEF Swap, AfterSwap, Stored
<1>3. ASSUME NEW c \in CPU, Return(c) PROVE IrqInv'
  BY <1>3 DEF Return, IrqSet
<1>4. ASSUME NEW c \in CPU, Release(c) PROVE IrqInv'
  BY <1>4 DEF Release
<1>5. CASE UNCHANGED vars
  BY <1>5 DEF vars
<1> QED
  BY <1>1, <1>2, <1>3, <1>4, <1>5 DEF Next

\* spinlock_acquire returns with the interrupt flag it found, and a caller
\* that asked for it waits with interrupts masked.
THEOREM IrqRestored == Spec => []IrqDiscipline
<1>1. Init => IrqInv
  BY DEF Init, IrqInv, TypeOK, IrqDiscipline, Locations
<1>2. IrqInv => IrqDiscipline
  BY DEF IrqInv
<1> QED
  BY <1>1, <1>2, NextIrqInv, PTL DEF Spec
-----------------------------------------------------------------------------
\* Under the invariant, a processor past the loop is the owner.
LEMMA OwnerIsHolder ==
  ASSUME LockInv
  PROVE  /\ Holders = {} => owner = NoCPU
         /\ \A c \in Holders : owner = c
BY DEF LockInv, MutualExclusion, owner, Holders

\* A step of the code is a step of the abstract lock, or changes no owner.
LEMMA StepRefines ==
  ASSUME LockInv, LockInv', [Next]_vars
  PROVE  [Lock!Next]_owner
<1>1. ASSUME NEW c \in CPU, NEW mut \in BOOLEAN, Enter(c, mut)
      PROVE  owner' = owner
  <2>1. Holders' = Holders
    BY <1>1 DEF Enter, Holders, LockInv, TypeOK
  <2> QED
    BY <2>1 DEF owner
<1>2. ASSUME NEW c \in CPU, Swap(c)
      PROVE  owner' = owner \/ Lock!Acquire(c)
  <2>1. CASE word = 0
    <3>1. Holders = {}
      BY <2>1 DEF LockInv, WordTellsHeld
    <3>2. Holders' = {c}
      BY <1>2, <2>1, <3>1 DEF Swap, AfterSwap, Stored, Holders, LockInv, TypeOK
    <3>3. owner = NoCPU
      BY <3>1 DEF owner
    <3>4. owner' = c
      BY <3>2 DEF owner, Holders
    <3> QED
      BY <3>3, <3>4 DEF Lock!Acquire
  <2>2. CASE word # 0
    <3>1. Holders' = Holders
      BY <1>2, <2>2 DEF Swap, AfterSwap, Stored, Holders, LockInv, TypeOK
    <3> QED
      BY <3>1 DEF owner
  <2> QED
    BY <2>1, <2>2
<1>3. ASSUME NEW c \in CPU, Return(c)
      PROVE  owner' = owner
  <2>1. Holders' = Holders
    BY <1>3 DEF Return, Holders, LockInv, TypeOK
  <2> QED
    BY <2>1 DEF owner
<1>4. ASSUME NEW c \in CPU, Release(c)
      PROVE  Lock!Release(c)
  <2>1. Holders = {c}
    BY <1>4 DEF Release, Holders, LockInv, MutualExclusion
  <2>2. Holders' = {}
    BY <1>4, <2>1 DEF Release, Holders, LockInv, TypeOK
  <2>3. owner = c
    BY <2>1 DEF owner, Holders
  <2>4. owner' = NoCPU
    BY <2>2 DEF owner
  <2> QED
    BY <2>3, <2>4 DEF Lock!Release
<1>5. CASE UNCHANGED vars
  BY <1>5 DEF vars, owner, Holders
<1> QED
  BY <1>1, <1>2, <1>3, <1>4, <1>5 DEF Next, Lock!Next

\* The exchange loop over one word implements the lock of AbstractLock: the
\* owner is the processor whose exchange replaced a 0.
THEOREM Refinement == Spec => ImplementsLock
<1>1. Init => Lock!Init
  BY DEF Init, Lock!Init, owner, Holders
<1> QED
  BY <1>1, InitLockInv, NextLockInv, StepRefines, PTL
     DEF Spec, ImplementsLock, Lock!Spec
=============================================================================
