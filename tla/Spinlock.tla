------------------------------ MODULE Spinlock ------------------------------
(***************************************************************************)
(* The kernel's only synchronisation primitive: a test-and-set lock over   *)
(* one word (core/spinlock.c), built on an atomic exchange                 *)
(* (arch/amd64/core/aswap.S) and on the interrupt flag of the processor    *)
(* (arch/amd64/cpu/prim.S).  One lock, any number of processors.           *)
(*                                                                         *)
(* A step is an access to the lock word, or what a processor does between  *)
(* two of them: reading and writing its own interrupt flag is not seen by  *)
(* the others.                                                             *)
(***************************************************************************)
EXTENDS Integers

CONSTANTS
  CPU,     \* the processors that contend for the lock
  NoCPU    \* used by the refinement mapping only

ASSUME CPUAssumption == NoCPU \notin CPU

VARIABLES
  word,        \* *lock: 0 free, 1 taken
  unmasked,    \* RFLAGS.IF of each processor
  irq_state,   \* the local of spinlock_acquire: was it unmasked on entry?
  irqmut,      \* the argument of spinlock_acquire
  pc           \* where each processor is

vars == <<word, unmasked, irq_state, irqmut, pc>>

\* Code outside the lock, the exchange loop, the return path, the critical
\* section.
Locations == {"outside", "spin", "return", "critical"}

Init == /\ word = 0
        /\ unmasked \in [CPU -> BOOLEAN]
        /\ irq_state = [c \in CPU |-> FALSE]
        /\ irqmut = [c \in CPU |-> FALSE]
        /\ pc = [c \in CPU |-> "outside"]

-----------------------------------------------------------------------------
\* mu_cpu_irqtest and mu_cpu_irqset on the processor that runs them.
IrqTest(c) == unmasked[c]

IrqSet(c, mask) == unmasked' = [unmasked EXCEPT ![c] = ~mask]

\* Mutant: the flag found on entry is not looked at.
MutatesUnconditionally(was, mut) == mut

\* Both conditionals of spinlock_acquire: the flag is touched only when the
\* caller asked for it and it was set on entry.
Mutates(was, mut) == was /\ mut

\* spinlock_acquire up to its loop.  No caller passes a NULL lock, for which
\* the function would return at once.
Enter(c, mut) ==
  /\ pc[c] = "outside"
  /\ irq_state' = [irq_state EXCEPT ![c] = IrqTest(c)]
  /\ irqmut' = [irqmut EXCEPT ![c] = mut]
  /\ IF Mutates(IrqTest(c), mut) THEN IrqSet(c, TRUE) ELSE UNCHANGED unmasked
  /\ pc' = [pc EXCEPT ![c] = "spin"]
  /\ UNCHANGED word

\* Mutant: every exchange succeeds.
AlwaysReturns(old) == "return"

\* while (mu_aswap(lock, 1)): the exchange always stores 1; the loop is left
\* when what it replaced was 0.
AfterSwap(old) == IF old = 0 THEN "return" ELSE "spin"

\* Mutant: a counter instead of an exchange.
Incremented(old) == old + 1

Stored(old) == 1

Swap(c) ==
  /\ pc[c] = "spin"
  /\ word' = Stored(word)
  /\ pc' = [pc EXCEPT ![c] = AfterSwap(word)]
  /\ UNCHANGED <<unmasked, irq_state, irqmut>>

\* The rest of spinlock_acquire: the flag is set again BEFORE the critical
\* section, so the mask covers the wait for the lock and not its use.
Return(c) ==
  /\ pc[c] = "return"
  /\ IF Mutates(irq_state[c], irqmut[c])
     THEN IrqSet(c, FALSE)
     ELSE UNCHANGED unmasked
  /\ pc' = [pc EXCEPT ![c] = "critical"]
  /\ UNCHANGED <<word, irq_state, irqmut>>

\* Mutant: the word is not cleared.
ReleaseWithoutClearing(c) ==
  /\ pc[c] = "critical"
  /\ pc' = [pc EXCEPT ![c] = "outside"]
  /\ UNCHANGED <<word, unmasked, irq_state, irqmut>>

\* spinlock_release, called by whoever acquired the lock.
Release(c) ==
  /\ pc[c] = "critical"
  /\ word' = 0
  /\ pc' = [pc EXCEPT ![c] = "outside"]
  /\ UNCHANGED <<unmasked, irq_state, irqmut>>

Next == \E c \in CPU : \/ \E mut \in BOOLEAN : Enter(c, mut)
                       \/ Swap(c)
                       \/ Return(c)
                       \/ Release(c)

\* A processor inside the lock's code, or inside a critical section, keeps
\* executing instructions; nothing obliges it to enter.
Fairness == \A c \in CPU : WF_vars(Swap(c) \/ Return(c) \/ Release(c))

Spec == Init /\ [][Next]_vars

FairSpec == Spec /\ Fairness
-----------------------------------------------------------------------------
\* The processors between the exchange that took the lock and its release.
Holders == {c \in CPU : pc[c] \in {"return", "critical"}}

TypeOK == /\ word \in {0, 1}
          /\ unmasked \in [CPU -> BOOLEAN]
          /\ irq_state \in [CPU -> BOOLEAN]
          /\ irqmut \in [CPU -> BOOLEAN]
          /\ pc \in [CPU -> Locations]

\* At most one processor is past the exchange loop (core/spinlock.c:49), so
\* the code between acquire and release runs alone.
MutualExclusion == \A c, d \in Holders : c = d

\* The lock word tells the truth: it is 1 exactly while somebody holds the
\* lock, although every failed exchange of a waiting processor writes it.
WordTellsHeld == (word = 1) <=> (Holders # {})

\* spinlock_acquire gives back the interrupt flag it found, whatever the
\* other processors did meanwhile, and a processor that asked for it waits
\* with its interrupts masked.
IrqDiscipline ==
  \A c \in CPU :
    /\ pc[c] = "critical" => unmasked[c] = irq_state[c]
    /\ pc[c] \in {"spin", "return"} /\ irqmut[c] => ~unmasked[c]

\* While a processor waits in the exchange loop the lock keeps being taken:
\* its word does not stay free for ever.  (Which processor gets it is not
\* promised: a test-and-set lock may starve one.)
SomebodyGetsIt == (\E c \in CPU : pc[c] = "spin") ~> (Holders # {})

-----------------------------------------------------------------------------
\* Spinlock implements AbstractLock: the owner is the processor past the
\* exchange loop.
owner == IF Holders = {} THEN NoCPU ELSE CHOOSE c \in CPU : c \in Holders

Lock == INSTANCE AbstractLock

ImplementsLock == Lock!Spec
=============================================================================
