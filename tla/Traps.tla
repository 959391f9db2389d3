------------------------------- MODULE Traps -------------------------------
(***************************************************************************)
(* From an exception to the halted processor: the gates and the stubs of   *)
(* arch/amd64/cpu/vector.S, trap_dispatch, panic() and the lockout of      *)
(* arch/amd64/core/panic.S, and the messages printf writes to the UART     *)
(* meanwhile.                                                              *)
(*                                                                         *)
(* A processor goes on between any two instructions of another; what it    *)
(* does alone (a stub, the formatting of a message) is one step, and each  *)
(* byte written to the UART is one.                                        *)
(***************************************************************************)
EXTENDS Format, FiniteSets

CONSTANTS
  CPU,
  Raised,         \* the vectors the processors raise
  Messages,       \* what the running kernel prints
  Reasons,        \* what it calls panic with: a format, arguments, and what they mean
  TRACE_BUFSIZE,  \* of printf
  PANIC_BUFSIZE,  \* of panic
  MAX_TRAPS       \* bound: exceptions a processor meets

\* mu_uart_write never ends for an empty string, so there is none.
ASSUME TrapsAssumption ==
  /\ Raised \subseteq 0 .. 31
  /\ \A str \in Messages \cup {reason.means : reason \in Reasons} : Len(str) > 0
  /\ TRACE_BUFSIZE \in Nat \ {0, 1} /\ PANIC_BUFSIZE \in Nat \ {0, 1}
  /\ MAX_TRAPS \in Nat

VARIABLES
  mode,        \* "kernel" or "user"
  pc,
  gs,          \* whose GS base is active
  stack,       \* the words an entry has pushed, by what they hold
  raised,      \* the vector the processor raised last
  called,      \* what panic was called with
  left,        \* what mu_uart_write has still to write
  wrote,       \* what a processor has written of its last message
  panic_sync,
  buf,         \* the static buffer of panic
  traps        \* the exceptions a processor has met

vars == <<mode, pc, gs, stack, raised, called, left, wrote, panic_sync, buf, traps>>
entry == <<gs, stack, raised, traps>>
-----------------------------------------------------------------------------
\* The stubs: the vector they pass on, and whether they expect an error code.
Stub(v, ec) == [vector |-> v, ec |-> ec]
invalid_tss == Stub(10, TRUE)

\* Mutant: the page fault shares the stub of the segment faults.
SharedGates == [v \in {0, 1, 2, 3, 4, 5, 7, 8, 11, 12, 13, 14} |-> Stub(IF v = 14 THEN 13 ELSE v, v >= 8)]

\* md_set_vectors: the gates that are set.  Vector 6 has the stub of vector 10.
Gates == [v \in (0 .. 14) \ {9} |->
            IF v = 6 THEN invalid_tss ELSE Stub(v, v \in {8, 10, 11, 12, 13, 14})]

\* What the processor delivers for a vector, and whether it pushes an error
\* code: without a gate it raises "segment not present" instead.
SegmentNotPresent == 11
Delivered(v) == IF v \in DOMAIN Gates THEN v ELSE SegmentNotPresent
HasErrorCode(v) == v \in {8, 10, 11, 12, 13, 14, 17, 21}

\* What the processor pushes, the top of the stack last.
Pushed(v) == <<"ss", "rsp", "rflags", "cs", "rip">>
             \o (IF HasErrorCode(Delivered(v)) THEN <<"error_code">> ELSE <<>>)

\* push_trapframe makes room for the error code where there is one already.
Room(stub) == IF stub.vector \in 10 .. 14 THEN <<"junk">> ELSE <<>>

Registers == <<"rax", "rbx", "rcx", "rdx", "rsi", "rdi", "rbp", "r8", "r9", "r10", "r11",
               "r12", "r13", "r14", "r15", "vector">>

push_trapframe(v) == Pushed(v) \o Room(Gates[Delivered(v)]) \o Registers

\* struct trapframe, from the lowest address.
trapframe == <<"vector", "r15", "r14", "r13", "r12", "r11", "r10", "r9", "r8", "rbp", "rdi",
               "rsi", "rbx", "rdx", "rcx", "rax", "error_code", "rip", "cs", "rflags", "rsp", "ss">>

\* What trap_dispatch finds in a field of the frame of processor c.
FieldHolds(c, field) == LET i == CHOOSE i \in DOMAIN trapframe : trapframe[i] = field
                        IN  IF i <= Len(stack[c]) THEN stack[c][Len(stack[c]) + 1 - i] ELSE "beyond"

\* KFENCE and KFENCE_EC: the word they take for CS, and whether it has one of
\* the lowest two bits set.  Bit 1 of RFLAGS is always set.
FencedWord(v) == LET pushed == Pushed(v)
                 IN  pushed[Len(pushed) - (IF Gates[Delivered(v)].ec THEN 2 ELSE 1)]
Swaps(v) == FencedWord(v) = "rflags"
-----------------------------------------------------------------------------
Nothing == [text |-> "", means |-> ""]

Init == /\ mode \in [CPU -> {"kernel", "user"}]
        /\ pc = [c \in CPU |-> "run"]
        /\ gs = mode
        /\ stack = [c \in CPU |-> <<>>]
        /\ raised = [c \in CPU |-> -1]
        /\ called = [c \in CPU |-> Nothing]
        /\ left = [c \in CPU |-> ""] /\ wrote = [c \in CPU |-> ""]
        /\ panic_sync = 0
        /\ buf = ""
        /\ traps = [c \in CPU |-> 0]

Goes(c, to) == pc' = [pc EXCEPT ![c] = to]

\* printf: the message is formatted into a buffer of its own.
Formatted(message) == vsnprintf(TRACE_BUFSIZE, message, <<>>).buf

Texts == {Formatted(message) : message \in Messages}

\* The kernel prints a message.
Printf(c, text) == /\ pc[c] = "run" /\ mode[c] = "kernel"
                   /\ Goes(c, "print")
                   /\ left' = [left EXCEPT ![c] = text]
                   /\ wrote' = [wrote EXCEPT ![c] = ""]
                   /\ UNCHANGED <<mode, entry, called, panic_sync, buf>>

\* The arguments of panic, with the text vsnprintf will make of them.
Call(fmt, args, means) == [text |-> vsnprintf(PANIC_BUFSIZE, fmt, args).buf, means |-> means]

Calls == {Call(reason.fmt, reason.args, reason.means) : reason \in Reasons}

\* It calls panic.
Panic(c, call) == /\ pc[c] = "run" /\ mode[c] = "kernel"
                  /\ Goes(c, "panic")
                  /\ called' = [called EXCEPT ![c] = call]
                  /\ UNCHANGED <<mode, entry, left, wrote, panic_sync, buf>>

FatalVector(v) == "fatal vector " \o (IF v < 16 THEN "0" ELSE "1") \o Digit(v % 16) \o "\n"
trap_dispatch(v) == Call("fatal vector %x\n", <<v>>, FatalVector(v))

\* An exception while the kernel runs: the gate's stub, and trap_dispatch.
Trap(c, v) ==
  /\ mode[c] = "kernel" /\ pc[c] # "reset"
  /\ pc[c] = "halted" => v = 2
  /\ traps[c] < MAX_TRAPS
  /\ traps' = [traps EXCEPT ![c] = @ + 1]
  /\ raised' = [raised EXCEPT ![c] = v]
  /\ stack' = [stack EXCEPT ![c] = push_trapframe(v)]
  /\ gs' = IF Swaps(v) THEN [gs EXCEPT ![c] = IF @ = "kernel" THEN "user" ELSE "kernel"] ELSE gs
  /\ Goes(c, "panic")
  /\ called' = [called EXCEPT ![c] = trap_dispatch(Gates[Delivered(v)].vector)]
  /\ UNCHANGED <<mode, left, wrote, panic_sync, buf>>

\* The same in user mode: the TSS has no stack for the kernel (its descriptor
\* has no length, and rsp0 is 0), nor for the faults that follow; the machine
\* resets.
TrapFromUser(c, v) == /\ mode[c] = "user" /\ pc[c] # "reset"
                      /\ pc' = [d \in CPU |-> "reset"]
                      /\ raised' = [raised EXCEPT ![c] = v]
                      /\ UNCHANGED <<mode, gs, stack, called, left, wrote, panic_sync, buf, traps>>

\* Mutant: the first one in does not tell the others.
Unlocked == panic_sync

Locked == 1

\* Mutant: the others wait for their turn.
Waits == "panic"

Loses == "halted"

\* mu_panic_preamble: xchg.  Nothing looks at the frame any more, nor at what
\* a processor that loses was called with.
Preamble(c) == /\ pc[c] = "panic"
               /\ panic_sync' = Locked
               /\ Goes(c, IF panic_sync = 1 THEN Loses ELSE "format")
               /\ stack' = [stack EXCEPT ![c] = <<>>] /\ raised' = [raised EXCEPT ![c] = -1]
               /\ called' = IF panic_sync = 1 THEN [called EXCEPT ![c] = Nothing] ELSE called
               /\ left' = [left EXCEPT ![c] = ""]
               /\ UNCHANGED <<mode, gs, traps, wrote, buf>>

Prefix == Formatted("panic: ")

\* panic formats the message and prints "panic: ".
FormatReason(c) == /\ pc[c] = "format"
                   /\ buf' = called[c].text
                   /\ Goes(c, "prefix")
                   /\ left' = [left EXCEPT ![c] = Prefix]
                   /\ wrote' = [wrote EXCEPT ![c] = ""]
                   /\ UNCHANGED <<mode, entry, called, panic_sync>>

\* printf("%s", buf).
Reason == printstr(TRACE_BUFSIZE, "", buf)

\* One turn of the loop of mu_uart_write, and what follows the last one.
WriteByte(c) ==
  LET rest == SubSeq(left[c], 2, Len(left[c]))
      then == CASE pc[c] = "print" -> "run" [] pc[c] = "prefix" -> "reason" [] OTHER -> "halted"
  IN  /\ pc[c] \in {"print", "prefix", "reason"}
      /\ wrote' = [wrote EXCEPT ![c] = @ \o Char(left[c], 1)]
      /\ left' = [left EXCEPT ![c] = IF rest = "" /\ pc[c] = "prefix" THEN Reason ELSE rest]
      /\ IF rest = "" THEN Goes(c, then) ELSE UNCHANGED pc
      /\ UNCHANGED <<mode, entry, called, panic_sync, buf>>

\* mu_panic_lockout: the processor is halted, and halts again when woken.
Lockout(c) == pc[c] \in {"halted", "reset"} /\ UNCHANGED vars

Proceed(c) == Preamble(c) \/ FormatReason(c) \/ WriteByte(c)

Next == \E c \in CPU : \/ \E text \in Texts : Printf(c, text)
                       \/ \E call \in Calls : Panic(c, call)
                       \/ \E v \in Raised : Trap(c, v) \/ TrapFromUser(c, v)
                       \/ Proceed(c)
                       \/ Lockout(c)

Spec == Init /\ [][Next]_vars

\* A processor goes on with what it does until it halts.
FairSpec == Spec /\ \A c \in CPU : WF_vars(Proceed(c))
-----------------------------------------------------------------------------
Reporting == {c \in CPU : pc[c] \in {"format", "prefix", "reason"}}

Least(m, n) == IF m < n THEN m ELSE n

\* What the operator is to read when processor c panics.
Report(c) == Cut("panic: ", TRACE_BUFSIZE - 1) \o Cut(called[c].means, Least(TRACE_BUFSIZE, PANIC_BUFSIZE) - 1)

\* The fields of the frame that hold what they are named for, whatever the
\* exception; rbx, rcx and rdx are not among them.
SavedFields == {"vector", "rax", "rsi", "rdi", "rbp", "r8", "r9", "r10", "r11", "r12", "r13", "r14", "r15"}

\* Every variable is of its type, and no buffer holds more than fits.
TypeOK ==
  /\ mode \in [CPU -> {"kernel", "user"}] /\ gs \in [CPU -> {"kernel", "user"}]
  /\ pc \in [CPU -> {"run", "print", "panic", "format", "prefix", "reason", "halted", "reset"}]
  /\ raised \in [CPU -> {-1} \cup Raised]
  /\ \A c \in CPU : Len(left[c]) < TRACE_BUFSIZE
  /\ Len(buf) < PANIC_BUFSIZE
  /\ panic_sync \in {0, 1}
  /\ traps \in [CPU -> 0 .. MAX_TRAPS]

\* However many processors panic, print or trap at once, what the one that
\* reports writes is its own message, with the arguments in their places,
\* whole and in order, and cut only where the buffers end.
ReportWhole ==
  \A c \in Reporting :
    /\ pc[c] = "prefix" => buf = Cut(called[c].means, PANIC_BUFSIZE - 1)
    /\ pc[c] = "reason" => wrote[c] \o left[c] = Report(c)

\* "Ensure that if another processor enters a panic condition as well, to put
\* it in a spinwait loop" (inc/mu/panic.h:39): once a processor has begun to
\* report no other ever does, and one that has halted does not begin again
\* when an NMI wakes it.
OneReport ==
  [][\A c \in CPU : c \notin Reporting /\ (c \in Reporting)' => Reporting = {} /\ buf = ""]_vars

\* An exception of the kernel with a gate of its own is reported by its own
\* number, leaves the kernel's GS base active, and saves the registers where
\* struct trapframe names them; for a double fault the whole frame is as named.
EntryRight ==
  [][\A c \in CPU : traps'[c] # traps[c] /\ raised'[c] \in 0 .. 14 \ {6, 9} =>
       /\ called'[c].means = FatalVector(raised'[c])
       /\ gs'[c] = gs[c]
       /\ \A field \in SavedFields : (FieldHolds(c, field))' = field
       /\ raised'[c] = 8 => \A field \in {"error_code", "rip", "cs", "rflags", "rsp", "ss"} :
                              (FieldHolds(c, field))' = field]_vars

\* A processor that panics halts in the end, whatever the others do, or the
\* machine resets.
PanicEnds == \A c \in CPU : pc[c] = "panic" ~> pc[c] \in {"halted", "reset"}
=============================================================================
