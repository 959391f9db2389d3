----------------------------- MODULE Traps_proof -----------------------------
(***************************************************************************)
(* What panicking and trapping guarantee for any number of processors, any *)
(* exceptions and any number of them.                                      *)
(***************************************************************************)
EXTENDS Traps, SequenceTheorems, TLAPS

Places == {"run", "print", "panic", "format", "prefix", "reason", "halted", "reset"}

\* The lock of the panic is taken by the first processor that panics, and
\* nothing of a report is there before.
LockInv ==
  /\ pc \in [CPU -> Places]
  /\ panic_sync \in {0, 1}
  /\ panic_sync = 0 => Reporting = {} /\ buf = ""
-----------------------------------------------------------------------------
LEMMA LockInitially == Init => LockInv
BY DEF Init, LockInv, Places, Reporting

LEMMA LockKept == LockInv /\ [Next]_vars => LockInv'
<1> SUFFICES ASSUME LockInv, [Next]_vars PROVE LockInv'
  OBVIOUS
<1> USE DEF LockInv, Places, Reporting
<1>1. ASSUME NEW c \in CPU, NEW text \in Texts, Printf(c, text) PROVE LockInv'
  BY <1>1 DEF Printf, Goes
<1>2. ASSUME NEW c \in CPU, NEW call \in Calls, Panic(c, call) PROVE LockInv'
  BY <1>2 DEF Panic, Goes
<1>3. ASSUME NEW c \in CPU, NEW v \in Raised, Trap(c, v) PROVE LockInv'
  BY <1>3 DEF Trap, Goes
<1>4. ASSUME NEW c \in CPU, NEW v \in Raised, TrapFromUser(c, v) PROVE LockInv'
  BY <1>4 DEF TrapFromUser
<1>5. ASSUME NEW c \in CPU, Preamble(c) PROVE LockInv'
  BY <1>5 DEF Preamble, Goes, Locked, Loses
<1>6. ASSUME NEW c \in CPU, FormatReason(c) PROVE LockInv'
  BY <1>6 DEF FormatReason, Goes
<1>7. ASSUME NEW c \in CPU, WriteByte(c) PROVE LockInv'
  BY <1>7 DEF WriteByte, Goes
<1>8. CASE UNCHANGED vars
  BY <1>8 DEF vars
<1> QED  BY <1>1, <1>2, <1>3, <1>4, <1>5, <1>6, <1>7, <1>8 DEF Next, Proceed, Lockout

\* One processor at most ever begins to report, for any number of processors
\* that panic, trap and are woken by NMIs (mu_panic_preamble and mu_panic_lockout,
\* arch/amd64/core/panic.S): it found the lock free, and so nobody reporting and
\* panic's static buffer unused.
THEOREM OneReportHolds == Spec => OneReport
<1>1. ASSUME LockInv, [Next]_vars,
             NEW c \in CPU, c \notin Reporting, c \in Reporting'
      PROVE  Reporting = {} /\ buf = ""
  <2> USE <1>1 DEF LockInv, Places, Reporting
  <2>1. ASSUME NEW d \in CPU, Preamble(d) PROVE panic_sync = 0
    BY <2>1 DEF Preamble, Goes, Loses
  <2>2. ASSUME NEW d \in CPU, NEW text \in Texts, Printf(d, text) PROVE FALSE
    BY <2>2 DEF Printf, Goes
  <2>3. ASSUME NEW d \in CPU, NEW call \in Calls, Panic(d, call) PROVE FALSE
    BY <2>3 DEF Panic, Goes
  <2>4. ASSUME NEW d \in CPU, NEW v \in Raised, Trap(d, v) \/ TrapFromUser(d, v) PROVE FALSE
    BY <2>4 DEF Trap, TrapFromUser, Goes
  <2>5. ASSUME NEW d \in CPU, FormatReason(d) \/ WriteByte(d) PROVE FALSE
    BY <2>5 DEF FormatReason, WriteByte, Goes
  <2>6. CASE UNCHANGED vars
    BY <2>6 DEF vars
  <2> QED  BY <2>1, <2>2, <2>3, <2>4, <2>5, <2>6 DEF Next, Proceed, Lockout
<1>2. LockInv /\ [Next]_vars
        => [\A c \in CPU : c \notin Reporting /\ (c \in Reporting)' => Reporting = {} /\ buf = ""]_vars
  BY <1>1
<1> QED  BY <1>2, LockInitially, LockKept, PTL DEF Spec, OneReport
-----------------------------------------------------------------------------
(* The frame of an exception. *)

Words == {"rax", "rbx", "rcx", "rdx", "rsi", "rdi", "rbp", "r8", "r9", "r10", "r11", "r12",
          "r13", "r14", "r15", "vector", "ss", "rsp", "rflags", "cs", "rip", "error_code", "junk"}

LEMMA RegisterWords == Registers \in Seq(Words) /\ Len(Registers) = 16
<1>1. \A i \in 1 .. 16 : Registers[i] \in Words
  BY DEF Registers, Words
<1> QED  BY <1>1 DEF Registers, Words

LEMMA FieldNames ==
  /\ DOMAIN trapframe = 1 .. 22
  /\ \A i, j \in 1 .. 22 : trapframe[i] = trapframe[j] => i = j
BY DEF trapframe

LEMMA FieldPlace ==
  ASSUME NEW i \in 1 .. 22
  PROVE  (CHOOSE j \in DOMAIN trapframe : trapframe[j] = trapframe[i]) = i
BY FieldNames

\* What a joined sequence holds.
LEMMA Joined ==
  ASSUME NEW S, NEW s \in Seq(S), NEW t \in Seq(S)
  PROVE  /\ s \o t \in Seq(S) /\ Len(s \o t) = Len(s) + Len(t) /\ Len(s) \in Nat /\ Len(t) \in Nat
         /\ \A i \in 1 .. Len(s) : (s \o t)[i] = s[i]
         /\ \A j \in 1 .. Len(t) : (s \o t)[Len(s) + j] = t[j]
OBVIOUS

\* The words the processor pushes, without and with an error code.
Five == <<"ss", "rsp", "rflags", "cs", "rip">>

LEMMA FiveWords == Five \in Seq(Words)
<1>1. \A i \in 1 .. 5 : Five[i] \in Words
  BY DEF Five, Words
<1> QED  BY <1>1 DEF Five

LEMMA PushedWords ==
  ASSUME NEW v
  PROVE  /\ Pushed(v) \in Seq(Words)
         /\ Len(Pushed(v)) = IF HasErrorCode(Delivered(v)) THEN 6 ELSE 5
         /\ \A i \in 1 .. 5 : Pushed(v)[i] = Five[i]
         /\ HasErrorCode(Delivered(v)) => Pushed(v)[6] = "error_code"
<1>1. Len(Five) = 5
  BY DEF Five
<1>2. ASSUME NEW code \in Seq(Words), Pushed(v) = Five \o code
      PROVE  /\ Pushed(v) \in Seq(Words)
             /\ Len(Pushed(v)) = Len(Five) + Len(code)
             /\ \A i \in 1 .. Len(Five) : Pushed(v)[i] = Five[i]
             /\ \A i \in 1 .. Len(code) : Pushed(v)[Len(Five) + i] = code[i]
  BY <1>2, FiveWords, Joined
<1>3. CASE HasErrorCode(Delivered(v))
  <2> DEFINE code == <<"error_code">>
  <2>1. code \in Seq(Words)
    BY DEF Words
  <2>2. Len(code) = 1 /\ code[1] = "error_code"
    OBVIOUS
  <2>3. Pushed(v) = Five \o code
    BY <1>3 DEF Pushed, Five
  <2> HIDE DEF code
  <2>4. /\ Pushed(v) \in Seq(Words)
        /\ Len(Pushed(v)) = Len(Five) + Len(code)
        /\ \A i \in 1 .. Len(Five) : Pushed(v)[i] = Five[i]
        /\ \A i \in 1 .. Len(code) : Pushed(v)[Len(Five) + i] = code[i]
    BY <1>2, <2>1, <2>3
  <2>5. 1 \in 1 .. Len(code) /\ Len(Five) + 1 = 6
    BY <1>1, <2>2
  <2>6. Pushed(v)[6] = "error_code"
    BY <2>2, <2>4, <2>5
  <2> QED  BY <1>1, <1>3, <2>2, <2>4, <2>6
<1>4. CASE ~HasErrorCode(Delivered(v))
  <2> DEFINE code == <<>>
  <2>1. code \in Seq(Words)
    OBVIOUS
  <2>2. Len(code) = 0
    OBVIOUS
  <2>3. Pushed(v) = Five \o code
    BY <1>4 DEF Pushed, Five
  <2> HIDE DEF code
  <2>4. /\ Pushed(v) \in Seq(Words)
        /\ Len(Pushed(v)) = Len(Five) + Len(code)
        /\ \A i \in 1 .. Len(Five) : Pushed(v)[i] = Five[i]
    BY <1>2, <2>1, <2>3
  <2> QED  BY <1>1, <1>4, <2>2, <2>4
<1> QED  BY <1>3, <1>4

LEMMA RoomWords == ASSUME NEW stub PROVE Room(stub) \in Seq(Words)
<1>1. <<"junk">> \in Seq(Words)
  BY DEF Words
<1>2. <<>> \in Seq(Words)
  OBVIOUS
<1>3. CASE stub.vector \in 10 .. 14
  BY <1>1, <1>3 DEF Room
<1>4. CASE ~(stub.vector \in 10 .. 14)
  BY <1>2, <1>4 DEF Room
<1> QED  BY <1>3, <1>4

\* The registers are saved last.
LEMMA SavedLast ==
  ASSUME NEW v, NEW i \in 1 .. 16
  PROVE  /\ i <= Len(push_trapframe(v))
         /\ push_trapframe(v)[Len(push_trapframe(v)) + 1 - i] = Registers[17 - i]
<1> DEFINE first == Pushed(v)
           room == Room(Gates[Delivered(v)])
           before == first \o room
           frame == before \o Registers
<1>1. first \in Seq(Words) /\ room \in Seq(Words)
  BY PushedWords, RoomWords
<1>2. push_trapframe(v) = frame
  BY DEF push_trapframe
<1> HIDE DEF first, room
<1>3. before \in Seq(Words)
  BY <1>1, Joined
<1> HIDE DEF before
<1>4. Registers \in Seq(Words)
  BY RegisterWords
<1>5. /\ Len(frame) = Len(before) + Len(Registers)
      /\ \A j \in 1 .. Len(Registers) : frame[Len(before) + j] = Registers[j]
      /\ Len(before) \in Nat
  BY <1>3, <1>4, Joined
<1> HIDE DEF frame
<1>6. Len(Registers) = 16
  BY RegisterWords
<1>7. /\ 17 - i \in 1 .. Len(Registers) /\ Len(frame) \in Nat
      /\ Len(before) + (17 - i) = Len(frame) + 1 - i /\ i <= Len(frame)
  <2>1. Len(frame) = Len(before) + 16 /\ Len(before) \in Nat
    BY <1>5, <1>6
  <2>2. 17 - i \in 1 .. 16 /\ Len(before) + (17 - i) = (Len(before) + 16) + 1 - i
    BY <2>1
  <2> QED  BY <1>6, <2>1, <2>2
<1>8. frame[Len(before) + (17 - i)] = Registers[17 - i]
  BY <1>5, <1>7
<1> QED  BY <1>2, <1>7, <1>8

LEMMA RegisterFields ==
  \A field \in SavedFields : \E i \in 1 .. 16 : trapframe[i] = field /\ Registers[17 - i] = field
BY DEF SavedFields, trapframe, Registers

\* After a double fault the words the processor pushed are in their fields too.
LEMMA DoubleFaultFields ==
  \A field \in {"error_code", "rip", "cs", "rflags", "rsp", "ss"} :
    \E i \in 17 .. 22 : /\ trapframe[i] = field
                        /\ i <= Len(push_trapframe(8))
                        /\ push_trapframe(8)[Len(push_trapframe(8)) + 1 - i] = field
<1>1. Delivered(8) = 8 /\ HasErrorCode(8)
  <2>1. 8 \in DOMAIN Gates
    BY DEF Gates
  <2> QED  BY <2>1 DEF Delivered, HasErrorCode
<1>2. Gates[8].vector = 8
  BY DEF Gates, Stub
<1> DEFINE pushed == Pushed(8)
           room == Room(Gates[Delivered(8)])
<1>3. /\ pushed \in Seq(Words) /\ Len(pushed) = 6 /\ pushed[6] = "error_code"
      /\ \A i \in 1 .. 5 : pushed[i] = Five[i]
  BY <1>1, PushedWords
<1>4. room = <<>>
  BY <1>1, <1>2 DEF Room
<1> DEFINE before == pushed \o room
           frame == before \o Registers
<1>5. push_trapframe(8) = frame
  BY DEF push_trapframe
<1>6. pushed \in Seq(Words) /\ room \in Seq(Words) /\ Registers \in Seq(Words)
  BY <1>3, RoomWords, RegisterWords
<1>7. Len(Registers) = 16 /\ Len(room) = 0
  BY <1>4, RegisterWords
<1> HIDE DEF pushed, room
<1>8. /\ before \in Seq(Words) /\ Len(before) = Len(pushed) + Len(room)
      /\ \A j \in 1 .. Len(pushed) : before[j] = pushed[j]
  BY <1>6, Joined
<1>9. before \in Seq(Words)
  BY <1>8
<1> HIDE DEF before
<1>10. /\ Len(frame) = Len(before) + Len(Registers)
       /\ \A j \in 1 .. Len(before) : frame[j] = before[j]
  BY <1>6, <1>9, Joined
<1> HIDE DEF frame
<1>11. Len(before) = 6 /\ Len(frame) = 22
  BY <1>3, <1>7, <1>8, <1>10
<1>12. \A j \in 1 .. 6 : frame[j] = pushed[j]
  BY <1>3, <1>8, <1>10, <1>11
<1>13. /\ trapframe[17] = pushed[6] /\ trapframe[18] = pushed[5] /\ trapframe[19] = pushed[4]
       /\ trapframe[20] = pushed[3] /\ trapframe[21] = pushed[2] /\ trapframe[22] = pushed[1]
  BY <1>3 DEF trapframe, Five
<1>14. \A i \in 17 .. 22 : trapframe[i] = pushed[23 - i]
  <2> TAKE i \in 17 .. 22
  <2>1. i = 17 \/ i = 18 \/ i = 19 \/ i = 20 \/ i = 21 \/ i = 22
    OBVIOUS
  <2> QED  BY <1>13, <2>1
<1>15. \A field \in {"error_code", "rip", "cs", "rflags", "rsp", "ss"} :
        \E i \in 17 .. 22 : trapframe[i] = field
  BY DEF trapframe
<1>16. \A i \in 17 .. 22 : i <= Len(frame) /\ frame[Len(frame) + 1 - i] = trapframe[i]
  <2> TAKE i \in 17 .. 22
  <2>1. 23 - i \in 1 .. 6 /\ Len(frame) + 1 - i = 23 - i /\ i <= Len(frame)
    BY <1>11
  <2> QED  BY <1>12, <1>14, <2>1
<1> QED  BY <1>5, <1>15, <1>16

\* The fences of a vector with a gate of its own take CS for CS.
LEMMA NoSwap ==
  ASSUME NEW v \in (0 .. 14) \ {6, 9}
  PROVE  ~Swaps(v) /\ Gates[Delivered(v)].vector = v
<1> DEFINE ec == v \in {8, 10, 11, 12, 13, 14}
<1>1. Delivered(v) = v /\ Gates[v] = Stub(v, ec)
  BY DEF Delivered, Gates
<1>2. Gates[v].vector = v /\ Gates[v].ec = ec
  BY <1>1 DEF Stub
<1>3. HasErrorCode(v) <=> ec
  BY DEF HasErrorCode
<1>4. Pushed(v)[4] = "cs"
  BY PushedWords DEF Five
<1>5. CASE ec
  <2>1. Len(Pushed(v)) = 6
    BY <1>1, <1>3, <1>5, PushedWords
  <2>2. Gates[Delivered(v)].ec
    BY <1>1, <1>2, <1>5
  <2> QED  BY <1>1, <1>2, <1>4, <2>1, <2>2 DEF Swaps, FencedWord
<1>6. CASE ~ec
  <2>1. Len(Pushed(v)) = 5
    BY <1>1, <1>3, <1>6, PushedWords
  <2>2. ~Gates[Delivered(v)].ec
    BY <1>1, <1>2, <1>6
  <2> QED  BY <1>1, <1>2, <1>4, <2>1, <2>2 DEF Swaps, FencedWord
<1> QED  BY <1>5, <1>6
-----------------------------------------------------------------------------
\* What the proof about an entry needs of the variables: their domain is the
\* processors, and gs is of its type.
ByProcessor ==
  /\ raised = [c \in CPU |-> raised[c]]
  /\ called = [c \in CPU |-> called[c]]
  /\ stack = [c \in CPU |-> stack[c]]
  /\ traps = [c \in CPU |-> traps[c]]

LEMMA ByProcessorInitially == Init => ByProcessor
BY DEF Init, ByProcessor

LEMMA ByProcessorKept == ByProcessor /\ [Next]_vars => ByProcessor'
<1> SUFFICES ASSUME ByProcessor, [Next]_vars PROVE ByProcessor'
  OBVIOUS
<1> USE DEF ByProcessor
<1>1. ASSUME NEW c \in CPU, NEW text \in Texts, Printf(c, text) PROVE ByProcessor'
  BY <1>1 DEF Printf, entry
<1>2. ASSUME NEW c \in CPU, NEW call \in Calls, Panic(c, call) PROVE ByProcessor'
  BY <1>2 DEF Panic, entry
<1>3. ASSUME NEW c \in CPU, NEW v \in Raised, Trap(c, v) PROVE ByProcessor'
  BY <1>3 DEF Trap
<1>4. ASSUME NEW c \in CPU, NEW v \in Raised, TrapFromUser(c, v) PROVE ByProcessor'
  BY <1>4 DEF TrapFromUser
<1>5. ASSUME NEW c \in CPU, Preamble(c) PROVE ByProcessor'
  BY <1>5 DEF Preamble
<1>6. ASSUME NEW c \in CPU, FormatReason(c) PROVE ByProcessor'
  BY <1>6 DEF FormatReason, entry
<1>7. ASSUME NEW c \in CPU, WriteByte(c) PROVE ByProcessor'
  BY <1>7 DEF WriteByte, entry
<1>8. CASE UNCHANGED vars
  BY <1>8 DEF vars
<1> QED  BY <1>1, <1>2, <1>3, <1>4, <1>5, <1>6, <1>7, <1>8 DEF Next, Proceed, Lockout

LEMMA Dispatched == ASSUME NEW v PROVE trap_dispatch(v).means = FatalVector(v)
<1>1. \A text, means : [text |-> text, means |-> means].means = means
  OBVIOUS
<1> QED  BY <1>1 DEF trap_dispatch, Call

\* A step by which a processor meets another exception is that exception's.
LEMMA EntryStep ==
  ASSUME ByProcessor, [Next]_vars, NEW c \in CPU, traps'[c] # traps[c]
  PROVE  /\ Trap(c, raised'[c])
         /\ stack'[c] = push_trapframe(raised'[c])
         /\ called'[c] = trap_dispatch(Gates[Delivered(raised'[c])].vector)
<1> USE DEF ByProcessor
<1>1. ASSUME NEW d \in CPU, NEW v \in Raised, Trap(d, v)
      PROVE  d = c /\ raised'[c] = v
  <2>1. d = c
    BY <1>1 DEF Trap
  <2> QED  BY <1>1, <2>1 DEF Trap
<1>2. ASSUME NEW d \in CPU, NEW v \in Raised, Trap(d, v)
      PROVE  Trap(c, raised'[c])
  BY <1>1, <1>2
<1>3. ASSUME NEW d \in CPU, NEW text \in Texts, Printf(d, text) PROVE FALSE
  BY <1>3 DEF Printf, entry
<1>4. ASSUME NEW d \in CPU, NEW call \in Calls, Panic(d, call) PROVE FALSE
  BY <1>4 DEF Panic, entry
<1>5. ASSUME NEW d \in CPU, NEW v \in Raised, TrapFromUser(d, v) PROVE FALSE
  BY <1>5 DEF TrapFromUser
<1>6. ASSUME NEW d \in CPU, Proceed(d) PROVE FALSE
  BY <1>6 DEF Proceed, Preamble, FormatReason, WriteByte, entry
<1>7. ~UNCHANGED vars
  BY DEF vars
<1>8. Trap(c, raised'[c])
  BY <1>2, <1>3, <1>4, <1>5, <1>6, <1>7 DEF Next, Lockout
<1> QED  BY <1>8 DEF Trap

\* An exception of the kernel is reported by its own number, keeps the GS base
\* of the kernel and finds its registers where struct trapframe has them, and a
\* double fault finds the whole frame there (the stubs of
\* arch/amd64/cpu/vector.S and trap_dispatch): for every vector with a gate of
\* its own, whatever the other processors do.
THEOREM EntryRightHolds == Spec => EntryRight
<1>1. ASSUME ByProcessor, [Next]_vars,
             NEW c \in CPU, traps'[c] # traps[c], raised'[c] \in 0 .. 14 \ {6, 9}
      PROVE  /\ called'[c].means = FatalVector(raised'[c])
             /\ gs'[c] = gs[c]
             /\ \A field \in SavedFields : (FieldHolds(c, field))' = field
             /\ raised'[c] = 8 => \A field \in {"error_code", "rip", "cs", "rflags", "rsp", "ss"} :
                                    (FieldHolds(c, field))' = field
  <2> DEFINE v == raised'[c]
             frame == push_trapframe(v)
  <2>1. Trap(c, v) /\ stack'[c] = frame /\ called'[c] = trap_dispatch(Gates[Delivered(v)].vector)
    BY <1>1, EntryStep
  <2>2. ~Swaps(v) /\ Gates[Delivered(v)].vector = v
    BY <1>1, NoSwap
  <2>3. called'[c].means = FatalVector(v)
    BY <2>1, <2>2, Dispatched
  <2>4. gs'[c] = gs[c]
    BY <2>1, <2>2 DEF Trap
  <2>5. ASSUME NEW field \in SavedFields
        PROVE  (FieldHolds(c, field))' = field
    <3>1. PICK i \in 1 .. 16 : trapframe[i] = field /\ Registers[17 - i] = field
      BY RegisterFields
    <3>2. i <= Len(frame) /\ frame[Len(frame) + 1 - i] = field
      BY <3>1, SavedLast
    <3>3. (CHOOSE j \in DOMAIN trapframe : trapframe[j] = field) = i
      BY <3>1, FieldPlace
    <3> QED  BY <2>1, <3>2, <3>3 DEF FieldHolds
  <2>6. ASSUME v = 8, NEW field \in {"error_code", "rip", "cs", "rflags", "rsp", "ss"}
        PROVE  (FieldHolds(c, field))' = field
    <3>1. PICK i \in 17 .. 22 : /\ trapframe[i] = field
                                /\ i <= Len(frame)
                                /\ frame[Len(frame) + 1 - i] = field
      <4>1. frame = push_trapframe(8)
        BY <2>6
      <4> HIDE DEF frame
      <4> QED  BY <4>1, DoubleFaultFields
    <3>2. (CHOOSE j \in DOMAIN trapframe : trapframe[j] = field) = i
      <4>1. i \in 1 .. 22
        OBVIOUS
      <4>2. trapframe[i] = field
        BY <3>1
      <4>3. (CHOOSE j \in DOMAIN trapframe : trapframe[j] = trapframe[i]) = i
        BY <4>1, FieldPlace
      <4> QED  BY <4>2, <4>3
    <3> QED  BY <2>1, <3>1, <3>2 DEF FieldHolds
  <2> QED  BY <2>3, <2>4, <2>5, <2>6
<1>2. ByProcessor /\ [Next]_vars
        => [\A c \in CPU : traps'[c] # traps[c] /\ raised'[c] \in 0 .. 14 \ {6, 9} =>
              /\ called'[c].means = FatalVector(raised'[c])
              /\ gs'[c] = gs[c]
              /\ \A field \in SavedFields : (FieldHolds(c, field))' = field
              /\ raised'[c] = 8 => \A field \in {"error_code", "rip", "cs", "rflags", "rsp", "ss"} :
                                     (FieldHolds(c, field))' = field]_vars
  BY <1>1
<1> QED  BY <1>2, ByProcessorInitially, ByProcessorKept, PTL DEF Spec, EntryRight
-----------------------------------------------------------------------------
(* What is cut from a text and what is written of it. *)

LEMMA CutType ==
  ASSUME NEW C, NEW s \in Seq(C), NEW n \in Nat
  PROVE  /\ Cut(s, n) \in Seq(C)
         /\ Len(Cut(s, n)) = IF n < Len(s) THEN n ELSE Len(s)
<1> DEFINE k == IF n < Len(s) THEN n ELSE Len(s)
<1>1. Len(s) \in Nat
  BY LenProperties
<1>2. k \in Nat /\ k <= Len(s)
  BY <1>1
<1>3. \A i \in 1 .. k : s[i] \in C
  BY <1>1, <1>2, ElementOfSeq
<1>4. Cut(s, n) = SubSeq(s, 1, k)
  BY DEF Cut
<1> HIDE DEF k
<1>5. SubSeq(s, 1, k) \in Seq(C) /\ Len(SubSeq(s, 1, k)) = IF 1 <= k THEN k - 1 + 1 ELSE 0
  BY <1>2, <1>3, SubSeqProperties
<1>6. Len(SubSeq(s, 1, k)) = k
  BY <1>2, <1>5
<1> QED  BY <1>4, <1>5, <1>6 DEF k

\* A text cut twice is cut to the shorter length.
LEMMA CutTwice ==
  ASSUME NEW C, NEW s \in Seq(C), s # <<>>, NEW m \in Nat \ {0}, NEW n \in Nat \ {0}
  PROVE  Cut(Cut(s, m), n) = Cut(s, IF n < m THEN n ELSE m)
<1> DEFINE j == IF m < Len(s) THEN m ELSE Len(s)
           k == IF n < j THEN n ELSE j
<1>1. Len(s) \in Nat \ {0}
  BY EmptySeq
<1>2. j \in 1 .. Len(s) /\ k \in 1 .. j /\ 1 \in 1 .. Len(s)
  BY <1>1
<1>3. Cut(s, m) = SubSeq(s, 1, j) /\ Len(Cut(s, m)) = j
  BY CutType DEF Cut
<1>4. Cut(Cut(s, m), n) = SubSeq(SubSeq(s, 1, j), 1, k)
  BY <1>3 DEF Cut
<1>5. k = IF (IF n < m THEN n ELSE m) < Len(s) THEN (IF n < m THEN n ELSE m) ELSE Len(s)
  BY <1>1
<1> HIDE DEF j, k
<1>6. SubSeq(SubSeq(s, 1, j), 1, k) = SubSeq(s, 1, k)
  <2>1. 1 \in 1 .. j - 1 + 1 /\ k \in 1 .. j - 1 + 1 /\ 1 + 1 - 1 = 1 /\ 1 + k - 1 = k
    BY <1>1, <1>2
  <2>2. SubSeq(SubSeq(s, 1, j), 1, k) = SubSeq(s, 1 + 1 - 1, 1 + k - 1)
    BY <1>2, <2>1, SubSeqOfSubSeq
  <2> QED  BY <2>1, <2>2
<1> QED  BY <1>4, <1>5, <1>6 DEF Cut

LEMMA FirstChar ==
  ASSUME NEW C, NEW s \in Seq(C), s # <<>>
  PROVE  Char(s, 1) = SubSeq(s, 1, 1) /\ Char(s, 1) \in Seq(C)
<1>1. Len(s) \in Nat \ {0}
  BY EmptySeq
<1>2. Char(s, 1) = SubSeq(s, 1, 1)
  <2>1. ~ (1 > Len(s))
    BY <1>1
  <2> QED  BY <2>1, Zenon DEF Char
<1>3. SubSeq(s, 1, 1) \in Seq(C)
  <2>1. \A i \in 1 .. 1 : s[i] \in C
    BY <1>1, ElementOfSeq
  <2> QED  BY <2>1, SubSeqProperties
<1> QED  BY <1>2, <1>3

LEMMA RestType ==
  ASSUME NEW C, NEW s \in Seq(C), s # <<>>
  PROVE  /\ SubSeq(s, 2, Len(s)) \in Seq(C)
         /\ Len(SubSeq(s, 2, Len(s))) = Len(s) - 1
<1> DEFINE rest == SubSeq(s, 2, Len(s))
           n == Len(s)
<1>1. n \in Nat \ {0}
  BY EmptySeq
<1>2. rest \in Seq(C) /\ Len(rest) = IF 2 <= n THEN n - 2 + 1 ELSE 0
  <2>1. \A i \in 2 .. Len(s) : s[i] \in C
    BY <1>1, ElementOfSeq
  <2> QED  BY <1>1, <2>1, SubSeqProperties
<1> HIDE DEF rest, n
<1>3. Len(rest) = n - 1
  BY <1>1, <1>2
<1> QED  BY <1>2, <1>3 DEF rest, n

\* Writing the first character of a text leaves the others.
LEMMA FirstWritten ==
  ASSUME NEW C, NEW w \in Seq(C), NEW s \in Seq(C), s # <<>>
  PROVE  (w \o Char(s, 1)) \o SubSeq(s, 2, Len(s)) = w \o s
<1>1. Len(s) \in Nat \ {0}
  BY EmptySeq
<1>2. SubSeq(s, 1, 1) \o SubSeq(s, 2, Len(s)) = s
  <2>1. 1 \in 1 .. Len(s) + 1 /\ 1 \in 1 - 1 .. Len(s) /\ Len(s) \in 1 .. Len(s)
    BY <1>1
  <2>2. SubSeq(s, 1, 1) \o SubSeq(s, 1 + 1, Len(s)) = SubSeq(s, 1, Len(s))
    BY <2>1, ConcatAdjacentSubSeq
  <2> QED  BY <2>2, SubSeqFull
<1> DEFINE rest == SubSeq(s, 2, Len(s))
<1>3. (w \o Char(s, 1)) \o rest = w \o (Char(s, 1) \o rest)
  <2>1. Char(s, 1) \in Seq(C) /\ rest \in Seq(C)
    BY FirstChar, RestType
  <2> HIDE DEF rest
  <2> QED  BY <2>1, ConcatAssociative
<1>4. Char(s, 1) = SubSeq(s, 1, 1)
  BY FirstChar
<1> QED  BY <1>2, <1>3, <1>4

LEMMA LongerWritten ==
  ASSUME NEW C, NEW w \in Seq(C), NEW s \in Seq(C), s # <<>>
  PROVE  w \o Char(s, 1) \in Seq(C)
BY FirstChar, ConcatProperties
-----------------------------------------------------------------------------
(* The report. *)

\* What panic is called with, by the kernel and by trap_dispatch.
AllCalls == Calls \cup {trap_dispatch(Gates[Delivered(v)].vector) : v \in Raised}

\* What the theorems about texts ask of the texts in use: they are sequences of
\* characters, and vsnprintf makes of each what it means, as far as it fits.
TextsRight(Character) ==
  /\ "" = <<>>
  /\ \A text \in Texts : text \in Seq(Character) \ {<<>>} /\ Len(text) < TRACE_BUFSIZE
  /\ "panic: " \in Seq(Character) \ {<<>>}
  /\ Prefix = Cut("panic: ", TRACE_BUFSIZE - 1)
  /\ \A call \in AllCalls : /\ call.means \in Seq(Character) \ {<<>>}
                            /\ call.text = Cut(call.means, PANIC_BUFSIZE - 1)

\* The variables that hold no text have their types.
KindsInv ==
  /\ mode \in [CPU -> {"kernel", "user"}] /\ gs \in [CPU -> {"kernel", "user"}]
  /\ pc \in [CPU -> Places]
  /\ raised \in [CPU -> {-1} \cup Raised]
  /\ panic_sync \in {0, 1}
  /\ traps \in [CPU -> 0 .. MAX_TRAPS]
  /\ DOMAIN called = CPU /\ DOMAIN left = CPU /\ DOMAIN wrote = CPU

\* Who is on the way to report has an argument of panic, and who writes has
\* something to write; it fits its buffer.
WriterInv(Character, c) ==
  /\ left[c] \in Seq(Character) /\ wrote[c] \in Seq(Character)
  /\ Len(left[c]) < TRACE_BUFSIZE
  /\ pc[c] \in {"panic", "format", "prefix", "reason"} => called[c] \in AllCalls
  /\ pc[c] \in {"print", "prefix", "reason"} => left[c] # <<>>

\* panic's buffer is filled before anything of it is written.
BufferInv(Character) ==
  /\ buf \in Seq(Character) /\ Len(buf) < PANIC_BUFSIZE
  /\ (\E c \in CPU : pc[c] = "prefix") => buf # <<>>

TextInv(Character) ==
  /\ KindsInv
  /\ \A c \in CPU : WriterInv(Character, c)
  /\ BufferInv(Character)

LEMMA CutText ==
  ASSUME NEW C, NEW s \in Seq(C), s # <<>>, NEW n \in Nat \ {0, 1}
  PROVE  Cut(s, n - 1) \in Seq(C) /\ Cut(s, n - 1) # <<>> /\ Len(Cut(s, n - 1)) < n
<1>1. Len(s) \in Nat \ {0} /\ n - 1 \in Nat
  BY EmptySeq
<1> DEFINE cut == Cut(s, n - 1)
<1>2. cut \in Seq(C) /\ Len(cut) = IF n - 1 < Len(s) THEN n - 1 ELSE Len(s)
  BY <1>1, CutType
<1> HIDE DEF cut
<1>3. Len(cut) < n /\ Len(cut) # 0
  <2> DEFINE k == Len(s)
  <2>1. k \in Nat \ {0} /\ Len(cut) = IF n - 1 < k THEN n - 1 ELSE k
    BY <1>1, <1>2
  <2> HIDE DEF k
  <2> QED  BY <2>1
<1>4. cut # <<>>
  BY <1>3, EmptySeq
<1> QED  BY <1>2, <1>3, <1>4 DEF cut

\* The texts of a call and of the prefix fit their buffers and are not empty.
LEMMA CallText ==
  ASSUME NEW C, TextsRight(C), NEW call \in AllCalls
  PROVE  /\ call.text \in Seq(C) /\ call.text # <<>> /\ Len(call.text) < PANIC_BUFSIZE
         /\ Cut(call.text, TRACE_BUFSIZE - 1) \in Seq(C) /\ Cut(call.text, TRACE_BUFSIZE - 1) # <<>>
         /\ Len(Cut(call.text, TRACE_BUFSIZE - 1)) < TRACE_BUFSIZE
<1>1. call.means \in Seq(C) /\ call.means # <<>> /\ call.text = Cut(call.means, PANIC_BUFSIZE - 1)
  BY DEF TextsRight
<1>2. TRACE_BUFSIZE \in Nat \ {0, 1} /\ PANIC_BUFSIZE \in Nat \ {0, 1}
  BY TrapsAssumption
<1>3. call.text \in Seq(C) /\ call.text # <<>> /\ Len(call.text) < PANIC_BUFSIZE
  BY <1>1, <1>2, CutText
<1> QED  BY <1>2, <1>3, CutText

LEMMA PrefixText ==
  ASSUME NEW C, TextsRight(C)
  PROVE  Prefix \in Seq(C) /\ Prefix # <<>> /\ Len(Prefix) < TRACE_BUFSIZE
BY TrapsAssumption, CutText DEF TextsRight

LEMMA ReasonText ==
  ASSUME NEW C, TextsRight(C), buf \in Seq(C)
  PROVE  Reason = Cut(buf, TRACE_BUFSIZE - 1)
<1>1. "" \o buf = buf
  BY ConcatEmptySeq DEF TextsRight
<1> QED  BY <1>1 DEF Reason, printstr

LEMMA TextInitially == ASSUME NEW C, TextsRight(C), Init PROVE TextInv(C)
<1>1. "" = <<>>
  BY DEF TextsRight
<1>2. "" \in Seq(C) /\ Len("") = 0
  <2>1. <<>> \in Seq(C) /\ Len(<<>>) = 0
    BY EmptySeq
  <2> QED  BY <1>1, <2>1, Zenon
<1>3. KindsInv
  <2>1. /\ mode \in [CPU -> {"kernel", "user"}] /\ gs \in [CPU -> {"kernel", "user"}]
        /\ pc \in [CPU -> Places]
        /\ raised \in [CPU -> {-1} \cup Raised]
        /\ panic_sync \in {0, 1}
        /\ DOMAIN called = CPU /\ DOMAIN left = CPU /\ DOMAIN wrote = CPU
    BY DEF Init, Places
  <2>2. traps \in [CPU -> 0 .. MAX_TRAPS]
    <3>1. 0 \in 0 .. MAX_TRAPS
      BY TrapsAssumption
    <3>2. traps = [c \in CPU |-> 0]
      BY DEF Init
    <3> QED  BY <3>1, <3>2
  <2> QED  BY <2>1, <2>2 DEF KindsInv
<1>4. ASSUME NEW c \in CPU PROVE WriterInv(C, c)
  <2>1. left[c] = "" /\ wrote[c] = "" /\ pc[c] = "run"
    BY DEF Init
  <2>2. Len(left[c]) < TRACE_BUFSIZE
    <3>1. Len(left[c]) = 0
      BY <1>2, <2>1, Zenon
    <3> QED  BY <3>1, TrapsAssumption
  <2>3. left[c] \in Seq(C) /\ wrote[c] \in Seq(C)
    BY <1>2, <2>1, Zenon
  <2> QED  BY <2>1, <2>2, <2>3, Zenon DEF WriterInv
<1>5. BufferInv(C)
  <2>1. buf = "" /\ \A c \in CPU : pc[c] = "run"
    BY DEF Init
  <2>2. buf \in Seq(C) /\ Len(buf) = 0
    BY <1>2, <2>1, Zenon
  <2>3. Len(buf) < PANIC_BUFSIZE
    BY <2>2, TrapsAssumption
  <2> QED  BY <2>1, <2>2, <2>3 DEF BufferInv
<1> QED  BY <1>3, <1>4, <1>5 DEF TextInv

LEMMA KindsKept == KindsInv /\ [Next]_vars => KindsInv'
<1> SUFFICES ASSUME KindsInv, [Next]_vars PROVE KindsInv'
  OBVIOUS
<1> USE DEF KindsInv, Places
<1>1. ASSUME NEW c \in CPU, NEW text \in Texts, Printf(c, text) PROVE KindsInv'
  BY <1>1 DEF Printf, entry, Goes
<1>2. ASSUME NEW c \in CPU, NEW call \in Calls, Panic(c, call) PROVE KindsInv'
  BY <1>2 DEF Panic, entry, Goes
<1>3. ASSUME NEW c \in CPU, NEW v \in Raised, Trap(c, v) PROVE KindsInv'
  <2>1. traps' \in [CPU -> 0 .. MAX_TRAPS]
    BY <1>3, TrapsAssumption DEF Trap
  <2> QED  BY <1>3, <2>1 DEF Trap, Goes
<1>4. ASSUME NEW c \in CPU, NEW v \in Raised, TrapFromUser(c, v) PROVE KindsInv'
  BY <1>4 DEF TrapFromUser
<1>5. ASSUME NEW c \in CPU, Preamble(c) PROVE KindsInv'
  BY <1>5 DEF Preamble, Goes, Locked, Loses
<1>6. ASSUME NEW c \in CPU, FormatReason(c) PROVE KindsInv'
  BY <1>6 DEF FormatReason, entry, Goes
<1>7. ASSUME NEW c \in CPU, WriteByte(c) PROVE KindsInv'
  BY <1>7 DEF WriteByte, entry, Goes
<1>8. CASE UNCHANGED vars
  BY <1>8 DEF vars
<1> QED  BY <1>1, <1>2, <1>3, <1>4, <1>5, <1>6, <1>7, <1>8 DEF Next, Proceed, Lockout

\* A step leaves the invariant of the processors it does not touch.
Same(c) == pc'[c] = pc[c] /\ called'[c] = called[c] /\ left'[c] = left[c] /\ wrote'[c] = wrote[c]

LEMMA Untouched ==
  ASSUME NEW C, NEW c \in CPU, WriterInv(C, c), Same(c)
  PROVE  WriterInv(C, c)'
BY DEF WriterInv, Same

LEMMA TextKept ==
  ASSUME NEW C, TextsRight(C), TextInv(C), [Next]_vars
  PROVE  TextInv(C)'
<1>1. KindsInv /\ KindsInv'
  BY KindsKept DEF TextInv
<1>2. \A c \in CPU : WriterInv(C, c)
  BY DEF TextInv
<1>3. BufferInv(C)
  BY DEF TextInv
<1> SUFFICES /\ \A c \in CPU : WriterInv(C, c)'
             /\ BufferInv(C)'
  BY <1>1 DEF TextInv
<1>4. ASSUME UNCHANGED buf, \A c \in CPU : pc'[c] = "prefix" => pc[c] = "prefix"
      PROVE  BufferInv(C)'
  BY <1>3, <1>4 DEF BufferInv
<1>5. ASSUME NEW c \in CPU, \A d \in CPU \ {c} : Same(d), WriterInv(C, c)'
      PROVE  \A d \in CPU : WriterInv(C, d)'
  BY <1>2, <1>5, Untouched
<1>6. "" = <<>>
  BY DEF TextsRight
<1>7. "" \in Seq(C) /\ Len("") = 0 /\ Len("") < TRACE_BUFSIZE
  <2>1. <<>> \in Seq(C) /\ Len(<<>>) = 0
    BY EmptySeq
  <2>2. Len("") = 0
    BY <1>6, <2>1, Zenon
  <2>3. Len("") < TRACE_BUFSIZE
    <3>1. 0 < TRACE_BUFSIZE
      BY TrapsAssumption
    <3> QED  BY <2>2, <3>1, Zenon
  <2> QED  BY <1>6, <2>1, <2>2, <2>3, Zenon
<1> USE <1>1 DEF KindsInv
<1>8. ASSUME NEW c \in CPU, NEW text \in Texts, Printf(c, text)
      PROVE  (\A d \in CPU : WriterInv(C, d)') /\ BufferInv(C)'
  <2>1. pc'[c] = "print" /\ left'[c] = text /\ wrote'[c] = ""
    BY <1>8 DEF Printf, Goes
  <2>2. \A d \in CPU \ {c} : Same(d)
    BY <1>8 DEF Printf, Goes, Same
  <2>3. text \in Seq(C) /\ text # <<>> /\ Len(text) < TRACE_BUFSIZE
    BY DEF TextsRight
  <2>4. WriterInv(C, c)'
    BY <1>7, <2>1, <2>3, Zenon DEF WriterInv
  <2>5. UNCHANGED buf /\ \A d \in CPU : pc'[d] = "prefix" => pc[d] = "prefix"
    BY <1>8, <2>1, <2>2 DEF Printf, Same
  <2> QED  BY <1>4, <1>5, <2>2, <2>4, <2>5
<1>9. ASSUME NEW c \in CPU, NEW call \in Calls, Panic(c, call)
      PROVE  (\A d \in CPU : WriterInv(C, d)') /\ BufferInv(C)'
  <2>1. pc'[c] = "panic" /\ called'[c] = call /\ left'[c] = left[c] /\ wrote'[c] = wrote[c]
    BY <1>9 DEF Panic, Goes
  <2>2. \A d \in CPU \ {c} : Same(d)
    BY <1>9 DEF Panic, Goes, Same
  <2>3. WriterInv(C, c)'
    BY <1>2, <2>1 DEF WriterInv, AllCalls
  <2>5. UNCHANGED buf /\ \A d \in CPU : pc'[d] = "prefix" => pc[d] = "prefix"
    BY <1>9, <2>1, <2>2 DEF Panic, Same
  <2> QED  BY <1>4, <1>5, <2>2, <2>3, <2>5
<1>10. ASSUME NEW c \in CPU, NEW v \in Raised, Trap(c, v)
       PROVE  (\A d \in CPU : WriterInv(C, d)') /\ BufferInv(C)'
  <2>1. /\ pc'[c] = "panic" /\ called'[c] = trap_dispatch(Gates[Delivered(v)].vector)
        /\ left'[c] = left[c] /\ wrote'[c] = wrote[c]
    BY <1>10 DEF Trap, Goes
  <2>2. \A d \in CPU \ {c} : Same(d)
    BY <1>10 DEF Trap, Goes, Same
  <2>3. WriterInv(C, c)'
    BY <1>2, <2>1 DEF WriterInv, AllCalls
  <2>5. UNCHANGED buf /\ \A d \in CPU : pc'[d] = "prefix" => pc[d] = "prefix"
    BY <1>10, <2>1, <2>2 DEF Trap, Same
  <2> QED  BY <1>4, <1>5, <2>2, <2>3, <2>5
<1>11. ASSUME NEW c \in CPU, NEW v \in Raised, TrapFromUser(c, v)
       PROVE  (\A d \in CPU : WriterInv(C, d)') /\ BufferInv(C)'
  <2>1. ASSUME NEW d \in CPU PROVE WriterInv(C, d)'
    BY <1>2, <1>11 DEF TrapFromUser, WriterInv
  <2>2. UNCHANGED buf /\ \A d \in CPU : pc'[d] # "prefix"
    BY <1>11 DEF TrapFromUser
  <2> QED  BY <1>4, <2>1, <2>2
<1>12. ASSUME NEW c \in CPU, Preamble(c)
       PROVE  (\A d \in CPU : WriterInv(C, d)') /\ BufferInv(C)'
  <2>1. /\ pc[c] = "panic" /\ left'[c] = "" /\ wrote'[c] = wrote[c]
        /\ pc'[c] = IF panic_sync = 1 THEN "halted" ELSE "format"
        /\ panic_sync # 1 => called'[c] = called[c]
    BY <1>12 DEF Preamble, Goes, Loses
  <2>2. \A d \in CPU \ {c} : Same(d)
    BY <1>12 DEF Preamble, Goes, Same
  <2>3. wrote[c] \in Seq(C) /\ called[c] \in AllCalls
    BY <1>2, <2>1 DEF WriterInv
  <2>4. WriterInv(C, c)'
    <3>1. CASE panic_sync = 1
      BY <1>7, <2>1, <2>3, <3>1, Zenon DEF WriterInv
    <3>2. CASE panic_sync # 1
      BY <1>7, <2>1, <2>3, <3>2, Zenon DEF WriterInv
    <3> QED  BY <3>1, <3>2
  <2>5. UNCHANGED buf /\ \A d \in CPU : pc'[d] = "prefix" => pc[d] = "prefix"
    BY <1>12, <2>1, <2>2 DEF Preamble, Same
  <2> QED  BY <1>4, <1>5, <2>2, <2>4, <2>5
<1>13. ASSUME NEW c \in CPU, FormatReason(c)
       PROVE  (\A d \in CPU : WriterInv(C, d)') /\ BufferInv(C)'
  <2>1. /\ pc[c] = "format" /\ left'[c] = Prefix /\ wrote'[c] = "" /\ pc'[c] = "prefix"
        /\ called'[c] = called[c] /\ buf' = called[c].text
    BY <1>13 DEF FormatReason, Goes
  <2>2. \A d \in CPU \ {c} : Same(d)
    BY <1>13 DEF FormatReason, Goes, Same
  <2>3. called[c] \in AllCalls
    BY <1>2, <2>1 DEF WriterInv
  <2>4. WriterInv(C, c)'
    BY <1>7, <2>1, <2>3, PrefixText, Zenon DEF WriterInv
  <2>5. /\ called[c].text \in Seq(C) /\ called[c].text # <<>>
        /\ Len(called[c].text) < PANIC_BUFSIZE
    BY <2>3, CallText
  <2>6. BufferInv(C)'
    BY <2>1, <2>5, Zenon DEF BufferInv
  <2> QED  BY <1>5, <2>2, <2>4, <2>6
<1>14. ASSUME NEW c \in CPU, WriteByte(c)
       PROVE  (\A d \in CPU : WriterInv(C, d)') /\ BufferInv(C)'
  <2> DEFINE rest == SubSeq(left[c], 2, Len(left[c]))
  <2>1. /\ pc[c] \in {"print", "prefix", "reason"}
        /\ wrote'[c] = wrote[c] \o Char(left[c], 1)
        /\ left'[c] = IF rest = "" /\ pc[c] = "prefix" THEN Reason ELSE rest
        /\ called'[c] = called[c]
        /\ UNCHANGED buf
    BY <1>14 DEF WriteByte
  <2>2. /\ rest # "" => pc'[c] = pc[c]
        /\ rest = "" => pc'[c] = CASE pc[c] = "print" -> "run" [] pc[c] = "prefix" -> "reason"
                                   [] OTHER -> "halted"
    BY <1>14 DEF WriteByte, Goes
  <2>3. \A d \in CPU \ {c} : Same(d)
    BY <1>14 DEF WriteByte, Goes, Same
  <2>4. /\ left[c] \in Seq(C) /\ left[c] # <<>> /\ Len(left[c]) < TRACE_BUFSIZE
        /\ wrote[c] \in Seq(C)
        /\ pc[c] \in {"prefix", "reason"} => called[c] \in AllCalls
    BY <1>2, <2>1 DEF WriterInv
  <2>5. /\ rest \in Seq(C) /\ Len(rest) = Len(left[c]) - 1
        /\ wrote'[c] \in Seq(C)
    <3>1. /\ SubSeq(left[c], 2, Len(left[c])) \in Seq(C)
          /\ Len(SubSeq(left[c], 2, Len(left[c]))) = Len(left[c]) - 1
      BY <2>4, RestType, Zenon
    <3>2. wrote[c] \o Char(left[c], 1) \in Seq(C)
      BY <2>4, LongerWritten, Zenon
    <3>3. wrote'[c] = wrote[c] \o Char(left[c], 1)
      BY <2>1
    <3> QED  BY <3>1, <3>2, <3>3, Zenon DEF rest
  <2>6. Len(rest) < TRACE_BUFSIZE
    <3>1. Len(left[c]) \in Nat /\ TRACE_BUFSIZE \in Nat
      BY <2>4, EmptySeq, TrapsAssumption
    <3> HIDE DEF rest
    <3> QED  BY <2>4, <2>5, <3>1
  <2> HIDE DEF rest
  <2>7. ASSUME rest = "", pc[c] = "prefix"
        PROVE  /\ left'[c] \in Seq(C) /\ left'[c] # <<>> /\ Len(left'[c]) < TRACE_BUFSIZE
               /\ pc'[c] = "reason"
    <3>1. buf \in Seq(C) /\ buf # <<>>
      BY <1>3, <2>7 DEF BufferInv
    <3>2. left'[c] = Cut(buf, TRACE_BUFSIZE - 1)
      BY <2>1, <2>7, <3>1, ReasonText
    <3>3. TRACE_BUFSIZE \in Nat \ {0, 1}
      BY TrapsAssumption
    <3>4. pc'[c] = "reason"
      BY <2>2, <2>7
    <3> DEFINE cut == Cut(buf, TRACE_BUFSIZE - 1)
    <3>5. cut \in Seq(C) /\ cut # <<>> /\ Len(cut) < TRACE_BUFSIZE
      BY <3>1, <3>3, CutText
    <3> QED  BY <3>2, <3>4, <3>5, Zenon
  <2>8. ASSUME ~(rest = "" /\ pc[c] = "prefix")
        PROVE  /\ left'[c] = rest
               /\ pc'[c] \in {"run", "halted", "print", "prefix", "reason"}
               /\ pc'[c] \in {"print", "prefix", "reason"} => rest # "" /\ pc'[c] = pc[c]
    BY <2>1, <2>2, <2>8
  <2>9. WriterInv(C, c)'
    <3>1. CASE rest = "" /\ pc[c] = "prefix"
      BY <2>1, <2>4, <2>5, <2>7, <3>1, Zenon DEF WriterInv
    <3>2. CASE ~(rest = "" /\ pc[c] = "prefix")
      BY <1>6, <2>1, <2>4, <2>5, <2>6, <2>8, <3>2, Zenon DEF WriterInv
    <3> QED  BY <3>1, <3>2
  <2>10. \A d \in CPU : pc'[d] = "prefix" => pc[d] = "prefix"
    BY <2>1, <2>2, <2>3 DEF Same
  <2> QED  BY <1>4, <1>5, <2>1, <2>3, <2>9, <2>10
<1>15. CASE UNCHANGED vars
  BY <1>2, <1>4, <1>15, Untouched DEF vars, Same
<1> QED  BY <1>8, <1>9, <1>10, <1>11, <1>12, <1>13, <1>14, <1>15 DEF Next, Proceed, Lockout

\* Every variable of the panic and trap path keeps its type and no buffer ever
\* holds more than fits with its terminating zero, whoever prints, panics and
\* traps (printf's buffer, core/trace.c; panic's, core/panic.c).
THEOREM TypeCorrect ==
  ASSUME NEW Character, TextsRight(Character)
  PROVE  Spec => []TypeOK
<1> DEFINE Inv == TextInv(Character)
<1>1. Init => Inv
  BY TextInitially
<1>2. Inv /\ [Next]_vars => Inv'
  BY TextKept
<1>3. Inv => TypeOK
  BY DEF TextInv, KindsInv, WriterInv, BufferInv, TypeOK, Places
<1> HIDE DEF Inv
<1> QED  BY <1>1, <1>2, <1>3, PTL DEF Spec
-----------------------------------------------------------------------------
\* One processor reports, and what it has written with what it has still to
\* write is the report so far.
OneInv == \A c, d \in Reporting : c = d

ReportInv(c) ==
  /\ pc[c] = "prefix" => buf = called[c].text /\ wrote[c] \o left[c] = Prefix
  /\ pc[c] = "reason" => wrote[c] \o left[c] = Prefix \o Cut(called[c].text, TRACE_BUFSIZE - 1)

WholeInv(Character) ==
  /\ TextInv(Character)
  /\ LockInv
  /\ OneInv
  /\ \A c \in CPU : ReportInv(c)

LEMMA OneKept == LockInv /\ OneInv /\ [Next]_vars => OneInv'
<1> SUFFICES ASSUME LockInv, OneInv, [Next]_vars PROVE OneInv'
  OBVIOUS
<1>1. ASSUME Reporting' \subseteq Reporting PROVE OneInv'
  BY <1>1 DEF OneInv
<1> USE DEF LockInv, Places, Reporting
<1>2. ASSUME NEW c \in CPU, NEW text \in Texts, Printf(c, text) PROVE Reporting' \subseteq Reporting
  BY <1>2 DEF Printf, Goes
<1>3. ASSUME NEW c \in CPU, NEW call \in Calls, Panic(c, call) PROVE Reporting' \subseteq Reporting
  BY <1>3 DEF Panic, Goes
<1>4. ASSUME NEW c \in CPU, NEW v \in Raised, Trap(c, v) \/ TrapFromUser(c, v)
      PROVE  Reporting' \subseteq Reporting
  BY <1>4 DEF Trap, TrapFromUser, Goes
<1>5. ASSUME NEW c \in CPU, Preamble(c) PROVE OneInv'
  <2>1. CASE panic_sync = 1
    <3>1. Reporting' \subseteq Reporting
      BY <1>5, <2>1 DEF Preamble, Goes, Loses
    <3> QED  BY <1>1, <3>1
  <2>2. CASE panic_sync = 0
    BY <1>5, <2>2 DEF Preamble, Goes, OneInv
  <2> QED  BY <2>1, <2>2
<1>6. ASSUME NEW c \in CPU, FormatReason(c) \/ WriteByte(c) PROVE Reporting' \subseteq Reporting
  BY <1>6 DEF FormatReason, WriteByte, Goes
<1>7. CASE UNCHANGED vars
  <2>1. Reporting' \subseteq Reporting
    BY <1>7 DEF vars
  <2> QED  BY <1>1, <2>1
<1> QED  BY <1>1, <1>2, <1>3, <1>4, <1>5, <1>6, <1>7 DEF Next, Proceed, Lockout

LEMMA ReportKept ==
  ASSUME NEW C, TextsRight(C), WholeInv(C), [Next]_vars
  PROVE  \A c \in CPU : ReportInv(c)'
<1>1. KindsInv /\ BufferInv(C) /\ OneInv /\ \A c \in CPU : WriterInv(C, c) /\ ReportInv(c)
  BY DEF WholeInv, TextInv
<1>2. "" = <<>>
  BY DEF TextsRight
<1>3. ASSUME NEW c \in CPU, UNCHANGED buf, Same(c) PROVE ReportInv(c)'
  BY <1>1, <1>3 DEF ReportInv, Same
<1>4. ASSUME NEW c \in CPU, pc'[c] \notin {"prefix", "reason"} PROVE ReportInv(c)'
  BY <1>4 DEF ReportInv
<1>5. ASSUME NEW c \in CPU, UNCHANGED buf, \A d \in CPU \ {c} : Same(d), pc'[c] \notin {"prefix", "reason"}
      PROVE  \A d \in CPU : ReportInv(d)'
  BY <1>3, <1>4, <1>5
<1>6. DOMAIN pc = CPU /\ DOMAIN called = CPU /\ DOMAIN left = CPU /\ DOMAIN wrote = CPU
  BY <1>1 DEF KindsInv
<1>7. ASSUME NEW c \in CPU, NEW text \in Texts, Printf(c, text) PROVE \A d \in CPU : ReportInv(d)'
  <2>1. UNCHANGED buf /\ (\A d \in CPU \ {c} : Same(d)) /\ pc'[c] = "print"
    BY <1>6, <1>7 DEF Printf, Goes, Same
  <2> QED  BY <1>5, <2>1
<1>8. ASSUME NEW c \in CPU, NEW call \in Calls, Panic(c, call) PROVE \A d \in CPU : ReportInv(d)'
  <2>1. UNCHANGED buf /\ (\A d \in CPU \ {c} : Same(d)) /\ pc'[c] = "panic"
    BY <1>6, <1>8 DEF Panic, Goes, Same
  <2> QED  BY <1>5, <2>1
<1>9. ASSUME NEW c \in CPU, NEW v \in Raised, Trap(c, v) PROVE \A d \in CPU : ReportInv(d)'
  <2>1. UNCHANGED buf /\ (\A d \in CPU \ {c} : Same(d)) /\ pc'[c] = "panic"
    BY <1>6, <1>9 DEF Trap, Goes, Same
  <2> QED  BY <1>5, <2>1
<1>10. ASSUME NEW c \in CPU, NEW v \in Raised, TrapFromUser(c, v) PROVE \A d \in CPU : ReportInv(d)'
  <2>1. \A d \in CPU : pc'[d] = "reset"
    BY <1>10 DEF TrapFromUser
  <2> QED  BY <1>4, <2>1
<1>11. ASSUME NEW c \in CPU, Preamble(c) PROVE \A d \in CPU : ReportInv(d)'
  <2>1. UNCHANGED buf /\ (\A d \in CPU \ {c} : Same(d)) /\ pc'[c] \in {"halted", "format"}
    BY <1>6, <1>11 DEF Preamble, Goes, Same, Loses
  <2> QED  BY <1>5, <2>1
\* Nobody else is at the buffer when it is filled.
<1>12. ASSUME NEW c \in CPU, FormatReason(c) PROVE \A d \in CPU : ReportInv(d)'
  <2>1. /\ pc[c] = "format" /\ left'[c] = Prefix /\ wrote'[c] = "" /\ pc'[c] = "prefix"
        /\ called'[c] = called[c] /\ buf' = called[c].text
        /\ \A d \in CPU \ {c} : pc'[d] = pc[d]
    BY <1>6, <1>12 DEF FormatReason, Goes
  <2>2. ASSUME NEW d \in CPU \ {c} PROVE pc'[d] \notin {"prefix", "reason"}
    BY <1>1, <2>1 DEF OneInv, Reporting
  <2>3. ReportInv(c)'
    <3>1. "" \o Prefix = Prefix
      <4>1. <<>> \o Prefix = Prefix
        BY PrefixText, ConcatEmptySeq
      <4> QED  BY <1>2, <4>1, Zenon
    <3> QED  BY <2>1, <3>1, Zenon DEF ReportInv
  <2> QED  BY <1>4, <2>2, <2>3
<1>13. ASSUME NEW c \in CPU, WriteByte(c) PROVE \A d \in CPU : ReportInv(d)'
  <2> DEFINE rest == SubSeq(left[c], 2, Len(left[c]))
  <2>1. /\ pc[c] \in {"print", "prefix", "reason"}
        /\ wrote'[c] = wrote[c] \o Char(left[c], 1)
        /\ left'[c] = IF rest = "" /\ pc[c] = "prefix" THEN Reason ELSE rest
        /\ called'[c] = called[c]
        /\ UNCHANGED buf
    BY <1>6, <1>13 DEF WriteByte
  <2>2. /\ rest # "" => pc'[c] = pc[c]
        /\ rest = "" => pc'[c] = CASE pc[c] = "print" -> "run" [] pc[c] = "prefix" -> "reason"
                                   [] OTHER -> "halted"
    BY <1>6, <1>13 DEF WriteByte, Goes
  <2>3. \A d \in CPU \ {c} : Same(d)
    BY <1>6, <1>13 DEF WriteByte, Goes, Same
  <2>4. /\ left[c] \in Seq(C) /\ left[c] # <<>> /\ wrote[c] \in Seq(C)
        /\ pc[c] \in {"prefix", "reason"} => called[c] \in AllCalls
    BY <1>1, <2>1 DEF WriterInv
  <2>5. wrote'[c] \o rest = wrote[c] \o left[c] /\ wrote'[c] \in Seq(C)
    <3>1. left[c] \in Seq(C) /\ left[c] # <<>> /\ wrote[c] \in Seq(C)
      BY <2>4
    <3>2. (wrote[c] \o Char(left[c], 1)) \o SubSeq(left[c], 2, Len(left[c])) = wrote[c] \o left[c]
      BY <3>1, FirstWritten, Zenon
    <3>3. wrote[c] \o Char(left[c], 1) \in Seq(C)
      BY <3>1, LongerWritten, Zenon
    <3>4. wrote'[c] = wrote[c] \o Char(left[c], 1)
      BY <2>1
    <3> QED  BY <3>2, <3>3, <3>4, Zenon DEF rest
  <2> HIDE DEF rest
  <2>6. CASE rest = "" /\ pc[c] = "prefix"
    <3>1. wrote'[c] = Prefix
      <4>1. wrote'[c] \o <<>> = wrote'[c]
        BY <2>5, ConcatEmptySeq
      <4>2. wrote[c] \o left[c] = Prefix
        BY <1>1, <2>6 DEF ReportInv
      <4> QED  BY <1>2, <2>5, <2>6, <4>1, <4>2, Zenon
    <3>2. left'[c] = Cut(called[c].text, TRACE_BUFSIZE - 1)
      <4>1. buf = called[c].text
        BY <1>1, <2>6 DEF ReportInv
      <4>2. left'[c] = Reason
        BY <2>1, <2>6
      <4>3. Reason = Cut(buf, TRACE_BUFSIZE - 1)
        BY <1>1, ReasonText DEF BufferInv
      <4> QED  BY <4>1, <4>2, <4>3
    <3>3. pc'[c] = "reason"
      BY <2>2, <2>6
    <3> QED  BY <1>3, <2>1, <2>3, <3>1, <3>2, <3>3, Zenon DEF ReportInv
  <2>7. CASE rest # "" /\ pc[c] \in {"prefix", "reason"}
    <3>1. pc'[c] = pc[c] /\ left'[c] = rest
      BY <2>1, <2>2, <2>7
    <3>2. wrote'[c] \o left'[c] = wrote[c] \o left[c]
      BY <2>5, <3>1, Zenon
    <3>3. ReportInv(c)'
      BY <1>1, <2>1, <3>1, <3>2, Zenon DEF ReportInv
    <3> QED  BY <1>3, <2>1, <2>3, <3>3
  <2>8. CASE ~(rest = "" /\ pc[c] = "prefix") /\ ~(rest # "" /\ pc[c] \in {"prefix", "reason"})
    <3>1. pc'[c] \notin {"prefix", "reason"}
      BY <2>1, <2>2, <2>8
    <3> QED  BY <1>5, <2>1, <2>3, <3>1
  <2> QED  BY <2>6, <2>7, <2>8
<1>14. CASE UNCHANGED vars
  BY <1>3, <1>14 DEF vars, Same
<1> QED  BY <1>7, <1>8, <1>9, <1>10, <1>11, <1>12, <1>13, <1>14 DEF Next, Proceed, Lockout

LEMMA WholeSaid ==
  ASSUME NEW C, TextsRight(C), WholeInv(C)
  PROVE  ReportWhole
<1> SUFFICES ASSUME NEW c \in Reporting
             PROVE  /\ pc[c] = "prefix" => buf = Cut(called[c].means, PANIC_BUFSIZE - 1)
                    /\ pc[c] = "reason" => wrote[c] \o left[c] = Report(c)
  BY DEF ReportWhole
<1>1. c \in CPU /\ pc[c] \in {"format", "prefix", "reason"}
  BY DEF Reporting
<1>2. called[c] \in AllCalls /\ ReportInv(c)
  BY <1>1 DEF WholeInv, TextInv, WriterInv
<1>3. /\ called[c].means \in Seq(C) /\ called[c].means # <<>>
      /\ called[c].text = Cut(called[c].means, PANIC_BUFSIZE - 1)
  BY <1>2 DEF TextsRight
<1>4. Cut(called[c].text, TRACE_BUFSIZE - 1)
        = Cut(called[c].means, Least(TRACE_BUFSIZE, PANIC_BUFSIZE) - 1)
  <2> DEFINE m == PANIC_BUFSIZE - 1
             n == TRACE_BUFSIZE - 1
  <2>1. m \in Nat \ {0} /\ n \in Nat \ {0}
    BY TrapsAssumption
  <2>2. (IF n < m THEN n ELSE m) = Least(TRACE_BUFSIZE, PANIC_BUFSIZE) - 1
    BY TrapsAssumption DEF Least
  <2> HIDE DEF m, n
  <2>3. Cut(Cut(called[c].means, m), n) = Cut(called[c].means, IF n < m THEN n ELSE m)
    BY <1>3, <2>1, CutTwice
  <2> QED  BY <1>3, <2>2, <2>3, Zenon DEF m, n
<1>5. Prefix = Cut("panic: ", TRACE_BUFSIZE - 1)
  BY DEF TextsRight
<1> QED  BY <1>2, <1>3, <1>4, <1>5, Zenon DEF ReportInv, Report

\* What the processor that reports writes is "panic: " and its own message, whole,
\* in order and cut only where the buffers end, for any number of processors that
\* print, panic and trap meanwhile, in panic itself as well (panic,
\* core/panic.c:40-47, with the lock of arch/amd64/core/panic.S and the loop of
\* mu_uart_write).
THEOREM ReportIsWhole ==
  ASSUME NEW Character, TextsRight(Character)
  PROVE  Spec => []ReportWhole
<1> DEFINE Inv == WholeInv(Character)
<1>1. Init => Inv
  BY TextInitially, LockInitially DEF WholeInv, OneInv, ReportInv, Reporting, Init
<1>2. Inv /\ [Next]_vars => Inv'
  BY TextKept, LockKept, OneKept, ReportKept DEF WholeInv
<1>3. Inv => ReportWhole
  BY WholeSaid
<1> HIDE DEF Inv
<1> QED  BY <1>1, <1>2, <1>3, PTL DEF Spec
=============================================================================
