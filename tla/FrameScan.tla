----------------------------- MODULE FrameScan -----------------------------
(***************************************************************************)
(* How pmem_alloc (mm/pmem.c) looks for frames: bits is the bitmap, TRUE   *)
(* for a frame that is allocated, and max the first bit past the end of    *)
(* usable memory.  Pmem and Loader allocate with it.                       *)
(***************************************************************************)
EXTENDS Integers, FiniteSets, FiniteSetsExt

FreeBits(bits, from, max) == {i \in from .. max - 1 : ~bits[i]}

\* The bits at which the scan may leave its loop: frames_found counts every
\* free bit it has seen; it is not reset when an allocated bit breaks a run.
StopBits(bits, from, max, count) ==
  {i \in FreeBits(bits, from, max) :
     Cardinality(FreeBits(bits, from, i + 1)) >= count}

\* start_idx when the scan has passed bit `last`: the first bit of the run of
\* free bits that ends there.
RunStart(bits, from, last) ==
  CHOOSE s \in from .. last :
     /\ \A i \in s .. last : ~bits[i]
     /\ s = from \/ bits[s - 1]

\* Mutant: the loop is not left, and start_idx is where it ended.
LateScan(bits, from, max, count) ==
  IF StopBits(bits, from, max, count) # {} THEN max ELSE -1

\* Mutant: the last frame is never looked at.
EarlyScan(bits, from, max, count) ==
  LET stop == StopBits(bits, from, max - 1, count)
  IN  IF stop # {} THEN RunStart(bits, from, Min(stop)) ELSE -1

\* The loop of pmem_alloc; -1 when it ends on an allocated bit.  A loop that
\* runs out of bits still has the start of the free run at the end.
pmem_scan(bits, from, max, count) ==
  LET stop == StopBits(bits, from, max, count)
  IN  IF stop # {} THEN RunStart(bits, from, Min(stop))
      ELSE IF max - 1 \in FreeBits(bits, from, max)
           THEN RunStart(bits, from, max - 1)
           ELSE -1
-----------------------------------------------------------------------------
\* A run of `count` free bits begins at s, and fewer are free before it: the
\* count of the scan comes to an end inside the run.
RoomAt(bits, max, count, s) ==
  /\ s + count <= max
  /\ \A i \in s .. s + count - 1 : ~bits[i]
  /\ Cardinality(FreeBits(bits, 0, s)) < count

\* What a request needs so that the scan serves it as inc/mm/pmem.h promises;
\* the code does not look.  A request for one frame always has it.
HasRoom(bits, max, count) ==
  \/ count <= 1
  \/ FreeBits(bits, 0, max) = {}
  \/ \E s \in 0 .. max - 1 : RoomAt(bits, max, count, s)
=============================================================================
