-------------------------------- MODULE Pmem --------------------------------
(***************************************************************************)
(* The physical memory manager (mm/pmem.c): a bitmap with one bit per page *)
(* frame, kept in the memory it describes, behind one spinlock.            *)
(*                                                                         *)
(* Addresses and lengths are counted in frames: Limine aligns the usable   *)
(* entries of the memory map to pages, and every caller passes frames.     *)
(* The lock is taken and given back in one step each (AbstractLock);       *)
(* Spinlock shows that the code's lock does that.                          *)
(***************************************************************************)
EXTENDS FrameScan, Sequences

CONSTANTS
  CPU, NoCPU,   \* the processors, and the owner of a free lock
  MemMaps,      \* the memory maps the bootloader may report
  Counts,       \* the sizes callers ask for, in frames
  PAGESIZE,     \* bytes in a frame
  Limit         \* bits modelled: 0 .. Limit - 1

CHAR_BIT == 8

\* An entry of the memory map (inc/core/bpt.h); only MEM_USABLE matters.
Entry == [base : Nat, length : Nat, usable : BOOLEAN]

UsableEntries(map) == {map[i] : i \in {j \in DOMAIN map : map[j].usable}}

EntryFrames(e) == e.base .. e.base + e.length - 1

\* What the boot protocol promises.  Page 0 is never reported usable.
ASSUME MemMapAssumption ==
  \A map \in MemMaps : /\ map \in Seq(Entry)
                       /\ \E e \in UsableEntries(map) : e.length > 0
                       /\ \A e \in UsableEntries(map) : e.base > 0

ASSUME ConstantAssumption == /\ NoCPU \notin CPU
                             /\ Counts \subseteq Nat
                             /\ PAGESIZE \in Nat \ {0}
                             /\ Limit \in Nat

\* Every usable frame has a bit in the model.
ASSUME LimitAssumption ==
  \A map \in MemMaps : \A e \in UsableEntries(map) : e.base + e.length <= Limit

VARIABLES
  memmap,       \* the bootloader's memory map; never changes
  phase,        \* "boot" until mm_pmem_init has run
  bitmap,       \* the bits from the address `bitmap` on; TRUE is ALLOCATED
  last_bit,     \* where the scan starts
  bitmap_lock,  \* the owner of the lock
  pc,           \* where each processor is
  req,          \* the region it works on: its size, and its start once known
  attempt,      \* which of the two calls of pmem_alloc it is in
  live,         \* regions returned by mm_pmem_alloc and not freed since
  scribbled     \* has an owner of frames written over bits of the bitmap?

shared == <<memmap, phase, scribbled>>
vars == <<memmap, phase, bitmap, last_bit, bitmap_lock, pc, req, attempt,
          live, scribbled>>

Lock == INSTANCE AbstractLock WITH owner <- bitmap_lock
-----------------------------------------------------------------------------
\* pmem_probe.  The bitmap is sized by the AMOUNT of usable memory, while its
\* bits are indexed by frame number, up to usable_top.
UsableIndices(map) == {i \in DOMAIN map : map[i].usable}

mem_usable(map) == MapThenSumSet(LAMBDA i : map[i].length, UsableIndices(map))

usable_top(map) == Max({e.base + e.length : e \in UsableEntries(map)})

ALIGN_UP(n, align) == ((n + align - 1) \div align) * align

bitmap_size(map) == ALIGN_UP(mem_usable(map), CHAR_BIT) \div CHAR_BIT

\* pmem_alloc_bitmap: the first usable entry that can hold the bitmap.
Fits(map, i) == map[i].usable /\ map[i].length * PAGESIZE >= bitmap_size(map)

bitmap_base(map) == map[Min({i \in DOMAIN map : Fits(map, i)})].base

\* With real constants an entry that fits exists: the bitmap needs one byte
\* for 32 KiB of usable memory, and a map has a few dozen entries.
ASSUME FitAssumption == \A map \in MemMaps : \E i \in DOMAIN map : Fits(map, i)

\* The frame in which bit i is stored, inside the bitmap or past its end.
StorageFrame(map, i) == bitmap_base(map) + (i \div CHAR_BIT) \div PAGESIZE

\* bitmap_set_range on frame numbers.
bitmap_set_range(bits, start, end, alloc) ==
  [i \in 0 .. Limit - 1 |-> IF i \in start .. end - 1 THEN alloc ELSE bits[i]]

UsableFrames(map) == UNION {EntryFrames(e) : e \in UsableEntries(map)}

InBitmap(map, i) == i < bitmap_size(map) * CHAR_BIT

\* pmem_fill_bitmap: memset reaches the bits of the bitmap only; the bits
\* past its end keep what the memory held.
pmem_fill_bitmap(map, bits) ==
  [i \in 0 .. Limit - 1 |->
     IF i \in UsableFrames(map) THEN FALSE
     ELSE IF InBitmap(map, i) THEN TRUE
     ELSE bits[i]]

\* The bitmap describes every frame up to usable_top.
Covered(map) == \A i \in 0 .. usable_top(map) - 1 : InBitmap(map, i)
-----------------------------------------------------------------------------
NoReq == [start |-> -1, count |-> 0]

Frames(r) == r.start .. r.start + r.count - 1

Init == /\ memmap \in MemMaps
        /\ phase = "boot"
        /\ bitmap \in [0 .. Limit - 1 -> BOOLEAN]   \* whatever memory holds
        /\ last_bit = 0
        /\ bitmap_lock = NoCPU
        /\ pc = [c \in CPU |-> "idle"]
        /\ req = [c \in CPU |-> NoReq]
        /\ attempt = [c \in CPU |-> 0]
        /\ live = {}
        /\ scribbled = FALSE

\* mm_pmem_init, called by kmain before anything can allocate.
MmPmemInit ==
  /\ phase = "boot"
  /\ phase' = "up"
  /\ bitmap' = pmem_fill_bitmap(memmap, bitmap)
  /\ UNCHANGED <<memmap, last_bit, bitmap_lock, pc, req, attempt, live,
                 scribbled>>

\* mm_pmem_alloc up to its first call of pmem_alloc.
AcquireAlloc(c, count) ==
  /\ phase = "up"
  /\ pc[c] = "idle"
  /\ Lock!Acquire(c)
  /\ pc' = [pc EXCEPT ![c] = "scan"]
  /\ req' = [req EXCEPT ![c] = [start |-> -1, count |-> count]]
  /\ attempt' = [attempt EXCEPT ![c] = 1]
  /\ UNCHANGED <<shared, bitmap, last_bit, live>>

\* A first call that returned 0 is retried.
Retries(c, phys) == phys <= 0 /\ attempt[c] = 1

\* Where mm_pmem_alloc goes on when pmem_alloc returned phys.
Returned(c, phys) ==
  IF Retries(c, phys)
  THEN /\ last_bit' = 0
       /\ attempt' = [attempt EXCEPT ![c] = 2]
       /\ pc' = [pc EXCEPT ![c] = "scan"]
  ELSE /\ pc' = [pc EXCEPT ![c] = "unlock"]
       /\ UNCHANGED <<last_bit, attempt>>

\* The scan of pmem_alloc.
Scan(c) ==
  LET start == pmem_scan(bitmap, last_bit, usable_top(memmap), req[c].count)
  IN  /\ pc[c] = "scan"
      /\ req' = [req EXCEPT ![c].start = start]
      /\ IF start < 0
         THEN Returned(c, start)
         ELSE /\ pc' = [pc EXCEPT ![c] = "mark"]
              /\ UNCHANGED <<last_bit, attempt>>
      /\ UNCHANGED <<shared, bitmap, bitmap_lock, live>>

\* Mutant: the frame after the region is marked too.
MarkOneMore(bits, r) == bitmap_set_range(bits, r.start, r.start + r.count + 1, TRUE)

\* Mutant: the region found is not marked.
MarkNothing(bits, r) == bits

MarkRegion(bits, r) == bitmap_set_range(bits, r.start, r.start + r.count, TRUE)

\* The rest of pmem_alloc: the region it found, whatever its bits say.  A
\* region that starts at frame 0 is marked, and 0 is returned.
Mark(c) ==
  /\ pc[c] = "mark"
  /\ bitmap' = MarkRegion(bitmap, req[c])
  /\ Returned(c, req[c].start)
  /\ UNCHANGED <<shared, bitmap_lock, req, live>>

\* The caller of mm_pmem_alloc got its region, or 0.
ReleaseAlloc(c) ==
  /\ pc[c] = "unlock"
  /\ Lock!Release(c)
  /\ live' = IF req[c].start > 0 THEN live \cup {req[c]} ELSE live
  /\ pc' = [pc EXCEPT ![c] = "idle"]
  /\ req' = [req EXCEPT ![c] = NoReq]
  /\ attempt' = [attempt EXCEPT ![c] = 0]
  /\ UNCHANGED <<shared, bitmap, last_bit>>

\* mm_pmem_free on a region its caller got from mm_pmem_alloc.
AcquireFree(c, r) ==
  /\ pc[c] = "idle"
  /\ Lock!Acquire(c)
  /\ live' = live \ {r}
  /\ req' = [req EXCEPT ![c] = r]
  /\ pc' = [pc EXCEPT ![c] = "clear"]
  /\ UNCHANGED <<shared, bitmap, last_bit, attempt>>

Clear(c) ==
  /\ pc[c] = "clear"
  /\ bitmap' = bitmap_set_range(bitmap, req[c].start,
                                req[c].start + req[c].count, FALSE)
  /\ pc' = [pc EXCEPT ![c] = "unlock_free"]
  /\ UNCHANGED <<shared, last_bit, bitmap_lock, req, attempt, live>>

ReleaseFree(c) ==
  /\ pc[c] = "unlock_free"
  /\ Lock!Release(c)
  /\ pc' = [pc EXCEPT ![c] = "idle"]
  /\ req' = [req EXCEPT ![c] = NoReq]
  /\ UNCHANGED <<shared, bitmap, last_bit, attempt, live>>

\* The owner of a region fills it, as the kernel does with page tables.  It
\* matters here when bits of the bitmap are stored in the region: nothing
\* reserves the frames of the bitmap.
Fill(r, value) ==
  LET hit == {i \in 0 .. Limit - 1 : StorageFrame(memmap, i) \in Frames(r)}
  IN  /\ hit # {}
      /\ bitmap' = [i \in 0 .. Limit - 1 |-> IF i \in hit THEN value ELSE bitmap[i]]
      /\ scribbled' = TRUE
      /\ UNCHANGED <<memmap, phase, last_bit, bitmap_lock, pc, req, attempt,
                     live>>

Step(c) == \/ \E count \in Counts : AcquireAlloc(c, count)
           \/ Scan(c)
           \/ Mark(c)
           \/ ReleaseAlloc(c)
           \/ \E r \in live : AcquireFree(c, r)
           \/ Clear(c)
           \/ ReleaseFree(c)

Next == \/ MmPmemInit
        \/ \E c \in CPU : Step(c)
        \/ \E r \in live, value \in BOOLEAN : Fill(r, value)

Spec == Init /\ [][Next]_vars

\* Every request that is about to be scanned for has room.
RequestsHaveRoom ==
  scribbled \/ \A c \in CPU :
                 pc[c] = "scan" => HasRoom(bitmap, usable_top(memmap), req[c].count)

\* Callers that ask for a region only where there is room for it.
RoomSpec == Init /\ [][Next /\ RequestsHaveRoom']_vars
-----------------------------------------------------------------------------
\* A region as mm_pmem_alloc sees it; -1 is no region.
Region == [start : -1 .. usable_top(memmap) - 1, count : Counts \cup {0}]

TypeOK ==
  /\ memmap \in MemMaps
  /\ phase \in {"boot", "up"}
  /\ bitmap \in [0 .. Limit - 1 -> BOOLEAN]
  /\ last_bit \in Nat
  /\ bitmap_lock \in CPU \cup {NoCPU}
  /\ pc \in [CPU -> {"idle", "scan", "mark", "unlock", "clear", "unlock_free"}]
  /\ req \in [CPU -> Region]
  /\ attempt \in [CPU -> 0 .. 2]
  /\ live \subseteq Region
  /\ scribbled \in BOOLEAN

\* The processors about to return from mm_pmem_alloc with a region.
Returning == {c \in CPU : pc[c] = "unlock" /\ req[c].start > 0}

\* No two callers own the same frame: a region about to be returned overlaps
\* none that was returned before, and those do not overlap (mm_pmem_alloc's
\* contract in inc/mm/pmem.h).
RegionsDisjoint ==
  /\ \A r, s \in live : r # s => Frames(r) \cap Frames(s) = {}
  /\ \A c \in Returning : \A r \in live : Frames(req[c]) \cap Frames(r) = {}

\* The same, for as long as no owner of a region that stores bits of the
\* bitmap has written to it.
NoDoubleAlloc == ~scribbled => RegionsDisjoint

\* The frames somebody owns, is about to own, or is giving back.
OwnedFrames ==
  UNION ({Frames(r) : r \in live}
    \cup {Frames(req[c]) : c \in Returning \cup {d \in CPU : pc[d] = "clear"}})

\* The bitmap is the truth about usable memory: a usable frame is marked
\* exactly when it is owned.  None is lost by an allocation that failed, was
\* retried or was freed, on any interleaving of the callers.
FramesAccounted ==
  phase = "up" /\ ~scribbled =>
    \A f \in UsableFrames(memmap) : bitmap[f] <=> f \in OwnedFrames

\* mm_pmem_alloc hands out usable memory only.
OnlyUsable ==
  ~scribbled =>
    /\ \A r \in live : Frames(r) \subseteq UsableFrames(memmap)
    /\ \A c \in Returning : Frames(req[c]) \subseteq UsableFrames(memmap)

\* What mm_pmem_alloc hands out is usable memory that nobody else owns.
FramesSafe == NoDoubleAlloc /\ OnlyUsable

\* mm_pmem_alloc returns 0 only when no free usable frames are left.
FailsOnlyWhenExhausted ==
  ~scribbled =>
    \A c \in CPU :
      pc[c] = "unlock" /\ req[c].start <= 0 =>
        \A f \in UsableFrames(memmap) : bitmap[f]
=============================================================================
