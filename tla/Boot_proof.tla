----------------------------- MODULE Boot_proof -----------------------------
(***************************************************************************)
(* What booting guarantees for any memory map, any modules and any images, *)
(* whatever allocation or mapping fails on the way, on a machine that has  *)
(* room for its requests where the scan of pmem_alloc looks.  (On others   *)
(* the scan may give what is not free: MC_Boot_small.)                     *)
(***************************************************************************)
EXTENDS Boot, TLAPS, FiniteSetTheorems, NaturalsInduction, WellFoundedInduction

Stopped == pc \in {"panic", "idle", "reset"}

\* The first n calls, and the time after them.
First(n) == {Calls[i] : i \in 1 .. n}
Past(n) == ~Stopped /\ pc \notin First(n)

\* Where start_rts puts a program into the address space.
Loading == pc \in {"lookup", "verify", "segment", "map", "user"}

\* The frames of the segment that is being mapped, and those of them that have
\* no page yet.
Region == pma .. pma + Count(Current) - 1
Unmapped == pma + done .. pma + Count(Current) - 1

\* A frame that a user program may have: not the pool's, and not free.
Owned(f) == f \in Frame /\ f \in Given /\ f \notin pool /\ f \notin free
-----------------------------------------------------------------------------
\* Each call leaves in the processor what the later ones rely on.
CpuInv ==
  /\ cpu \in [gdt : BOOLEAN, gates : BOOLEAN, idt : BOOLEAN, tr : BOOLEAN, user : BOOLEAN,
              interrupts : BOOLEAN, gs : {"boot", "pcr"}, kernel_gs : {"boot", "pcr"}]
  /\ Past(1) => cpu.gdt
  /\ Past(2) => cpu.gates
  /\ Past(3) => cpu.idt
  /\ Past(4) => cpu.tr
  /\ Past(10) => IF pc = "user" THEN cpu.kernel_gs = "pcr" ELSE cpu.gs = "pcr"
  /\ IF pc = "user" THEN cpu.user /\ cpu.interrupts ELSE ~cpu.user /\ ~cpu.interrupts

\* And in the parts of the kernel.
PartsInv ==
  /\ boot \in [proto : Protocols, given : SUBSET Responses, memmap : Memmaps,
               rsdp : BOOLEAN, modules : ModuleLists]
  /\ Past(5) => uart
  /\ Past(6) => boot.proto = "limine" /\ hooks = "limine" /\ loaded = boot.given
  /\ pc \in First(8) => pool = {}
  /\ Past(8) => pool # {}
  /\ Past(11) => "/" \in nodes
  /\ Past(12) => "/clkdev" \in nodes
  /\ Past(14) => "/clkdev/tsc" \in nodes
  /\ Past(15) => root_sdt

\* Memory is given to one owner at a time, out of what the bootloader gave.
FreeInv ==
  /\ free \subseteq Given /\ free \subseteq Frame
  /\ free \subseteq 0 .. top - 1
  /\ pool \cap free = {}
  /\ pc = "os_pool_init" => free = Given

\* What the program's pages are mapped to.
MappedInv ==
  Past(9) =>
    /\ pc \in First(17) \cup {"map_stack"} => Mapped = {}
    /\ \A m \in Mapped : "u" \in m.prot /\ Owned(m.frame)
    /\ \A p, q \in Pages : p # q => \A m \in mapping[p], n \in mapping[q] : m.frame # n.frame

\* The segment that is being mapped has its frames to itself.
RegionInv ==
  /\ pc \in {"verify", "segment", "map", "user"} => image \in Images
  /\ pc = "map" => /\ seg <= Len(image.segments)
                   /\ \A f \in Region : Owned(f)
                   /\ \A m \in Mapped : m.frame \notin Unmapped

\* The stack is a frame nobody else has.
StackInv ==
  /\ Loading \/ pc = "map_stack" => Owned(stack)
  /\ pc = "map" => stack \notin Region

BootInv == TypeOK /\ CpuInv /\ PartsInv /\ FreeInv /\ MappedInv /\ RegionInv /\ StackInv

\* The images the modules of the bootloader may hold.
Shipped == {file \in Images : \E modules \in ModuleLists : \E i \in DOMAIN modules :
                                modules[i].image = file}

\* They are executables.
AllVerify == \A file \in Shipped : elf_verify(file)

\* None of them has a page where a frame for the stack may be.
Apart == \A file \in Shipped : \A i \in DOMAIN file.segments :
           \A k \in 0 .. Count(file.segments[i]) - 1 :
             file.segments[i].vaddr \div PAGESIZE + k \notin Frame

\* They are laid out so that copying alone loads them: the segments start at a
\* page, the file holds all of each, and no two have a page in common.
ToLoad(file) == {i \in DOMAIN file.segments :
                   file.segments[i].type = "PT_LOAD" /\ file.segments[i].memsz # 0}
PageOf(s, j) == s.vaddr \div PAGESIZE + j
Laid == \A file \in Shipped : \A i \in ToLoad(file) :
          LET s == file.segments[i]
          IN  /\ s.vaddr % PAGESIZE = 0 /\ s.filesz = s.memsz
              /\ \A other \in ToLoad(file) \ {i} :
                   LET t == file.segments[other]
                   IN  \A j \in 0 .. Count(s) - 1, k \in 0 .. Count(t) - 1 :
                         PageOf(s, j) # PageOf(t, k)

\* The image is one of them, and what is entered is its entry point.
ImageShipped == image \in Shipped \cup {NotFound}
EntryInv == ImageShipped /\ (pc = "user" => entry = image.entry)

\* A segment is in place.
Placed(i) ==
  LET s == image.segments[i]
  IN  \A k \in 0 .. s.memsz - 1 :
        Seen(s.vaddr + k) = {[word |-> <<i, k>>, prot |-> Prot(s)]}

\* Those that elf_load has passed are, and of the one it is mapping the pages
\* so far.
PlacedInv ==
  /\ pc \in First(17) \cup {"map_stack", "lookup", "verify"} => seg = 1
  /\ pc \in {"segment", "map", "user"} => \A i \in ToLoad(image) : i < seg => Placed(i)
  /\ pc = "user" => seg > Len(image.segments)
  /\ pc = "map" => /\ seg \in ToLoad(image)
                   /\ \A j \in 0 .. done - 1 :
                        mapping[PageOf(Current, j)] = {[frame |-> pma + j, prot |-> Prot(Current)]}

\* The stack's own page is mapped to it.
StackMapped == Loading => mapping[stack] = {[frame |-> stack, prot |-> {"w", "u"}]}
-----------------------------------------------------------------------------
(* What the scan finds, as in Pmem_proof. *)

\* A non-empty set of naturals has a least element, which Min returns.
LEMMA MinOfNaturals ==
  ASSUME NEW S \in SUBSET Nat, S # {}
  PROVE  /\ Min(S) \in S
         /\ \A k \in S : Min(S) <= k
<1>1. \E x \in S : \A y \in S : ~ (<<y, x>> \in OpToRel(<, Nat))
  BY NatLessThanWellFounded, WFMin
<1>2. PICK x \in S : \A y \in S : ~ (<<y, x>> \in OpToRel(<, Nat))
  BY <1>1
<1>3. ASSUME NEW y \in S PROVE x <= y
  <2>1. CASE y < x
    <3>1. <<y, x>> \in Nat \X Nat /\ <<y, x>>[1] < <<y, x>>[2]
      BY <2>1
    <3>2. <<y, x>> \in OpToRel(<, Nat)
      BY <3>1, Zenon DEF OpToRel
    <3> QED
      BY <1>2, <3>2
  <2>2. CASE ~ (y < x)
    BY <2>2
  <2> QED
    BY <2>1, <2>2
<1> QED
  BY <1>3 DEF Min

\* start_idx is where the run of free bits begins.
LEMMA RunStartIs ==
  ASSUME NEW bits, NEW from \in Nat, NEW last \in Nat, from <= last, ~bits[last],
         \A i \in from .. last : bits[i] \in BOOLEAN
  PROVE  /\ RunStart(bits, from, last) \in from .. last
         /\ ~bits[RunStart(bits, from, last)]
         /\ \A i \in RunStart(bits, from, last) .. last : ~bits[i]
         /\ RunStart(bits, from, last) = from \/ bits[RunStart(bits, from, last) - 1]
<1> DEFINE clear == {s \in from .. last : \A i \in s .. last : ~bits[i]}
           m == Min(clear)
<1>1. clear \in SUBSET Nat /\ last \in clear
  OBVIOUS
<1>2. m \in clear /\ \A k \in clear : m <= k
  <2> HIDE DEF clear
  <2> QED  BY <1>1, MinOfNaturals
<1> HIDE DEF m
<1>3. m = from \/ bits[m - 1]
  <2> SUFFICES ASSUME m # from, ~bits[m - 1] PROVE FALSE
    BY <1>2
  <2>1. m - 1 \in clear /\ ~(m <= m - 1)
    BY <1>2
  <2> QED  BY <1>2, <2>1
<1>4. \E s \in from .. last : (\A i \in s .. last : ~bits[i]) /\ (s = from \/ bits[s - 1])
  BY <1>2, <1>3
<1>5. /\ RunStart(bits, from, last) \in from .. last
      /\ \A i \in RunStart(bits, from, last) .. last : ~bits[i]
      /\ RunStart(bits, from, last) = from \/ bits[RunStart(bits, from, last) - 1]
  BY <1>4, Zenon DEF RunStart
<1> QED  BY <1>5

\* There are no fewer free bits below a higher bound.
LEMMA FreeBitsGrow ==
  ASSUME NEW bits, NEW i \in Nat, NEW j \in Nat, i <= j
  PROVE  /\ IsFiniteSet(FreeBits(bits, 0, j))
         /\ Cardinality(FreeBits(bits, 0, i)) \in Nat
         /\ Cardinality(FreeBits(bits, 0, j)) \in Nat
         /\ Cardinality(FreeBits(bits, 0, i)) <= Cardinality(FreeBits(bits, 0, j))
<1> DEFINE A == FreeBits(bits, 0, i)
           B == FreeBits(bits, 0, j)
<1>1. A \in SUBSET B /\ B \in SUBSET (0 .. j - 1)
  BY DEF FreeBits
<1>2. IsFiniteSet(0 .. j - 1)
  BY FS_Interval
<1> HIDE DEF A, B
<1>3. IsFiniteSet(B)
  BY <1>1, <1>2, FS_Subset
<1>4. IsFiniteSet(A) /\ Cardinality(A) <= Cardinality(B)
  BY <1>1, <1>3, FS_Subset
<1>5. Cardinality(A) \in Nat /\ Cardinality(B) \in Nat
  BY <1>3, <1>4, FS_CardinalityType
<1> QED  BY <1>3, <1>4, <1>5 DEF A, B

\* A run of free bits counts for its length.
LEMMA RunCounts ==
  ASSUME NEW bits, NEW s \in Nat, NEW count \in Nat, \A i \in s .. s + count - 1 : ~bits[i]
  PROVE  Cardinality(FreeBits(bits, 0, s + count)) >= count
<1> DEFINE run == s .. s + count - 1
           clear == FreeBits(bits, 0, s + count)
<1>1. run \in SUBSET clear
  BY DEF FreeBits
<1>2. IsFiniteSet(clear) /\ Cardinality(clear) \in Nat
  BY FreeBitsGrow
<1>3. Cardinality(run) = count
  <2>1. Cardinality(s .. s + count - 1) = IF s > s + count - 1 THEN 0 ELSE (s + count - 1) - s + 1
    BY FS_Interval
  <2> QED  BY <2>1
<1> HIDE DEF run, clear
<1>4. Cardinality(run) <= Cardinality(clear)
  BY <1>1, <1>2, FS_Subset
<1> QED  BY <1>2, <1>3, <1>4 DEF clear

\* With room for the request, the count ends in the run.
LEMMA RoomServes ==
  ASSUME NEW max \in Nat, NEW bits \in [0 .. max - 1 -> BOOLEAN],
         NEW count \in Nat, count > 1, NEW s \in 0 .. max - 1, RoomAt(bits, max, count, s)
  PROVE  LET start == pmem_scan(bits, 0, max, count)
         IN  /\ start \in 0 .. max - 1 /\ start + count <= max
             /\ \A i \in start .. start + count - 1 : ~bits[i]
<1> DEFINE stop == StopBits(bits, 0, max, count)
           e == s + count - 1
           m == Min(stop)
           r == RunStart(bits, 0, m)
<1>1. s \in Nat /\ s + count <= max
  BY DEF RoomAt
<1>2. (\A i \in s .. s + count - 1 : ~bits[i]) /\ Cardinality(FreeBits(bits, 0, s)) < count
  BY DEF RoomAt
<1>3. e \in stop
  <2>1. Cardinality(FreeBits(bits, 0, s + count)) >= count
    BY <1>1, <1>2, RunCounts
  <2>2. e + 1 = s + count /\ e \in 0 .. max - 1 /\ ~bits[e]
    BY <1>1, <1>2
  <2> HIDE DEF e
  <2> QED  BY <2>1, <2>2 DEF StopBits, FreeBits
<1>4. stop \in SUBSET Nat
  BY <1>1 DEF StopBits, FreeBits
<1>5. m \in stop /\ m <= e
  <2> HIDE DEF stop, e
  <2> QED  BY <1>3, <1>4, MinOfNaturals
<1>6. m \in Nat /\ m <= max - 1 /\ ~bits[m] /\ Cardinality(FreeBits(bits, 0, m + 1)) >= count
  <2> HIDE DEF m
  <2> QED  BY <1>1, <1>5 DEF StopBits, FreeBits
<1>7. pmem_scan(bits, 0, max, count) = r
  BY <1>3, Zenon DEF pmem_scan
<1> HIDE DEF m, stop
<1>8. s <= m
  <2> SUFFICES ASSUME m + 1 <= s PROVE FALSE
    BY <1>1, <1>6
  <2>1. /\ Cardinality(FreeBits(bits, 0, m + 1)) \in Nat /\ Cardinality(FreeBits(bits, 0, s)) \in Nat
        /\ Cardinality(FreeBits(bits, 0, m + 1)) <= Cardinality(FreeBits(bits, 0, s))
    BY <1>1, <1>6, FreeBitsGrow
  <2> QED  BY <1>2, <1>6, <2>1
<1>9. r \in 0 .. m /\ (\A i \in r .. m : ~bits[i]) /\ (r = 0 \/ bits[r - 1])
  <2>1. \A i \in 0 .. m : bits[i] \in BOOLEAN
    BY <1>1, <1>6
  <2>2. 0 \in Nat /\ 0 <= m
    BY <1>6
  <2>3. /\ RunStart(bits, 0, m) \in 0 .. m
        /\ \A i \in RunStart(bits, 0, m) .. m : ~bits[i]
        /\ RunStart(bits, 0, m) = 0 \/ bits[RunStart(bits, 0, m) - 1]
    BY <1>6, <2>1, <2>2, RunStartIs
  <2> QED  BY <2>3
<1> HIDE DEF r
<1>10. r <= s
  <2> SUFFICES ASSUME s < r PROVE FALSE
    BY <1>1, <1>6, <1>9
  <2>1. r - 1 \in s .. s + count - 1
    BY <1>1, <1>5, <1>6, <1>9
  <2> QED  BY <1>1, <1>2, <1>9, <2>1
<1>11. \A i \in r .. r + count - 1 : ~bits[i]
  <2> TAKE i \in r .. r + count - 1
  <2>1. i \in r .. m \/ i \in s .. s + count - 1
    BY <1>1, <1>6, <1>8, <1>9, <1>10
  <2> QED  BY <1>2, <1>9, <2>1
<1>12. r \in 0 .. max - 1 /\ r + count <= max
  BY <1>1, <1>6, <1>9, <1>10
<1> QED  BY <1>7, <1>11, <1>12

\* The bits that are clear are those of the free frames.
LEMMA BitsOfFree ==
  ASSUME top \in Nat, free \subseteq 0 .. top - 1
  PROVE  /\ bitmap \in [0 .. top - 1 -> BOOLEAN]
         /\ \A i \in 0 .. top - 1 : ~bitmap[i] <=> i \in free
         /\ FreeBits(bitmap, 0, top) = free
<1>1. bitmap \in [0 .. top - 1 -> BOOLEAN] /\ \A i \in 0 .. top - 1 : ~bitmap[i] <=> i \in free
  BY DEF bitmap
<1>2. FreeBits(bitmap, 0, top) = free
  BY <1>1 DEF FreeBits
<1> QED  BY <1>1, <1>2

\* For at most one frame the scan stops at the first free one.
LEMMA FirstFree ==
  ASSUME top \in Nat, free \subseteq 0 .. top - 1, NEW count \in Int, count <= 1, free # {}
  PROVE  Found(count) \in free
<1> DEFINE stop == StopBits(bitmap, 0, top, count)
           m == Min(free)
<1>1. stop = free
  <2>1. ASSUME NEW i \in free PROVE Cardinality(FreeBits(bitmap, 0, i + 1)) >= count
    <3> DEFINE upto == FreeBits(bitmap, 0, i + 1)
    <3>1. i \in Nat /\ i \in upto
      <4>1. i \in 0 .. top - 1 /\ ~bitmap[i]
        BY BitsOfFree
      <4> QED  BY <4>1 DEF FreeBits
    <3>2. IsFiniteSet(upto) /\ Cardinality(upto) \in Nat
      BY <3>1, FreeBitsGrow
    <3> HIDE DEF upto
    <3>3. Cardinality(upto) # 0
      BY <3>1, <3>2, FS_EmptySet
    <3>4. Cardinality(upto) >= count
      BY <3>2, <3>3
    <3> QED  BY <3>4 DEF upto
  <2> QED  BY <2>1, BitsOfFree DEF StopBits
<1>2. m \in free
  <2>1. free \in SUBSET Nat
    OBVIOUS
  <2> QED  BY <2>1, MinOfNaturals
<1>3. Found(count) = RunStart(bitmap, 0, m)
  BY <1>1 DEF Found, pmem_scan
<1> HIDE DEF m
<1>4. m \in Nat /\ 0 <= m /\ m < top /\ ~bitmap[m]
  <2>1. m \in 0 .. top - 1
    BY <1>2
  <2> QED  BY <1>2, <2>1, BitsOfFree
<1>5. \A i \in 0 .. m : bitmap[i] \in BOOLEAN
  <2>1. \A i \in 0 .. m : i \in 0 .. top - 1
    BY <1>4
  <2> QED  BY <2>1, BitsOfFree
<1>6. RunStart(bitmap, 0, m) \in 0 .. m /\ ~bitmap[RunStart(bitmap, 0, m)]
  BY <1>4, <1>5, RunStartIs
<1>7. RunStart(bitmap, 0, m) \in 0 .. top - 1
  BY <1>4, <1>6
<1> QED  BY <1>3, <1>6, <1>7, BitsOfFree

\* A request that has room is served: mm_pmem_alloc gives free frames, and
\* nothing only when none is free.
LEMMA RequestServed ==
  ASSUME top \in Nat, free \subseteq 0 .. top - 1, NEW count \in Int, HasRoom(bitmap, top, count)
  PROVE  \/ Found(count) = -1 /\ free = {}
         \/ /\ Found(count) \in free /\ Found(count) \in Nat
            /\ Found(count) .. Found(count) + count - 1 \subseteq free
<1>1. CASE free = {}
  <2>1. FreeBits(bitmap, 0, top) = {} /\ StopBits(bitmap, 0, top, count) = {}
    BY <1>1, BitsOfFree DEF StopBits
  <2> QED  BY <1>1, <2>1 DEF Found, pmem_scan
<1>2. CASE free # {} /\ count <= 1
  <2> DEFINE f == Found(count)
  <2>1. f \in free
    BY <1>2, FirstFree
  <2> HIDE DEF f
  <2>2. f \in Nat
    BY <2>1
  <2>3. f .. f + count - 1 \subseteq {f}
    BY <1>2, <2>2
  <2> QED  BY <2>1, <2>2, <2>3 DEF f
<1>3. CASE free # {} /\ count > 1
  <2> DEFINE f == Found(count)
  <2>1. PICK s \in 0 .. top - 1 : RoomAt(bitmap, top, count, s)
    BY <1>3, BitsOfFree DEF HasRoom
  <2>2. f \in 0 .. top - 1 /\ \A i \in f .. f + count - 1 : ~bitmap[i]
    BY <1>3, <2>1, BitsOfFree, RoomServes DEF Found
  <2>3. f + count <= top
    BY <1>3, <2>1, BitsOfFree, RoomServes DEF Found
  <2> HIDE DEF f
  <2>4. \A i \in f .. f + count - 1 : i \in 0 .. top - 1
    BY <2>2, <2>3
  <2>5. f \in f .. f + count - 1
    BY <1>3, <2>2
  <2>6. f .. f + count - 1 \subseteq free
    BY <2>2, <2>4, BitsOfFree
  <2> QED  BY <2>2, <2>5, <2>6 DEF f
<1> QED  BY <1>1, <1>2, <1>3
-----------------------------------------------------------------------------
\* The calls of _start and kmain, one by one.
LEMMA CallList ==
  /\ Len(Calls) = 17
  /\ Calls[1] = "md_gdt_load"
  /\ Calls[2] = "md_set_vectors"
  /\ Calls[3] = "md_idt_load"
  /\ Calls[4] = "md_tss_init"
  /\ Calls[5] = "mu_uart_init"
  /\ Calls[6] = "bpt_init"
  /\ Calls[7] = "mm_pmem_init"
  /\ Calls[8] = "os_pool_init"
  /\ Calls[9] = "mu_pmap_init"
  /\ Calls[10] = "mu_cpu_conf"
  /\ Calls[11] = "ob_store_init"
  /\ Calls[12] = "timer_init"
  /\ Calls[13] = "mu_timer_init"
  /\ Calls[14] = "tsc_init"
  /\ Calls[15] = "acpi_init"
  /\ Calls[16] = "initrd_init"
  /\ Calls[17] = "stack"
BY DEF Calls

\* What follows each call.
LEMMA FollowingCall ==
  /\ Done("md_gdt_load") => pc' = "md_set_vectors"
  /\ Done("md_set_vectors") => pc' = "md_idt_load"
  /\ Done("md_idt_load") => pc' = "md_tss_init"
  /\ Done("md_tss_init") => pc' = "mu_uart_init"
  /\ Done("mu_uart_init") => pc' = "bpt_init"
  /\ Done("bpt_init") => pc' = "mm_pmem_init"
  /\ Done("mm_pmem_init") => pc' = "os_pool_init"
  /\ Done("os_pool_init") => pc' = "mu_pmap_init"
  /\ Done("mu_pmap_init") => pc' = "mu_cpu_conf"
  /\ Done("mu_cpu_conf") => pc' = "ob_store_init"
  /\ Done("ob_store_init") => pc' = "timer_init"
  /\ Done("timer_init") => pc' = "mu_timer_init"
  /\ Done("mu_timer_init") => pc' = "tsc_init"
  /\ Done("tsc_init") => pc' = "acpi_init"
  /\ Done("acpi_init") => pc' = "initrd_init"
  /\ Done("initrd_init") => pc' = "stack"
BY CallList DEF Done

LEMMA ReturnKeeps == \A call : Done(call) => UNCHANGED <<boot, cause>>
BY DEF Done

\* One call more is one element more.
LEMMA FirstStep == ASSUME NEW n \in Nat PROVE First(n + 1) = First(n) \cup {Calls[n + 1]}
BY DEF First

LEMMA FirstCalls ==
  /\ First(1) = {"md_gdt_load"}
  /\ First(2) = {"md_gdt_load", "md_set_vectors"}
  /\ First(3) = {"md_gdt_load", "md_set_vectors", "md_idt_load"}
  /\ First(4) = {"md_gdt_load", "md_set_vectors", "md_idt_load", "md_tss_init"}
  /\ First(5) = {"md_gdt_load", "md_set_vectors", "md_idt_load", "md_tss_init", "mu_uart_init"}
  /\ First(6) = {"md_gdt_load", "md_set_vectors", "md_idt_load", "md_tss_init", "mu_uart_init",
                 "bpt_init"}
  /\ First(8) = {"md_gdt_load", "md_set_vectors", "md_idt_load", "md_tss_init", "mu_uart_init",
                 "bpt_init", "mm_pmem_init", "os_pool_init"}
  /\ First(9) = {"md_gdt_load", "md_set_vectors", "md_idt_load", "md_tss_init", "mu_uart_init",
                 "bpt_init", "mm_pmem_init", "os_pool_init", "mu_pmap_init"}
  /\ First(10) = {"md_gdt_load", "md_set_vectors", "md_idt_load", "md_tss_init", "mu_uart_init",
                  "bpt_init", "mm_pmem_init", "os_pool_init", "mu_pmap_init", "mu_cpu_conf"}
  /\ First(11) = {"md_gdt_load", "md_set_vectors", "md_idt_load", "md_tss_init", "mu_uart_init",
                  "bpt_init", "mm_pmem_init", "os_pool_init", "mu_pmap_init", "mu_cpu_conf",
                  "ob_store_init"}
  /\ First(12) = {"md_gdt_load", "md_set_vectors", "md_idt_load", "md_tss_init", "mu_uart_init",
                  "bpt_init", "mm_pmem_init", "os_pool_init", "mu_pmap_init", "mu_cpu_conf",
                  "ob_store_init", "timer_init"}
  /\ First(14) = {"md_gdt_load", "md_set_vectors", "md_idt_load", "md_tss_init", "mu_uart_init",
                  "bpt_init", "mm_pmem_init", "os_pool_init", "mu_pmap_init", "mu_cpu_conf",
                  "ob_store_init", "timer_init", "mu_timer_init", "tsc_init"}
  /\ First(15) = {"md_gdt_load", "md_set_vectors", "md_idt_load", "md_tss_init", "mu_uart_init",
                  "bpt_init", "mm_pmem_init", "os_pool_init", "mu_pmap_init", "mu_cpu_conf",
                  "ob_store_init", "timer_init", "mu_timer_init", "tsc_init", "acpi_init"}
  /\ First(17) = {"md_gdt_load", "md_set_vectors", "md_idt_load", "md_tss_init", "mu_uart_init",
                  "bpt_init", "mm_pmem_init", "os_pool_init", "mu_pmap_init", "mu_cpu_conf",
                  "ob_store_init", "timer_init", "mu_timer_init", "tsc_init", "acpi_init",
                  "initrd_init", "stack"}
<1>0. First(0) = {}
  BY DEF First
<1>1. First(1) = First(0) \cup {"md_gdt_load"}
  BY FirstStep, CallList
<1>2. First(2) = First(1) \cup {"md_set_vectors"}
  BY FirstStep, CallList
<1>3. First(3) = First(2) \cup {"md_idt_load"}
  BY FirstStep, CallList
<1>4. First(4) = First(3) \cup {"md_tss_init"}
  BY FirstStep, CallList
<1>5. First(5) = First(4) \cup {"mu_uart_init"}
  BY FirstStep, CallList
<1>6. First(6) = First(5) \cup {"bpt_init"}
  BY FirstStep, CallList
<1>7. First(7) = First(6) \cup {"mm_pmem_init"}
  BY FirstStep, CallList
<1>8. First(8) = First(7) \cup {"os_pool_init"}
  BY FirstStep, CallList
<1>9. First(9) = First(8) \cup {"mu_pmap_init"}
  BY FirstStep, CallList
<1>10. First(10) = First(9) \cup {"mu_cpu_conf"}
  BY FirstStep, CallList
<1>11. First(11) = First(10) \cup {"ob_store_init"}
  BY FirstStep, CallList
<1>12. First(12) = First(11) \cup {"timer_init"}
  BY FirstStep, CallList
<1>13. First(13) = First(12) \cup {"mu_timer_init"}
  BY FirstStep, CallList
<1>14. First(14) = First(13) \cup {"tsc_init"}
  BY FirstStep, CallList
<1>15. First(15) = First(14) \cup {"acpi_init"}
  BY FirstStep, CallList
<1>16. First(16) = First(15) \cup {"initrd_init"}
  BY FirstStep, CallList
<1>17. First(17) = First(16) \cup {"stack"}
  BY FirstStep, CallList
<1> QED  BY <1>0, <1>1, <1>2, <1>3, <1>4, <1>5, <1>6, <1>7, <1>8, <1>9, <1>10, <1>11, <1>12, <1>13, <1>14, <1>15, <1>16, <1>17

LEMMA AllCalls == ToSet(Calls) = First(17)
BY CallList DEF ToSet, First, Calls

\* What pmem_probe takes for usable is what the bootloader meant.
LEMMA UsableIsGiven ==
  ASSUME boot.memmap \in Seq(limine_memmap_entry), hooks = "limine"
  PROVE  Usable = Given
<1>1. \A n \in LimineTypes : mem_type_t[n + 1] = "MEM_USABLE" <=> n = LIMINE_MEMMAP_USABLE
  BY DEF LimineTypes, mem_type_t, LIMINE_MEMMAP_USABLE
<1>2. \A i \in DOMAIN boot.memmap : boot.memmap[i] \in limine_memmap_entry
  OBVIOUS
<1>3. \A i \in DOMAIN boot.memmap :
        /\ limine_get_mementry(boot.memmap[i]).frames = boot.memmap[i].frames
        /\ limine_get_mementry(boot.memmap[i]).type = "MEM_USABLE"
             <=> boot.memmap[i].type = LIMINE_MEMMAP_USABLE
  BY <1>1, <1>2 DEF limine_get_mementry, limine_memmap_entry
<1> QED  BY <1>3 DEF Usable, Given, Entries

\* A call that leaves memory alone.
LEMMA MemoryKept ==
  ASSUME BootInv, UNCHANGED <<boot, pool, memVars>>, pc \in First(17),
         \/ pc' \in {"panic", "idle", "reset"}
         \/ pc' \in First(17) \ {"os_pool_init"} /\ (Past(9)' => Past(9))
  PROVE  FreeInv' /\ MappedInv' /\ RegionInv' /\ StackInv'
<1> USE FirstCalls DEF BootInv, memVars, rtsVars
<1>1. Given' = Given
  BY DEF Given
<1>2. FreeInv'
  BY <1>1 DEF FreeInv
<1>3. MappedInv'
  BY <1>1 DEF MappedInv, Past, Stopped, Mapped, Owned
<1>4. RegionInv' /\ StackInv'
  BY DEF RegionInv, StackInv, Loading
<1> QED  BY <1>2, <1>3, <1>4

LEMMA TypeKept ==
  ASSUME TypeOK, UNCHANGED memVars, pc' \in First(17) \cup {"panic", "idle", "reset"},
         hooks' \in {"none", "limine"}, loaded' \subseteq Responses,
         uart' \in BOOLEAN, root_sdt' \in BOOLEAN, pool' \subseteq Frame,
         nodes' \subseteq {"/", "/clkdev", "/clkdev/tsc"}
  PROVE  TypeOK'
BY AllCalls DEF TypeOK, Mapped, memVars, rtsVars

\* panic(), an exception, and the return of kmain: with an IDT that has gates,
\* a call that stops the processor keeps the invariant.
LEMMA StopKeeps ==
  ASSUME BootInv, NEW where, NEW why, Stops(where, why), pc \in First(17),
         where \in {"panic", "idle", "reset"}
  PROVE  BootInv'
<1> USE FirstCalls DEF BootInv, Stops
<1>1. FreeInv' /\ MappedInv' /\ RegionInv' /\ StackInv'
  BY MemoryKept DEF partVars
<1>2. CpuInv' /\ PartsInv'
  BY DEF CpuInv, PartsInv, Past, Stopped, partVars, bptVars
<1>3. TypeOK'
  BY TypeKept DEF TypeOK, partVars, bptVars
<1> QED  BY <1>1, <1>2, <1>3

LEMMA FaultKeeps ==
  ASSUME BootInv, Faults, pc \in First(17)
  PROVE  BootInv'
BY StopKeeps DEF Faults

\* The calls of _start.
LEMMA StartKeeps ==
  ASSUME BootInv,
         md_gdt_load \/ md_set_vectors \/ md_idt_load \/ md_tss_init \/ mu_uart_init
  PROVE  BootInv'
<1> USE FirstCalls, FollowingCall, ReturnKeeps DEF BootInv
<1>1. ASSUME NEW call, NEW register, Loads(call, register),
             <<call, register>> \in {<<"md_gdt_load", "gdt">>, <<"md_set_vectors", "gates">>,
                                     <<"md_idt_load", "idt">>, <<"md_tss_init", "tr">>}
      PROVE  BootInv'
  <2> USE <1>1 DEF Loads
  <2>1. FreeInv' /\ MappedInv' /\ RegionInv' /\ StackInv'
    BY MemoryKept DEF Past, Stopped, partVars
  <2>2. CpuInv'
    <3>1. CASE <<call, register>> = <<"md_gdt_load", "gdt">>
      BY <3>1 DEF CpuInv, Past, Stopped
    <3>2. CASE <<call, register>> = <<"md_set_vectors", "gates">>
      BY <3>2 DEF CpuInv, Past, Stopped
    <3>3. CASE <<call, register>> = <<"md_idt_load", "idt">>
      BY <3>3 DEF CpuInv, Past, Stopped
    <3>4. CASE <<call, register>> = <<"md_tss_init", "tr">>
      BY <3>4 DEF CpuInv, Past, Stopped
    <3> QED  BY <3>1, <3>2, <3>3, <3>4
  <2>3. PartsInv'
    BY DEF PartsInv, Past, Stopped, partVars, bptVars
  <2>4. TypeOK'
    BY TypeKept DEF TypeOK, partVars, bptVars
  <2> QED  BY <2>1, <2>2, <2>3, <2>4
<1>2. CASE md_gdt_load
  BY <1>1, <1>2 DEF md_gdt_load
<1>3. CASE md_set_vectors
  BY <1>1, <1>3 DEF md_set_vectors
<1>4. CASE md_idt_load
  BY <1>1, <1>4 DEF md_idt_load
<1>5. CASE md_tss_init
  <2>1. CASE cpu.gdt
    BY <1>1, <1>5, <2>1 DEF md_tss_init
  <2>2. CASE ~cpu.gdt
    BY FaultKeeps, <1>5, <2>2 DEF md_tss_init
  <2> QED  BY <2>1, <2>2
<1>6. CASE mu_uart_init
  <2> USE <1>6 DEF mu_uart_init
  <2>1. FreeInv' /\ MappedInv' /\ RegionInv' /\ StackInv'
    BY MemoryKept DEF Past, Stopped
  <2>2. CpuInv'
    BY DEF CpuInv, Past, Stopped
  <2>3. PartsInv'
    BY DEF PartsInv, Past, Stopped, bptVars
  <2>4. TypeOK'
    BY TypeKept DEF TypeOK, bptVars
  <2> QED  BY <2>1, <2>2, <2>3, <2>4
<1> QED  BY <1>2, <1>3, <1>4, <1>5, <1>6

\* A call that changes neither memory nor the pool.
LEMMA PartKeeps ==
  ASSUME BootInv,
         \/ boot.proto = "limine" /\ bpt_init
         \/ mu_cpu_conf \/ ob_store_init \/ timer_init \/ mu_timer_init \/ tsc_init
         \/ acpi_init
  PROVE  BootInv'
<1> USE FirstCalls, FollowingCall, ReturnKeeps DEF BootInv
<1>1. CASE boot.proto = "limine" /\ bpt_init
  <2>1. /\ pc = "bpt_init" /\ pc' = "mm_pmem_init"
        /\ hooks' = "limine" /\ loaded' = boot.given
        /\ UNCHANGED <<boot, cpu, uart, pool, nodes, root_sdt, memVars>>
    BY <1>1 DEF bpt_init, bpt_init_limine, partVars
  <2>2. FreeInv' /\ MappedInv' /\ RegionInv' /\ StackInv'
    BY <2>1, MemoryKept DEF Past, Stopped
  <2>3. CpuInv'
    BY <2>1 DEF CpuInv, Past, Stopped
  <2>4. PartsInv'
    BY <1>1, <2>1 DEF PartsInv, Past, Stopped
  <2>5. boot.given \subseteq Responses
    BY DEF PartsInv
  <2>6. TypeOK'
    BY <2>1, <2>5, TypeKept DEF TypeOK
  <2> QED  BY <2>2, <2>3, <2>4, <2>6
<1>2. CASE mu_cpu_conf
  <2> USE <1>2 DEF mu_cpu_conf
  <2>1. FreeInv' /\ MappedInv' /\ RegionInv' /\ StackInv'
    BY MemoryKept DEF Past, Stopped, partVars
  <2>2. CpuInv'
    BY DEF CpuInv, Past, Stopped
  <2>3. PartsInv'
    BY DEF PartsInv, Past, Stopped, partVars, bptVars
  <2>4. TypeOK'
    BY TypeKept DEF TypeOK, partVars, bptVars
  <2> QED  BY <2>1, <2>2, <2>3, <2>4
<1>3. ASSUME NEW call, NEW parent, NEW path, Registers(call, parent, path),
             <<call, path>> \in {<<"ob_store_init", "/">>, <<"timer_init", "/clkdev">>,
                                 <<"tsc_init", "/clkdev/tsc">>}
      PROVE  BootInv'
  <2>1. CASE Faults
    BY FaultKeeps, <1>3, <2>1 DEF Registers
  <2>2. CASE Panics("unallocated")
    BY StopKeeps, <1>3, <2>2 DEF Registers, Panics
  <2>3. CASE /\ nodes' = nodes \cup {path}
             /\ Done(call)
             /\ UNCHANGED <<cpu, bptVars, uart, pool, root_sdt, memVars>>
    <3> USE <1>3, <2>3 DEF Registers
    <3>1. FreeInv' /\ MappedInv' /\ RegionInv' /\ StackInv'
      BY MemoryKept DEF Past, Stopped
    <3>2. CpuInv'
      BY DEF CpuInv, Past, Stopped
    <3>3. PartsInv'
      BY DEF PartsInv, Past, Stopped, bptVars
    <3>4. TypeOK'
      <4>1. TypeOK
        OBVIOUS
      <4>2. /\ pc' \in First(17)
            /\ nodes' \subseteq {"/", "/clkdev", "/clkdev/tsc"}
            /\ UNCHANGED <<hooks, loaded, uart, root_sdt, pool, memVars>>
        BY <4>1 DEF TypeOK, bptVars
      <4> QED  BY ONLY <4>1, <4>2, TypeKept DEF TypeOK
    <3> QED  BY <3>1, <3>2, <3>3, <3>4
  <2> QED  BY <1>3, <2>1, <2>2, <2>3 DEF Registers
<1>4. CASE ob_store_init
  BY <1>3, <1>4 DEF ob_store_init
<1>5. CASE timer_init
  BY <1>3, <1>5 DEF timer_init
<1>6. CASE tsc_init
  BY <1>3, <1>6 DEF tsc_init
<1>7. CASE mu_timer_init
  <2>1. CASE "/clkdev" \in nodes
    <3> USE <1>7, <2>1 DEF mu_timer_init
    <3>1. FreeInv' /\ MappedInv' /\ RegionInv' /\ StackInv'
      BY MemoryKept DEF Past, Stopped, partVars
    <3>2. CpuInv'
      BY DEF CpuInv, Past, Stopped
    <3>3. PartsInv'
      BY DEF PartsInv, Past, Stopped, partVars, bptVars
    <3>4. TypeOK'
      BY TypeKept DEF TypeOK, partVars, bptVars
    <3> QED  BY <3>1, <3>2, <3>3, <3>4
  <2>2. CASE "/clkdev" \notin nodes
    BY StopKeeps, <1>7, <2>2 DEF mu_timer_init, Panics
  <2> QED  BY <2>1, <2>2
<1>8. CASE acpi_init
  <2>1. CASE Faults
    BY FaultKeeps, <1>8, <2>1 DEF acpi_init
  <2>2. CASE Panics("no_rsdp")
    BY StopKeeps, <1>8, <2>2 DEF acpi_init, Panics
  <2>3. CASE /\ root_sdt' = TRUE
             /\ Done("acpi_init")
             /\ UNCHANGED <<cpu, bptVars, uart, pool, nodes, memVars>>
    <3> USE <1>8, <2>3 DEF acpi_init
    <3>1. FreeInv' /\ MappedInv' /\ RegionInv' /\ StackInv'
      BY MemoryKept DEF Past, Stopped
    <3>2. CpuInv'
      BY DEF CpuInv, Past, Stopped
    <3>3. PartsInv'
      BY DEF PartsInv, Past, Stopped, bptVars
    <3>4. TypeOK'
      <4>1. /\ pc' \in First(17) /\ root_sdt' \in BOOLEAN
            /\ UNCHANGED <<hooks, loaded, uart, pool, nodes, memVars>>
        BY DEF bptVars
      <4>2. TypeOK
        OBVIOUS
      <4> QED  BY ONLY <4>1, <4>2, TypeKept DEF TypeOK
    <3> QED  BY <3>1, <3>2, <3>3, <3>4
  <2> QED  BY <1>8, <2>1, <2>2, <2>3 DEF acpi_init
<1> QED  BY <1>1, <1>2, <1>4, <1>5, <1>6, <1>7, <1>8

\* mm_pmem_init finds the memory the bootloader gave.
LEMMA PmemKeeps == BootInv /\ mm_pmem_init => BootInv'
<1> SUFFICES ASSUME BootInv, mm_pmem_init PROVE BootInv'
  OBVIOUS
<1> USE FirstCalls, FollowingCall, ReturnKeeps DEF BootInv
<1>1. CASE Faults
  BY FaultKeeps, <1>1 DEF mm_pmem_init
<1>2. CASE /\ free' = Usable /\ UsableTop(top')
           /\ Done("mm_pmem_init")
           /\ UNCHANGED <<cpu, bptVars, partVars, image, mapping, rtsVars>>
  <2>1. /\ pc = "mm_pmem_init" /\ pc' = "os_pool_init" /\ free' = Usable
        /\ UNCHANGED <<boot, cpu, hooks, loaded, uart, pool, nodes, root_sdt, image, mapping,
                      memory, stack, seg, pma, done, entry>>
    BY <1>2 DEF mm_pmem_init, bptVars, partVars, rtsVars
  <2>2. hooks = "limine" /\ boot.memmap \in Seq(limine_memmap_entry) /\ pool = {}
    BY <2>1, BootAssumption DEF PartsInv, Past, Stopped
  <2>3. Given' = Given /\ free' = Given
    BY <2>1, <2>2, UsableIsGiven DEF Given
  <2>4. Given \subseteq Frame
    <3>1. \A i \in DOMAIN boot.memmap : boot.memmap[i] \in limine_memmap_entry
      BY <2>2
    <3> QED  BY <3>1 DEF Given, limine_memmap_entry
  <2>5. top' \in Nat /\ free' \subseteq 0 .. top' - 1
    <3>1. Usable \subseteq Nat
      BY <2>1, <2>3, <2>4, LoaderAssumption
    <3>2. UsableTop(top')
      BY <1>2
    <3> QED  BY <2>1, <3>1, <3>2 DEF UsableTop
  <2>6. FreeInv'
    BY <2>1, <2>2, <2>3, <2>4, <2>5 DEF FreeInv
  <2>7. MappedInv' /\ RegionInv' /\ StackInv'
    BY <2>1 DEF MappedInv, RegionInv, StackInv, Loading, Past
  <2>8. CpuInv'
    BY <2>1 DEF CpuInv, Past, Stopped
  <2>9. PartsInv'
    BY <2>1 DEF PartsInv, Past, Stopped
  <2>10. TypeOK'
    BY <2>1, <2>3, <2>4, <2>5, AllCalls DEF TypeOK, Mapped
  <2> QED  BY <2>6, <2>7, <2>8, <2>9, <2>10
<1> QED  BY <1>1, <1>2 DEF mm_pmem_init

\* os_pool_init takes a run of free frames.
LEMMA PoolKeeps == BootInv /\ RequestHasRoom /\ os_pool_init => BootInv'
<1> SUFFICES ASSUME BootInv, RequestHasRoom, os_pool_init PROVE BootInv'
  OBVIOUS
<1> USE FirstCalls, FollowingCall, ReturnKeeps DEF BootInv
<1>1. CASE Panics("no_frames")
  BY StopKeeps, <1>1 DEF os_pool_init, Panics
<1>2. CASE Faults
  BY FaultKeeps, <1>2 DEF os_pool_init
<1>3. CASE /\ Found(POOLPAGES) >= 0
           /\ pool' = Found(POOLPAGES) .. Found(POOLPAGES) + POOLPAGES - 1
           /\ free' = Taken(pool')
           /\ Done("os_pool_init")
           /\ UNCHANGED <<cpu, bptVars, uart, nodes, root_sdt, image, mapping, top, rtsVars>>
  <2>1. /\ pc = "os_pool_init" /\ pc' = "mu_pmap_init" /\ free' = free \ pool'
        /\ UNCHANGED <<boot, cpu, hooks, loaded, uart, nodes, root_sdt, image, mapping, top,
                      memory, stack, seg, pma, done, entry>>
    BY <1>3 DEF os_pool_init, bptVars, rtsVars, Taken
  <2>2. pool' # {} /\ pool' \subseteq free
    <3> DEFINE f == Found(POOLPAGES)
    <3>1. Request = POOLPAGES
      BY <2>1 DEF Request
    <3>2. f \in free /\ f .. f + POOLPAGES - 1 \subseteq free
      <4>1. f # -1
        BY <1>3
      <4> QED  BY <3>1, <4>1, RequestServed, BootAssumption DEF RequestHasRoom, FreeInv, TypeOK
    <3> HIDE DEF f
    <3>3. f \in Nat
      BY <3>2, LoaderAssumption DEF FreeInv
    <3>4. f \in f .. f + POOLPAGES - 1
      BY <3>3, BootAssumption
    <3> QED  BY <1>3, <3>2, <3>4 DEF f
  <2>3. Given' = Given
    BY <2>1 DEF Given
  <2>4. FreeInv'
    BY <2>1, <2>2, <2>3 DEF FreeInv
  <2>5. MappedInv' /\ RegionInv' /\ StackInv'
    BY <2>1 DEF MappedInv, RegionInv, StackInv, Loading, Past
  <2>6. CpuInv'
    BY <2>1 DEF CpuInv, Past, Stopped
  <2>7. PartsInv'
    BY <2>1, <2>2 DEF PartsInv, Past, Stopped
  <2>8. TypeOK'
    BY <2>1, <2>2, AllCalls DEF TypeOK, Mapped
  <2> QED  BY <2>4, <2>5, <2>6, <2>7, <2>8
<1>4. Found(POOLPAGES) = -1 \/ Found(POOLPAGES) >= 0
  <2>1. Request = POOLPAGES
    BY DEF os_pool_init, Request
  <2>2. Found(POOLPAGES) = -1 \/ Found(POOLPAGES) \in Nat
    BY <2>1, RequestServed, BootAssumption DEF RequestHasRoom, FreeInv, TypeOK
  <2> QED  BY <2>2
<1> QED  BY <1>1, <1>2, <1>3, <1>4 DEF os_pool_init

\* mu_pmap_init leaves nothing mapped in the lower half.
LEMMA PmapKeeps == BootInv /\ mu_pmap_init => BootInv'
<1> SUFFICES ASSUME BootInv, mu_pmap_init PROVE BootInv'
  OBVIOUS
<1> USE FirstCalls, FollowingCall, ReturnKeeps DEF BootInv
<1>1. CASE Faults
  BY FaultKeeps, <1>1 DEF mu_pmap_init
<1>2. CASE /\ AS!Clear(LowerHalf)
           /\ Done("mu_pmap_init")
           /\ UNCHANGED <<cpu, bptVars, partVars, image, free, top, rtsVars>>
  <2>1. /\ pc = "mu_pmap_init" /\ pc' = "mu_cpu_conf"
        /\ mapping' = [v \in Pages |-> {}]
        /\ UNCHANGED <<boot, cpu, hooks, loaded, uart, pool, nodes, root_sdt, image, free, top,
                      memory, stack, seg, pma, done, entry>>
    BY <1>2 DEF mu_pmap_init, bptVars, partVars, rtsVars, AS!Clear, LowerHalf
  <2>2. Given' = Given
    BY <2>1 DEF Given
  <2>3. FreeInv'
    BY <2>1, <2>2 DEF FreeInv
  <2>4. Mapped' = {}
    BY <2>1 DEF Mapped
  <2>5. MappedInv'
    BY <2>1, <2>4 DEF MappedInv, Past
  <2>6. RegionInv' /\ StackInv'
    BY <2>1 DEF RegionInv, StackInv, Loading
  <2>7. CpuInv'
    BY <2>1 DEF CpuInv, Past, Stopped
  <2>8. PartsInv'
    BY <2>1 DEF PartsInv, Past, Stopped
  <2>9. TypeOK'
    BY <2>1, <2>4, AllCalls DEF TypeOK
  <2> QED  BY <2>3, <2>5, <2>6, <2>7, <2>8, <2>9
<1> QED  BY <1>1, <1>2 DEF mu_pmap_init

\* initrd_init finds an archive, which holds an image or none.
LEMMA InitrdKeeps == BootInv /\ initrd_init => BootInv'
<1> SUFFICES ASSUME BootInv, initrd_init PROVE BootInv'
  OBVIOUS
<1> USE FirstCalls, FollowingCall, ReturnKeeps DEF BootInv
<1>1. CASE Faults
  BY FaultKeeps, <1>1 DEF initrd_init
<1>2. CASE Panics("no_initrd")
  BY StopKeeps, <1>2 DEF initrd_init, Panics
<1>3. CASE /\ \E file \in limine_get_module(INITRD_PATH) : image' = file.image
           /\ Done("initrd_init")
           /\ UNCHANGED <<cpu, bptVars, partVars, mapping, free, top, rtsVars>>
  <2>1. /\ pc = "initrd_init" /\ pc' = "stack"
        /\ UNCHANGED <<boot, cpu, hooks, loaded, uart, pool, nodes, root_sdt, mapping, free, top,
                      memory, stack, seg, pma, done, entry>>
    BY <1>3 DEF initrd_init, bptVars, partVars, rtsVars
  <2>2. image' \in Images \cup {NotFound}
    <3>1. hooks = "limine" /\ boot.modules \in Seq(limine_file)
      BY <2>1, BootAssumption DEF PartsInv, Past, Stopped
    <3>2. \A i \in DOMAIN Modules : Modules[i] \in limine_file
      BY <3>1 DEF Modules
    <3> QED  BY <1>3, <3>2 DEF limine_get_module, Named, limine_file
  <2>3. Given' = Given /\ Mapped' = Mapped
    BY <2>1 DEF Given, Mapped
  <2>4. FreeInv'
    BY <2>1, <2>3 DEF FreeInv
  <2>5. MappedInv'
    BY <2>1, <2>3 DEF MappedInv, Past, Stopped, Owned
  <2>6. RegionInv' /\ StackInv'
    BY <2>1 DEF RegionInv, StackInv, Loading
  <2>7. CpuInv'
    BY <2>1 DEF CpuInv, Past, Stopped
  <2>8. PartsInv'
    BY <2>1 DEF PartsInv, Past, Stopped
  <2>9. TypeOK'
    BY <2>1, <2>2, <2>3, AllCalls DEF TypeOK
  <2> QED  BY <2>4, <2>5, <2>6, <2>7, <2>8, <2>9
<1> QED  BY <1>1, <1>2, <1>3 DEF initrd_init
-----------------------------------------------------------------------------
(* start_rts.  Its steps leave the parts of the kernel as they are. *)

LEMMA RtsPlaces ==
  ASSUME Next
  PROVE  /\ pc \in {"stack", "map_stack", "lookup", "verify", "segment", "map"}
         /\ pc' \in {"map_stack", "lookup", "verify", "segment", "map", "user", "panic"}
         /\ image' = image
BY DEF Next, AllocStack, MapStack, Lookup, Verify, Skip, AllocRegion, LoadFails, Panic, MapPage,
       MapFails, Copy, Enter

LEMMA RtsPartsKept ==
  ASSUME BootInv, start_rts
  PROVE  CpuInv' /\ PartsInv'
<1> USE FirstCalls, RtsPlaces DEF BootInv, start_rts
<1>1. CpuInv'
  BY DEF CpuInv, Past, Stopped, Uvector
<1>2. PartsInv'
  BY DEF PartsInv, Past, Stopped, bptVars, partVars
<1> QED  BY <1>1, <1>2

\* What one of its steps may change: none of the other variables.
RtsFrame == UNCHANGED <<boot, hooks, loaded, uart, pool, nodes, root_sdt>>

MemoryInv == FreeInv /\ MappedInv /\ RegionInv /\ StackInv

\* An image's headers are segments.
LEMMA CurrentSegment ==
  ASSUME image \in Images, seg \in Nat \ {0}, seg <= Len(image.segments)
  PROVE  /\ Current \in Segment /\ Count(Current) \in Int
         /\ seg \in DOMAIN image.segments
<1>1. image.segments \in Seq(Segment)
  BY LoaderAssumption DEF Image
<1>2. seg \in DOMAIN image.segments
  BY <1>1
<1>3. Current \in Segment
  BY <1>1, <1>2 DEF Current
<1>4. Current.memsz \in Nat /\ Current.vaddr \in Nat
  BY <1>3 DEF Segment
<1>5. PAGESIZE \in Nat /\ PAGESIZE > 0
  BY LoaderAssumption
<1>6. Current.vaddr % PAGESIZE \in Int
  BY <1>4, <1>5
<1>7. (Current.memsz + (Current.vaddr % PAGESIZE) + PAGESIZE - 1) \div PAGESIZE \in Int
  BY <1>4, <1>5, <1>6
<1>8. RegionLength(Current) \in Int
  BY <1>5, <1>7 DEF RegionLength, ALIGN_UP
<1>9. Count(Current) \in Int
  BY <1>5, <1>8 DEF Count
<1> QED  BY <1>2, <1>3, <1>9

LEMMA PanicMemory ==
  ASSUME BootInv, Panic, RtsFrame
  PROVE  MemoryInv' /\ TypeOK'
<1> USE FirstCalls DEF BootInv, Panic, RtsFrame
<1>1. Given' = Given /\ Mapped' = Mapped
  BY DEF Given, Mapped
<1>2. MemoryInv'
  BY <1>1 DEF MemoryInv, FreeInv, MappedInv, RegionInv, StackInv, Past, Stopped, Loading
<1>3. TypeOK'
  BY <1>1 DEF TypeOK
<1> QED  BY <1>2, <1>3

LEMMA MapFailsMemory ==
  ASSUME BootInv, MapFails, RtsFrame
  PROVE  MemoryInv' /\ TypeOK'
<1> USE FirstCalls DEF BootInv, MapFails, RtsFrame
<1>1. Given' = Given /\ Mapped' = Mapped
  BY DEF Given, Mapped
<1>2. MemoryInv'
  BY <1>1 DEF MemoryInv, FreeInv, MappedInv, RegionInv, StackInv, Past, Stopped, Loading
<1>3. TypeOK'
  BY <1>1 DEF TypeOK
<1> QED  BY <1>2, <1>3

\* Mapping a page takes frames for tables, if any.
LEMMA MapsTakes ==
  ASSUME NEW page, NEW m, Maps(page, m)
  PROVE  mapping' = [mapping EXCEPT ![page] = {m}] /\ free' \subseteq free
BY DEF Maps, AS!Map, Taken

LEMMA AllocStackMemory ==
  ASSUME BootInv, AllocStack, RtsFrame
  PROVE  MemoryInv' /\ TypeOK'
<1> USE FirstCalls DEF BootInv
<1>1. CASE Panic
  BY <1>1, PanicMemory
<1>2. ASSUME NEW f, f = Found(1), f # -1, stack' = f, free' = Taken({f}), pc' = "map_stack",
             UNCHANGED <<image, mapping, top, memory, seg, pma, done, entry>>
      PROVE  MemoryInv' /\ TypeOK'
  <2>1. f \in free /\ free' = free \ {f} /\ pc = "stack"
    <3>1. HasRoom(bitmap, top, 1)
      BY DEF HasRoom
    <3>2. f \in free
      BY <1>2, <3>1, RequestServed DEF FreeInv, TypeOK
    <3> QED  BY <1>2, <3>2 DEF Taken, AllocStack
  <2>2. Given' = Given /\ Mapped' = Mapped /\ pool' = pool
    BY <1>2 DEF RtsFrame, Given, Mapped
  <2>3. FreeInv'
    BY <1>2, <2>1, <2>2 DEF FreeInv
  <2>4. MappedInv'
    BY <1>2, <2>1, <2>2 DEF MappedInv, Past, Stopped
  <2>5. RegionInv' /\ StackInv'
    BY <1>2, <2>1, <2>2 DEF RegionInv, StackInv, FreeInv, Loading, Owned
  <2>6. TypeOK'
    BY <1>2, <2>1, <2>2 DEF TypeOK, FreeInv, RtsFrame
  <2> QED  BY <2>3, <2>4, <2>5, <2>6 DEF MemoryInv
<1>3. CASE Found(1) < 0
  BY <1>1, <1>3 DEF AllocStack
<1>4. CASE ~(Found(1) < 0)
  <2>1. Found(1) # -1
    BY <1>4
  <2>2. /\ stack' = Found(1) /\ free' = Taken({Found(1)}) /\ pc' = "map_stack"
        /\ UNCHANGED <<image, mapping, top, memory, seg, pma, done, entry>>
    BY <1>4 DEF AllocStack
  <2> QED  BY <1>2, <2>1, <2>2
<1> QED  BY <1>3, <1>4

LEMMA MapStackMemory ==
  ASSUME BootInv, MapStack, RtsFrame
  PROVE  MemoryInv' /\ TypeOK'
<1> USE FirstCalls DEF BootInv
<1>1. CASE MapFails
  BY <1>1, MapFailsMemory
<1>2. CASE /\ Maps(stack, [frame |-> stack, prot |-> {"w", "u"}])
           /\ pc' = "lookup"
           /\ UNCHANGED <<image, top, memory, stack, seg, pma, done, entry>>
  <2> DEFINE own == [frame |-> stack, prot |-> {"w", "u"}]
  <2>1. pc = "map_stack" /\ mapping' = [mapping EXCEPT ![stack] = {own}] /\ free' \subseteq free
    BY <1>2, MapsTakes DEF MapStack
  <2>2. Given' = Given /\ pool' = pool
    BY <1>2 DEF RtsFrame, Given
  <2>3. \A p \in Pages : mapping[p] = {}
    BY <2>1 DEF MappedInv, Past, Stopped, Mapped
  <2>4. \A p \in Pages : mapping'[p] = IF p = stack THEN {own} ELSE {}
    BY <2>1, <2>3 DEF TypeOK
  <2>5. \A m \in Mapped' : m = own
    BY <2>4 DEF Mapped
  <2>6. own.frame = stack /\ "u" \in own.prot /\ own.prot \subseteq {"w", "x", "u"}
    OBVIOUS
  <2>7. Owned(stack) /\ Owned(stack)'
    BY <1>2, <2>1, <2>2 DEF StackInv, Owned
  <2>8. FreeInv'
    BY <1>2, <2>1, <2>2 DEF FreeInv
  <2>9. MappedInv'
    <3>1. \A m \in Mapped' : "u" \in m.prot /\ Owned(m.frame)'
      BY <1>2, <2>5, <2>6, <2>7
    <3>2. \A p, q \in Pages : p # q => mapping'[p] = {} \/ mapping'[q] = {}
      BY <2>4
    <3> QED  BY <1>2, <3>1, <3>2 DEF MappedInv
  <2>10. RegionInv' /\ StackInv'
    BY <1>2, <2>7 DEF RegionInv, StackInv
  <2>11. TypeOK'
    BY <1>2, <2>1, <2>5, <2>6, <2>7, <2>8 DEF TypeOK, RtsFrame, Owned, FreeInv
  <2> QED  BY <2>8, <2>9, <2>10, <2>11 DEF MemoryInv
<1> QED  BY <1>1, <1>2 DEF MapStack

\* Looking up, checking, passing a header over, copying and entering.
LEMMA LookingMemory ==
  ASSUME BootInv, Lookup \/ Verify \/ Skip \/ Copy \/ Enter, RtsFrame
  PROVE  MemoryInv' /\ TypeOK'
<1> USE FirstCalls DEF BootInv
<1>1. /\ UNCHANGED <<image, mapping, free, top, stack, pma>>
      /\ pc \in {"lookup", "verify", "segment", "map"}
      /\ pc' \in {"verify", "segment", "user", "panic"}
      /\ pc' \in {"verify", "segment", "user"} => image \in Images
  BY DEF Lookup, Verify, Skip, Copy, Enter, TypeOK, RegionInv
<1>2. Given' = Given /\ Mapped' = Mapped /\ pool' = pool
  BY <1>1 DEF RtsFrame, Given, Mapped
<1>3. FreeInv'
  BY <1>1, <1>2 DEF FreeInv
<1>4. MappedInv'
  BY <1>1, <1>2 DEF MappedInv, Past, Stopped, Owned
<1>5. RegionInv' /\ StackInv'
  BY <1>1, <1>2 DEF RegionInv, StackInv, Loading, Owned
<1>6. DOMAIN memory' = Frame /\ seg' \in Nat \ {0} /\ done' \in Nat /\ entry' \in Int
  <2>1. CASE Lookup \/ Verify
    BY <2>1 DEF Lookup, Verify, TypeOK
  <2>2. CASE Skip
    BY <2>2 DEF Skip, NextHeader, TypeOK
  <2>3. CASE Copy
    BY <2>3 DEF Copy, NextHeader, Copied, TypeOK
  <2>4. CASE Enter
    <3>1. image \in Image
      BY <2>4, LoaderAssumption DEF Enter, RegionInv
    <3> QED  BY <2>4, <3>1 DEF Enter, TypeOK, Image
  <2> QED  BY <2>1, <2>2, <2>3, <2>4
<1>7. TypeOK'
  BY <1>1, <1>2, <1>6 DEF TypeOK, RtsFrame
<1> QED  BY <1>3, <1>4, <1>5, <1>7 DEF MemoryInv

LEMMA AllocRegionMemory ==
  ASSUME BootInv, RequestHasRoom, AllocRegion, RtsFrame
  PROVE  MemoryInv' /\ TypeOK'
<1> USE FirstCalls DEF BootInv
<1> DEFINE count == Count(Current)
<1>1. CASE Panic
  BY <1>1, PanicMemory
<1>2. /\ pc = "segment" /\ seg <= Len(image.segments) /\ image \in Images
      /\ count \in Int /\ Request = count
  BY CurrentSegment DEF AllocRegion, RegionInv, TypeOK, Request
<1>3. ASSUME NEW f, f = Found(count), f # -1, pma' = f, free' = Taken(f .. f + count - 1),
             done' = 0, pc' = "map", UNCHANGED <<image, top, mapping, memory, stack, seg, entry>>
      PROVE  MemoryInv' /\ TypeOK'
  <2>1. /\ f \in free /\ f .. f + count - 1 \subseteq free
        /\ free' = free \ (f .. f + count - 1)
        /\ pc = "segment" /\ seg <= Len(image.segments) /\ image \in Images
    BY <1>2, <1>3, RequestServed DEF RequestHasRoom, Taken, FreeInv, TypeOK
  <2>2. Given' = Given /\ Mapped' = Mapped /\ pool' = pool
    BY <1>3 DEF RtsFrame, Given, Mapped
  <2>3. count' = count /\ count \in Int /\ f \in Nat
    BY <1>2, <1>3, <2>1, LoaderAssumption
       DEF Count, RegionLength, Current, TypeOK, FreeInv
  <2>4. Region' = f .. f + count - 1 /\ Unmapped' = f .. f + count - 1
    <3>1. Current' = Current
      BY <1>3 DEF Current
    <3> QED  BY <1>3, <2>3, <3>1 DEF Region, Unmapped
  <2>5. FreeInv'
    BY <1>3, <2>1, <2>2 DEF FreeInv
  <2>6. MappedInv'
    BY <1>3, <2>1, <2>2 DEF MappedInv, Past, Stopped, Owned
  <2>7. RegionInv'
    <3>1. \A g \in Region' : Owned(g)'
      BY <2>1, <2>2, <2>4 DEF Owned, FreeInv
    <3>2. \A m \in Mapped' : m.frame \notin Unmapped'
      BY <2>1, <2>2, <2>4 DEF MappedInv, Past, Stopped, Owned
    <3> QED  BY <1>3, <2>1, <3>1, <3>2 DEF RegionInv
  <2>8. StackInv'
    BY <1>3, <2>1, <2>2, <2>4 DEF StackInv, Loading, Owned
  <2>9. TypeOK'
    BY <1>3, <2>1, <2>2 DEF TypeOK, FreeInv, RtsFrame
  <2> QED  BY <2>5, <2>6, <2>7, <2>8, <2>9 DEF MemoryInv
<1>4. CASE Found(count) < 0
  BY <1>1, <1>4 DEF AllocRegion, LoadFails
<1>5. CASE ~(Found(count) < 0)
  <2>1. Found(count) # -1
    BY <1>5
  <2>2. /\ pma' = Found(count) /\ free' = Taken(Found(count) .. Found(count) + count - 1)
        /\ done' = 0 /\ pc' = "map"
        /\ UNCHANGED <<image, top, mapping, memory, stack, seg, entry>>
    BY <1>5 DEF AllocRegion
  <2> HIDE DEF count
  <2> QED  BY <1>3, <2>1, <2>2
<1> QED  BY <1>4, <1>5

\* One page of a region.
LEMMA MapPageMemory ==
  ASSUME BootInv, MapPage, RtsFrame
  PROVE  MemoryInv' /\ TypeOK'
<1> USE FirstCalls DEF BootInv
<1> DEFINE page == Current.vaddr \div PAGESIZE + done
           new == [frame |-> RegionFrame, prot |-> Prot(Current)]
<1>1. CASE MapFails
  BY <1>1, MapFailsMemory
<1>2. CASE /\ Maps(page, new)
           /\ done' = done + 1
           /\ UNCHANGED <<image, top, memory, pc, stack, seg, pma, entry>>
  <2>1. /\ mapping' = [mapping EXCEPT ![page] = {new}] /\ free' \subseteq free
        /\ done < Count(Current)
        /\ pc = "map" /\ pc' = "map" /\ seg <= Len(image.segments) /\ image \in Images
    BY <1>2, MapsTakes DEF MapPage, RegionInv
  <2>2. Given' = Given /\ pool' = pool /\ Current' = Current
    BY <1>2 DEF RtsFrame, Given, Current
  <2>3. Current \in Segment /\ Count(Current) \in Int
    BY <2>1, CurrentSegment DEF TypeOK
  <2>4. pma \in Nat /\ done \in Nat
    BY LoaderAssumption DEF TypeOK
  <2>5. new.frame = pma + done /\ "u" \in new.prot /\ new.prot \subseteq {"w", "x", "u"}
    BY <2>3 DEF RegionFrame, Prot, Segment
  <2>6. /\ Region' = Region
        /\ pma + done \in Region /\ pma + done \in Unmapped
        /\ Unmapped' = Unmapped \ {pma + done}
    <3>1. Count(Current)' = Count(Current)
      BY <2>2 DEF Count, RegionLength
    <3> QED  BY <1>2, <2>1, <2>3, <2>4, <3>1 DEF Region, Unmapped
  <2>7. \A p \in Pages : mapping'[p] = {new} \/ mapping'[p] = mapping[p]
    BY <2>1 DEF TypeOK
  <2>8. \A p, q \in Pages : p # q => mapping'[p] = mapping[p] \/ mapping'[q] = mapping[q]
    BY <2>1 DEF TypeOK
  <2>9. \A m \in Mapped' : m = new \/ m \in Mapped
    BY <2>7 DEF Mapped
  <2>10. \A f : Owned(f) => Owned(f)'
    BY <1>2, <2>1, <2>2 DEF Owned
  <2>11. Owned(new.frame)
    BY <2>1, <2>5, <2>6 DEF RegionInv
  <2>12. FreeInv'
    BY <1>2, <2>1, <2>2 DEF FreeInv
  <2>13. MappedInv'
    <3>1. \A m \in Mapped' : "u" \in m.prot /\ Owned(m.frame)'
      BY <2>1, <2>5, <2>9, <2>10, <2>11 DEF MappedInv, Past, Stopped
    <3>2. ASSUME NEW p \in Pages, NEW q \in Pages, p # q,
                 NEW m \in mapping'[p], NEW n \in mapping'[q]
          PROVE  m.frame # n.frame
      <4>1. \A o \in mapping[p] \cup mapping[q] : o.frame # pma + done
        BY <2>1, <2>6 DEF RegionInv, Mapped
      <4>2. CASE m \in mapping[p] /\ n \in mapping[q]
        BY <2>1, <3>2, <4>2 DEF MappedInv, Past, Stopped
      <4>3. CASE m = new /\ n \in mapping[q]
        BY <2>5, <4>1, <4>3
      <4>4. CASE m \in mapping[p] /\ n = new
        BY <2>5, <4>1, <4>4
      <4> QED  BY <2>7, <2>8, <3>2, <4>2, <4>3, <4>4
    <3> QED  BY <2>1, <3>1, <3>2 DEF MappedInv
  <2>14. RegionInv'
    <3>1. \A f \in Region' : Owned(f)'
      BY <2>1, <2>6, <2>10 DEF RegionInv
    <3>2. \A m \in Mapped' : m.frame \notin Unmapped'
      BY <2>1, <2>5, <2>6, <2>9 DEF RegionInv
    <3> QED  BY <1>2, <2>1, <3>1, <3>2 DEF RegionInv
  <2>15. StackInv'
    BY <1>2, <2>1, <2>6, <2>10 DEF StackInv, Loading
  <2>16. TypeOK'
    <3>1. \A m \in Mapped' : m.frame \in Frame /\ m.prot \subseteq {"w", "x", "u"}
      BY <2>5, <2>9, <2>11 DEF TypeOK, Owned
    <3> QED  BY <1>2, <2>1, <2>4, <2>12, <3>1 DEF TypeOK, RtsFrame, FreeInv
  <2> QED  BY <2>12, <2>13, <2>14, <2>15, <2>16 DEF MemoryInv
<1> QED  BY <1>1, <1>2 DEF MapPage

LEMMA RtsKeeps == BootInv /\ RequestHasRoom /\ start_rts => BootInv'
<1> SUFFICES ASSUME BootInv, RequestHasRoom, start_rts PROVE BootInv'
  OBVIOUS
<1>1. Next /\ RtsFrame
  BY DEF start_rts, RtsFrame, bptVars, partVars
<1>2. MemoryInv' /\ TypeOK'
  BY <1>1, AllocStackMemory, MapStackMemory, LookingMemory, AllocRegionMemory, MapPageMemory
     DEF Next
<1> QED  BY <1>2, RtsPartsKept DEF BootInv, MemoryInv
-----------------------------------------------------------------------------
LEMMA BootInitially == BootInit => BootInv
<1> SUFFICES ASSUME BootInit PROVE BootInv
  OBVIOUS
<1> USE FirstCalls DEF BootInit, Unstarted
<1>1. TypeOK
  <2>1. \A m \in Mapped : m.frame \in Frame /\ m.prot \subseteq {"w", "x", "u"}
    BY DEF Mapped
  <2>2. DOMAIN mapping = Pages /\ DOMAIN memory = Frame
    OBVIOUS
  <2>3. pc \in ToSet(Calls)
    BY AllCalls
  <2>4. seg \in Nat \ {0} /\ done \in Nat /\ entry \in Int
    OBVIOUS
  <2> QED  BY <2>1, <2>2, <2>3, <2>4 DEF TypeOK
<1>2. CpuInv
  BY DEF CpuInv, Past
<1>3. PartsInv
  BY DEF PartsInv, Past
<1>4. MemoryInv
  BY DEF MemoryInv, FreeInv, MappedInv, RegionInv, StackInv, Loading, Past
<1> QED  BY <1>1, <1>2, <1>3, <1>4 DEF BootInv, MemoryInv

LEMMA BootKeeps == BootInv /\ RequestHasRoom /\ [BootNext]_allVars => BootInv'
<1> SUFFICES ASSUME BootInv, RequestHasRoom, [BootNext]_allVars PROVE BootInv'
  OBVIOUS
<1>1. CASE bpt_init /\ boot.proto # "limine"
  BY <1>1, StopKeeps, FirstCalls DEF bpt_init
<1>2. CASE UNCHANGED allVars
  <2>1. UNCHANGED <<image, mapping, memory, free, top, pc, stack, seg, pma, done, entry, boot,
                    hooks, loaded, cpu, uart, pool, nodes, root_sdt, cause>>
    BY <1>2 DEF allVars, vars, bootVars
  <2>2. Given' = Given /\ Mapped' = Mapped /\ Region' = Region /\ Unmapped' = Unmapped
    BY <2>1 DEF Given, Mapped, Region, Unmapped, Count, RegionLength, Current
  <2>3. TypeOK' /\ CpuInv' /\ PartsInv'
    BY <2>1, <2>2 DEF BootInv, TypeOK, CpuInv, PartsInv, Past, Stopped
  <2>4. FreeInv' /\ MappedInv' /\ RegionInv' /\ StackInv'
    BY <2>1, <2>2 DEF BootInv, FreeInv, MappedInv, RegionInv, StackInv, Past, Stopped, Loading,
                      Owned
  <2> QED  BY <2>3, <2>4 DEF BootInv
<1> QED  BY <1>1, <1>2, StartKeeps, PartKeeps, PmemKeeps, PoolKeeps, PmapKeeps, InitrdKeeps,
            RtsKeeps DEF BootNext

\* With room for its requests a machine does what every machine may do.
LEMMA RoomSteps == RoomSpec => BootInit /\ [][BootNext]_allVars
<1>1. [BootNext /\ RequestHasRoom']_allVars => [BootNext]_allVars
  OBVIOUS
<1> QED  BY <1>1, PTL DEF RoomSpec

\* At first nothing is asked for but a frame.
LEMMA RoomAlways == RoomSpec => []RequestHasRoom
<1>1. BootInit => RequestHasRoom
  BY DEF BootInit, RequestHasRoom, Request, HasRoom
<1>2. RequestHasRoom /\ [BootNext /\ RequestHasRoom']_allVars => RequestHasRoom'
  <2> SUFFICES ASSUME RequestHasRoom, UNCHANGED allVars PROVE RequestHasRoom'
    OBVIOUS
  <2>1. UNCHANGED <<image, free, top, pc, seg>>
    BY DEF allVars, vars
  <2>2. Request' = Request /\ bitmap' = bitmap
    BY <2>1 DEF Request, Count, RegionLength, Current, bitmap
  <2> QED  BY <2>1, <2>2 DEF RequestHasRoom, HasRoom, FreeBits, RoomAt
<1> QED  BY <1>1, <1>2, PTL DEF RoomSpec

LEMMA BootAlways == RoomSpec => []BootInv
BY BootInitially, BootKeeps, RoomAlways, RoomSteps, PTL

\* Types, for any memory maps, modules and images: what is mapped into the lower
\* half are frames, with the rights a program may have (core/epoch.c,
\* core/elfload.c, mm/vmem.c).
THEOREM TypeCorrect == RoomSpec => []TypeOK
<1>1. BootInv => TypeOK
  BY DEF BootInv
<1> QED  BY <1>1, BootAlways, PTL
-----------------------------------------------------------------------------
LEMMA ReasonsInitially == BootInit => StopsForAReason
BY DEF BootInit, StopsForAReason

\* A call that returns, and every step of start_rts.
LEMMA NoStop ==
  ASSUME StopsForAReason, UNCHANGED <<boot, cause>>, pc' # "reset"
  PROVE  StopsForAReason'
<1>1. Given' = Given
  BY DEF Given
<1> QED  BY <1>1 DEF StopsForAReason

LEMMA ReasonsKept ==
  BootInv /\ RequestHasRoom /\ StopsForAReason /\ [BootNext]_allVars => StopsForAReason'
<1> SUFFICES ASSUME BootInv, RequestHasRoom, StopsForAReason, [BootNext]_allVars
             PROVE  StopsForAReason'
  OBVIOUS
<1> USE FirstCalls, FollowingCall, ReturnKeeps, NoStop
<1>1. ASSUME NEW where \in {"panic", "idle"}, NEW why, Stops(where, why),
             \/ why \notin {"fault", "no_protocol", "no_rsdp", "no_initrd", "no_clkdev", "no_frames"}
             \/ why = "fault" /\ boot.given # Responses
             \/ why = "no_protocol" /\ boot.proto # "limine"
             \/ why = "no_rsdp" /\ ~boot.rsdp
             \/ why = "no_initrd" /\ \A m \in ToSet(boot.modules) : m.path # INITRD_PATH
             \/ why = "no_frames" /\ Given = {}
      PROVE  StopsForAReason'
  <2>1. UNCHANGED boot /\ pc' = where /\ cause' = why
    BY <1>1 DEF Stops
  <2>2. Given' = Given
    BY <2>1 DEF Given
  <2> QED  BY <1>1, <2>1, <2>2 DEF StopsForAReason
<1>2. ASSUME Past(3), Faults, boot.given # Responses PROVE StopsForAReason'
  <2>1. cpu.idt /\ cpu.gates
    BY <1>2 DEF BootInv, CpuInv, Past
  <2> QED  BY <1>1, <1>2, <2>1 DEF Faults
<1>3. ASSUME Past(6)
      PROVE  /\ boot.given = Responses => bpt_kernel_base /\ EntriesReadable /\ ModulesReadable
             /\ boot.given = Responses => VarsReadable
             /\ Modules = boot.modules /\ hooks # "none" /\ boot.memmap \in Seq(limine_memmap_entry)
             /\ boot.modules \in Seq(limine_file)
  BY <1>3, BootAssumption DEF BootInv, PartsInv, bpt_kernel_base, VarsReadable, EntriesReadable,
     ModulesReadable, Responses, Modules
<1>4. CASE md_gdt_load \/ md_set_vectors \/ md_idt_load \/ mu_uart_init \/ mu_cpu_conf
  BY <1>4 DEF md_gdt_load, md_set_vectors, md_idt_load, mu_uart_init, mu_cpu_conf, Loads
<1>5. CASE md_tss_init
  <2>1. cpu.gdt
    BY <1>5 DEF md_tss_init, BootInv, CpuInv, Past, Stopped, Loads
  <2> QED  BY <1>5, <2>1 DEF md_tss_init, Loads
<1>6. CASE bpt_init
  BY <1>1, <1>6 DEF bpt_init
<1>7. CASE mm_pmem_init
  BY <1>2, <1>3, <1>7 DEF mm_pmem_init, Past, Stopped
<1>8. CASE os_pool_init
  <2>1. Past(6) /\ Past(3) /\ free = Given /\ free \subseteq Frame
    BY <1>8 DEF os_pool_init, Past, Stopped, BootInv, FreeInv
  <2>2. CASE Panics("no_frames") /\ Found(POOLPAGES) < 0
    <3>1. Request = POOLPAGES
      BY <1>8 DEF os_pool_init, Request
    <3>2. free = {}
      BY <2>2, <3>1, RequestServed, BootAssumption DEF RequestHasRoom, BootInv, FreeInv, TypeOK
    <3> QED  BY <1>1, <2>1, <2>2, <3>2 DEF Panics
  <2> QED  BY <1>2, <1>3, <1>8, <2>1, <2>2 DEF os_pool_init
<1>9. CASE mu_pmap_init
  BY <1>2, <1>3, <1>9 DEF mu_pmap_init, Past, Stopped
<1>10. ASSUME NEW call, NEW parent, NEW path, Registers(call, parent, path),
              <<call, parent>> \in {<<"ob_store_init", {}>>, <<"timer_init", {"/"}>>,
                                    <<"tsc_init", {"/clkdev"}>>}
       PROVE  StopsForAReason'
  <2>1. pool # {} /\ parent \subseteq nodes
    BY <1>10 DEF Registers, Past, Stopped, BootInv, PartsInv
  <2>2. CASE Panics("unallocated")
    BY <1>1, <2>2 DEF Panics
  <2>3. CASE Done(call)
    BY <1>10, <2>3
  <2> QED  BY <1>10, <2>1, <2>2, <2>3 DEF Registers
<1>11. CASE ob_store_init
  BY <1>10, <1>11 DEF ob_store_init
<1>12. CASE timer_init
  BY <1>10, <1>12 DEF timer_init
<1>13. CASE tsc_init
  BY <1>10, <1>13 DEF tsc_init
<1>14. CASE mu_timer_init
  <2>1. "/clkdev" \in nodes
    BY <1>14 DEF mu_timer_init, Past, Stopped, BootInv, PartsInv
  <2> QED  BY <1>14, <2>1 DEF mu_timer_init
<1>15. CASE acpi_init
  <2>1. Past(6) /\ Past(3)
    BY <1>15 DEF acpi_init, Past, Stopped
  <2>2. CASE Panics("no_rsdp") /\ ~boot.rsdp
    BY <1>1, <2>2 DEF Panics
  <2> QED  BY <1>2, <1>3, <1>15, <2>1, <2>2 DEF acpi_init
<1>16. CASE initrd_init
  <2>1. Past(6) /\ Past(3)
    BY <1>16 DEF initrd_init, Past, Stopped
  <2>2. CASE Panics("no_initrd") /\ Named(INITRD_PATH) = {}
    <3>1. \A m \in ToSet(boot.modules) : m.path # INITRD_PATH
      BY <1>3, <2>1, <2>2 DEF Named, ToSet
    <3> QED  BY <1>1, <2>2, <3>1 DEF Panics
  <2> QED  BY <1>2, <1>3, <1>16, <2>1, <2>2 DEF initrd_init
<1>17. CASE start_rts
  BY <1>17, RtsPlaces DEF start_rts
<1>18. CASE UNCHANGED allVars
  BY <1>18 DEF allVars, vars, bootVars, StopsForAReason, Given
<1> QED  BY <1>4, <1>5, <1>6, <1>7, <1>8, <1>9, <1>11, <1>12, <1>13, <1>14, <1>15, <1>16, <1>17,
            <1>18 DEF BootNext

\* The processor stops short of the program only for what was missing from the
\* start or could not be had, whatever the bootloader gives (arch/amd64/cpu/locore.S,
\* core/epoch.c).
THEOREM StopsJustly == RoomSpec => []StopsForAReason
BY ReasonsInitially, ReasonsKept, BootAlways, RoomAlways, RoomSteps, PTL

\* What the calls before start_rts leave alone.
LEMMA CallPlaces ==
  ASSUME BootNext, ~start_rts
  PROVE  /\ pc \in First(17) /\ pc' \in First(17) \cup {"panic", "idle", "reset"}
         /\ image' = image \/ initrd_init
         /\ seg' = seg
<1> USE FirstCalls, FollowingCall DEF Stops, Panics, Faults, memVars, rtsVars, Loads, Registers
<1>1. CASE md_gdt_load \/ md_set_vectors \/ md_idt_load \/ md_tss_init
  BY <1>1 DEF md_gdt_load, md_set_vectors, md_idt_load, md_tss_init
<1>2. CASE mu_uart_init \/ bpt_init \/ mm_pmem_init \/ os_pool_init
  BY <1>2 DEF mu_uart_init, bpt_init, mm_pmem_init, os_pool_init
<1>3. CASE mu_pmap_init \/ mu_cpu_conf \/ mu_timer_init
  BY <1>3 DEF mu_pmap_init, mu_cpu_conf, mu_timer_init
<1>4. CASE ob_store_init \/ timer_init \/ tsc_init
  BY <1>4 DEF ob_store_init, timer_init, tsc_init
<1>5. CASE acpi_init \/ initrd_init
  BY <1>5 DEF acpi_init, initrd_init
<1> QED  BY <1>1, <1>2, <1>3, <1>4, <1>5 DEF BootNext

\* initrd_init finds one of the images the modules hold, or none.
LEMMA InitrdShips ==
  ASSUME BootInv, initrd_init, ImageShipped
  PROVE  ImageShipped'
<1> USE DEF ImageShipped
<1>1. CASE Faults \/ Panics("no_initrd")
  BY <1>1 DEF Faults, Panics, Stops, memVars
<1>2. CASE \E file \in limine_get_module(INITRD_PATH) : image' = file.image
  <2>1. hooks = "limine" /\ boot.modules \in ModuleLists /\ boot.modules \in Seq(limine_file)
    BY FirstCalls, BootAssumption DEF BootInv, PartsInv, Past, Stopped, initrd_init
  <2>2. PICK i \in DOMAIN boot.modules : image' = boot.modules[i].image
    BY <1>2, <2>1 DEF limine_get_module, Named, Modules
  <2>3. boot.modules[i] \in limine_file
    BY <2>1
  <2> QED  BY <2>1, <2>2, <2>3 DEF Shipped, limine_file
<1> QED  BY <1>1, <1>2 DEF initrd_init

LEMMA EntryKept ==
  ASSUME AllVerify, BootInv, EntryInv, [BootNext]_allVars
  PROVE  EntryInv'
<1>1. CASE UNCHANGED allVars
  BY <1>1 DEF EntryInv, ImageShipped, allVars, vars
<1>2. CASE BootNext /\ ~start_rts
  BY <1>2, CallPlaces, InitrdShips, FirstCalls DEF EntryInv, ImageShipped
<1>3. CASE start_rts
  <2>1. image' = image /\ Next
    BY <1>3, RtsPlaces DEF start_rts
  <2>2. pc' = "user" => Enter
    <3>1. ~Verify \/ pc' = "segment"
      BY LoaderAssumption DEF Verify, BootInv, RegionInv, EntryInv, ImageShipped, AllVerify
    <3> QED  BY <2>1, <3>1 DEF Next, AllocStack, MapStack, Lookup, Skip, AllocRegion, LoadFails,
                               Panic, MapPage, MapFails, Copy
  <2> QED  BY <2>1, <2>2 DEF EntryInv, ImageShipped, Enter
<1> QED  BY <1>1, <1>2, <1>3

LEMMA EntryAlways == ASSUME AllVerify PROVE RoomSpec => []EntryInv
<1>1. BootInit => EntryInv
  BY DEF BootInit, EntryInv, ImageShipped
<1>2. BootInv /\ EntryInv /\ [BootNext]_allVars => EntryInv'
  BY EntryKept
<1> QED  BY <1>1, <1>2, BootAlways, RoomSteps, PTL

\* How booting ends, when every image is an executable: the program is entered
\* at its entry point once every part is there, or the processor stops for what
\* was missing (core/epoch.c:kmain, core/elfload.c, mu_proc_uvector).  An image
\* that elf_verify refuses is entered all the same: MC_Boot_not_elf.
THEOREM OutcomeCorrect == ASSUME AllVerify PROVE RoomSpec => []Outcome
<1>1. BootInv /\ EntryInv => EntersWhenReady
  <2> SUFFICES ASSUME BootInv, EntryInv PROVE EntersWhenReady
    OBVIOUS
  <2>1. CASE pc = "user"
    <3>1. \A n \in {1, 2, 3, 4, 5, 8, 10, 11, 12, 14, 15} : Past(n)
      BY <2>1, FirstCalls DEF Past, Stopped
    <3>2. nodes = {"/", "/clkdev", "/clkdev/tsc"}
      BY <3>1 DEF BootInv, PartsInv, TypeOK
    <3> QED  BY <2>1, <3>1, <3>2 DEF BootInv, CpuInv, PartsInv, EntryInv, EntersWhenReady
  <2>2. CASE pc # "user"
    BY <2>2 DEF BootInv, CpuInv, EntersWhenReady
  <2> QED  BY <2>1, <2>2
<1>2. EntersWhenReady /\ StopsForAReason => Outcome
  BY DEF Outcome
<1> QED  BY <1>1, <1>2, BootAlways, EntryAlways, StopsJustly, PTL
-----------------------------------------------------------------------------
\* Where the image lies apart, no page of it replaces the stack's.
LEMMA StackKept ==
  ASSUME Apart, BootInv, ImageShipped, StackMapped, [BootNext]_allVars
  PROVE  StackMapped'
<1>1. CASE UNCHANGED allVars
  BY <1>1 DEF StackMapped, Loading, allVars, vars
<1>2. CASE BootNext /\ ~start_rts
  BY <1>2, CallPlaces, FirstCalls DEF StackMapped, Loading
<1>3. CASE AllocStack
  BY <1>3 DEF AllocStack, Panic, StackMapped, Loading
<1>4. CASE MapStack
  BY <1>4, LoaderAssumption
     DEF MapStack, Maps, AS!Map, MapFails, StackMapped, StackInv, Loading, Owned, BootInv, TypeOK
<1>5. CASE Lookup \/ Verify \/ Skip \/ AllocRegion \/ Copy \/ Enter
  BY <1>5 DEF Lookup, Verify, Skip, AllocRegion, LoadFails, Panic, Copy, Enter, StackMapped, Loading
<1>6. CASE MapPage
  <2>1. CASE MapFails
    BY <2>1 DEF MapFails, StackMapped, Loading
  <2>2. CASE /\ Maps(Current.vaddr \div PAGESIZE + done,
                     [frame |-> RegionFrame, prot |-> Prot(Current)])
             /\ UNCHANGED <<pc, stack>>
    <3>1. pc = "map" /\ done < Count(Current)
      BY <1>6 DEF MapPage
    <3>2. image \in Images /\ seg <= Len(image.segments) /\ seg \in Nat \ {0} /\ done \in Nat
      BY <3>1 DEF BootInv, RegionInv, TypeOK
    <3>3. seg \in DOMAIN image.segments /\ Count(Current) \in Int
      BY <3>2, CurrentSegment
    <3>4. image \in Shipped /\ done \in 0 .. Count(image.segments[seg]) - 1
      BY <3>1, <3>2, <3>3, LoaderAssumption DEF Current, ImageShipped
    <3>5. Current.vaddr \div PAGESIZE + done \notin Frame
      BY <3>3, <3>4 DEF Apart, Current
    <3>6. stack \in Frame
      BY <3>1 DEF BootInv, StackInv, Loading, Owned
    <3> QED  BY <2>2, <3>1, <3>5, <3>6 DEF Maps, AS!Map, StackMapped, Loading, BootInv, TypeOK
  <2> QED  BY <1>6, <2>1, <2>2 DEF MapPage
<1> QED  BY <1>1, <1>2, <1>3, <1>4, <1>5, <1>6 DEF start_rts, Next

\* The image is one of those the modules hold.
LEMMA ShippedAlways == RoomSpec => []ImageShipped
<1>1. BootInit => ImageShipped
  BY DEF BootInit, ImageShipped
<1>2. BootInv /\ ImageShipped /\ [BootNext]_allVars
        => ImageShipped'
  <2> SUFFICES ASSUME BootInv, ImageShipped, [BootNext]_allVars
               PROVE  ImageShipped'
    OBVIOUS
  <2>1. CASE UNCHANGED allVars
    BY <2>1 DEF ImageShipped, allVars, vars
  <2>2. CASE BootNext /\ ~start_rts
    BY <2>2, CallPlaces, InitrdShips DEF ImageShipped
  <2>3. CASE start_rts
    BY <2>3, RtsPlaces DEF ImageShipped, start_rts
  <2> QED  BY <2>1, <2>2, <2>3
<1> QED  BY <1>1, <1>2, BootAlways, RoomSteps, PTL

\* The user program has its memory to itself, whatever it was loaded from and
\* whatever memory the bootloader gave, if no page of its image lies where its
\* stack may be (mu_pmap_init, mm_pmem_alloc, core/elfload.c, mm/vmem.c).
THEOREM MemoryIsPrivate == ASSUME Apart PROVE RoomSpec => []MemoryPrivate
<1>1. BootInit => StackMapped
  BY DEF BootInit, StackMapped, Loading
<1>2. RoomSpec => []StackMapped
  BY <1>1, StackKept, BootAlways, ShippedAlways, RoomSteps, PTL
<1>3. BootInv /\ StackMapped => MemoryPrivate
  <2> SUFFICES ASSUME BootInv, StackMapped, pc = "user" PROVE MemoryPrivate
    BY DEF BootInv, FreeInv, MemoryPrivate
  <2>1. /\ \A m \in Mapped : "u" \in m.prot /\ Owned(m.frame)
        /\ \A p, q \in Pages : p # q => \A m \in mapping[p], n \in mapping[q] : m.frame # n.frame
    BY FirstCalls DEF BootInv, MappedInv, Past, Stopped
  <2>2. FramesPrivate
    BY <2>1 DEF FramesPrivate, Owned
  <2>3. StackUsable
    <3>1. mapping[stack] = {[frame |-> stack, prot |-> {"w", "u"}]}
      BY DEF StackMapped, Loading
    <3>2. stack \in Pages
      BY LoaderAssumption DEF BootInv, StackInv, Loading, Owned
    <3>3. [frame |-> stack, prot |-> {"w", "u"}] \in mapping[stack]
      BY <3>1
    <3>4. ASSUME NEW page \in Pages \ {stack}, NEW m \in mapping[page] PROVE m.frame # stack
      BY <2>1, <3>2, <3>3
    <3> QED  BY <3>1, <3>4 DEF StackUsable
  <2> QED  BY <2>1, <2>2, <2>3 DEF BootInv, FreeInv, MemoryPrivate, Owned
<1> QED  BY <1>2, <1>3, BootAlways, PTL
-----------------------------------------------------------------------------
(* The words and the pages of a segment. *)

LEMMA Division ==
  ASSUME NEW size \in Nat \ {0}, NEW n \in Nat
  PROVE  n = (n \div size) * size + (n % size)
OBVIOUS

LEMMA DivisionTypes ==
  ASSUME NEW size \in Nat \ {0}, NEW n \in Nat
  PROVE  n \div size \in Nat /\ n % size \in 0 .. size - 1
OBVIOUS

LEMMA Quotient ==
  ASSUME NEW size \in Nat \ {0}, NEW q \in Nat, NEW n \in Nat
  PROVE  (q * size + n) \div size = q + n \div size
OBVIOUS

LEMMA Remainder ==
  ASSUME NEW size \in Nat \ {0}, NEW q \in Nat, NEW n \in Nat
  PROVE  (q * size + n) % size = n % size
<1> DEFINE m == q * size + n
           d == n \div size
<1>1. m \in Nat /\ q * size \in Nat
  OBVIOUS
<1>2. m = (m \div size) * size + (m % size) /\ m % size \in 0 .. size - 1
  BY <1>1, Division, DivisionTypes
<1>3. n = d * size + (n % size) /\ d \in Nat /\ n % size \in 0 .. size - 1
  BY Division, DivisionTypes
<1>4. m \div size = q + d
  BY Quotient
<1> HIDE DEF d
<1>5. (q + d) * size = q * size + d * size /\ d * size \in Nat
  BY <1>3
<1> QED  BY <1>1, <1>2, <1>3, <1>4, <1>5

LEMMA WordAt ==
  ASSUME NEW q \in Nat, NEW n \in Nat
  PROVE  /\ (q * PAGESIZE + n) \div PAGESIZE = q + n \div PAGESIZE
         /\ (q * PAGESIZE + n) % PAGESIZE = n % PAGESIZE
         /\ n = (n \div PAGESIZE) * PAGESIZE + (n % PAGESIZE)
         /\ n \div PAGESIZE \in Nat /\ n % PAGESIZE \in 0 .. PAGESIZE - 1
BY LoaderAssumption, Quotient, Remainder, Division, DivisionTypes

\* A segment that starts at a page has the pages its words are in, and they are
\* in the lower half.
LEMMA SegmentPages ==
  ASSUME NEW file \in Images, NEW i \in DOMAIN file.segments, file.segments[i].memsz # 0,
         file.segments[i].vaddr % PAGESIZE = 0
  PROVE  LET s == file.segments[i]
         IN  /\ s \in Segment /\ Count(s) \in Nat
             /\ \A k \in 0 .. s.memsz - 1 :
                  /\ (s.vaddr + k) \div PAGESIZE = PageOf(s, k \div PAGESIZE)
                  /\ (s.vaddr + k) % PAGESIZE = k % PAGESIZE
                  /\ k \div PAGESIZE \in 0 .. Count(s) - 1
             /\ \A j \in 0 .. Count(s) - 1 : PageOf(s, j) \in Pages
             /\ \A j \in Int, k \in 0 .. PAGESIZE - 1 :
                  j \notin 0 .. Count(s) - 1 => j * PAGESIZE + k \notin 0 .. s.memsz - 1
<1> DEFINE s == file.segments[i]
           q == s.vaddr \div PAGESIZE
           last == s.memsz - 1
           n == last \div PAGESIZE
<1>1. PAGESIZE \in Nat \ {0}
  BY LoaderAssumption
<1>2. s \in Segment
  <2>1. file.segments \in Seq(Segment)
    BY LoaderAssumption DEF Image
  <2> QED  BY <2>1
<1>3. s.vaddr \in Nat /\ s.memsz \in Nat /\ last \in Nat
  BY <1>2 DEF Segment
<1> HIDE DEF s
<1>4. q \in Nat /\ s.vaddr = q * PAGESIZE
  <2>1. s.vaddr % PAGESIZE = 0
    BY DEF s
  <2>2. q \in Nat /\ s.vaddr = q * PAGESIZE + (s.vaddr % PAGESIZE)
    BY <1>3, WordAt
  <2>3. q * PAGESIZE \in Nat
    BY <1>1, <2>2
  <2> HIDE DEF q
  <2> QED  BY <2>1, <2>2, <2>3
<1> HIDE DEF q
<1>5. n \in Nat /\ last = n * PAGESIZE + (last % PAGESIZE) /\ last % PAGESIZE \in 0 .. PAGESIZE - 1
  <2>1. last \in Nat
    BY <1>3
  <2> HIDE DEF last
  <2> QED  BY <1>1, <2>1, Division, DivisionTypes
<1>6. Count(s) = n + 1
  <2>1. s.vaddr % PAGESIZE = 0
    BY DEF s
  <2>2. s.memsz + 0 + PAGESIZE - 1 = 1 * PAGESIZE + last
    BY <1>1, <1>3
  <2>3. (s.memsz + 0 + PAGESIZE - 1) \div PAGESIZE = 1 + n
    <3>1. \A k \in Nat : (1 * PAGESIZE + k) \div PAGESIZE = 1 + k \div PAGESIZE
      BY WordAt
    <3>2. (1 * PAGESIZE + last) \div PAGESIZE = 1 + n
      BY <1>3, <3>1
    <3> QED  BY <2>2, <3>2
  <2>4. RegionLength(s) = (1 + n) * PAGESIZE + 0
    BY <1>1, <1>3, <1>5, <2>1, <2>3 DEF RegionLength, ALIGN_UP
  <2>5. ((1 + n) * PAGESIZE + 0) \div PAGESIZE = (1 + n) + 0 \div PAGESIZE
    BY <1>5, WordAt
  <2>6. 0 \div PAGESIZE = 0
    BY <1>1
  <2> QED  BY <1>5, <2>4, <2>5, <2>6 DEF Count
<1> HIDE DEF n, last
<1>7. ASSUME NEW k \in 0 .. last
      PROVE  /\ (s.vaddr + k) \div PAGESIZE = PageOf(s, k \div PAGESIZE)
             /\ (s.vaddr + k) % PAGESIZE = k % PAGESIZE
             /\ k \div PAGESIZE \in 0 .. n
  <2>1. k \in Nat /\ k <= last
    BY <1>3
  <2>2. /\ (s.vaddr + k) \div PAGESIZE = q + k \div PAGESIZE
        /\ (s.vaddr + k) % PAGESIZE = k % PAGESIZE
    BY <1>4, <2>1, WordAt
  <2>3. k \div PAGESIZE \in Nat /\ k = (k \div PAGESIZE) * PAGESIZE + (k % PAGESIZE)
        /\ k % PAGESIZE \in 0 .. PAGESIZE - 1
    BY <2>1, WordAt
  <2>4. k \div PAGESIZE <= n
    <3> DEFINE d == k \div PAGESIZE
    <3>1. SUFFICES ASSUME d >= n + 1 PROVE FALSE
      BY <1>5, <2>3
    <3>2. d \in Nat
      BY <2>3
    <3> HIDE DEF d
    <3>3. d * PAGESIZE >= (n + 1) * PAGESIZE
      BY <1>1, <1>5, <3>1, <3>2
    <3>4. (n + 1) * PAGESIZE = n * PAGESIZE + PAGESIZE
      BY <1>1, <1>5
    <3>5. k >= d * PAGESIZE
      BY <1>1, <2>3, <3>2 DEF d
    <3>6. n * PAGESIZE \in Nat /\ d * PAGESIZE \in Nat
      BY <1>1, <1>5, <3>2
    <3> QED  BY <1>1, <1>3, <1>5, <2>1, <3>3, <3>4, <3>5, <3>6
  <2> QED  BY <1>5, <2>2, <2>3, <2>4 DEF PageOf, q
<1>8. ASSUME NEW j \in 0 .. n PROVE PageOf(s, j) \in Pages
  <2>1. (s.vaddr + last) \div PAGESIZE = q + n
    BY <1>3, <1>4, WordAt DEF n
  <2>2. s.vaddr + s.memsz - 1 = s.vaddr + last
    BY <1>3 DEF last
  <2>3. s.vaddr \div PAGESIZE .. (s.vaddr + s.memsz - 1) \div PAGESIZE \subseteq Pages
    BY LoaderAssumption DEF s
  <2>4. q .. q + n \subseteq Pages
    BY <2>1, <2>2, <2>3 DEF q
  <2>5. q + j \in q .. q + n
    BY <1>4, <1>5
  <2> QED  BY <2>4, <2>5 DEF PageOf, q
<1>9. ASSUME NEW j \in Int, NEW k \in 0 .. PAGESIZE - 1, j \notin 0 .. n
      PROVE  j * PAGESIZE + k \notin 0 .. last
  <2>1. CASE j <= -1
    <3>1. j * PAGESIZE <= -PAGESIZE
      BY <1>1, <2>1
    <3>2. j * PAGESIZE \in Int
      BY <1>1
    <3> QED  BY <1>1, <3>1, <3>2
  <2>2. CASE j >= n + 1
    <3>1. j * PAGESIZE >= (n + 1) * PAGESIZE
      BY <1>1, <1>5, <2>2
    <3>2. (n + 1) * PAGESIZE = n * PAGESIZE + PAGESIZE
      BY <1>1, <1>5
    <3>3. j * PAGESIZE \in Int /\ n * PAGESIZE \in Nat
      BY <1>1, <1>5
    <3> QED  BY <1>1, <1>3, <1>5, <3>1, <3>2, <3>3
  <2> QED  BY <1>5, <1>9, <2>1, <2>2
<1>10. 0 .. Count(s) - 1 = 0 .. n /\ 0 .. s.memsz - 1 = 0 .. last
  <2>1. Count(s) - 1 = n
    BY <1>5, <1>6
  <2> QED  BY <2>1 DEF last
<1>11. Count(s) \in Nat
  BY <1>5, <1>6
<1> QED  BY <1>2, <1>7, <1>8, <1>9, <1>10, <1>11 DEF s

LEMMA ToLoadPages ==
  ASSUME Laid, image \in Shipped, NEW i \in ToLoad(image)
  PROVE  LET s == image.segments[i]
         IN  /\ image \in Images /\ i \in DOMAIN image.segments /\ i \in Nat
             /\ s \in Segment /\ Count(s) \in Nat /\ s.filesz = s.memsz
             /\ \A k \in 0 .. s.memsz - 1 :
                  /\ (s.vaddr + k) \div PAGESIZE = PageOf(s, k \div PAGESIZE)
                  /\ (s.vaddr + k) % PAGESIZE = k % PAGESIZE
                  /\ k \div PAGESIZE \in 0 .. Count(s) - 1
             /\ \A j \in 0 .. Count(s) - 1 : PageOf(s, j) \in Pages
             /\ \A j \in Int, k \in 0 .. PAGESIZE - 1 :
                  j \notin 0 .. Count(s) - 1 => j * PAGESIZE + k \notin 0 .. s.memsz - 1
<1>1. image \in Images /\ i \in DOMAIN image.segments
  BY DEF Shipped, ToLoad
<1>2. image.segments[i].memsz # 0 /\ image.segments[i].vaddr % PAGESIZE = 0
      /\ image.segments[i].filesz = image.segments[i].memsz
  BY DEF ToLoad, Laid
<1>3. i \in Nat
  BY <1>1, LoaderAssumption DEF Image
<1> QED  BY <1>1, <1>2, <1>3, SegmentPages

\* A segment stays in place when its pages stay mapped as they are and what its
\* frames hold stays.
LEMMA StillPlaced ==
  ASSUME Laid, image \in Shipped, image' = image, NEW i \in ToLoad(image), Placed(i),
         \A j \in 0 .. Count(image.segments[i]) - 1 :
           LET page == PageOf(image.segments[i], j)
           IN  /\ mapping'[page] = mapping[page]
               /\ \A m \in mapping[page] : \A k \in 0 .. PAGESIZE - 1 :
                    memory'[m.frame][k] = memory[m.frame][k]
  PROVE  Placed(i)'
<1> DEFINE s == image.segments[i]
<1>1. ASSUME NEW k \in 0 .. s.memsz - 1
      PROVE  Seen(s.vaddr + k)' = Seen(s.vaddr + k)
  <2> DEFINE page == (s.vaddr + k) \div PAGESIZE
             offset == (s.vaddr + k) % PAGESIZE
  <2>1. page = PageOf(s, k \div PAGESIZE) /\ k \div PAGESIZE \in 0 .. Count(s) - 1
    BY ToLoadPages
  <2>2. offset \in 0 .. PAGESIZE - 1
    <3>1. k \in Nat /\ offset = k % PAGESIZE
      BY ToLoadPages DEF Segment
    <3> QED  BY <3>1, LoaderAssumption, DivisionTypes
  <2>3. mapping'[page] = mapping[page]
        /\ \A m \in mapping[page] : memory'[m.frame][offset] = memory[m.frame][offset]
    BY <2>1, <2>2
  <2> HIDE DEF page, offset
  <2>4. {[word |-> memory'[m.frame][offset], prot |-> m.prot] : m \in mapping'[page]}
          = {[word |-> memory[m.frame][offset], prot |-> m.prot] : m \in mapping[page]}
    BY <2>3
  <2> QED  BY <2>4 DEF Seen, page, offset
<1>2. s' = s
  OBVIOUS
<1> QED  BY <1>1, <1>2 DEF Placed, Prot

LEMMA PlacedInitially == BootInit => PlacedInv
BY FirstCalls DEF BootInit, Unstarted, PlacedInv

\* Steps that neither map nor copy.
LEMMA PlacedQuietly ==
  ASSUME BootInv, PlacedInv, UNCHANGED <<mapping, memory, image>>, seg \in Nat,
         \/ pc' \in First(17) \cup {"map_stack", "lookup", "verify"}
              /\ pc \in First(17) \cup {"map_stack", "lookup"} /\ seg' = seg
         \/ pc' \in {"panic", "idle", "reset"}
         \/ pc = "verify" /\ pc' = "segment" /\ seg' = seg
         \/ pc = "segment" /\ pc' = "map" /\ seg' = seg /\ seg \in ToLoad(image) /\ done' = 0
         \/ pc = "segment" /\ pc' = "segment" /\ seg' = seg + 1 /\ seg \notin ToLoad(image)
         \/ pc = "segment" /\ pc' = "user" /\ seg' = seg /\ seg > Len(image.segments)
  PROVE  PlacedInv'
<1>1. \A i : Placed(i)' <=> Placed(i)
  BY DEF Placed, Seen
<1>2. ToLoad(image)' = ToLoad(image)
  BY DEF ToLoad
<1>3. ToLoad(image) \subseteq Int \/ pc \notin {"verify", "segment"}
  BY LoaderAssumption DEF ToLoad, BootInv, RegionInv, Image
<1>4. ASSUME pc \in {"verify", "segment"}, pc' \in {"segment", "map", "user"}
      PROVE  \A i \in ToLoad(image) : i < seg' => Placed(i)
  <2>1. CASE pc = "verify"
    <3>1. seg' = 1
      BY <1>4, <2>1, FirstCalls DEF PlacedInv
    <3>2. \A i \in ToLoad(image) : i >= 1
      BY <2>1, LoaderAssumption DEF ToLoad, BootInv, RegionInv, Image
    <3> QED  BY <1>3, <1>4, <3>1, <3>2
  <2>2. CASE pc = "segment"
    <3>1. \A i \in ToLoad(image) : i < seg => Placed(i)
      BY <2>2 DEF PlacedInv
    <3>2. seg' = seg \/ (seg' = seg + 1 /\ seg \notin ToLoad(image))
      BY <1>4, <2>2, FirstCalls
    <3> QED  BY <1>3, <2>2, <3>1, <3>2
  <2> QED  BY <1>4, <2>1, <2>2
<1> QED  BY <1>1, <1>2, <1>4, FirstCalls DEF PlacedInv

\* The page that is mapped next belongs to no segment but the current.
LEMMA PlacedMapPage ==
  ASSUME Laid, image \in Shipped, BootInv, PlacedInv, MapPage
  PROVE  PlacedInv'
<1>1. CASE MapFails
  BY <1>1, PlacedQuietly DEF MapFails, BootInv, TypeOK
<1>2. CASE /\ Maps(PageOf(Current, done), [frame |-> RegionFrame, prot |-> Prot(Current)])
           /\ done' = done + 1
           /\ UNCHANGED <<image, top, memory, pc, stack, seg, pma, entry>>
  <2> DEFINE new == [frame |-> pma + done, prot |-> Prot(Current)]
  <2>1. /\ pc = "map" /\ done < Count(Current)
        /\ mapping' = [mapping EXCEPT ![PageOf(Current, done)] = {new}]
    BY <1>2, MapsTakes DEF MapPage, RegionFrame
  <2>2. seg \in ToLoad(image) /\ done \in Nat /\ DOMAIN mapping = Pages
    BY <2>1 DEF PlacedInv, BootInv, TypeOK
  <2>3. /\ Count(Current) \in Nat
        /\ \A j \in 0 .. Count(Current) - 1 : PageOf(Current, j) \in Pages
        /\ Current.vaddr \div PAGESIZE \in Nat
    BY <2>2, ToLoadPages, DivisionTypes, LoaderAssumption DEF Current, Segment
  <2>4. ToLoad(image)' = ToLoad(image) /\ Current' = Current /\ Prot(Current)' = Prot(Current)
    BY <1>2 DEF ToLoad, Current, Prot
  <2>5. done \in 0 .. Count(Current) - 1
    BY <2>1, <2>2, <2>3
  <2>6. ASSUME NEW i \in ToLoad(image), i < seg PROVE Placed(i)'
    <3>1. Placed(i) /\ i # seg
      BY <2>1, <2>6 DEF PlacedInv, BootInv, TypeOK
    <3>2. ASSUME NEW j \in 0 .. Count(image.segments[i]) - 1
          PROVE  mapping'[PageOf(image.segments[i], j)] = mapping[PageOf(image.segments[i], j)]
      <4>1. PageOf(image.segments[i], j) # PageOf(Current, done)
        BY <2>2, <2>5, <3>1 DEF Laid, Current
      <4> QED  BY <2>1, <4>1
    <3> QED  BY <1>2, <3>1, <3>2, StillPlaced
  <2>7. ASSUME NEW j \in 0 .. done' - 1
        PROVE  mapping'[PageOf(Current, j)] = {[frame |-> pma + j, prot |-> Prot(Current)]}
    <3>1. CASE j = done
      BY <2>1, <2>2, <2>3, <2>5, <3>1
    <3>2. CASE j # done
      <4>1. j \in 0 .. done - 1
        BY <1>2, <2>2, <3>2
      <4>2. PageOf(Current, j) # PageOf(Current, done)
        BY <2>2, <2>3, <3>2 DEF PageOf
      <4> QED  BY <2>1, <4>1, <4>2 DEF PlacedInv
    <3> QED  BY <3>1, <3>2
  <2> QED  BY <1>2, <2>1, <2>2, <2>4, <2>6, <2>7, FirstCalls DEF PlacedInv, PageOf
<1> QED  BY <1>1, <1>2 DEF MapPage, PageOf

\* memcpy puts the segment where its pages are, and nothing else.
LEMMA PlacedCopy ==
  ASSUME Laid, image \in Shipped, BootInv, PlacedInv, Copy
  PROVE  PlacedInv'
<1> DEFINE s == Current
           count == Count(s)
<1>1. /\ pc = "map" /\ pc' = "segment" /\ done = count /\ seg' = seg + 1
      /\ memory' = Copied(memory)
      /\ UNCHANGED <<image, mapping, pma, done>>
  BY DEF Copy, NextHeader
<1>2. seg \in ToLoad(image) /\ seg \in Nat /\ pma \in Nat /\ DOMAIN mapping = Pages
  <2>1. seg \in ToLoad(image)
    BY <1>1 DEF PlacedInv
  <2>2. seg \in Nat /\ pma \in Nat /\ DOMAIN mapping = Pages
    BY LoaderAssumption DEF BootInv, TypeOK
  <2> QED  BY <2>1, <2>2
<1>3. /\ s \in Segment /\ count \in Nat /\ s.filesz = s.memsz
      /\ \A k \in 0 .. s.memsz - 1 :
           /\ (s.vaddr + k) \div PAGESIZE = PageOf(s, k \div PAGESIZE)
           /\ (s.vaddr + k) % PAGESIZE = k % PAGESIZE
           /\ k \div PAGESIZE \in 0 .. count - 1
      /\ \A j \in 0 .. count - 1 : PageOf(s, j) \in Pages
      /\ \A j \in Int, k \in 0 .. PAGESIZE - 1 :
           j \notin 0 .. count - 1 => j * PAGESIZE + k \notin 0 .. s.memsz - 1
  BY <1>2, ToLoadPages DEF Current
<1>4. \A j \in 0 .. count - 1 :
        mapping[PageOf(s, j)] = {[frame |-> pma + j, prot |-> Prot(s)]}
  BY <1>1 DEF PlacedInv
<1>5. \A j \in 0 .. count - 1 : pma + j \in Frame
  <2>1. ASSUME NEW j \in 0 .. count - 1 PROVE pma + j \in Frame
    <3>1. pma + j \in Region
      BY <1>2, <1>3 DEF Region
    <3> QED  BY <1>1, <3>1 DEF BootInv, RegionInv, Owned
  <2> QED  BY <2>1
<1>6. ASSUME NEW f \in Frame, f - pma \notin 0 .. count - 1, NEW k \in 0 .. PAGESIZE - 1
      PROVE  memory'[f][k] = memory[f][k]
  <2>1. f - pma \in Int
    BY <1>2, LoaderAssumption
  <2>2. (f - pma) * PAGESIZE + k \notin 0 .. s.memsz - 1
    BY <1>3, <1>6, <2>1
  <2> QED  BY <1>1, <2>2 DEF Copied, CopiedWords
<1>7. ASSUME NEW k \in 0 .. s.memsz - 1
      PROVE  memory'[pma + k \div PAGESIZE][k % PAGESIZE] = <<seg, k>>
  <2> DEFINE f == pma + k \div PAGESIZE
  <2>1. k \in Nat /\ s.memsz \in Nat
    BY <1>3 DEF Segment
  <2>2. /\ k \div PAGESIZE \in Nat /\ k % PAGESIZE \in 0 .. PAGESIZE - 1
        /\ (k \div PAGESIZE) * PAGESIZE + (k % PAGESIZE) = k
    BY <2>1, DivisionTypes, Division, LoaderAssumption
  <2>3. f \in Frame /\ f - pma = k \div PAGESIZE
    BY <1>2, <1>3, <1>5, <2>2
  <2>4. (f - pma) * PAGESIZE + (k % PAGESIZE) = k
    BY <2>2, <2>3
  <2>5. FileWord(seg, k) = <<seg, k>>
    BY <1>3, <2>1 DEF FileWord, Current
  <2> HIDE DEF f
  <2>6. memory'[f][k % PAGESIZE] = FileWord(seg, k)
    BY <1>1, <2>2, <2>3, <2>4 DEF Copied, CopiedWords
  <2> QED  BY <2>5, <2>6 DEF f
<1>8. ASSUME NEW i, i = seg PROVE Placed(i)'
  <2>1. ASSUME NEW k \in 0 .. s.memsz - 1, NEW a, a = s.vaddr + k
        PROVE  Seen(a)' = {[word |-> <<i, k>>, prot |-> Prot(s)]}
    <3> DEFINE page == a \div PAGESIZE
               offset == a % PAGESIZE
               f == pma + k \div PAGESIZE
    <3>1. mapping'[page] = {[frame |-> f, prot |-> Prot(s)]}
      BY <1>1, <1>3, <1>4, <2>1
    <3>2. memory'[f][offset] = <<i, k>>
      BY <1>3, <1>7, <1>8, <2>1
    <3> DEFINE m0 == [frame |-> f, prot |-> Prot(s)]
               Word(m) == [word |-> memory'[m.frame][offset], prot |-> m.prot]
    <3> HIDE DEF page, offset, f, s
    <3>3. {[word |-> memory'[m.frame][offset], prot |-> m.prot] : m \in mapping'[page]}
            = {[word |-> <<i, k>>, prot |-> Prot(s)]}
      <4>1. Word(m0) = [word |-> <<i, k>>, prot |-> Prot(s)]
        BY <3>2
      <4>2. mapping'[page] = {m0}
        BY <3>1
      <4> HIDE DEF Word, m0
      <4>3. {Word(m) : m \in mapping'[page]} = {Word(m0)}
        BY <4>2
      <4> QED  BY <4>1, <4>3 DEF Word
    <3> QED  BY <3>3 DEF Seen, page, offset
  <2>2. image'.segments[i] = s
    BY <1>1, <1>8 DEF Current
  <2> HIDE DEF s
  <2> QED  BY <2>1, <2>2 DEF Placed, Prot
<1>9. ASSUME NEW i \in ToLoad(image), i < seg PROVE Placed(i)'
  <2>1. Placed(i) /\ i # seg
    BY <1>1, <1>2, <1>9 DEF PlacedInv
  <2>2. ASSUME NEW j \in 0 .. Count(image.segments[i]) - 1,
               NEW m \in mapping[PageOf(image.segments[i], j)]
        PROVE  m.frame \in Frame /\ m.frame - pma \notin 0 .. count - 1
    <3> DEFINE page == PageOf(image.segments[i], j)
    <3>1. page \in Pages
      BY ToLoadPages
    <3>2. m.frame \in Frame
      BY <3>1 DEF BootInv, TypeOK, Mapped
    <3>3. ASSUME NEW k \in 0 .. count - 1 PROVE m.frame # pma + k
      <4>1. PageOf(s, k) \in Pages /\ PageOf(s, k) # page
        BY <1>2, <1>3, <2>1 DEF Laid, Current
      <4>2. [frame |-> pma + k, prot |-> Prot(s)] \in mapping[PageOf(s, k)]
        BY <1>4
      <4> HIDE DEF page, s
      <4>3. \A n \in mapping[PageOf(s, k)] : m.frame # n.frame
        BY <1>1, <3>1, <4>1, FirstCalls DEF BootInv, MappedInv, Past, Stopped, page
      <4> QED  BY <4>2, <4>3
    <3>4. m.frame \in Nat
      BY <3>2, LoaderAssumption
    <3> QED  BY <1>2, <1>3, <3>2, <3>3, <3>4
  <2>3. ASSUME NEW j \in 0 .. Count(image.segments[i]) - 1
        PROVE  \A m \in mapping[PageOf(image.segments[i], j)] : \A k \in 0 .. PAGESIZE - 1 :
                 memory'[m.frame][k] = memory[m.frame][k]
    BY <1>6, <2>2
  <2> QED  BY <1>1, <2>1, <2>3, StillPlaced
<1>10. ToLoad(image)' = ToLoad(image) /\ \A i \in ToLoad(image) : i \in Nat
  BY <1>1, ToLoadPages DEF ToLoad
<1>11. \A i \in ToLoad(image) : i < seg' => i < seg \/ i = seg
  BY <1>1, <1>2, <1>10
<1> QED  BY <1>1, <1>8, <1>9, <1>10, <1>11, FirstCalls DEF PlacedInv

LEMMA PlacedKept ==
  ASSUME AllVerify, Laid, BootInv, ImageShipped, PlacedInv, [BootNext]_allVars
  PROVE  PlacedInv'
<1>1. CASE UNCHANGED allVars
  <2>1. \A i : Placed(i)' <=> Placed(i)
    BY <1>1 DEF Placed, Seen, allVars, vars
  <2>2. ToLoad(image)' = ToLoad(image) /\ Current' = Current
    BY <1>1 DEF ToLoad, Current, allVars, vars
  <2> QED  BY <1>1, <2>1, <2>2 DEF PlacedInv, allVars, vars, PageOf, Prot
<1>2. CASE BootNext /\ ~start_rts
  BY <1>2, CallPlaces, FirstCalls DEF PlacedInv
<1>3. CASE start_rts
  <2> USE PlacedQuietly, FirstCalls
  <2>1. seg \in Nat
    BY DEF BootInv, TypeOK
  <2>2. pc \in {"verify", "segment", "map"} => image \in Shipped
    BY LoaderAssumption DEF BootInv, RegionInv, ImageShipped
  <2>3. CASE AllocStack
    BY <2>1, <2>3 DEF AllocStack, Panic
  <2>4. CASE MapStack
    <3>1. CASE MapFails
      BY <2>1, <3>1 DEF MapFails
    <3>2. CASE pc' = "lookup" /\ seg' = seg
      BY <2>4, <3>2 DEF MapStack, PlacedInv
    <3> QED  BY <2>4, <3>1, <3>2 DEF MapStack
  <2>5. CASE Lookup
    BY <2>1, <2>5 DEF Lookup
  <2>6. CASE Verify
    BY <2>1, <2>2, <2>6 DEF Verify, AllVerify
  <2>7. CASE Skip
    <3>1. seg \notin ToLoad(image)
      BY <2>7 DEF Skip, Dropped, Current, ToLoad
    <3> QED  BY <2>1, <2>7, <3>1 DEF Skip, NextHeader
  <2>8. CASE AllocRegion
    <3>1. CASE Panic
      BY <2>1, <3>1 DEF Panic
    <3>2. CASE /\ pc' = "map" /\ done' = 0
               /\ UNCHANGED <<image, top, mapping, memory, stack, seg, entry>>
      <4>1. image \in Images /\ seg <= Len(image.segments) /\ pc = "segment" /\ ~Dropped
            /\ seg \in Nat \ {0}
        BY <2>8 DEF AllocRegion, BootInv, RegionInv, TypeOK
      <4>2. seg \in ToLoad(image)
        BY <4>1, CurrentSegment DEF Dropped, Current, ToLoad
      <4> QED  BY <2>1, <3>2, <4>1, <4>2
    <3> QED  BY <2>8, <3>1, <3>2 DEF AllocRegion, LoadFails
  <2>9. CASE MapPage
    BY <2>2, <2>9, PlacedMapPage DEF MapPage
  <2>10. CASE Copy
    BY <2>2, <2>10, PlacedCopy DEF Copy
  <2>11. CASE Enter
    BY <2>1, <2>11 DEF Enter
  <2> QED  BY <1>3, <2>3, <2>4, <2>5, <2>6, <2>7, <2>8, <2>9, <2>10, <2>11 DEF start_rts, Next
<1> QED  BY <1>1, <1>2, <1>3

\* The program runs in the memory its linker laid out, for any number of
\* segments of any size, if the images are executables that are Laid out as
\* above (core/elfload.c:elf_load, mm/vmem.c:vmem_map_region).  One that is not
\* is not loaded as linked: MC_Boot_bss.
THEOREM LoadsAsLinked == ASSUME AllVerify, Laid PROVE RoomSpec => []LoadedAsLinked
<1>1. BootInv /\ PlacedInv /\ ImageShipped => LoadedAsLinked
  <2> SUFFICES ASSUME BootInv, PlacedInv, ImageShipped, pc = "user",
                      NEW i \in DOMAIN image.segments, image.segments[i].type = "PT_LOAD",
                      NEW k \in 0 .. image.segments[i].memsz - 1
               PROVE  Seen(image.segments[i].vaddr + k)
                        = {[word |-> IF k < image.segments[i].filesz THEN <<i, k>> ELSE Zero,
                            prot |-> image.segments[i].flags \cup {"u"}]}
    BY DEF LoadedAsLinked
  <2>1. image \in Shipped
    BY LoaderAssumption DEF BootInv, RegionInv, ImageShipped
  <2>2. image.segments[i].memsz # 0
    BY LoaderAssumption DEF Shipped, Image, Segment
  <2>3. i \in ToLoad(image) /\ i < seg
    <3>1. image.segments \in Seq(Segment) /\ seg > Len(image.segments) /\ seg \in Nat
      BY <2>1, LoaderAssumption DEF Shipped, Image, BootInv, TypeOK, PlacedInv
    <3> QED  BY <2>2, <3>1 DEF ToLoad
  <2>4. image.segments[i].filesz = image.segments[i].memsz
    BY <2>1, <2>3, ToLoadPages
  <2>5. Placed(i)
    BY <2>3 DEF PlacedInv
  <2>6. (IF k < image.segments[i].filesz THEN <<i, k>> ELSE Zero) = <<i, k>>
    BY <2>1, <2>3, <2>4, ToLoadPages DEF Segment
  <2>7. Seen(image.segments[i].vaddr + k)
          = {[word |-> <<i, k>>, prot |-> image.segments[i].flags \cup {"u"}]}
    BY <2>5 DEF Placed, Prot
  <2> QED  BY <2>6, <2>7
<1>2. RoomSpec => []PlacedInv
  BY PlacedInitially, PlacedKept, BootAlways, ShippedAlways, RoomSteps, PTL
<1> QED  BY <1>1, <1>2, BootAlways, ShippedAlways, PTL
=============================================================================
