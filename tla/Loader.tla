------------------------------- MODULE Loader -------------------------------
(***************************************************************************)
(* The last step of booting (core/epoch.c:start_rts): a stack and the ELF  *)
(* image of the first user program are put into the address space, and the *)
(* processor leaves for user mode.  Models core/elfload.c and mm/vmem.c    *)
(* with it.                                                                *)
(*                                                                         *)
(* A page has PAGESIZE words; an address is a number of words.  The        *)
(* address space is AddressSpace (Pmap implements it) and takes its tables *)
(* from the same memory; frames come from the scan of pmem_alloc, which    *)
(* FrameScan has.  An image is what the archive holds under RTS_PATH.      *)
(* Boot starts it.                                                         *)
(***************************************************************************)
EXTENDS FrameScan, Sequences

CONSTANTS
  PAGESIZE,   \* words in a page
  Pages,      \* pages of the lower half
  Frame,      \* frames of the memory the bootloader describes
  TABLES,     \* levels of tables below the top of an address space, at most
  Images,     \* the images the archive may hold
  NotFound    \* the archive has none

\* The types a file and a program header may have.
ETypes == {"ET_NONE", "ET_REL", "ET_EXEC", "ET_DYN", "ET_CORE"}
PTypes == {"PT_NULL", "PT_LOAD", "PT_DYNAMIC", "PT_INTERP", "PT_NOTE", "PT_SHLIB", "PT_PHDR",
           "PT_TLS", "PT_GNU_EH_FRAME", "PT_GNU_STACK", "PT_GNU_RELRO"}

\* A segment as the linker made it: its address, its sizes in the file and in
\* memory, and its flags, a subset of {"w", "x"}.
Segment == [type : PTypes, vaddr : Nat, filesz : Nat, memsz : Nat, flags : SUBSET {"w", "x"}]

\* What the archive holds: whether it begins with the magic bytes, the other
\* fields of the header that the loader reads, and the program headers.
Image == [magic : BOOLEAN, type : ETypes, version : {"EV_NONE", "EV_CURRENT"}, entry : Nat,
          segments : Seq(Segment)]

\* Frames can be mapped at their own address, and an image fits the lower half.
ASSUME LoaderAssumption ==
  /\ PAGESIZE \in Nat \ {0} /\ TABLES \in Nat
  /\ Pages \subseteq Nat /\ Frame \subseteq Pages \ {0}
  /\ Images \subseteq Image /\ NotFound \notin Images
  /\ \A file \in Images : \A i \in DOMAIN file.segments :
       LET s == file.segments[i]
       IN  /\ s.filesz <= s.memsz
           /\ s.vaddr \div PAGESIZE .. (s.vaddr + s.memsz - 1) \div PAGESIZE \subseteq Pages

VARIABLES
  image,     \* what initrd_lookup finds
  mapping,   \* the address space: page -> {} or {what it is mapped to}
  memory,    \* Frame -> offset -> word
  free,      \* the frames whose bits are clear
  top,       \* usable_top: the first frame past the end of usable memory
  pc,        \* where the boot processor is
  stack,     \* the frame of the user's stack, 0 before there is one
  seg,       \* the program header elf_load looks at
  pma,       \* region.pma
  done,      \* pages vmem_map_region has mapped
  entry      \* elf.entrypoint, uninitialised at first

vars == <<image, mapping, memory, free, top, pc, stack, seg, pma, done, entry>>

AS == INSTANCE AddressSpace WITH Mappings <- [frame : Frame, prot : SUBSET {"w", "x", "u"}]

ALIGN_UP(n, align) == ((n + align - 1) \div align) * align

\* A word of memory: nobody has written it, or it was cleared, or it is a word
\* of a segment of the image.
Junk == <<>>
Zero == <<0>>

\* Word k of segment i in the file, or what follows the segment there.
FileWord(i, k) == IF k < image.segments[i].filesz THEN <<i, k>> ELSE Junk

\* What start_rts and elf_load find when they begin.
Unstarted == /\ memory = [f \in Frame |-> [k \in 0 .. PAGESIZE - 1 |-> Junk]]
             /\ stack = 0
             /\ seg = 1 /\ pma = 0 /\ done = 0
             /\ entry \in {-1, 0}
-----------------------------------------------------------------------------
Panic == pc' = "panic" /\ UNCHANGED <<image, top, mapping, memory, free, stack, seg, pma, done, entry>>

\* The bitmap of pmem.c, and what mm_pmem_alloc finds in it: the first frame of
\* a region, or -1.  The scan does not look at the rest of the region.
bitmap == [f \in 0 .. top - 1 |-> f \notin free]
Found(count) == pmem_scan(bitmap, 0, top, count)

Taken(frames) == free \ frames

\* The tables that mu_pmap_map may need on its way down, each a frame of its
\* own: the first free ones.
TableFrames == {T \in SUBSET free : Cardinality(T) <= TABLES /\ \A f \in T, g \in free \ T : f < g}

Maps(page, m) == /\ AS!Map(page, m)
                 /\ \E T \in TableFrames : free' = Taken(T)

\* There are fewer frames than it needs: those it had taken stay tables.
MapFails == /\ Cardinality(free) < TABLES
            /\ free' = {}
            /\ pc' = "panic"
            /\ UNCHANGED <<image, top, mapping, memory, stack, seg, pma, done, entry>>

\* start_rts: one frame, mapped at its own address.
AllocStack ==
  /\ pc = "stack"
  /\ IF Found(1) < 0 THEN Panic
     ELSE /\ stack' = Found(1)
          /\ free' = Taken({stack'})
          /\ pc' = "map_stack"
          /\ UNCHANGED <<image, top, mapping, memory, seg, pma, done, entry>>

MapStack ==
  /\ pc = "map_stack"
  /\ \/ /\ Maps(stack, [frame |-> stack, prot |-> {"w", "u"}])
        /\ pc' = "lookup"
        /\ UNCHANGED <<image, top, memory, stack, seg, pma, done, entry>>
     \/ MapFails

\* elf_load returns an error, and so does elf_load_raw: start_rts panics.  What
\* it has mapped and allocated stays.
LoadFails == Panic

Lookup ==
  /\ pc = "lookup"
  /\ \/ image # NotFound /\ pc' = "verify"
     \/ image = NotFound /\ pc' = "panic"
  /\ UNCHANGED <<image, top, mapping, memory, free, stack, seg, pma, done, entry>>

\* An executable of the current version.
elf_verify(file) == file.magic /\ file.type = "ET_EXEC" /\ file.version = "EV_CURRENT"

\* An image that is not one makes elf_load_raw return false, which is 0:
\* start_rts goes on with elf.entrypoint as it was.
Verify ==
  /\ pc = "verify"
  /\ pc' = IF elf_verify(image) THEN "segment" ELSE "user"
  /\ UNCHANGED <<image, top, mapping, memory, free, stack, seg, pma, done, entry>>

Current == image.segments[seg]

\* The loop of elf_load drops segments that are not to be loaded or empty.
Dropped == Current.type # "PT_LOAD" \/ Current.memsz = 0

RegionLength(s) == ALIGN_UP(s.memsz + (s.vaddr % PAGESIZE), PAGESIZE)

NextHeader == seg + 1

Skip == /\ pc = "segment"
        /\ seg <= Len(image.segments) /\ Dropped
        /\ seg' = NextHeader
        /\ UNCHANGED <<image, top, mapping, memory, free, pc, stack, pma, done, entry>>

\* The frames mm_pmem_alloc is asked for.
Count(s) == RegionLength(s) \div PAGESIZE

AllocRegion ==
  /\ pc = "segment"
  /\ seg <= Len(image.segments) /\ ~Dropped
  /\ IF Found(Count(Current)) < 0 THEN LoadFails
     ELSE /\ pma' = Found(Count(Current))
          /\ free' = Taken(pma' .. pma' + Count(Current) - 1)
          /\ done' = 0
          /\ pc' = "map"
          /\ UNCHANGED <<image, top, mapping, memory, stack, seg, entry>>

RegionFrame == pma + done

Prot(s) == s.flags \cup {"u"}

\* One turn of the loop of vmem_map_region; when mu_pmap_map fails the pages
\* before stay mapped.
MapPage ==
  /\ pc = "map"
  /\ done < Count(Current)
  /\ \/ /\ Maps(Current.vaddr \div PAGESIZE + done,
                [frame |-> RegionFrame, prot |-> Prot(Current)])
        /\ done' = done + 1
        /\ UNCHANGED <<image, top, memory, pc, stack, seg, pma, entry>>
     \/ MapFails

\* Mutant: the sizes are in pages.
CopiedPages(s) == s.memsz \div PAGESIZE

CopiedWords(s) == s.memsz

\* memcpy, to the start of the region: p_memsz words from p_offset on.
Copied(m) ==
  [f \in Frame |-> [k \in 0 .. PAGESIZE - 1 |->
     LET at == (f - pma) * PAGESIZE + k
     IN  IF at \in 0 .. CopiedWords(Current) - 1 THEN FileWord(seg, at) ELSE m[f][k]]]

Copy == /\ pc = "map"
        /\ done = Count(Current)
        /\ memory' = Copied(memory)
        /\ seg' = NextHeader
        /\ pc' = "segment"
        /\ UNCHANGED <<image, top, mapping, free, stack, pma, done, entry>>

\* elf_load_raw returns 0, and mu_proc_uvector leaves for user mode.
Enter == /\ pc = "segment"
         /\ seg > Len(image.segments)
         /\ entry' = image.entry
         /\ pc' = "user"
         /\ UNCHANGED <<image, top, mapping, memory, free, stack, seg, pma, done>>

Next == \/ AllocStack \/ MapStack \/ Lookup \/ Verify \/ Skip \/ AllocRegion
        \/ MapPage \/ Copy \/ Enter
-----------------------------------------------------------------------------
Mapped == UNION {mapping[page] : page \in Pages}

\* The words and the rights a user finds at an address: at most one.
Seen(a) == {[word |-> memory[m.frame][a % PAGESIZE], prot |-> m.prot] :
              m \in mapping[a \div PAGESIZE]}

\* The program runs in the memory its linker laid out (elf_load): each loaded
\* segment is at its address, with its rights, holding what the file holds and
\* zeroes after that.
LoadedAsLinked ==
  pc = "user" =>
    \A i \in {j \in DOMAIN image.segments : image.segments[j].type = "PT_LOAD"} :
      LET s == image.segments[i]
          Word(k) == IF k < s.filesz THEN <<i, k>> ELSE Zero
      IN  \A k \in 0 .. s.memsz - 1 :
            Seen(s.vaddr + k) = {[word |-> Word(k), prot |-> s.flags \cup {"u"}]}

\* The stack pointer the program starts with is in a page of its own, which it
\* can write.
StackUsable ==
  pc = "user" =>
    /\ mapping[stack] = {[frame |-> stack, prot |-> {"w", "u"}]}
    /\ \A page \in Pages \ {stack} : \A m \in mapping[page] : m.frame # stack

\* The program sees no frame that the kernel may still hand out, and no frame
\* at two addresses.
FramesPrivate ==
  /\ {m.frame : m \in Mapped} \cap free = {}
  /\ \A p, q \in Pages : p # q => \A m \in mapping[p], n \in mapping[q] : m.frame # n.frame
=============================================================================
