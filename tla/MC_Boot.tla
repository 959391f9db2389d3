------------------------------ MODULE MC_Boot ------------------------------
(***************************************************************************)
(* Boot on a machine of a few frames, with pages of two words.             *)
(***************************************************************************)
EXTENDS Boot

Segment_(vaddr, filesz, memsz, flags) ==
  [type |-> "PT_LOAD", vaddr |-> vaddr, filesz |-> filesz, memsz |-> memsz, flags |-> flags]

NoteSegment == [type |-> "PT_NOTE", vaddr |-> 2, filesz |-> 1, memsz |-> 1, flags |-> {}]

\* Segments that start on pages of their own: text of two pages and data; text
\* that ends within a page, with a note and an empty segment before it.
TextAndData ==
  [magic |-> TRUE, type |-> "ET_EXEC", version |-> "EV_CURRENT", entry |-> 2,
   segments |-> <<Segment_(2, 4, 4, {"x"}), Segment_(6, 2, 2, {"w"})>>]
Stripped ==
  [magic |-> TRUE, type |-> "ET_EXEC", version |-> "EV_CURRENT", entry |-> 5,
   segments |-> <<NoteSegment, Segment_(2, 0, 0, {}), Segment_(4, 3, 3, {"x"}),
                  Segment_(2, 1, 1, {"w"})>>]

\* What user/link.ld makes of a program with text and .bss, both within the
\* second page: one segment, of which the file holds the first part.
WithBss ==
  [magic |-> TRUE, type |-> "ET_EXEC", version |-> "EV_CURRENT", entry |-> 2, segments |-> <<Segment_(2, 1, 2, {"w", "x"})>>]

\* A file that elf_verify refuses.
NotElf == [magic |-> FALSE, type |-> "ET_EXEC", version |-> "EV_CURRENT", entry |-> 2, segments |-> <<>>]

MCImages == {TextAndData, Stripped, WithBss, NotElf}

\* Memory with a reserved end; with a hole behind a frame, so that the pool is
\* found behind it; enough for the pool and the stack, but not for the tables the
\* stack may need; for the pool alone; none.
MCMemmaps ==
  {<<[frames |-> 8 .. 17, type |-> LIMINE_MEMMAP_USABLE], [frames |-> {18}, type |-> LIMINE_MEMMAP_RESERVED]>>,
   <<[frames |-> {8}, type |-> LIMINE_MEMMAP_USABLE], [frames |-> {9}, type |-> LIMINE_MEMMAP_RESERVED],
     [frames |-> 10 .. 17, type |-> LIMINE_MEMMAP_USABLE]>>,
   <<[frames |-> 8 .. 12, type |-> LIMINE_MEMMAP_USABLE]>>,
   <<[frames |-> {8, 9}, type |-> LIMINE_MEMMAP_USABLE]>>,
   <<[frames |-> {9}, type |-> LIMINE_MEMMAP_RESERVED]>>}

Other == [path |-> "/boot/other", image |-> NotFound]
Archive(image_) == [path |-> "/boot/initrd.mr", image |-> image_]

MCModuleLists ==
  {<<>>, <<Other>>, <<Other, Archive(NotFound)>>,
   <<Archive(TextAndData)>>, <<Other, Archive(Stripped), Archive(TextAndData)>>}

\* The memory map for MC_Boot_small: when tables have taken a frame, there is no
\* run for a region of two pages.
SmallMemmaps ==
  {<<[frames |-> 8 .. 12, type |-> LIMINE_MEMMAP_USABLE], [frames |-> {13}, type |-> LIMINE_MEMMAP_RESERVED],
     [frames |-> {14}, type |-> LIMINE_MEMMAP_USABLE]>>}

\* The lists for the configurations outside the runs.
BssModules == {<<Archive(WithBss)>>}
NotElfModules == {<<Archive(NotElf)>>}
=============================================================================
