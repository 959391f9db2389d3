# A TLA+ model of the hive kernel

This directory specifies the kernel of OpenModality (`src/sys/hive`) in TLA+,
model-checks the specifications with TLC and proves theorems about them with
TLAPS. It describes the code as it is: where the code and its comments disagree,
a run shows the disagreement and `PROJECT.json` lists it as a finding.

## 1. Inventory of the system

hive is a small amd64 kernel started by Limine. At this commit one processor
runs (`core/epoch.c:kmain`), interrupts stay masked from `locore.S` until the first
program is entered, every trap panics, and nothing is ever freed by the kernel itself except on an error
path of the object store. The primitives are nevertheless written for several
processors and for callers that do free, and that is how they are specified.

| component | state | operations | who uses it |
|---|---|---|---|
| spinlock (`core/spinlock.c`, `aswap.S`, `prim.S`) | one word, the processor's interrupt flag | acquire, release | pmem, pool |
| physical memory (`mm/pmem.c`) | bitmap of frames, `last_bit`, a lock | init, alloc, free | pool, pmap, ELF loader, epoch |
| heap (`mm/tlsf.c`) | blocks in a pool, free lists, two levels of bitmaps | create, malloc, free, memalign, realloc, add/remove pool, check | pool |
| pool (`os/pool.c`) | the TLSF handle, a lock | init, allocate, free | object store, TSS |
| page tables (`arch/amd64/cpu/pmap.c`) | a tree of tables, CR3 | map, read and write the VAS, init | vmem, cpu_conf |
| virtual memory (`mm/vmem.c`) | none of its own | map a region page by page | ELF loader, epoch |
| ELF loader (`core/elfload.c`) | none of its own | load segments | epoch |
| boot archive (`core/initrd.c`, `gen/memar/memar.c`) | the archive | write (a tool of the build), init, look up (kernel) | epoch |
| object store (`ob/`) | a tree of knodes in tail queues | init, new directory, append, look up, resolve, foreach | drivers |
| timers (`core/timer.c`, `io/timer.c`, `tsc.c`) | a directory and a node in the object store | init | epoch |
| ACPI (`acpi/acpi.c`) | the root table, the MADT found once | init, query, MADT walk | epoch |
| boot protocol (`bpt/limine.c`, `core/bpt.c`) | the hooks, pointers to four responses | init, variables, memory map entries, modules | pmem, ACPI, initrd, every use of the higher half |
| traps and panic (`trap.c`, `vector.S`, `idt.c`, `tss.c`, `gdt.S`, `panic.c`, `panic.S`) | IDT, GDT, TSS, the panic flag | trap, panic | everybody |
| console (`uart.S`, `trace.c`, `sdk/string`) | the UART | formatting, output | everybody |
| boot order (`locore.S`, `core/epoch.c`, `cpu.c`, `gdt.S`, `idt.c`, `tss.c`, `uvec.S`) | the registers of the processor | one call for each part, in order | - |
| first program (`core/epoch.c:start_rts`, `admin/service/rts`) | its stack and mapped segments | start | - |

### How the parts interact

Everything is a direct call; there are no messages, callbacks or threads of the
kernel's own. The chain that matters is the one of memory:

    epoch -> ELF loader -> vmem -> pmap -> pmem -> spinlock
    drivers -> object store -> pool -> TLSF, spinlock;  pool -> pmem (once)
    everything that translates an address -> boot protocol (the base of the higher half)
    any exception -> a stub -> trap_dispatch -> panic -> printf -> UART, then halt

The parts share physical memory. Three of them write to it as if it were their
own: pmem keeps its bitmap in it, pmap keeps the tables in it while the
processor's page walker reads them, and the loader fills frames with a program.
Most of what is hard about this code comes from there and from the spinlock.

### What is hard, and what makes each part correct

| component | hard to test | correct when |
|---|---|---|
| spinlock | the exchange of a waiting processor writes the word a holder is about to clear; the interrupt flag is saved in one word of the stack per call | one holder; the word says so; the flag comes back; it is taken again and again |
| pmem | runs broken by allocated frames, holes in the memory map, a bitmap inside the memory it describes, a retry from the start | no frame has two owners; only usable memory is handed out; a frame is marked exactly when it is owned; failure means exhaustion |
| TLSF | long sequences of split, merge, trim and gap; two levels of bitmaps as a cache of the lists; rounding at the edges of lists | blocks tile the pools; lists and bitmaps are exact; areas are disjoint, aligned and as large as asked |
| pool | calls of several processors, each reading and then writing the heap | each call is one step of the heap; callers' areas are disjoint |
| pmap | the page walker reads between any two writes; memory for a table runs out half way; a stale TLB | tables stay a tree; a failed call changes no translation; a call that succeeds gives the one asked for |
| vmem, ELF loader, `start_rts` | sizes and addresses that are no multiple of a page; every call may fail half way | user mode is entered only with the program laid out as linked, on memory of its own |
| object store | tail queues through addresses of pointers, in recycled memory; a directory half made | queues stay whole; a node is in one place; nothing leaks; paths resolve to what is listed |
| boot archive | writer and reader have different headers, and the writer pads; a file, a directory or a mapping that fails; an older archive under the new one | what was written are the files of the tree; a lookup never takes contents for a header, and ends |
| ACPI | root tables of two widths, damaged tables, entries of other types, a variable read before it is written | a table returned is the one asked for; the callback sees each entry of the type once |
| traps, panic, console | several processors and exceptions inside the report; stubs of two kinds; buffers of two sizes | one report, whole, and the processors halt; the frame names what was saved |
| boot | each part needs what earlier ones left behind, and what the bootloader may not have given | user mode is entered only with everything in place; what stops it is named by what was missing |

`PROJECT.json` lists each hazard at its line with the properties that cover it,
or the reason none does. Smaller ones are not on that list: sizes near the end of
an index or a word in TLSF, which no caller in the kernel comes near; an empty
string given to `mu_uart_write`, whose loop would not end; a width of `vsnprintf`
not followed by `d`, which the next one is appended to; `mmap` in `memar.c:151`
compared with NULL.

## 2. Modules

| module | models | on top of |
|---|---|---|
| `AbstractLock` | what a lock promises (`inc/core/spinlock.h`) | - |
| `Spinlock` | `core/spinlock.c` and the assembly it calls | implements `AbstractLock` |
| `FrameScan` | the loop of `pmem_alloc` (`mm/pmem.c:181`), as operators, and what a request needs to be served by it | - |
| `Pmem` | `mm/pmem.c`, with owners that write to their memory | extends `FrameScan`; the lock as one step |
| `Allocator` | what a heap promises | - |
| `Tlsf` | `mm/tlsf.c` | implements `Allocator` |
| `Pool` | `os/pool.c` | uses `Allocator` and `AbstractLock`, implements `Allocator` for several processors |
| `AddressSpace` | what an address space promises (`inc/mu/pmap.h`) | - |
| `Pmap` | `arch/amd64/cpu/pmap.c`, the page walker, the TLB | implements `AddressSpace` |
| `Loader` | `core/elfload.c`, `mm/vmem.c`, `core/epoch.c:start_rts` | extends `FrameScan`, uses `AddressSpace` |
| `Boot` | `locore.S`, `kmain` and every initialiser it calls, `core/bpt.c`, `bpt/limine.c`, the timers, `uvec.S` | extends `Loader` |
| `Directories` | what the object store promises (`inc/ob/dir.h`) | - |
| `Objects` | `ob/` and the queues of `sys/queue.h` | implements `Directories` |
| `Archive` | `gen/memar/memar.c` and `core/initrd.c` | - |
| `Acpi` | `acpi/acpi.c` over the structures of `inc/acpi/tables.h` | - |
| `Format` | `vsnprintf` and `itoa` of `sdk/string`, as operators, one for each turn of a loop | - |
| `Traps` | `vector.S`, `kfence.h`, `frame.h`, `trap.c`, `core/panic.c`, `panic.S`, `trace.c`, `uart.S` | extends `Format` |

The modules whose names end in `_proof` (of `Spinlock`, `Pmem`, `Pool`, `Pmap`, `Boot`
with `Loader`, `Objects`, `Acpi` and `Traps`) hold the theorems;
`MC_*.tla` and `MC_*.cfg` give the constants of the runs. Each abstract module is
used twice: one module is shown to implement it, and the ones above use it, so
that no run has to carry two layers in detail.

Definitions keep the names of the code (`block_merge_prev`, `pmem_scan`,
`ob_dir_append`). A definition whose comment begins with "Mutant:" is a plausible
bug; nothing refers to it but the list of mutants in `PROJECT.json`, each of
which must break the property it is listed for.

### State and actions

**Spinlock.** `word` is the lock; per processor `unmasked` is RFLAGS.IF, and
`irq_state` and `irqmut` are the locals of `spinlock_acquire`. `Enter` is the code
up to the loop, `Swap` one turn of the loop (the `xchg` of `mu_aswap` is one
step), `Return` the tail of acquire, `Release` the store of 0.

**FrameScan.** `pmem_scan` is the frame the loop arrives at, from the bits it counts
(`StopBits`) and the free run it is in then (`RunStart`). It counts as the code does:
`frames_found` goes on after an allocated bit, and at the end of the bitmap the run the
loop is in is returned however short it is. So the scan keeps the promise of
`inc/mm/pmem.h` for some requests only, those that have room (`HasRoom`): requests for one
frame; any request when no frame is free; and those for which there is a run that is long
enough, with fewer free frames before it than are asked for.

**Pmem.** `bitmap` is the array of bits, `live` what callers own, `req` the
arguments and result of the call a processor is in. `MmPmemInit` is the whole of
`mm_pmem_init` on one of the maps in `MemMaps`. A call is split where other
processors can see it: taking the lock (`AcquireAlloc`), the scan with its retry
(`Scan`), the marking (`Mark`), giving the lock back (`ReleaseAlloc`). Bits at or
past the end of the bitmap have no defined value; they begin as an arbitrary
choice. `Fill` is an owner writing to its frames: when the bitmap lies in them it
changes the bits, and `scribbled` remembers it. `RoomSpec` is `Spec` with callers whose
requests have room at the moment they are scanned for.

**Tlsf.** `heap` is the record of all the code keeps: a block is its address, with
its size, its two flags, `phys` for the pointer kept in the last word of the
block before it, and the links, lists and bitmaps. Each operation is a function
from heap to heap in the order of the code, so an assertion is a field `ok` that
becomes false. `Malloc`, `Memalign`, `Realloc`, `Free`, `AddPool` and `RemovePool`
are the calls.

**Pool.** `arena` and `live` are the state of the heap, `owned` what callers have.
Between `Acquire` and `Release` a call reads the heap (`Read`) and writes it
(`Write`) in two steps, so that the lock has something to protect.

**Pmap.** `mem` maps a frame to its entries. `Path(m, v)` is what the page walker
reaches at each level on the way to a page: nothing or one table, with the rights so far;
`Walk` is its end, and `Tables` is every table that a root reaches. The caller of `mu_pmap_map` is in
`Descend` (one level), `Alloc`, `Zero`, `Link` (the three writes that add a table),
`WriteLeaf`, `Invlpg`. `FillTlb` is the processor: at any moment it may walk the
tables as they are and keep the translation.

**Loader.** `memory` maps a frame to words, `mapping` is the address space: for each page
the set of its translations, none or one.
`AllocStack`, `MapStack` and `Lookup` are `start_rts`, `Verify` is `elf_verify`,
`Skip`, `AllocRegion`, `MapPage` and `Copy` one program header each, `Enter` the
jump to user mode. Frames are what the scan finds (`Found`), whether it looked at all of
them or not; what it finds is taken. A page is two words. `Loader` has no initial state of
its own: it is the last call of `Boot`.

**Boot.** `boot` is what the bootloader gives: the protocol, any subset of the four
responses, a memory map, an RSDP or none, a list of modules. Each call of `_start`
and `kmain` is an action named for it, with what it reads through the hooks
(`VarsReadable`, `EntriesReadable`, `ModulesReadable`), what it leaves behind (`cpu`,
`uart`, `pool`, `free`, `nodes`, `root_sdt`, `image`) and how it fails: `Panics`, or
`Faults` for an access through NULL, which is a panic once there is an IDT and a
reset before. `cause` remembers why. The order is the sequence `Calls`; nothing in an
action depends on its place, so that an order that is wrong fails as it would. `RoomSpec`
is `Spec` on machines where each request for frames has room: `os_pool_init` asks for
`POOLPAGES`, `elf_load` for the pages of a segment, the others for one.

**Objects.** Memory is cells that hold a node or a directory; a pointer to a
pointer is an address of its own (`FirstOf`, `NextOf`), so that a queue can go
wrong the way it does in C. A call is one step: nothing runs beside it.

**Archive.** `file` is the archive, a sequence of cells, `out` the offset of the
writer's descriptor. The entries of a directory come in any order: the calls of
`concat_foreach` are `stack`, each with the entries it has left, and every `open`,
`fdopendir` and `mmap` may fail (`faults`): a file that does not open is left out and a
directory that cannot be opened or read is skipped, each by an action of its own. Then the kernel looks a path up: `p` is the walk of
`initrd_lookup`, which reads the cells by the header of the kernel, not by that of the
writer. What lies beyond the archive is a value no cell has.

**Acpi.** `acpi_init` picks the root table by the revision, `Query` is `acpi_query`,
`ReadMadt` begins a walk with `retval` uninitialised, and `Visit` is one turn of its
loop with whatever the callback returns. `Positions` is where the entries of a MADT
begin, by their lengths, whatever a walk does. The elements of the root table are words of
32 bits whichever it is, so an XSDT is read as twice as many halves of addresses.

**Traps.** Per processor `stack` is what the processor and the stub have pushed, by
name, so that a frame can be compared with `struct trapframe`; `gs` says whose GS base
is active, `left` what `mu_uart_write` has still to write and `wrote` what it has.
`Trap` is an exception up to the call of `panic`: the gate, the error code, the fence,
`push_trapframe`. `Preamble` is the exchange of `panic_sync`, `FormatReason` the
formatting into the static buffer, `WriteByte` one byte. A halted processor wakes for
an NMI only. `TrapFromUser` resets the machine, as the TSS has no stack for ring 0.

## 3. Runs

| run | states | bounds | shows |
|---|---|---|---|
| `spinlock` | 2,673 | 3 processors | exclusion, the interrupt flag, that `AbstractLock` is implemented, and that the lock keeps being taken |
| `pmem_frames` | 25,472 | 2 processors, requests of 0 to 3 frames that have room, allocated and freed in any order; one range, two with a hole that the bitmap covers, two that touch | `FramesSafe`: no frame has two owners and all are usable memory; marked means owned; failure means exhaustion |
| `pmem_broken_run` | violation | 4 frames, requests of 1 or 2 | `NoDoubleAlloc`: a run of two is made of a free frame and an owned one |
| `tlsf` | 7,467 | pools of 32 and 24 bytes, 5 sizes, one alignment, words of 2 bytes | `HeapConsistent`: tiling, lists, bitmaps, assertions; `RequestsServed`: good fit, alignment; `Allocator` |
| `pool` | 9,097 | 3 processors, 3 addresses, sizes 1 and 2 | what callers own is what the heap has in use; each call is one step of the heap; calls return |
| `pmap_tables` | 108,420 | 4 levels of 2 entries, 4 pages, 11 frames, 2 protections, memory zeroed or not | `TablesSound`: the tables are a tree, translations are those asked for, the TLB is never stale; `AddressSpace` |
| `objects` | 1,739 | 6 cells, up to symmetry; 3 names, one too long; paths of up to 4 characters | `StoreConsistent`: whole queues, no leak, one place for each node; resolution; `Directories` |
| `archive` | 10,662 | 4 trees of up to 2 levels, names of up to 4 characters and longer, 3 older archives, 3 paths | `ArchiveSound`: the archive holds the tree, the walk meets only its records; a lookup ends |
| `archive_lookup` | violation | the same | `EveryFileFound`: a file of the archive is not found at its contents |
| `acpi` | 1,018 | firmwares of revisions 0 to 2, damaged and repeated tables, MADTs of up to 4 entries, words of 4 bits | what a query may return; what the callback sees; a walk ends |
| `traps` | 181,703 | 2 processors, vectors with and without an error code, a gate or a stub of their own, 13 reasons to panic, buffers of 16 (`printf`) and 20 (`panic`) | one report, whole; the frame; processors halt |
| `boot` | 27,628 | 16 sets of responses, 5 memory maps, 5 lists of modules, 11 frames, images of up to 4 headers, tables for a mapping or none left | user mode only with the image as linked, memory of its own and every part in place; what stops the boot is what was missing |

The two violations are the findings of `PROJECT.json`, with the lines of the code and
of the declaration they disagree with.

### Configurations outside the runs

Seven more configurations show where a property of a passing run ends. TLC finds the
property named violated in each; `tlc -config MC_Boot_bss.cfg MC_Boot.tla`, and so on.

| configuration | property | shows |
|---|---|---|
| `MC_Pmem_holes` | `OnlyUsable` | the bitmap is sized by the amount of memory and too short for the highest frames (`pmem.c:170`) |
| `MC_Pmem_overwritten` | `RegionsDisjoint` | the bitmap's own frame is handed out and written (`pmem.c:138`) |
| `MC_Pmap_five_levels` | `MappedAsAsked` | the index of level 5 is not the processor's (`pmap.c:186`) |
| `MC_Acpi_halves` | `QueryRight` | a table at the lower half of an address of the XSDT is returned, though no root table lists it (`tables.h:76`) |
| `MC_Boot_small` | `MemoryPrivate` | a region of two pages for which there is only a run of one left: the loader maps a frame that is not the kernel's to give (`pmem.c:203`) |
| `MC_Boot_bss` | `LoadedAsLinked` | a segment longer in memory than in the file: .bss is not zero (`elfload.c:139`) |
| `MC_Boot_not_elf` | `Outcome` | a file that is no ELF image is entered, at an uninitialised address (`elfload.c:162`) |

### Why the bounds are enough

- *Spinlock, Pool*: two processors make every race for a lock; the third makes a
  waiting processor race with a second one for the release of the first. The safety
  properties are proved for any number.
- *Pmem*: in four usable frames a frame can be taken with a free one on either side, a
  region of two or three can be freed and found again among others, and the memory can be
  exhausted by two processors. The hole has one free frame before it, so that larger
  regions are found behind it. The states after `scribbled` are checked but not explored
  further (`CONSTRAINT Unscribbled`): all properties but the types promise nothing about
  them, and the types are proved for every state. The properties are also proved for any
  map, any number of processors and requests of any size, with room.
- *Tlsf*: the heap is generic in its word, its lists and its pools. The larger
  pool holds three of the smallest blocks, so that a block merges on both sides; with
  two lists in each first-level range a search has to round up and to skip lists; and
  a trim leaves either nothing or a block. Two neighbouring pools
  make one pool's sentinel touch the next pool's first block.
- *Pmap*: of the pages in the lower half two share all their tables and the third one
  of the three; the fourth is in the bootloader's tables. After boot four frames are
  free: the first page takes three, and the third page then finds memory for one of
  the two tables it lacks, so that a call fails half way. The safety properties and the
  refinement are proved for any frames, pages and contents of memory, with four levels.
- *Objects*: six cells are a root and its data, one directory and two nodes in it or
  beside it, or four nodes in the root: enough for the first, middle and last place of
  a queue and for two nodes of one name. With seven cells (10,559 states) the run
  passes too. All four properties are proved for any finite memory, any names and paths
  of any length.
- *Archive*: the trees have files that need padding and files that do not, an empty
  one, contents that look like headers, hidden files, a link, two names that are equal
  once cut, and a name that begins with a control character, the only kind the reader
  can take for a short one. Older archives are shorter and longer than the new one.
- *Acpi*: the MADT has entries of the type asked for first, last, in between and not
  at all; one address needs more bits than an element of the root table has. What a
  query returns and what the callback sees is proved for any firmware.
- *Traps*: one exception for each processor, at any moment, is enough to enter panic
  from the middle of the report of either; some messages fit both
  buffers, one fills that of panic and is cut by that of printf (the smaller one in the
  code as well), one is cut by both. One report, its wholeness and the frame are proved
  for any number of processors, exceptions and messages.
- *Boot*: the images have a region of one page and one of two, a note, an empty
  segment and a segment that ends within its page; the usable memory is one run, two
  runs of which the first is too short for the pool, enough for the pool and the stack but
  not for four tables, enough for the pool alone, and none. A mapping takes up to four
  tables, so that memory runs out at the pool, at the stack, at its mapping, at a region,
  at its first or its second page, or nowhere. Frames are also pages, since the stack is
  mapped at its physical address. The properties are proved for any memory maps, modules
  and images of the kinds the theorems name.

### Fairness

- *Spinlock*: weak fairness of each processor's `Swap`, `Return` and `Release`. A
  processor that is in the code goes on running; it cannot be descheduled, as there is
  no scheduler. `Enter` has none: nobody has to ask for the lock. Since any processor
  may win every exchange, only `SomebodyGetsIt` is claimed, not that each waiter gets it.
- *Pool*: weak fairness of each processor's steps within a call, for the same reason;
  that somebody gets the lock is what `SomebodyGetsIt` shows of the spinlock.
- *Archive*: weak fairness of `Lookup`, one turn of the loop of `initrd_lookup`: its
  caller does nothing else. The writer has none, and nothing is claimed of its end.
- *Acpi*: weak fairness of the walk, for the same reason, and of the callback, which
  has to return.
- *Traps*: weak fairness of each processor's `Preamble`, `FormatReason` and
  `WriteByte`. The code between them takes no lock it waits for. Nobody has to panic,
  print or trap.
- `Pmem`, `Tlsf`, `Pmap`, `Objects` and `Boot` are checked for safety only: one
  processor runs that code from end to end, and every call of it ends or stops.

## 4. Theorems

| module | theorem | for |
|---|---|---|
| `Spinlock_proof` | `TypeCorrect`, `Exclusion`, `WordIsTrue`, `IrqRestored`, `Refinement` | any set of processors |
| `Pmem_proof` | `ScanServesRoom` | any bitmap and any request |
| `Pmem_proof` | `TypeCorrect` | any processors, memory maps and request sizes |
| `Pmem_proof` | `RoomSafe`, `RoomAccounted`, `RoomExhausted` | any processors, maps and request sizes under `RoomSpec`, if `AllCovered` |
| `Pmem_proof` | `SingleFramesSafe` | any processors and maps under `Spec`, if `SingleFrames` and `AllCovered` |
| `Pool_proof` | `TypeCorrect`, `NothingLost`, `Disjoint`, `Implements` | any processors, addresses and sizes |
| `Pmap_proof` | `TypeCorrect`, `TablesAreSound`, `Implements` | any frames, pages, protections, sizes of a table, boot tables and contents of memory, if there are four levels |
| `Boot_proof` | `TypeCorrect`, `StopsJustly` | any responses, memory maps, modules, images and frames, under `RoomSpec` |
| `Boot_proof` | `OutcomeCorrect` | the same, if `AllVerify` |
| `Boot_proof` | `MemoryIsPrivate` | the same, if `Apart` |
| `Boot_proof` | `LoadsAsLinked` | the same, if `AllVerify` and `Laid` |
| `Objects_proof` | `TypeCorrect`, `StoreStaysWhole`, `ResolvesRight`, `Implements` | any finite memory, names and lengths of paths |
| `Traps_proof` | `OneReportHolds`, `EntryRightHolds` | any processors, exceptions and reasons to panic |
| `Traps_proof` | `TypeCorrect`, `ReportIsWhole` | the same, if `TextsRight` |
| `Acpi_proof` | `TypeCorrect`, `VisitsRight` | any firmware |
| `Acpi_proof` | `QueriesRight` | any firmware, if `NoStrayHalves` |

**Spinlock.** Exclusion is not inductive alone: a waiting processor may take the lock
whenever the word is 0, so the invariant has to say what the word means.
`LockInv` = `TypeOK`, `MutualExclusion` and `WordTellsHeld` is inductive, and the
refinement follows from it: `Swap` is `Acquire` when it finds 0 and a stutter when it
finds 1, `Release` is `Release`, the rest are stutters. `WordIsTrue` states the truth of
the word, which no run checks alone since `MutualExclusion` and `ImplementsLock` rest on it. `IrqInv` adds to
`IrqDiscipline` what a waiting processor has in `irq_state`.

**Pmem.** The types hold without conditions: `TypeInv` is `TypeOK`, `LockInv` (the lock
is held by whoever is in a call) and `ReqInv` (what each program counter knows of its
request), and the lemma `ScanFinds` says that whatever the scan is asked for, it returns
the first frame of a run of free bits, or -1.

The violations show what the code does not promise. What it does is `ScanServesRoom`,
about the scan alone: for a bitmap in any state, the region found is free and below the top
of memory, and nothing is found only when nothing is free, exactly for the requests that
have room. So room is no more than the promise needs. It is enough because the count is
short of the request where the run begins, so that the loop ends inside the run
(`RunCounts`, `RoomServes`); the converse is `ServesHasRoom`, by the number of free frames
up to the bit at which the loop was left.

The theorems about executions speak of the time before an owner has written over the
bitmap (`~scribbled`) and of maps with a bit for every usable frame (`AllCovered`).
Nothing is supposed of the region that a scan finds, neither whose it is nor that it is
memory: both come from the bits and from what the bits mean. The argument is two
invariants: `BitsInv` (owned regions are disjoint and usable, and a bit is set exactly when
its frame is owned or not usable) and `FoundFree` (a region about to be marked is free to
its end). Every step preserves `BitsInv`, and every step but the scan preserves `FoundFree`
(`NextBits`); that the scan does is `RoomScan`, by `RoomServes`. `RoomExhausted` needs one
thing more: that every scan begins at frame 0 (`last_bit` in `ReqInv`), so that it passes
over no free frame. `SingleFramesSafe` says
`FramesSafe`, `FramesAccounted` and `FailsOnlyWhenExhausted` of `Spec` itself when callers
ask for at most one frame, as pmap does for its tables and `start_rts` for its stack: such
a request always has room.

**Pool.** `PoolInv` is `TypeOK` with six parts: `LockInv` (who is inside holds the
lock), `CallInv` (arguments are legal), `ReadInv` (what a call has read is still the
heap's state, which is why it may write it), `FlightInv` (an area allocated but not yet
returned belongs to that call alone), `OwnedInv` and `LiveDisjoint`. `Implements` needs
`ReadInv`: without it `Write` would not be a step of `Allocator`. `Disjoint` says that areas never
overlap, for any number of processors; in the run it follows from `ImplementsAllocator`.

**Pmap.** The theorems are about four levels (`~LA57`): with five the code takes the index
of the top level from the wrong bits, and `MC_Pmap_five_levels` shows what comes of it.
`MapInv` is `TypeOK`, `MappedAsAsked`, `TlbCoherent` and

- `PlacesInv`: the tables form a tree. It says so by two functions that exist in every
  state, the level of each frame (0 for one that is no table) and the home of each table,
  the one entry that leads to it; every present entry above the lowest level leads to a
  table one level below whose home it is. A frame that is free or about to be linked has
  level 0. This is what a new table keeps, and it gives the cardinality in `TablesSound`.
- `RightsInv`: a table of the lower half denies nothing on the way to a page, so that a
  translation has the rights of its last entry.
- `CallInv`: the table that `mu_pmap_map` has in hand is on the path of the page it was
  asked for, and a table about to be linked is zeroed.

`PathSingle`, `PathKept` and their relatives say how one write changes the paths: that of
the page asked for from the level of the write down, and no other, as two pages with equal
indices at all levels are equal (`IndicesDiffer`). The refinement follows: `WriteLeaf` is
`Map`, a call that fails and every other step changes no translation. Of `Boot`, the
bootloader's tables, the theorems assume that they are a tree (`BootAssumption`), and of
powers of two what the provers do not know (`PowersOfTwo`); TLC evaluates both for
`pmap_tables`.

**Boot.** `BootInv` is `TypeOK` and what each call leaves for the later ones: `CpuInv` and
`PartsInv` have a clause for each part, from the call that sets it up on (`Past(n)`: the
first n calls are done); `FreeInv`, `MappedInv`, `RegionInv` and `StackInv` say where every
frame is: free, the pool's, the stack, in a mapping, or in the region being mapped, and in
one of these only. A region found is free and memory because the request had room
(`RequestServed`, from the lemmas about the scan), and a scan for one frame finds the first
free one or says rightly that there is none; with that `cause = "no_frames"` means that the
bootloader gave no memory at all. `AllCalls` computes the order of the calls once. `StopsJustly` needs no
more, and is the half of `Outcome` about a boot that stops. The other theorems have
hypotheses about the files the bootloader may hand over, because the code does not check
what it would have to. All of them are about `RoomSpec`, as `pmem_alloc` does not check that
either (`MC_Boot_small`):

- `AllVerify`: they are executables. With one that is not, user mode is entered at an
  uninitialised address (`MC_Boot_not_elf`).
- `Apart`: their pages are no frames of the stack, which is mapped at its physical
  address. It makes `StackMapped` an invariant, without which a segment may replace the
  mapping of the stack.
- `Laid`: the segments to load begin at a page, are whole in the file and share no page.
  `PlacedInv` then says that the segments passed are in place word by word, and the pages
  of the present one as far as they are mapped; a later one disturbs none of them.
  `MC_Boot_bss` is an image that is not `Laid`.

The images of the run `boot` satisfy all three.

**Objects.** What the properties say, they say of what a walk of the queues reads
(`Elements`, `Nodes`), which is computed from the pointers. `StoreInv` says what the
pointers are: there are nodes N and, for each directory among them, a sequence of nodes,
such that

- `Trees`: the roots are the nodes in `held`, every other node is in one of the sequences,
  once, and a set that holds the roots and what its directories list is all of N. The
  root directory is one of `held` until somebody appends it;
- `Memory`: the nodes and the data of the directories are different cells, and no other
  cell is in use;
- `Queue`: the pointers of each directory are those of a tail queue of its sequence.

`StoreInv` is what an appended node needs: `TAILQ_INSERT_TAIL` stores through the address
in `tqh_last`, and `TailWritten` says from `Queue` whose field that is, and from `Memory`
and `Trees` that no other queue has it. That trees stay trees (`TreesAppend`) is where the
guard that nothing is appended below itself is used: without it a ring would be reached
from no root. That the queues read as the sequences is `ReadStore`, from two facts about
walks that are cut after as many turns as there are cells: a chain that leaves a cell out
ends before that (`WalkIs`, `Short`), and a set that grows by one node at least each time
is closed by then (`ReachIs`). With it `StoreStaysWhole` and `Implements` are read off
`StoreInv` and `StoreStep`. `ResolvesRight` is an induction over the turns of the loop of
`ob_knode_resolve` (`TurnFollows`): each goes over the slashes and one name. TLC has
evaluated the invariant, of what the queues read as (`StoreInvRead`), in every state of
the run.

**Traps.** `OneReport` rests on `LockInv`: once a processor has passed the exchange of
`panic_sync`, the word is 1 for good, and one processor only is past it. `EntryRight` is
a fact about each exception by itself: `ByProcessor` says which stacks and GS bases there
are, and lemmas about the words pushed (`PushedWords`, `SavedLast`, `RegisterFields`) where
in the frame each is, for every vector with a gate of its own. `ReportWhole` needs both:
`TextInv` says that the one who writes has something to write that fits, `WholeInv` that
for the processor that reports, what it has written and what it has still to write are
the report so far. Panic's static buffer is written by `FormatReason` alone, which only
that processor reaches. `TextsRight` is a hypothesis: messages are sequences of
characters, and `vsnprintf` makes of each what it means, cut to its buffer. That it does is
computed by TLC for the messages of the run; by its format it is a function of data of any
length, which no prover here can unfold.

**Acpi.** A firmware is as `AcpiAssumption` and `MadtAssumption` say: a table is as long as
its header says, and in a MADT the lengths of the entries, none of them 0, add up to its
own. `acpi_read_madt` checks neither. `AcpiInv` adds to `TypeOK` and `MadtVisits` that a
walk is at one of the `Positions`; `NextPosition` says that the end of an entry is the
next position and that none lies in between. `ChecksumIsSound` says that a sum kept in a
`uint8_t` is 0 exactly when all the bytes add up to a multiple of 256. These two are
inductions over a table, which `UpTo` and `Iterated` make possible: a least counterexample
instead of an induction rule. `NoStrayHalves` is needed because the XSDT is read as words
of 32 bits: half of an address may be where a table lies that it does not list
(`MC_Acpi_halves`).

### Model-checked only

- Liveness and its fairness, and all that rests on ENABLED: `SomebodyGetsIt`,
  `SomeCallReturns`, `LookupReturns`, `WalkEnds`, `PanicEnds`.
- `Tlsf`: its arithmetic is powers of two, and its lists and bitmaps are walked by
  recursive operators.
- `Archive`: what it holds is found by recursion over its cells.
- `Format`: what `vsnprintf` and `itoa` compute, which the theorems of `Traps` assume.
- `Pmem` and `Boot` where a request has no room, and `Pmap` with five levels: there the
  code breaks the properties, and runs or configurations show how.

## 5. What is abstracted, and what is not modelled

- *Pmem* counts bytes in pages of one byte and keeps one bit per frame; `PAGESIZE` and
  the address limit are constants. `pmem_print_size` prints.
- *Tlsf* is third-party code the kernel carries and depends on, so it is modelled as
  the kernel's heap. The contents that realloc copies are left out.
- *Pool*: `POOLSIZE_BYTES` is 0x2000000, 32 MiB; the comment beside it (`os/pool.c:37`)
  says 4 MiB. No property depends on it.
- *Pmap* has pages of 4 KiB only: `mu_pmap_map` refuses other sizes and null
  arguments before it changes anything. `vma_level_base` looks at no large-page bit
  (`pmap.c:215`). Nothing can come of it at this commit: the two callers of `mu_pmap_map`
  (`vmem.c:53`, `epoch.c:68`) map pages of the lower half, whose entries `mu_pmap_init` has
  cleared, and the bootloader's large pages are in the upper half.
- *Boot, Loader*: frames come from the scan of `pmem_alloc`, in one step: one processor
  boots, and `Pmem` has the calls of several. `last_bit` is 0 throughout, as nothing sets it
  to anything else. The bitmap is the set `free`: that it covers all frames and that nobody
  writes over it is what `Pmem` looks into. The address space is `AddressSpace` (`Pmap`
  implements it), and the tables it takes are the first free frames, up to `TABLES` for a
  mapping. The image is
  what the archive holds under the path; that a lookup often fails to find it is the
  finding of `archive_lookup`, so `Boot` shows what happens from there on, with the
  archive's answer as an input. A frame is not one of the image's pages, and the images
  of the run are valid and have no .bss. What the GDT and the IDT contain is layout:
  `Boot` records that they are loaded, `Traps` has the gates. `mu_uart_init` is one
  step; the ports of the UART have no state. The callers' `printf` is left out of
  `Boot` and in `Traps`.
- *Objects*: `ob_root_foreach` has no caller; names are values, of which some are too
  long for the buffer of a node.
- *Archive*: a field of a header is one cell and a name a sequence of characters. `write`
  succeeds and is whole, as the tool does not look at its result. The options of `main`
  are those of a correct call.
- *Acpi*: a signature is one byte and a length one byte; the lengths of the entries of a
  MADT add up to it, as in every real table. What `acpi_print_rsdp` prints is left out,
  its bump of the revision is not.
- *Traps*: an exception ends in the stub's halt loop only through `panic`, which does not
  return. The UART takes every byte at once: `mu_uart_write` does not wait for the
  transmitter, so on hardware bytes may be lost, which the model does not show.
  `vsnprintf` is for formats that do not end in a lone `%`, and for integers other than
  the least one.
- *Spinlock, Pool, Pmem*: any number of processors, though one runs at this commit.
- Not modelled: `admin/service/rts`, a loop in assembly that keeps no state. The layout
  its linker script gives an image is an input of `Loader`.

## 6. Plan

Written so far, in this order: spinlock, pmem, heap, pool, page maps, object store,
loader, archive, ACPI, console and traps, boot. Every component but the first program
is modelled.

Next theorem: `ArchiveSound` of `Archive`, with the positions of the records as those of
the entries in `Acpi_proof`. The archive holds the tree by a recursion over its cells,
which has to be restated as a function first.
