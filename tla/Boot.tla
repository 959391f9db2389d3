-------------------------------- MODULE Boot --------------------------------
(***************************************************************************)
(* Booting, from _start (arch/amd64/cpu/locore.S) through kmain            *)
(* (core/epoch.c) to the first instruction of the first user program: each *)
(* part is set up by one call, in an order on which the later ones depend, *)
(* with what the bootloader provides through bpt.c and limine.c.  The last *)
(* call, start_rts, is Loader.                                             *)
(*                                                                         *)
(* A use of what is not there yet is what it is in the code: an error, or  *)
(* an access through NULL, which the trap handlers turn into a panic once  *)
(* there is an IDT.  What the parts do afterwards is in their own modules. *)
(***************************************************************************)
EXTENDS Loader, SequencesExt

CONSTANTS
  Protocols,     \* what BOOT_PROTO may be built as
  Memmaps,       \* the memory maps the bootloader may give
  ModuleLists,   \* the modules it may have loaded
  POOLPAGES,     \* POOLSIZE_PAGES
  INITRD_PATH

\* The requests of limine.c, each of which the bootloader may have answered.
Responses == {"memmap", "hhdm", "rsdp", "modules"}

\* The types of memory: limine.h's are numbers from 0, bpt.h's are an enum.
LIMINE_MEMMAP_USABLE == 0
LIMINE_MEMMAP_RESERVED == 1
LimineTypes == 0 .. 7
mem_type_t == <<"MEM_USABLE", "MEM_RESERVED", "MEM_ACPI_RECLAIM", "MEM_ACPI_NVS", "MEM_BAD",
                "MEM_BOOTLOADER", "MEM_KERNEL", "MEM_FRAMEBUFFER">>

\* An entry of the memory map, and a module: a path, and an archive by the image
\* it holds.
limine_memmap_entry == [frames : SUBSET Frame, type : LimineTypes]
limine_file == [path : STRING, image : Images \cup {NotFound}]

ASSUME BootAssumption ==
  /\ POOLPAGES \in Nat \ {0}
  /\ Memmaps \subseteq Seq(limine_memmap_entry)
  /\ ModuleLists \subseteq Seq(limine_file)

VARIABLES
  boot,      \* what the bootloader gives: protocol, responses, memory map, ...
  hooks,     \* the hooks of bpt.c: "none" at first
  loaded,    \* the responses limine.c has a pointer to
  cpu,       \* the registers booting sets
  uart,      \* whether the UART is set up
  pool,      \* the frames of the root pool
  nodes,     \* the paths in the object store
  root_sdt,  \* whether ACPI has its root table
  cause      \* why the processor stopped

bootVars == <<boot, hooks, loaded, cpu, uart, pool, nodes, root_sdt, cause>>
allVars == <<vars, bootVars>>

bptVars == <<hooks, loaded>>
partVars == <<uart, pool, nodes, root_sdt>>

\* Of these start_rts has its own; no call before it works on them.
rtsVars == <<memory, stack, seg, pma, done, entry>>
memVars == <<image, mapping, free, top, rtsVars>>

BootInit ==
  /\ boot \in [proto : Protocols, given : SUBSET Responses, memmap : Memmaps,
               rsdp : BOOLEAN, modules : ModuleLists]
  /\ Unstarted
  /\ image = NotFound /\ free = {} /\ top = 0
  /\ mapping = [page \in Pages |-> IF page \in Frame THEN {[frame |-> page, prot |-> {"w", "x"}]}
                                                      ELSE {}]
  /\ pc = "md_gdt_load"
  /\ hooks = "none" /\ loaded = {}
  /\ cpu = [gdt |-> FALSE, gates |-> FALSE, idt |-> FALSE, tr |-> FALSE,
            user |-> FALSE, interrupts |-> FALSE, gs |-> "boot", kernel_gs |-> "boot"]
  /\ uart = FALSE
  /\ pool = {} /\ nodes = {} /\ root_sdt = FALSE
  /\ cause = "none"
-----------------------------------------------------------------------------
\* Mutant: the pool is made before there is memory to make it of.
PoolFirst == <<"md_gdt_load", "md_set_vectors", "md_idt_load", "md_tss_init", "mu_uart_init",
               "bpt_init", "os_pool_init", "mm_pmem_init", "mu_pmap_init", "mu_cpu_conf",
               "ob_store_init", "timer_init", "mu_timer_init", "tsc_init", "acpi_init",
               "initrd_init", "stack">>

\* The calls of _start and of kmain; "stack" is where start_rts begins.
Calls == <<"md_gdt_load", "md_set_vectors", "md_idt_load", "md_tss_init", "mu_uart_init",
           "bpt_init", "mm_pmem_init", "os_pool_init", "mu_pmap_init", "mu_cpu_conf",
           "ob_store_init", "timer_init", "mu_timer_init", "tsc_init", "acpi_init",
           "initrd_init", "stack">>

\* The call returns.
Done(call) == /\ \E i \in 1 .. Len(Calls) - 1 : Calls[i] = call /\ pc' = Calls[i + 1]
              /\ UNCHANGED <<boot, cause>>

Stops(where, why) == /\ pc' = where
                     /\ cause' = why
                     /\ UNCHANGED <<boot, cpu, bptVars, partVars, memVars>>

\* panic().
Panics(why) == Stops("panic", why)

\* An exception: without an IDT that has gates the processor resets.
Faults == Stops(IF cpu.idt /\ cpu.gates THEN "panic" ELSE "reset", "fault")
-----------------------------------------------------------------------------
(* _start *)

\* One instruction that loads a register.
Loads(call, register) == /\ pc = call /\ Done(call)
                         /\ cpu' = [cpu EXCEPT ![register] = TRUE]
                         /\ UNCHANGED <<bptVars, partVars, memVars>>

md_gdt_load == Loads("md_gdt_load", "gdt")
md_set_vectors == Loads("md_set_vectors", "gates")
md_idt_load == Loads("md_idt_load", "idt")

\* The descriptor is in the kernel's GDT; bsp_tss is static, so none is
\* allocated.
md_tss_init == IF cpu.gdt THEN Loads("md_tss_init", "tr")
                          ELSE pc = "md_tss_init" /\ Faults

mu_uart_init == /\ pc = "mu_uart_init" /\ Done("mu_uart_init")
                /\ uart' = TRUE
                /\ UNCHANGED <<cpu, bptVars, pool, nodes, root_sdt, memVars>>
-----------------------------------------------------------------------------
(* bpt.c and limine.c *)

\* The responses are taken over and the hooks set.
bpt_init_limine == hooks' = "limine" /\ loaded' = boot.given

\* Any other protocol makes it return an error, and kmain returns.
bpt_init ==
  /\ pc = "bpt_init"
  /\ IF boot.proto = "limine"
       THEN bpt_init_limine /\ Done("bpt_init") /\ UNCHANGED <<cpu, partVars, memVars>>
       ELSE Stops("idle", "no_protocol")

\* The hooks read through the responses; without hooks bpt.c does not call
\* them.  limine_get_vars reads two, whichever its caller is after.
VarsReadable == hooks = "limine" => {"hhdm", "rsdp"} \subseteq loaded
EntriesReadable == hooks = "limine" => "memmap" \in loaded
ModulesReadable == hooks = "limine" => "modules" \in loaded

\* PHYS_TO_VIRT asks for the base of the higher half each time.
bpt_kernel_base == VarsReadable

\* An entry of limine's as one of bpt's: the number of its type is kept.
limine_get_mementry(e) == [frames |-> e.frames, type |-> mem_type_t[e.type + 1]]

\* What bpt_get_mementry and bpt_get_module give.
Entries == IF hooks = "limine" THEN {limine_get_mementry(boot.memmap[i]) : i \in DOMAIN boot.memmap}
                               ELSE {}
Modules == IF hooks = "limine" THEN boot.modules ELSE <<>>

\* The modules with the path.
Named(path) == {i \in DOMAIN Modules : Modules[i].path = path}

\* The first of them.
limine_get_module(path) == {Modules[i] : i \in {j \in Named(path) : \A k \in Named(path) : j <= k}}

\* mem_usable of pmem_probe: the memory of the entries that are usable.
Usable == UNION {e.frames : e \in {e \in Entries : e.type = "MEM_USABLE"}}
-----------------------------------------------------------------------------
(* kmain *)

\* usable_top of pmem_probe.
UsableTop(n) == \/ Usable = {} /\ n = 0
                \/ \E last \in Usable : (\A f \in Usable : f <= last) /\ n = last + 1

\* pmem_probe and pmem_alloc_bitmap.  The bitmap has an address only when
\* there is memory for it to describe.
mm_pmem_init ==
  /\ pc = "mm_pmem_init"
  /\ IF EntriesReadable /\ (Usable # {} => bpt_kernel_base)
       THEN /\ free' = Usable /\ UsableTop(top')
            /\ Done("mm_pmem_init")
            /\ UNCHANGED <<cpu, bptVars, partVars, image, mapping, rtsVars>>
       ELSE Faults

\* tlsf_create_with_pool works on the pool through the higher half.
os_pool_init ==
  /\ pc = "os_pool_init"
  /\ IF Found(POOLPAGES) < 0 THEN Panics("no_frames")
     ELSE IF ~bpt_kernel_base THEN Faults
     ELSE /\ pool' = Found(POOLPAGES) .. Found(POOLPAGES) + POOLPAGES - 1
          /\ free' = Taken(pool')
          /\ Done("os_pool_init")
          /\ UNCHANGED <<cpu, bptVars, uart, nodes, root_sdt, image, mapping, top, rtsVars>>

\* Mutant: the last entry of the lower half stays.
LowerHalfButOne == Pages \ {Max(Pages)}

\* The entries of the top level that mu_pmap_init clears.
LowerHalf == Pages

mu_pmap_init ==
  /\ pc = "mu_pmap_init"
  /\ IF bpt_kernel_base
       THEN /\ AS!Clear(LowerHalf)
            /\ Done("mu_pmap_init")
            /\ UNCHANGED <<cpu, bptVars, partVars, image, free, top, rtsVars>>
       ELSE Faults

\* md_wrmsr of the GS base.
mu_cpu_conf == /\ pc = "mu_cpu_conf" /\ Done("mu_cpu_conf")
               /\ cpu' = [cpu EXCEPT !.gs = "pcr"]
               /\ UNCHANGED <<bptVars, partVars, memVars>>

\* The call allocates a node from the root pool and puts it into its parent.
\* The allocation may fail; before os_pool_init, and without the parent, it is
\* an access through NULL.
Registers(call, parent, path) ==
  /\ pc = call
  /\ IF pool = {} \/ ~(parent \subseteq nodes)
       THEN Faults
       ELSE \/ /\ nodes' = nodes \cup {path}
               /\ Done(call)
               /\ UNCHANGED <<cpu, bptVars, uart, pool, root_sdt, memVars>>
            \/ Panics("unallocated")

ob_store_init == Registers("ob_store_init", {}, "/")
timer_init == Registers("timer_init", {"/"}, "/clkdev")
tsc_init == Registers("tsc_init", {"/clkdev"}, "/clkdev/tsc")

mu_timer_init == /\ pc = "mu_timer_init"
                 /\ IF "/clkdev" \in nodes
                      THEN /\ Done("mu_timer_init")
                           /\ UNCHANGED <<cpu, bptVars, partVars, memVars>>
                      ELSE Panics("no_clkdev")

\* bpt_get_vars, the RSDP, and the address of the root table.
acpi_init ==
  /\ pc = "acpi_init"
  /\ IF ~VarsReadable THEN Faults
     ELSE IF hooks = "none" \/ ~boot.rsdp THEN Panics("no_rsdp")
     ELSE /\ root_sdt' = TRUE
          /\ Done("acpi_init")
          /\ UNCHANGED <<cpu, bptVars, uart, pool, nodes, memVars>>

initrd_init ==
  /\ pc = "initrd_init"
  /\ IF ~ModulesReadable THEN Faults
     ELSE IF Named(INITRD_PATH) = {} THEN Panics("no_initrd")
     ELSE /\ \E file \in limine_get_module(INITRD_PATH) : image' = file.image
          /\ Done("initrd_init")
          /\ UNCHANGED <<cpu, bptVars, partVars, mapping, free, top, rtsVars>>

\* mu_proc_uvector: the selectors, the flags and the GS bases of user mode.
Uvector == [cpu EXCEPT !.user = TRUE, !.interrupts = TRUE,
                       !.gs = cpu.kernel_gs, !.kernel_gs = cpu.gs]

start_rts == /\ Next
             /\ cpu' = (IF pc' = "user" THEN Uvector ELSE cpu)
             /\ UNCHANGED <<boot, cause, bptVars, partVars>>

BootNext == \/ md_gdt_load \/ md_set_vectors \/ md_idt_load \/ md_tss_init \/ mu_uart_init
            \/ bpt_init \/ mm_pmem_init \/ os_pool_init \/ mu_pmap_init \/ mu_cpu_conf
            \/ ob_store_init \/ timer_init \/ mu_timer_init \/ tsc_init \/ acpi_init
            \/ initrd_init \/ start_rts

Spec == BootInit /\ [][BootNext]_allVars

\* The frames that the call about to be made asks for: those that ask for more
\* than one are os_pool_init and elf_load.
Request == IF pc = "os_pool_init" THEN POOLPAGES
           ELSE IF pc = "segment" /\ seg <= Len(image.segments) THEN Count(Current)
           ELSE 1

RequestHasRoom == HasRoom(bitmap, top, Request)

\* A machine with memory for them where the scan looks.
RoomSpec == BootInit /\ [][BootNext /\ RequestHasRoom']_allVars
-----------------------------------------------------------------------------
\* Every variable is of its type; what is mapped are frames, with rights.
TypeOK ==
  /\ hooks \in {"none", "limine"} /\ loaded \subseteq Responses
  /\ uart \in BOOLEAN /\ root_sdt \in BOOLEAN
  /\ pool \subseteq Frame /\ free \subseteq Frame /\ top \in Nat
  /\ nodes \subseteq {"/", "/clkdev", "/clkdev/tsc"}
  /\ image \in Images \cup {NotFound}
  /\ DOMAIN mapping = Pages /\ DOMAIN memory = Frame
  /\ \A m \in Mapped : m.frame \in Frame /\ m.prot \subseteq {"w", "x", "u"}
  /\ pc \in ToSet(Calls) \cup {"map_stack", "lookup", "verify", "segment", "map",
                               "user", "panic", "idle", "reset"}
  /\ stack \in Frame \cup {0} /\ pma \in Frame \cup {0}
  /\ seg \in Nat \ {0} /\ done \in Nat /\ entry \in Int

\* The memory the bootloader says the kernel may use.
Given == UNION {boot.memmap[i].frames :
                  i \in {j \in DOMAIN boot.memmap : boot.memmap[j].type = LIMINE_MEMMAP_USABLE}}

\* The user program has its memory to itself (mu_pmap_init, mm_pmem_alloc,
\* vmem_map_region): of what the bootloader had mapped into the lower half
\* nothing is left, the program's frames are memory the bootloader gave, no
\* frame is at two addresses, and none is the pool's or may be handed out again.
MemoryPrivate ==
  /\ pool \cap free = {}
  /\ pc = "user" =>
       /\ StackUsable /\ FramesPrivate
       /\ \A m \in Mapped : "u" \in m.prot /\ m.frame \notin pool
       /\ {m.frame : m \in Mapped} \subseteq Given

\* The program is entered at its entry point, with interrupts on and its GS base
\* exchanged for the processor's, and only once every part is there.
EntersWhenReady ==
  /\ pc = "user" =>
       /\ entry = image.entry
       /\ cpu.gdt /\ cpu.gates /\ cpu.idt /\ cpu.tr /\ uart
       /\ cpu.user /\ cpu.interrupts /\ cpu.kernel_gs = "pcr"
       /\ nodes = {"/", "/clkdev", "/clkdev/tsc"} /\ root_sdt /\ pool # {}
  /\ pc # "user" => ~cpu.user /\ ~cpu.interrupts

\* The processor stops short of it only for what was missing from the start or
\* could not be had: no call uses a part that a later one sets up.
StopsForAReason ==
  /\ pc # "reset"
  /\ cause = "fault" => boot.given # Responses
  /\ cause = "no_protocol" => boot.proto # "limine"
  /\ cause = "no_rsdp" => ~boot.rsdp
  /\ cause = "no_initrd" => \A m \in ToSet(boot.modules) : m.path # INITRD_PATH
  /\ cause # "no_clkdev"
  /\ cause = "no_frames" => Given = {}

\* The end of booting (_start, kmain, start_rts), whichever it is.
Outcome == EntersWhenReady /\ StopsForAReason
=============================================================================
