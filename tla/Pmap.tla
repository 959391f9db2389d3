-------------------------------- MODULE Pmap --------------------------------
(***************************************************************************)
(* Page tables (arch/amd64/cpu/pmap.c).                                    *)
(*                                                                         *)
(* Addresses are counted in pages.  A table has 2^INDEX_BITS entries, the  *)
(* level of a table is 1 (PML1) to 4 or 5, and a frame is a number, so     *)
(* that an index past the end of a table is an entry of the next frame.    *)
(* Only the boot processor maps memory, but its page walker reads the      *)
(* tables at any time and keeps what it finds in the TLB; so each write    *)
(* of the code is a step of its own.                                       *)
(***************************************************************************)
EXTENDS Integers, FiniteSets

CONSTANTS
  INDEX_BITS,   \* log2 of the entries of a table (9)
  LA57,         \* are there five levels?
  Frame,        \* the frames tables can be in
  CR3,          \* the frame of the top-level table
  Boot,         \* what memory may hold at boot: Frame -> Index -> entry
  Pages,        \* the pages callers map, and the walker looks up
  Lower,        \* those of the lower half
  PMA,          \* the frames callers map
  Prots,        \* protections callers ask for: subsets of {"w", "x", "u"}
  NotPresent    \* an entry without PTE_P

PMAP_PML1 == 1
PMAP_PML4 == 4
PMAP_PML5 == 5

pmap_toplevel == IF LA57 THEN PMAP_PML5 ELSE PMAP_PML4

TABLE_SIZE == 2 ^ INDEX_BITS
Index == 0 .. TABLE_SIZE - 1

\* The pages below one entry of a table of a level.
Reach(lvl) == 2 ^ (INDEX_BITS * (lvl - 1))

ASSUME PmapAssumption ==
  /\ INDEX_BITS \in Nat \ {0}
  /\ LA57 \in BOOLEAN
  /\ Frame \subseteq Nat \ {0} /\ IsFiniteSet(Frame) /\ CR3 \in Frame
  /\ PMA \subseteq Nat \ Frame
  /\ Pages \subseteq 0 .. Reach(pmap_toplevel + 1) - 1
  /\ Lower \subseteq {v \in Pages : v \div Reach(pmap_toplevel) < TABLE_SIZE \div 2}

\* What holds of powers of two, for provers that do not know them.
ASSUME PowersOfTwo ==
  /\ TABLE_SIZE \in Nat \ {0, 1}
  /\ Reach(PMAP_PML1) = 1
  /\ \A lvl \in PMAP_PML1 .. pmap_toplevel :
       /\ Reach(lvl) \in Nat \ {0}
       /\ Reach(lvl + 1) = Reach(lvl) * TABLE_SIZE

VARIABLES
  mem,      \* the tables: Frame -> Index -> entry
  free,     \* frames mm_pmem_alloc can return
  phase,    \* "boot" until mu_pmap_init has run
  pc,       \* where mu_pmap_map is
  call,     \* its arguments
  cur_base, \* its current table
  cur_lvl,  \* and the level of that
  phys,     \* a frame it has allocated and not linked yet
  tlb       \* translations the processor has cached

vars == <<mem, free, phase, pc, call, cur_base, cur_lvl, phys, tlb>>
-----------------------------------------------------------------------------
(***************************************************************************)
(* An entry is NotPresent, or a frame and the flags set in it: "w" for     *)
(* PTE_RW, "u" for PTE_US and "nx" for PTE_NX.                             *)
(***************************************************************************)
Flags == SUBSET {"w", "u", "nx"}

Entry == [frame : Frame \cup PMA, flags : Flags] \cup {NotPresent}

ASSUME EntryAssumption == NotPresent \notin [frame : Frame \cup PMA, flags : Flags]

ZeroPage == [i \in Index |-> NotPresent]

\* Mutant: the protections are taken for flags of the entry.
prot_as_flags(prot) == prot

prot_to_pte(prot) == (prot \cap {"w", "u"}) \cup (IF "x" \in prot THEN {} ELSE {"nx"})

\* vma_level_index.
vma_level_index(v, lvl) ==
  IF lvl = PMAP_PML5
  THEN (v \div 2 ^ (INDEX_BITS * 4 - 1)) % (2 * TABLE_SIZE)
  ELSE (v \div Reach(lvl)) % TABLE_SIZE

\* cur_base[index], wherever that is.
Slot(base, index) == [frame |-> base + index \div TABLE_SIZE, index |-> index % TABLE_SIZE]

EntryAt(m, slot) == m[slot.frame][slot.index]

Stored(m, slot, entry) == [m EXCEPT ![slot.frame][slot.index] = entry]

CurrentSlot == Slot(cur_base, vma_level_index(call.v, cur_lvl))

(***************************************************************************)
(* The page walker of the processor: nine bits of the address at every     *)
(* level, and a right that any level denies is denied.                     *)
(***************************************************************************)
Narrowed(above, entry) ==
  [frame |-> entry.frame,
   flags |-> (above.flags \cap entry.flags \cap {"w", "u"})
             \cup ((above.flags \cup entry.flags) \cap {"nx"})]

Top == [frame |-> CR3, flags |-> {"w", "u"}]

\* The entries for page v in the tables of a level.
Entered(m, v, lvl, tables) ==
  LET index == (v \div Reach(lvl)) % TABLE_SIZE
  IN  {Narrowed(above, m[above.frame][index]) :
         above \in {a \in tables : m[a.frame][index] # NotPresent}}

\* At every level the table for page v, if any, and the rights so far; at
\* level 0 what the walker makes of v: nothing, or one translation.
Path(m, v) ==
  LET at[lvl \in 0 .. pmap_toplevel] ==
        IF lvl = pmap_toplevel THEN {Top} ELSE Entered(m, v, lvl + 1, at[lvl + 1])
  IN  at

Walk(m, v) == Path(m, v)[0]

Translations == [v \in Pages |-> Walk(mem, v)]

\* The tables of every level that the walker can reach.
Leads(m, tables) ==
  {e.frame : e \in (UNION {{m[f][i] : i \in Index} : f \in tables}) \ {NotPresent}}

TablesOf(m) ==
  LET at[lvl \in PMAP_PML1 .. pmap_toplevel] ==
        IF lvl = pmap_toplevel THEN {CR3} ELSE Leads(m, at[lvl + 1])
  IN  at

Tables == UNION {TablesOf(mem)[lvl] : lvl \in PMAP_PML1 .. pmap_toplevel}
\* The tables at boot: each is at one level and hangs in one entry, and what
\* the last ones lead to is no table.
ASSUME BootAssumption ==
  \A m \in Boot :
    LET table == TablesOf(m)
    IN  /\ m \in [Frame -> [Index -> Entry]]
        /\ \A k, l \in PMAP_PML1 .. pmap_toplevel : k # l => table[k] \cap table[l] = {}
        /\ \A l \in PMAP_PML1 + 1 .. pmap_toplevel :
             \A f, g \in table[l], i, j \in Index :
               m[f][i] # NotPresent =>
                 /\ m[f][i].frame \in Frame
                 /\ m[g][j] # NotPresent /\ m[g][j].frame = m[f][i].frame => f = g /\ i = j
        /\ \A f \in table[PMAP_PML1], i \in Index :
             m[f][i] # NotPresent => m[f][i].frame \notin Frame
-----------------------------------------------------------------------------
NoCall == [v |-> 0, pma |-> 0, prot |-> {}]

\* The bootloader's tables, and free memory that holds anything.
Init == /\ mem \in Boot
        /\ free = Frame \ Tables
        /\ phase = "boot"
        /\ pc = "idle"
        /\ call = NoCall
        /\ cur_base = CR3 /\ cur_lvl = pmap_toplevel
        /\ phys = 0
        /\ tlb = [v \in Pages |-> {}]

\* The processor translates an address and caches what it found.
FillTlb(v) == /\ Walk(mem, v) # {}
              /\ tlb' = [tlb EXCEPT ![v] = Walk(mem, v)]
              /\ UNCHANGED <<mem, free, phase, pc, call, cur_base, cur_lvl, phys>>

Flushed == [v \in Pages |-> {}]

\* mu_pmap_init: the lower half of the top-level table, and cr3 written anew.
MuPmapInit ==
  /\ phase = "boot"
  /\ phase' = "up"
  /\ mem' = [mem EXCEPT ![CR3] = [i \in Index |-> IF i < TABLE_SIZE \div 2
                                                  THEN NotPresent ELSE @[i]]]
  /\ tlb' = Flushed
  /\ UNCHANGED <<free, pc, call, cur_base, cur_lvl, phys>>

\* mu_pmap_map with an address space and PAGESIZE_4K; otherwise it returns.
MuPmapMap(v, pma, prot) ==
  /\ phase = "up"
  /\ pc = "idle"
  /\ pc' = "descend"
  /\ call' = [v |-> v, pma |-> pma, prot |-> prot]
  /\ cur_base' = CR3
  /\ cur_lvl' = pmap_toplevel
  /\ UNCHANGED <<mem, free, phase, phys, tlb>>

\* vma_level_base: the entry is present.
Descend == LET entry == EntryAt(mem, CurrentSlot)
           IN  /\ pc = "descend"
               /\ cur_lvl > PMAP_PML1
               /\ entry # NotPresent
               /\ cur_base' = entry.frame
               /\ cur_lvl' = cur_lvl - 1
               /\ UNCHANGED <<mem, free, phase, pc, call, phys, tlb>>

\* vma_level_base: it is not.  Without memory mu_pmap_map returns -1; the
\* tables it has linked stay.
Alloc == /\ pc = "descend"
         /\ cur_lvl > PMAP_PML1
         /\ EntryAt(mem, CurrentSlot) = NotPresent
         /\ \/ \E f \in free : /\ phys' = f
                               /\ free' = free \ {f}
                               /\ pc' = "zero"
                               /\ UNCHANGED call
            \/ /\ free = {}
               /\ pc' = "idle"
               /\ call' = NoCall
               /\ UNCHANGED <<free, phys>>
         /\ UNCHANGED <<mem, phase, cur_base, cur_lvl, tlb>>

\* Mutant: the new table keeps what the memory held.
NotZeroed(m, f) == m

Zeroed(m, f) == [m EXCEPT ![f] = ZeroPage]

Zero == /\ pc = "zero"
        /\ mem' = Zeroed(mem, phys)
        /\ pc' = "link"
        /\ UNCHANGED <<free, phase, call, cur_base, cur_lvl, phys, tlb>>

TableEntry(f) == [frame |-> f, flags |-> {"w", "u"}]

Link == /\ pc = "link"
        /\ mem' = Stored(mem, CurrentSlot, TableEntry(phys))
        /\ cur_base' = phys
        /\ cur_lvl' = cur_lvl - 1
        /\ phys' = 0
        /\ pc' = "descend"
        /\ UNCHANGED <<free, phase, call, tlb>>

Bottom == cur_lvl = PMAP_PML1

\* The mapping, over whatever was there.
WriteLeaf == /\ pc = "descend"
             /\ Bottom
             /\ mem' = Stored(mem, CurrentSlot, [frame |-> call.pma,
                                                 flags |-> prot_to_pte(call.prot)])
             /\ pc' = "invlpg"
             /\ UNCHANGED <<free, phase, call, cur_base, cur_lvl, phys, tlb>>

\* Mutant: the old translation is not invalidated.
Kept(v) == tlb

Invalidated(v) == [tlb EXCEPT ![v] = {}]

\* pmap_invlpg, and the return of mu_pmap_map.
Invlpg == /\ pc = "invlpg"
          /\ tlb' = Invalidated(call.v)
          /\ pc' = "idle"
          /\ call' = NoCall
          /\ UNCHANGED <<mem, free, phase, cur_base, cur_lvl, phys>>

Step == Descend \/ Alloc \/ Zero \/ Link \/ WriteLeaf \/ Invlpg

Next == \/ \E v \in Pages : FillTlb(v)
        \/ MuPmapInit
        \/ \E v \in Lower, pma \in PMA, prot \in Prots : MuPmapMap(v, pma, prot)
        \/ Step

Spec == Init /\ [][Next]_vars
-----------------------------------------------------------------------------
TypeOK == /\ mem \in [Frame -> [Index -> Entry]]
          /\ free \subseteq Frame
          /\ phase \in {"boot", "up"}
          /\ pc \in {"idle", "descend", "zero", "link", "invlpg"}
          /\ call \in [v : Lower, pma : PMA, prot : Prots] \cup {NoCall}
          /\ cur_base \in Frame
          /\ cur_lvl \in 1 .. pmap_toplevel
          /\ phys \in Frame \cup {0}
          /\ tlb \in [Pages -> SUBSET (Entry \ {NotPresent})]

\* Where the tables lead: every table but the top one hangs in exactly one
\* entry, and none is free, about to be linked, or a page somebody mapped.
TablesFormTree ==
  LET tables == Tables
      slots == {s \in [frame : tables, index : Index] :
                  /\ EntryAt(mem, s) # NotPresent
                  /\ EntryAt(mem, s).frame \in tables}
  IN  /\ tables \cap (free \cup {phys} \cup PMA) = {}
      /\ {EntryAt(mem, s).frame : s \in slots} = tables \ {CR3}
      /\ Cardinality(slots) = Cardinality(tables) - 1

\* When mu_pmap_map returns 0 the processor translates the page to the frame
\* and the rights asked for, at every level of the tables.
MappedAsAsked ==
  pc = "invlpg" =>
    Walk(mem, call.v) =
      {[frame |-> call.pma,
        flags |-> (call.prot \cap {"w", "u"})
                  \cup (IF "x" \in call.prot THEN {} ELSE {"nx"})]}

\* The processor never goes on using a translation the tables do not give,
\* but for the page whose entry is being replaced.
TlbCoherent ==
  \A v \in Pages :
    \/ tlb[v] \in {{}, Walk(mem, v)}
    \/ pc = "invlpg" /\ v = call.v

\* While mu_pmap_map works and when it returns (vma_level_base, pmap_invlpg):
\* the tables are a tree of frames of their own, what was asked for is what the
\* processor finds in them, and it remembers nothing else.
TablesSound == TablesFormTree /\ MappedAsAsked /\ TlbCoherent

AS == INSTANCE AddressSpace WITH
        mapping <- Translations,
        Mappings <- [frame : PMA, flags : {prot_to_pte(prot) : prot \in Prots}]

\* Walking, linking tables and failing change no translation; mapping a page
\* changes that of the page only.
ImplementsAddressSpace == AS!Spec
=============================================================================
