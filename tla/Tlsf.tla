-------------------------------- MODULE Tlsf --------------------------------
(***************************************************************************)
(* The two-level segregated-fit heap of the kernel (mm/tlsf.c).            *)
(*                                                                         *)
(* An address is a number of bytes.  A block is named by the address of    *)
(* its header, whose first field lies in the last word of the block before *)
(* it; the word after that one holds the size and two flags, and is all    *)
(* the header a used block has: the rest belongs to its owner.             *)
(*                                                                         *)
(* The operators are the functions of the source, each from a heap to the  *)
(* heap (and the block) it leaves behind.  A failed tlsf_assert panics;    *)
(* here it makes `ok` false, and nothing happens after it.                 *)
(***************************************************************************)
EXTENDS Integers, Sequences, FiniteSets, FiniteSetsExt

CONSTANTS
  SL_INDEX_COUNT_LOG2,  \* log2 of the lists of a size range (5)
  ALIGN_SIZE_LOG2,      \* log2 of the bytes in a word (3)
  FL_INDEX_MAX,         \* log2 of block_size_max (32)
  SIZE_BITS,            \* bits of a size_t (64)
  Pools,                \* the memory the heap may be given: address -> bytes
  Top,                  \* no pool reaches past this address
  Sizes,                \* the sizes callers ask for, in bytes
  Aligns                \* and the alignments

ALIGN_SIZE == 2 ^ ALIGN_SIZE_LOG2
SL_INDEX_COUNT == 2 ^ SL_INDEX_COUNT_LOG2
FL_INDEX_SHIFT == SL_INDEX_COUNT_LOG2 + ALIGN_SIZE_LOG2
FL_INDEX_COUNT == FL_INDEX_MAX - FL_INDEX_SHIFT + 1
SMALL_BLOCK_SIZE == 2 ^ FL_INDEX_SHIFT

FLIndex == 0 .. FL_INDEX_COUNT - 1
SLIndex == 0 .. SL_INDEX_COUNT - 1

\* A word is as long as the alignment on amd64.
block_header_overhead == ALIGN_SIZE
block_start_offset == 2 * ALIGN_SIZE
sizeof_header == 4 * ALIGN_SIZE
block_size_min == sizeof_header - ALIGN_SIZE
block_size_max == 2 ^ FL_INDEX_MAX

NULL == 0
block_null == -1

Addr == {a \in ALIGN_SIZE .. Top : a % ALIGN_SIZE = 0}

\* No block header here.
NoHeader == [size |-> 0, self |-> "junk", prev |-> "junk"]

VARIABLES
  heap,   \* headers, free lists and their bitmaps
  pools,  \* the addresses of the pools added
  live    \* the owners' view: address -> bytes asked for

vars == <<heap, pools, live>>
-----------------------------------------------------------------------------
(***************************************************************************)
(* A heap is a record:                                                     *)
(*   blk    the size word at an address: size, whether the block and the   *)
(*          block before it are "free" or "used", or "junk"                *)
(*   phys   prev_phys_block; NULL where it is not valid                    *)
(*   next, prev  next_free and prev_free; NULL where they are not valid    *)
(*   fl, sl the bitmaps, as sets of indices                                *)
(*   head   blocks[fl][sl]                                                 *)
(*   ok     no assertion has failed                                        *)
(*   inside no list index has left the arrays                              *)
(***************************************************************************)
Assert(h, cond) == [h EXCEPT !.ok = @ /\ cond]

block_size(h, b) == h.blk[b].size
block_is_last(h, b) == block_size(h, b) = 0
block_is_free(h, b) == h.blk[b].self = "free"
block_is_prev_free(h, b) == h.blk[b].prev = "free"
block_to_ptr(b) == b + block_start_offset
block_from_ptr(p) == p - block_start_offset
block_next(h, b) == block_to_ptr(b) + block_size(h, b) - block_header_overhead

\* Mutant: the empty lists are not pointed at block_null.
lists_left_zero ==
  [blk |-> [a \in Addr |-> NoHeader],
   phys |-> [a \in Addr |-> NULL],
   next |-> [a \in Addr \cup {block_null} |-> NULL],
   prev |-> [a \in Addr \cup {block_null} |-> NULL],
   fl |-> {},
   sl |-> [fl \in FLIndex |-> {}],
   head |-> [i \in FLIndex \X SLIndex |-> NULL],
   ok |-> TRUE,
   inside |-> TRUE]

\* control_construct on fresh memory.
control_construct ==
  [blk |-> [a \in Addr |-> NoHeader],
   phys |-> [a \in Addr |-> NULL],
   next |-> [a \in Addr \cup {block_null} |-> IF a = block_null THEN block_null ELSE NULL],
   prev |-> [a \in Addr \cup {block_null} |-> IF a = block_null THEN block_null ELSE NULL],
   fl |-> {},
   sl |-> [fl \in FLIndex |-> {}],
   head |-> [i \in FLIndex \X SLIndex |-> block_null],
   ok |-> TRUE,
   inside |-> TRUE]

block_link_next(h, b) ==
  [Assert(h, ~block_is_last(h, b)) EXCEPT !.phys[block_next(h, b)] = b]

block_mark_as_free(h, b) ==
  [block_link_next(h, b) EXCEPT !.blk[block_next(h, b)].prev = "free",
                                !.blk[b].self = "free"]

block_mark_as_used(h, b) ==
  [Assert(h, ~block_is_last(h, b)) EXCEPT !.blk[block_next(h, b)].prev = "used",
                                          !.blk[b].self = "used"]

\* The owner of a used block may overwrite what is not its size word: the
\* links of the block, and the first field of the block behind it.  What
\* block_null's own links hold is never read.
Settle(h) ==
  LET Links(f) == [a \in DOMAIN f |-> IF a = block_null THEN block_null
                                      ELSE IF block_is_free(h, a) THEN f[a]
                                      ELSE NULL]
  IN  [h EXCEPT !.next = Links(@),
                !.prev = Links(@),
                !.phys = [a \in Addr |-> IF block_is_prev_free(h, a) THEN @[a] ELSE NULL]]
-----------------------------------------------------------------------------
align_up(x, align) == (((x + align - 1) % 2 ^ SIZE_BITS) \div align) * align

align_ptr(p, align) == ((p + align - 1) \div align) * align

Larger(a, b) == IF a < b THEN b ELSE a

\* 0 when the request is 0 or too large.
adjust_request_size(size, align) ==
  IF size = 0 \/ align_up(size, align) >= block_size_max THEN 0
  ELSE Larger(align_up(size, align), block_size_min)

\* The index of the highest bit of size.
tlsf_fls(size) == CHOOSE k \in 0 .. SIZE_BITS : 2 ^ k <= size /\ size < 2 ^ (k + 1)

mapping_insert(size) ==
  IF size < SMALL_BLOCK_SIZE
  THEN <<0, size \div (SMALL_BLOCK_SIZE \div SL_INDEX_COUNT)>>
  ELSE LET fl == tlsf_fls(size)
       IN  <<fl - (FL_INDEX_SHIFT - 1),
             size \div 2 ^ (fl - SL_INDEX_COUNT_LOG2) - SL_INDEX_COUNT>>

\* Mutant: the search does not round up to the next list.
search_without_rounding(size) == mapping_insert(size)

\* The first list all of whose blocks are large enough.
mapping_search(size) ==
  IF size < SMALL_BLOCK_SIZE THEN mapping_insert(size)
  ELSE mapping_insert(size + 2 ^ (tlsf_fls(size) - SL_INDEX_COUNT_LOG2) - 1)

\* Mutant: the next size range is skipped.
RangesPastNext(h, fl) == {i \in h.fl : i > fl + 1}

LargerRanges(h, fl) == {i \in h.fl : i > fl}

\* The first block of the list of the smallest index from <<fl, sl>> on, and
\* that index; NULL when there is none.
search_suitable_block(h, fl, sl) ==
  LET sl_map == {j \in h.sl[fl] : j >= sl}
      fl_map == LargerRanges(h, fl)
      Found(i, map) == [b |-> h.head[<<i, Min(map)>>], fl |-> i, sl |-> Min(map),
                        ok |-> TRUE]
  IN  IF sl_map # {} THEN Found(fl, sl_map)
      ELSE IF fl_map = {} THEN [b |-> NULL, fl |-> fl, sl |-> sl, ok |-> TRUE]
      ELSE IF h.sl[Min(fl_map)] = {}
           THEN [b |-> NULL, fl |-> fl, sl |-> sl, ok |-> FALSE]
           ELSE Found(Min(fl_map), h.sl[Min(fl_map)])

\* Taking block b out of the head of its list <<fl, sl>>, if it is there.
TakeHead(h, b, fl, sl) ==
  LET next == h.next[b]
      rest == IF next = block_null THEN h.sl[fl] \ {sl} ELSE h.sl[fl]
  IN  IF h.head[<<fl, sl>>] # b THEN h
      ELSE [h EXCEPT !.head[<<fl, sl>>] = next,
                     !.sl[fl] = rest,
                     !.fl = IF rest = {} THEN @ \ {fl} ELSE @]

remove_free_block(h, b, fl, sl) ==
  TakeHead([Assert(h, h.prev[b] # NULL /\ h.next[b] # NULL)
              EXCEPT !.prev[h.next[b]] = h.prev[b],
                     !.next[h.prev[b]] = h.next[b]], b, fl, sl)

\* At the head of the list.  An index past the arrays writes outside them.
insert_free_block(h, b, fl, sl) ==
  IF fl \notin FLIndex THEN [h EXCEPT !.inside = FALSE]
  ELSE LET current == h.head[<<fl, sl>>]
       IN  [Assert(h, current # NULL /\ block_to_ptr(b) % ALIGN_SIZE = 0)
              EXCEPT !.next[b] = current,
                     !.prev = [@ EXCEPT ![b] = block_null, ![current] = b],
                     !.head[<<fl, sl>>] = b,
                     !.fl = @ \cup {fl},
                     !.sl[fl] = @ \cup {sl}]

block_remove(h, b) ==
  LET index == mapping_insert(block_size(h, b))
  IN  remove_free_block(h, b, index[1], index[2])

block_insert(h, b) ==
  LET index == mapping_insert(block_size(h, b))
  IN  insert_free_block(h, b, index[1], index[2])
-----------------------------------------------------------------------------
block_can_split(h, b, size) == block_size(h, b) >= sizeof_header + size

\* The block behind b once b has `size` bytes, and the heap after the split.
\* Its flags are what its owner left there, until they are written.
SplitOff(b, size) == block_to_ptr(b) + size - block_header_overhead

block_split(h, b, size) ==
  LET remaining == SplitOff(b, size)
      remain_size == block_size(h, b) - (size + block_header_overhead)
      resized == [Assert(h, /\ block_to_ptr(remaining) % ALIGN_SIZE = 0
                            /\ remain_size >= block_size_min)
                    EXCEPT !.blk[remaining] = [NoHeader EXCEPT !.size = remain_size],
                           !.blk[b].size = size]
  IN  block_mark_as_free(resized, remaining)

set_prev(h, b, status) == [h EXCEPT !.blk[b].prev = status]

block_absorb(h, prev, b) ==
  LET size == block_size(h, prev) + block_size(h, b) + block_header_overhead
  IN  block_link_next([Assert(h, ~block_is_last(h, prev))
                         EXCEPT !.blk = [@ EXCEPT ![prev].size = size,
                                                  ![b] = NoHeader]], prev)

\* The block a merge with the one before b leaves.
MergedPrev(h, b) == IF block_is_prev_free(h, b) THEN h.phys[b] ELSE b

\* Mutant: a free neighbour in front is left alone.
merge_prev_never(h, b) == h

block_merge_prev(h, b) ==
  IF block_is_prev_free(h, b)
  THEN LET prev == h.phys[b]
           checked == Assert(h, prev # NULL /\ block_is_free(h, prev))
       IN  block_absorb(block_remove(checked, prev), prev, b)
  ELSE h

block_merge_next(h, b) ==
  LET next == block_next(h, b)
      checked == Assert(h, ~block_is_last(h, b))
  IN  IF block_is_free(h, next)
      THEN block_absorb(block_remove(checked, next), b, next)
      ELSE checked

block_trim_free(h, b, size) ==
  LET checked == Assert(h, block_is_free(h, b))
      remaining == SplitOff(b, size)
      split == block_link_next(block_split(checked, b, size), b)
  IN  IF block_can_split(h, b, size)
      THEN block_insert(set_prev(split, remaining, "free"), remaining)
      ELSE checked

block_trim_used(h, b, size) ==
  LET checked == Assert(h, ~block_is_free(h, b))
      remaining == SplitOff(b, size)
      split == set_prev(block_split(checked, b, size), remaining, "used")
  IN  IF block_can_split(h, b, size)
      THEN block_insert(block_merge_next(split, remaining), remaining)
      ELSE checked

\* The block behind a gap of `gap` bytes, which becomes a free block.
TrimmedLeading(h, b, gap) ==
  IF block_can_split(h, b, gap) THEN SplitOff(b, gap - block_header_overhead) ELSE b

block_trim_free_leading(h, b, gap) ==
  LET remaining == TrimmedLeading(h, b, gap)
      split == block_split(h, b, gap - block_header_overhead)
  IN  IF block_can_split(h, b, gap)
      THEN block_insert(block_link_next(set_prev(split, remaining, "free"), b), b)
      ELSE h

\* Rounding up may leave the arrays; block_locate_free guards against it.
RangeExists(fl) == fl < FL_INDEX_COUNT

\* A block of at least `size` bytes taken out of its list, or NULL.
block_locate_free(h, size) ==
  LET index == mapping_search(size)
      found == search_suitable_block(h, index[1], index[2])
      checked == Assert(h, found.ok)
  IN  IF size = 0 \/ ~RangeExists(index[1]) THEN [h |-> h, b |-> NULL]
      ELSE IF index[1] \notin FLIndex
           THEN [h |-> [h EXCEPT !.inside = FALSE], b |-> NULL]
      ELSE IF found.b = NULL THEN [h |-> checked, b |-> NULL]
      ELSE [h |-> remove_free_block(Assert(checked, block_size(h, found.b) >= size),
                                    found.b, found.fl, found.sl),
            b |-> found.b]

block_prepare_used(h, b, size) ==
  IF b = NULL THEN [h |-> h, ptr |-> NULL]
  ELSE [h |-> block_mark_as_used(block_trim_free(Assert(h, size # 0), b, size), b),
        ptr |-> block_to_ptr(b)]
-----------------------------------------------------------------------------
tlsf_malloc(h, size) ==
  LET adjust == adjust_request_size(size, ALIGN_SIZE)
      found == block_locate_free(h, adjust)
  IN  block_prepare_used(found.h, found.b, adjust)

\* The distance from a block's start to an aligned address that leaves no gap
\* or room for a free block in front.
AlignGap(b, align) ==
  LET ptr == block_to_ptr(b)
      aligned == align_ptr(ptr, align)
      gap == aligned - ptr
      offset == Larger(sizeof_header - gap, align)
  IN  IF gap # 0 /\ gap < sizeof_header
      THEN align_ptr(aligned + offset, align) - ptr
      ELSE gap

\* The size a block must have for an aligned area to fit into it wherever it
\* lies.
GapRequest(adjust, align) == adjust_request_size(adjust + align + sizeof_header, align)

tlsf_memalign(h, align, size) ==
  LET adjust == adjust_request_size(size, ALIGN_SIZE)
      aligned_size == IF adjust # 0 /\ align > ALIGN_SIZE
                      THEN GapRequest(adjust, align) ELSE adjust
      found == block_locate_free(h, aligned_size)
      gap == AlignGap(found.b, align)
      checked == Assert(found.h, gap >= sizeof_header)
  IN  IF found.b = NULL \/ gap = 0
      THEN block_prepare_used(found.h, found.b, adjust)
      ELSE block_prepare_used(block_trim_free_leading(checked, found.b, gap),
                              TrimmedLeading(checked, found.b, gap), adjust)

tlsf_free(h, p) ==
  LET b == block_from_ptr(p)
      freed == block_mark_as_free(Assert(h, ~block_is_free(h, b)), b)
      merged == MergedPrev(freed, b)
  IN  block_insert(block_merge_next(block_merge_prev(freed, b), merged), merged)

\* What the block has when it takes over the one behind it.
Combined(h, b) ==
  block_size(h, b) + block_size(h, block_next(h, b)) + block_header_overhead

\* With p # NULL and size # 0; the other two cases are malloc and free.
tlsf_realloc(h, p, size) ==
  LET b == block_from_ptr(p)
      next == block_next(h, b)
      cursize == block_size(h, b)
      adjust == adjust_request_size(size, ALIGN_SIZE)
      checked == Assert(h, ~block_is_free(h, b))
      moved == tlsf_malloc(checked, size)
      expanded == IF adjust > cursize
                  THEN block_mark_as_used(block_merge_next(checked, b), b)
                  ELSE checked
  IN  IF adjust > cursize /\ (~block_is_free(h, next) \/ adjust > Combined(h, b))
      THEN IF moved.ptr = NULL THEN moved
           ELSE [h |-> tlsf_free(moved.h, p), ptr |-> moved.ptr]
      ELSE [h |-> block_trim_used(expanded, b, adjust), ptr |-> p]

pool_bytes(base) == ((Pools[base] - 2 * block_header_overhead) \div ALIGN_SIZE) * ALIGN_SIZE

\* tlsf_add_pool, of a pool whose size it accepts: one free block, and a
\* block of size 0 at the end.
tlsf_add_pool(h, base) ==
  LET b == base - block_header_overhead
      first == [h EXCEPT !.blk[b] = [size |-> pool_bytes(base), self |-> "free", prev |-> "used"]]
      linked == block_link_next(block_insert(first, b), b)
  IN  [linked EXCEPT !.blk[block_next(first, b)] = [size |-> 0, self |-> "used", prev |-> "free"]]

Accepted(base) == pool_bytes(base) >= block_size_min /\ pool_bytes(base) <= block_size_max

\* The memory of the pool is its owner's again.
tlsf_remove_pool(h, base) ==
  LET b == base - block_header_overhead
      next == block_next(h, b)
      checked == Assert(h, /\ block_is_free(h, b)
                           /\ ~block_is_free(h, next)
                           /\ block_is_last(h, next))
  IN  [block_remove(checked, b) EXCEPT !.blk = [@ EXCEPT ![b] = NoHeader, ![next] = NoHeader]]
-----------------------------------------------------------------------------
With(used, p, size) == [q \in DOMAIN used \cup {p} |-> IF q = p THEN size ELSE used[q]]

Without(used, p) == [q \in DOMAIN used \ {p} |-> used[q]]

PoolArea(base) == base .. base + Pools[base] - 1

Init == heap = control_construct /\ pools = {} /\ live = [p \in {} |-> 0]

\* What a call returned, to a caller that had the area p before (or NULL).
Return(result, p, size) ==
  /\ heap' = Settle(result.h)
  /\ live' = IF result.ptr = NULL THEN live
             ELSE With(Without(live, p), result.ptr, size)
  /\ UNCHANGED pools

Malloc(size) == Return(tlsf_malloc(heap, size), NULL, size)

Memalign(align, size) == Return(tlsf_memalign(heap, align, size), NULL, size)

Free(p) == /\ heap' = Settle(tlsf_free(heap, p))
           /\ live' = Without(live, p)
           /\ UNCHANGED pools

Realloc(p, size) == size # 0 /\ Return(tlsf_realloc(heap, p, size), p, size)

AddPool(base) == /\ base \notin pools
                 /\ Accepted(base)
                 /\ heap' = Settle(tlsf_add_pool(heap, base))
                 /\ pools' = pools \cup {base}
                 /\ UNCHANGED live

\* Its caller knows that nobody uses the pool.
RemovePool(base) == /\ \A p \in DOMAIN live : p \notin PoolArea(base)
                    /\ heap' = Settle(tlsf_remove_pool(heap, base))
                    /\ pools' = pools \ {base}
                    /\ UNCHANGED live

Next == /\ heap.ok /\ heap.inside
        /\ \/ \E size \in Sizes : Malloc(size)
           \/ \E align \in Aligns, size \in Sizes : Memalign(align, size)
           \/ \E p \in DOMAIN live : Free(p)
           \/ \E p \in DOMAIN live, size \in Sizes : Realloc(p, size)
           \/ \E base \in DOMAIN Pools : AddPool(base)
           \/ \E base \in pools : RemovePool(base)

Spec == Init /\ [][Next]_vars
-----------------------------------------------------------------------------
Blocks == {b \in Addr : heap.blk[b].self # "junk"}

Sentinels == {b \in Blocks : block_is_last(heap, b)}

FreeBlocks == {b \in Blocks : block_is_free(heap, b)}

FirstBlocks == {base - block_header_overhead : base \in pools}

TypeOK ==
  /\ heap.blk \in [Addr -> [size : Nat, self : {"free", "used", "junk"},
                            prev : {"free", "used", "junk"}]]
  /\ heap.phys \in [Addr -> Addr \cup {NULL}]
  /\ \A f \in {heap.next, heap.prev} :
       f \in [Addr \cup {block_null} -> Addr \cup {block_null, NULL}]
  /\ heap.fl \subseteq FLIndex
  /\ heap.sl \in [FLIndex -> SUBSET SLIndex]
  /\ heap.head \in [FLIndex \X SLIndex -> Addr \cup {block_null}]
  /\ heap.ok \in BOOLEAN /\ heap.inside \in BOOLEAN
  /\ pools \subseteq DOMAIN Pools
  /\ DOMAIN live \subseteq Addr /\ \A p \in DOMAIN live : live[p] \in Sizes

\* No tlsf_assert of mm/tlsf.c ever fails, whatever legal calls are made, and
\* no list index computed from a size leaves the arrays of the control
\* structure.
AssertsHold == heap.ok /\ heap.inside

\* The blocks of a pool lie one behind the other
\* from its start to its sentinel, every block knows whether the one before
\* it is free and where it then begins, and no two free blocks touch.
PoolsTiled ==
  /\ FirstBlocks \subseteq Blocks
  /\ \A b \in FirstBlocks : ~block_is_prev_free(heap, b)
  /\ Sentinels = {base + pool_bytes(base) : base \in pools}
  /\ \A b \in Blocks \ Sentinels :
       LET next == block_next(heap, b)
       IN  /\ block_size(heap, b) >= block_size_min
           /\ next \in Blocks \ FirstBlocks
           /\ block_is_prev_free(heap, next) <=> block_is_free(heap, b)
           /\ block_is_free(heap, b) => /\ ~block_is_free(heap, next)
                                        /\ heap.phys[next] = b
  /\ \A b \in Blocks \ FirstBlocks : \E a \in Blocks : block_next(heap, a) = b

\* The blocks of the list <<fl, sl>>, walked from its head.
ListBlocks(fl, sl) ==
  LET walk[k \in 0 .. Cardinality(Addr)] ==
        IF k = 0 THEN {heap.head[<<fl, sl>>]}
        ELSE walk[k - 1] \cup {heap.next[b] : b \in walk[k - 1] \ {NULL}}
  IN  walk[Cardinality(FreeBlocks)] \ {block_null}

\* A free block is in the list of its size and in no
\* other, the links back agree with the links forward, and the bitmaps say
\* which lists are not empty.
ListsExact ==
  /\ \A fl \in FLIndex, sl \in SLIndex :
       /\ ListBlocks(fl, sl) = {b \in FreeBlocks : mapping_insert(block_size(heap, b)) = <<fl, sl>>}
       /\ sl \in heap.sl[fl] <=> ListBlocks(fl, sl) # {}
       /\ heap.head[<<fl, sl>>] # block_null => heap.prev[heap.head[<<fl, sl>>]] = block_null
  /\ \A fl \in FLIndex : fl \in heap.fl <=> heap.sl[fl] # {}
  /\ \A b \in FreeBlocks : heap.next[b] # block_null => heap.prev[heap.next[b]] = b

\* A used block is an area in use, and holds the size its owner asked for.
UsedIsLive ==
  /\ {block_to_ptr(b) : b \in Blocks \ (FreeBlocks \cup Sentinels)} = DOMAIN live
  /\ \A p \in DOMAIN live : block_size(heap, block_from_ptr(p)) >= live[p]

\* tlsf_check returns 0: its checks of one list, and of every list.
ListChecked(h, fl, sl) ==
  LET listed == sl \in h.sl[fl]
  IN  /\ fl \notin h.fl => ~listed
      /\ listed <=> h.head[<<fl, sl>>] # block_null
      /\ \A b \in ListBlocks(fl, sl) :
           /\ block_is_free(h, b) /\ ~block_is_prev_free(h, b)
           /\ ~block_is_free(h, block_next(h, b)) /\ block_is_prev_free(h, block_next(h, b))
           /\ block_size(h, b) >= block_size_min
           /\ mapping_insert(block_size(h, b)) = <<fl, sl>>

tlsf_check(h) == \A fl \in FLIndex, sl \in SLIndex : ListChecked(h, fl, sl)

\* The blocks tlsf_walk_pool hands to its walker, in that order.
tlsf_walk_pool(h, base) ==
  LET walk[b \in Addr] == IF block_is_last(h, b) THEN <<>> ELSE <<b>> \o walk[block_next(h, b)]
  IN  walk[base - block_header_overhead]

\* integrity_walker finds nothing at the k-th block of a walk: the block knows
\* whether the one before it is free.
integrity_walker(h, walk, k) ==
  block_is_prev_free(h, walk[k]) <=> k # 1 /\ block_is_free(h, walk[k - 1])

\* tlsf_check_pool returns 0.
tlsf_check_pool(h, base) ==
  LET walk == tlsf_walk_pool(h, base)
  IN  \A k \in DOMAIN walk : integrity_walker(h, walk, k)

\* At every moment the heap is sound: no assertion has failed, the blocks tile
\* the pools, the lists hold the free blocks and the bitmaps say so, the used
\* blocks are the areas in use, and the source's own checks find nothing.
HeapConsistent ==
  /\ AssertsHold /\ PoolsTiled /\ ListsExact /\ UsedIsLive
  /\ tlsf_check(heap)
  /\ \A base \in pools : tlsf_check_pool(heap, base)

\* tlsf_malloc refuses a request only when no free block is as large as the
\* smallest size of the next list ("good fit"), although it looks at one
\* block only.
GoodFit ==
  \A size \in Sizes :
    LET adjust == adjust_request_size(size, ALIGN_SIZE)
        needed == IF adjust < SMALL_BLOCK_SIZE THEN adjust
                  ELSE LET step == 2 ^ (tlsf_fls(adjust) - SL_INDEX_COUNT_LOG2)
                       IN  align_up(adjust, step)
    IN  adjust # 0 /\ (\E b \in FreeBlocks : block_size(heap, b) >= needed)
          => tlsf_malloc(heap, size).ptr # NULL

\* tlsf_memalign returns aligned addresses, or NULL.
AlignedResults ==
  \A align \in Aligns, size \in Sizes : tlsf_memalign(heap, align, size).ptr % align = 0

\* In every state of the heap the next request is served as tlsf.h promises: a
\* good fit is found when there is one, and what tlsf_memalign returns is
\* aligned.
RequestsServed == GoodFit /\ AlignedResults

Alloc == INSTANCE Allocator WITH
           Space <- 0 .. Top,
           arena <- UNION {PoolArea(base) : base \in pools}

\* The heap keeps what Allocator promises: areas in use lie in the pools and
\* never overlap, and an owner's area moves only when it asks for another
\* size.
ImplementsAllocator == Alloc!Spec
=============================================================================
