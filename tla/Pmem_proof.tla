----------------------------- MODULE Pmem_proof -----------------------------
(***************************************************************************)
(* Proofs about Pmem, for any processors, any memory map and any size of   *)
(* memory.  The scan gives what inc/mm/pmem.h promises exactly when the    *)
(* request has room (HasRoom): for callers that only ask where there is    *)
(* room, and so for callers that ask for one frame at a time, the          *)
(* properties hold on every interleaving.  (For others the code breaks     *)
(* them: run pmem_broken_run.)                                             *)
(***************************************************************************)
EXTENDS Pmem, TLAPS, FiniteSetTheorems, NaturalsInduction, WellFoundedInduction

\* Callers ask for at most one frame.
SingleFrames == Counts \subseteq {0, 1}

\* The bitmap describes every frame of every memory map.
AllCovered == \A map \in MemMaps : Covered(map)
-----------------------------------------------------------------------------
\* A non-empty set of naturals has a least element, which Min returns.
LEMMA MinOfNaturals ==
  ASSUME NEW S \in SUBSET Nat, S # {}
  PROVE  /\ Min(S) \in S
         /\ \A k \in S : Min(S) <= k
<1>1. \E x \in S : \A y \in S : ~ (<<y, x>> \in OpToRel(<, Nat))
  BY NatLessThanWellFounded, WFMin
<1>2. PICK x \in S : \A y \in S : ~ (<<y, x>> \in OpToRel(<, Nat))
  BY <1>1
<1>3. ASSUME NEW y \in S PROVE x <= y
  <2>1. CASE y < x
    <3>1. <<y, x>> \in Nat \X Nat /\ <<y, x>>[1] < <<y, x>>[2]
      BY <2>1
    <3>2. <<y, x>> \in OpToRel(<, Nat)
      BY <3>1, Zenon DEF OpToRel
    <3> QED
      BY <1>2, <3>2
  <2>2. CASE ~ (y < x)
    BY <2>2
  <2> QED
    BY <2>1, <2>2
<1> QED
  BY <1>3 DEF Min

\* So does one with an upper bound have a greatest.
LEMMA MaxOfBoundedNaturals ==
  ASSUME NEW S \in SUBSET Nat, S # {}, NEW n \in Nat, \A k \in S : k <= n
  PROVE  /\ Max(S) \in S
         /\ \A k \in S : Max(S) >= k
<1> DEFINE T == {n - k : k \in S}
<1>1. T \in SUBSET Nat /\ T # {}
  <2>1. \A k \in S : n - k \in Nat
    OBVIOUS
  <2> QED
    BY <2>1
<1>2. PICK k \in S : Min(T) = n - k
  BY <1>1, MinOfNaturals
<1>3. \A j \in S : k >= j
  <2> TAKE j \in S
  <2>1. Min(T) <= n - j
    BY <1>1, MinOfNaturals
  <2> QED
    BY <2>1, <1>2
<1> QED
  BY <1>3 DEF Max

\* usable_top is an upper bound of the usable frames, and the model has a bit
\* for each of them; frame 0 is not usable.
LEMMA UsableTopBounds ==
  ASSUME NEW map \in MemMaps
  PROVE  /\ usable_top(map) \in 1 .. Limit
         /\ \A f \in UsableFrames(map) : f \in 1 .. usable_top(map) - 1
<1> DEFINE tops == {e.base + e.length : e \in UsableEntries(map)}
<1>1. \A e \in UsableEntries(map) : e.base \in Nat \ {0} /\ e.length \in Nat
  <2> TAKE e \in UsableEntries(map)
  <2>1. PICK i \in DOMAIN map : e = map[i]
    BY DEF UsableEntries
  <2>2. e \in Entry
    BY <2>1, MemMapAssumption
  <2>3. e.base > 0
    BY MemMapAssumption
  <2> QED
    BY <2>2, <2>3 DEF Entry
<1>2. PICK e0 \in UsableEntries(map) : TRUE
  BY MemMapAssumption
<1>3. tops \in SUBSET Nat /\ tops # {} /\ \A k \in tops : k <= Limit
  BY <1>1, <1>2, LimitAssumption
<1>4. Max(tops) \in tops /\ \A k \in tops : Max(tops) >= k
  BY <1>3, MaxOfBoundedNaturals, ConstantAssumption
<1>5. usable_top(map) \in tops /\ \A k \in tops : usable_top(map) >= k
  BY <1>4 DEF usable_top
<1>6. usable_top(map) \in 1 .. Limit
  BY <1>1, <1>3, <1>5, ConstantAssumption
<1>7. ASSUME NEW f \in UsableFrames(map) PROVE f \in 1 .. usable_top(map) - 1
  <2>1. PICK e \in UsableEntries(map) : f \in e.base .. e.base + e.length - 1
    BY DEF UsableFrames, EntryFrames
  <2>2. e.base + e.length <= usable_top(map)
    BY <1>1, <1>5, <1>6
  <2> QED
    BY <1>1, <1>6, <2>1, <2>2
<1> QED
  BY <1>6, <1>7

\* start_idx is where the run of free bits begins.
LEMMA RunStartIs ==
  ASSUME NEW bits, NEW from \in Nat, NEW last \in Nat, from <= last, ~bits[last],
         \A i \in from .. last : bits[i] \in BOOLEAN
  PROVE  /\ RunStart(bits, from, last) \in from .. last
         /\ ~bits[RunStart(bits, from, last)]
         /\ \A i \in RunStart(bits, from, last) .. last : ~bits[i]
         /\ RunStart(bits, from, last) = from \/ bits[RunStart(bits, from, last) - 1]
<1> DEFINE free == {s \in from .. last : \A i \in s .. last : ~bits[i]}
           m == Min(free)
<1>1. free \in SUBSET Nat /\ last \in free
  OBVIOUS
<1>2. m \in free /\ \A k \in free : m <= k
  <2> HIDE DEF free
  <2> QED  BY <1>1, MinOfNaturals
<1> HIDE DEF m
<1>3. m = from \/ bits[m - 1]
  <2> SUFFICES ASSUME m # from, ~bits[m - 1] PROVE FALSE
    BY <1>2
  <2>1. m - 1 \in free /\ ~(m <= m - 1)
    BY <1>2
  <2> QED  BY <1>2, <2>1
<1>4. \E s \in from .. last : (\A i \in s .. last : ~bits[i]) /\ (s = from \/ bits[s - 1])
  BY <1>2, <1>3
<1>5. /\ RunStart(bits, from, last) \in from .. last
      /\ \A i \in RunStart(bits, from, last) .. last : ~bits[i]
      /\ RunStart(bits, from, last) = from \/ bits[RunStart(bits, from, last) - 1]
  BY <1>4, Zenon DEF RunStart
<1> QED  BY <1>5

\* Whatever is asked for, the scan finds the beginning of a run of free bits,
\* or nothing.
LEMMA ScanFinds ==
  ASSUME NEW bits \in [0 .. Limit - 1 -> BOOLEAN], NEW from \in Nat,
         NEW max \in 0 .. Limit, NEW count
  PROVE  LET s == pmem_scan(bits, from, max, count)
         IN  \/ s = -1
             \/ s \in from .. max - 1 /\ ~bits[s] /\ (s = from \/ bits[s - 1])
<1> DEFINE stop == StopBits(bits, from, max, count)
           free == FreeBits(bits, from, max)
<1>1. max \in Int /\ Limit \in Nat /\ max <= Limit
  BY ConstantAssumption
<1>2. ASSUME NEW last \in free
      PROVE  LET s == RunStart(bits, from, last)
             IN  s \in from .. max - 1 /\ ~bits[s] /\ (s = from \/ bits[s - 1])
  <2>1. last \in Nat /\ from <= last /\ last <= max - 1 /\ ~bits[last]
    BY <1>1 DEF FreeBits
  <2>2. \A i \in from .. last : bits[i] \in BOOLEAN
    BY <1>1, <2>1
  <2>3. /\ RunStart(bits, from, last) \in from .. last
        /\ ~bits[RunStart(bits, from, last)]
        /\ RunStart(bits, from, last) = from \/ bits[RunStart(bits, from, last) - 1]
    BY <2>1, <2>2, RunStartIs
  <2> QED  BY <1>1, <2>1, <2>3
<1>3. CASE stop # {}
  <2>1. stop \in SUBSET free /\ free \in SUBSET Nat
    BY <1>1 DEF StopBits, FreeBits
  <2>2. Min(stop) \in free
    <3> HIDE DEF stop, free
    <3> QED  BY <1>3, <2>1, MinOfNaturals
  <2>3. pmem_scan(bits, from, max, count) = RunStart(bits, from, Min(stop))
    BY <1>3 DEF pmem_scan
  <2> HIDE DEF stop, free
  <2> QED  BY <1>2, <2>2, <2>3
<1>4. CASE stop = {}
  <2>1. pmem_scan(bits, from, max, count)
          = IF max - 1 \in free THEN RunStart(bits, from, max - 1) ELSE -1
    BY <1>4 DEF pmem_scan
  <2> HIDE DEF stop, free
  <2> QED  BY <1>2, <2>1
<1> QED  BY <1>3, <1>4

\* For at most one frame it finds nothing only when no bit is free.
LEMMA ScanForOne ==
  ASSUME NEW bits \in [0 .. Limit - 1 -> BOOLEAN], NEW from \in Nat,
         NEW max \in 0 .. Limit, NEW count \in {0, 1},
         pmem_scan(bits, from, max, count) = -1
  PROVE  FreeBits(bits, from, max) = {}
<1> DEFINE free == FreeBits(bits, from, max)
           stop == StopBits(bits, from, max, count)
<1>1. max \in Int /\ Limit \in Nat /\ max <= Limit
  BY ConstantAssumption
<1>2. stop = free
  <2>1. ASSUME NEW i \in free PROVE Cardinality(FreeBits(bits, from, i + 1)) >= count
    <3> DEFINE upto == FreeBits(bits, from, i + 1)
    <3>0. i \in Int /\ from <= i /\ ~bits[i]
      BY <1>1 DEF FreeBits
    <3>1. i \in upto /\ upto \in SUBSET (from .. i)
      BY <3>0 DEF FreeBits
    <3>2. IsFiniteSet(upto)
      <4>1. IsFiniteSet(from .. i)
        BY <3>0, FS_Interval
      <4> QED  BY <3>1, <4>1, FS_Subset
    <3>3. Cardinality(upto) \in Nat /\ Cardinality(upto) # 0
      BY <3>1, <3>2, FS_CardinalityType, FS_EmptySet
    <3> HIDE DEF upto
    <3>4. Cardinality(upto) >= count
      BY <3>3
    <3> QED  BY <3>4 DEF upto
  <2> QED  BY <2>1 DEF StopBits
<1>3. SUFFICES ASSUME free # {} PROVE FALSE
  OBVIOUS
<1>4. free \in SUBSET Nat
  BY <1>1 DEF FreeBits
<1>5. Min(free) \in free
  <2> HIDE DEF free
  <2> QED  BY <1>3, <1>4, MinOfNaturals
<1> DEFINE m == Min(free)
<1>6. pmem_scan(bits, from, max, count) = RunStart(bits, from, m)
  BY <1>2, <1>3 DEF pmem_scan
<1>7. m \in Nat /\ from <= m /\ m <= max - 1 /\ ~bits[m]
  <2> HIDE DEF m
  <2> QED  BY <1>1, <1>4, <1>5 DEF m, FreeBits
<1> HIDE DEF m, free, stop
<1>8. \A i \in from .. m : bits[i] \in BOOLEAN
  BY <1>1, <1>7
<1>9. RunStart(bits, from, m) \in from .. m
  BY <1>7, <1>8, RunStartIs
<1> QED  BY <1>6, <1>7, <1>9

\* There are no fewer free bits below a higher bound.
LEMMA FreeBitsGrow ==
  ASSUME NEW bits, NEW i \in Nat, NEW j \in Nat, i <= j
  PROVE  /\ IsFiniteSet(FreeBits(bits, 0, j))
         /\ Cardinality(FreeBits(bits, 0, i)) \in Nat
         /\ Cardinality(FreeBits(bits, 0, j)) \in Nat
         /\ Cardinality(FreeBits(bits, 0, i)) <= Cardinality(FreeBits(bits, 0, j))
<1> DEFINE A == FreeBits(bits, 0, i)
           B == FreeBits(bits, 0, j)
<1>1. A \in SUBSET B /\ B \in SUBSET (0 .. j - 1)
  BY DEF FreeBits
<1>2. IsFiniteSet(0 .. j - 1)
  BY FS_Interval
<1> HIDE DEF A, B
<1>3. IsFiniteSet(B)
  BY <1>1, <1>2, FS_Subset
<1>4. IsFiniteSet(A) /\ Cardinality(A) <= Cardinality(B)
  BY <1>1, <1>3, FS_Subset
<1>5. Cardinality(A) \in Nat /\ Cardinality(B) \in Nat
  BY <1>3, <1>4, FS_CardinalityType
<1> QED  BY <1>3, <1>4, <1>5 DEF A, B

\* A run of free bits counts for its length.
LEMMA RunCounts ==
  ASSUME NEW bits, NEW s \in Nat, NEW count \in Nat, \A i \in s .. s + count - 1 : ~bits[i]
  PROVE  Cardinality(FreeBits(bits, 0, s + count)) >= count
<1> DEFINE run == s .. s + count - 1
           free == FreeBits(bits, 0, s + count)
<1>1. run \in SUBSET free
  BY DEF FreeBits
<1>2. IsFiniteSet(free) /\ Cardinality(free) \in Nat
  BY FreeBitsGrow
<1>3. Cardinality(run) = count
  <2>1. Cardinality(s .. s + count - 1) = IF s > s + count - 1 THEN 0 ELSE (s + count - 1) - s + 1
    BY FS_Interval
  <2> QED  BY <2>1
<1> HIDE DEF run, free
<1>4. Cardinality(run) <= Cardinality(free)
  BY <1>1, <1>2, FS_Subset
<1> QED  BY <1>2, <1>3, <1>4 DEF free

\* What inc/mm/pmem.h promises of the scan: a region of free frames, or
\* nothing, when no frame is free.
ScanServes(bits, max, count) ==
  LET start == pmem_scan(bits, 0, max, count)
  IN  \/ start = -1 /\ FreeBits(bits, 0, max) = {}
      \/ /\ start \in 0 .. max - 1
         /\ start + count <= max
         /\ \A i \in start .. start + count - 1 : ~bits[i]

\* With room for the request, the count ends in the run.
LEMMA RoomServes ==
  ASSUME NEW bits \in [0 .. Limit - 1 -> BOOLEAN], NEW max \in 0 .. Limit,
         NEW count \in Nat, count > 1, NEW s \in 0 .. max - 1, RoomAt(bits, max, count, s)
  PROVE  ScanServes(bits, max, count)
<1> DEFINE stop == StopBits(bits, 0, max, count)
           e == s + count - 1
           m == Min(stop)
           r == RunStart(bits, 0, m)
<1>1. max \in Nat /\ Limit \in Nat /\ max <= Limit /\ s \in Nat /\ s + count <= max
  BY ConstantAssumption DEF RoomAt
<1>2. (\A i \in s .. s + count - 1 : ~bits[i]) /\ Cardinality(FreeBits(bits, 0, s)) < count
  BY DEF RoomAt
<1>3. e \in stop
  <2>1. Cardinality(FreeBits(bits, 0, s + count)) >= count
    BY <1>1, <1>2, RunCounts
  <2>2. e + 1 = s + count /\ e \in 0 .. max - 1 /\ ~bits[e]
    BY <1>1, <1>2
  <2> HIDE DEF e
  <2> QED  BY <2>1, <2>2 DEF StopBits, FreeBits
<1>4. stop \in SUBSET Nat
  BY <1>1 DEF StopBits, FreeBits
<1>5. m \in stop /\ m <= e
  <2> HIDE DEF stop, e
  <2> QED  BY <1>3, <1>4, MinOfNaturals
<1>6. m \in Nat /\ m <= max - 1 /\ ~bits[m] /\ Cardinality(FreeBits(bits, 0, m + 1)) >= count
  <2> HIDE DEF m
  <2> QED  BY <1>1, <1>5 DEF StopBits, FreeBits
<1>7. pmem_scan(bits, 0, max, count) = r
  BY <1>3, Zenon DEF pmem_scan
<1> HIDE DEF m, stop
<1>8. s <= m
  <2> SUFFICES ASSUME m + 1 <= s PROVE FALSE
    BY <1>1, <1>6
  <2>1. /\ Cardinality(FreeBits(bits, 0, m + 1)) \in Nat /\ Cardinality(FreeBits(bits, 0, s)) \in Nat
        /\ Cardinality(FreeBits(bits, 0, m + 1)) <= Cardinality(FreeBits(bits, 0, s))
    BY <1>1, <1>6, FreeBitsGrow
  <2> QED  BY <1>2, <1>6, <2>1
<1>9. r \in 0 .. m /\ (\A i \in r .. m : ~bits[i]) /\ (r = 0 \/ bits[r - 1])
  <2>1. \A i \in 0 .. m : bits[i] \in BOOLEAN
    BY <1>1, <1>6
  <2>2. 0 \in Nat /\ 0 <= m
    BY <1>6
  <2>3. /\ RunStart(bits, 0, m) \in 0 .. m
        /\ \A i \in RunStart(bits, 0, m) .. m : ~bits[i]
        /\ RunStart(bits, 0, m) = 0 \/ bits[RunStart(bits, 0, m) - 1]
    BY <1>6, <2>1, <2>2, RunStartIs
  <2> QED  BY <2>3
<1> HIDE DEF r
<1>10. r <= s
  <2> SUFFICES ASSUME s < r PROVE FALSE
    BY <1>1, <1>6, <1>9
  <2>1. r - 1 \in s .. s + count - 1
    BY <1>1, <1>5, <1>6, <1>9
  <2> QED  BY <1>1, <1>2, <1>9, <2>1
<1>11. \A i \in r .. r + count - 1 : ~bits[i]
  <2> TAKE i \in r .. r + count - 1
  <2>1. i \in r .. m \/ i \in s .. s + count - 1
    BY <1>1, <1>6, <1>8, <1>9, <1>10
  <2> QED  BY <1>2, <1>9, <2>1
<1>12. r \in 0 .. max - 1 /\ r + count <= max
  BY <1>1, <1>6, <1>9, <1>10
<1> QED  BY <1>7, <1>11, <1>12 DEF ScanServes

\* Where the scan gives a region of free bits, the region is the run.
LEMMA ServesHasRoom ==
  ASSUME NEW bits \in [0 .. Limit - 1 -> BOOLEAN], NEW max \in 0 .. Limit,
         NEW count \in Nat, count > 1, ScanServes(bits, max, count)
  PROVE  HasRoom(bits, max, count)
<1> DEFINE s == pmem_scan(bits, 0, max, count)
           stop == StopBits(bits, 0, max, count)
<1>1. max \in Nat /\ Limit \in Nat /\ max <= Limit
  BY ConstantAssumption
<1>2. SUFFICES ASSUME FreeBits(bits, 0, max) # {} PROVE RoomAt(bits, max, count, s) /\ s \in 0 .. max - 1
  BY DEF HasRoom
<1>3. s \in 0 .. max - 1 /\ s + count <= max /\ \A i \in s .. s + count - 1 : ~bits[i]
  BY <1>2 DEF ScanServes
<1> DEFINE e == s + count - 1
           m == Min(stop)
<1>4. e \in stop
  <2> HIDE DEF s
  <2>1. Cardinality(FreeBits(bits, 0, s + count)) >= count
    BY <1>1, <1>3, RunCounts
  <2>2. e + 1 = s + count /\ e \in 0 .. max - 1 /\ ~bits[e]
    BY <1>1, <1>3
  <2> HIDE DEF e
  <2> QED  BY <2>1, <2>2 DEF StopBits, FreeBits
<1>5. stop \in SUBSET Nat
  BY <1>1 DEF StopBits, FreeBits
<1>6. m \in stop /\ \A k \in stop : m <= k
  <2> HIDE DEF stop, e
  <2> QED  BY <1>4, <1>5, MinOfNaturals
<1>7. s = RunStart(bits, 0, m)
  BY <1>4, Zenon DEF pmem_scan
<1> HIDE DEF s
<1>8. m \in Nat /\ m <= max - 1 /\ ~bits[m]
  <2> HIDE DEF m
  <2> QED  BY <1>1, <1>6 DEF StopBits, FreeBits
<1>9. s <= m
  <2>1. \A i \in 0 .. m : bits[i] \in BOOLEAN
    BY <1>1, <1>8
  <2> HIDE DEF m
  <2>2. 0 \in Nat /\ 0 <= m
    BY <1>8
  <2>3. RunStart(bits, 0, m) \in 0 .. m
    BY <1>8, <2>1, <2>2, RunStartIs
  <2> QED  BY <1>7, <1>8, <2>3
<1> HIDE DEF m
<1>10. Cardinality(FreeBits(bits, 0, s)) < count
  <2> DEFINE free == FreeBits(bits, 0, s)
             last == Max(free)
  <2>0. Cardinality(free) \in Nat
    BY <1>1, <1>3, FreeBitsGrow
  <2>1. SUFFICES ASSUME Cardinality(free) >= count PROVE FALSE
    BY <2>0
  <2>2. free # {}
    <3> HIDE DEF free
    <3> QED  BY <2>1, FS_EmptySet
  <2>3. free \in SUBSET Nat /\ \A k \in free : k <= max
    BY <1>1, <1>3 DEF FreeBits
  <2>4. last \in free /\ \A k \in free : k <= last
    <3> HIDE DEF free
    <3>1. last \in free /\ \A k \in free : last >= k
      BY <1>1, <2>2, <2>3, MaxOfBoundedNaturals
    <3> QED  BY <2>3, <3>1
  <2> HIDE DEF last
  <2>5. last \in Nat /\ last < s /\ ~bits[last] /\ s \in Nat
    BY <1>1, <1>3, <2>4 DEF FreeBits
  <2>6. free = FreeBits(bits, 0, last + 1)
    BY <2>4, <2>5 DEF FreeBits
  <2>7. last \in stop
    <3>1. last \in FreeBits(bits, 0, max)
      BY <1>1, <1>3, <2>5 DEF FreeBits
    <3>2. Cardinality(FreeBits(bits, 0, last + 1)) >= count
      BY <2>1, <2>6
    <3> HIDE DEF free
    <3> QED  BY <3>1, <3>2 DEF StopBits
  <2> QED  BY <1>6, <1>8, <1>9, <2>5, <2>7
<1> QED  BY <1>3, <1>10 DEF RoomAt

\* The scan serves a request as inc/mm/pmem.h promises (a region of free frames,
\* or nothing when no frame is free) exactly when the request has room: when it
\* is for one frame, or there is a run of free frames long enough for it and
\* fewer free frames before that run than are asked for.  In every other state
\* of the bitmap it returns frames that are taken or do not exist, or fails with
\* frames left.
THEOREM ScanServesRoom ==
  ASSUME NEW bits \in [0 .. Limit - 1 -> BOOLEAN], NEW max \in 0 .. Limit, NEW count \in Nat
  PROVE  ScanServes(bits, max, count) <=> HasRoom(bits, max, count)
<1>1. CASE count > 1
  <2>1. ASSUME HasRoom(bits, max, count) PROVE ScanServes(bits, max, count)
    <3>1. CASE FreeBits(bits, 0, max) = {}
      <4>1. StopBits(bits, 0, max, count) = {}
        BY <3>1 DEF StopBits
      <4>2. pmem_scan(bits, 0, max, count) = -1
        BY <3>1, <4>1 DEF pmem_scan
      <4> QED  BY <3>1, <4>2 DEF ScanServes
    <3>2. ASSUME NEW s \in 0 .. max - 1, RoomAt(bits, max, count, s) PROVE ScanServes(bits, max, count)
      BY <1>1, <3>2, RoomServes
    <3> QED  BY <1>1, <2>1, <3>1, <3>2 DEF HasRoom
  <2> QED  BY <1>1, <2>1, ServesHasRoom
<1>2. CASE count \in {0, 1}
  <2> DEFINE s == pmem_scan(bits, 0, max, count)
  <2>1. HasRoom(bits, max, count)
    BY <1>2 DEF HasRoom
  <2>2. \/ s = -1
        \/ s \in 0 .. max - 1 /\ ~bits[s]
    BY ScanFinds
  <2>3. s = -1 => FreeBits(bits, 0, max) = {}
    BY <1>2, ScanForOne
  <2>4. max \in Int
    OBVIOUS
  <2> HIDE DEF s
  <2>5. \/ s = -1 /\ FreeBits(bits, 0, max) = {}
        \/ /\ s \in 0 .. max - 1
           /\ s + count <= max
           /\ \A i \in s .. s + count - 1 : ~bits[i]
    BY <1>2, <2>2, <2>3, <2>4
  <2>6. ScanServes(bits, max, count)
    BY <2>5 DEF ScanServes, s
  <2> QED  BY <2>1, <2>6
<1> QED  BY <1>1, <1>2

-----------------------------------------------------------------------------
(***************************************************************************)
(* What holds whatever is asked for and whatever was written over the      *)
(* bitmap.  LockInv: the lock is owned by the processor inside             *)
(* mm_pmem_alloc or mm_pmem_free, so at most one is.  ReqInv: a processor  *)
(* that marks or clears has a region.                                      *)
(***************************************************************************)
LockInv == \A c \in CPU : bitmap_lock = c <=> pc[c] # "idle"

ReqInv ==
  /\ last_bit = 0
  /\ \A c \in CPU : /\ pc[c] \in {"mark", "clear"} => req[c].start >= 0
                    /\ pc[c] # "idle" => phase = "up"
  /\ \A r \in live : r.start > 0 /\ phase = "up"

TypeInv == TypeOK /\ LockInv /\ ReqInv

\* The top of usable memory is inside the model.
LEMMA Tops ==
  ASSUME TypeOK
  PROVE  /\ memmap \in MemMaps
         /\ usable_top(memmap) \in Nat \ {0}
         /\ usable_top(memmap) <= Limit
         /\ Limit \in Nat
         /\ \A f \in UsableFrames(memmap) : f \in 1 .. usable_top(memmap) - 1
<1>1. memmap \in MemMaps
  BY DEF TypeOK
<1>2. /\ usable_top(memmap) \in 1 .. Limit
      /\ \A f \in UsableFrames(memmap) : f \in 1 .. usable_top(memmap) - 1
  BY <1>1, UsableTopBounds
<1>3. Limit \in Nat
  BY ConstantAssumption
<1> QED  BY <1>1, <1>2, <1>3

\* A region has a start below the top of usable memory, and a size.
LEMMA RegionNumbers ==
  ASSUME TypeOK, NEW r \in Region
  PROVE  /\ r.start \in Int /\ -1 <= r.start /\ r.start <= usable_top(memmap) - 1
         /\ r.count \in Nat
<1>1. usable_top(memmap) \in Nat
  BY Tops
<1>2. r.start \in -1 .. usable_top(memmap) - 1 /\ r.count \in Counts \cup {0}
  BY DEF Region
<1>3. r.start \in Int /\ -1 <= r.start /\ r.start <= usable_top(memmap) - 1
  BY <1>1, <1>2
<1>4. r.count \in Nat
  <2>1. Counts \subseteq Nat
    BY ConstantAssumption
  <2>2. r.count \in Counts \/ r.count = 0
    BY <1>2
  <2>3. 0 \in Nat
    OBVIOUS
  <2> QED  BY <2>1, <2>2, <2>3, Zenon
<1> QED  BY <1>3, <1>4

\* bitmap_set_range on the frames of a region marks them, or clears them.
LEMMA SetRangeBits ==
  ASSUME NEW bits \in [0 .. Limit - 1 -> BOOLEAN],
         NEW r, r.start \in Int, r.count \in Int, NEW i \in 0 .. Limit - 1
  PROVE  /\ bitmap_set_range(bits, r.start, r.start + r.count, TRUE)[i]
               <=> i \in Frames(r) \/ bits[i]
         /\ bitmap_set_range(bits, r.start, r.start + r.count, FALSE)[i]
               <=> i \notin Frames(r) /\ bits[i]
<1>1. i \in Frames(r) <=> i \in r.start .. (r.start + r.count) - 1
  BY DEF Frames
<1>2. bits[i] \in BOOLEAN
  OBVIOUS
<1> QED
  BY <1>1, <1>2, ConstantAssumption DEF bitmap_set_range

\* The processor in the lock is alone in it.
LEMMA OthersIdle ==
  ASSUME LockInv, NEW c \in CPU, pc[c] # "idle"
  PROVE  bitmap_lock = c /\ \A d \in CPU : d # c => pc[d] = "idle"
BY DEF LockInv

\* The initial states satisfy it.
LEMMA InitTyped == Init => TypeInv
<1> SUFFICES ASSUME Init PROVE TypeInv
  OBVIOUS
<1>1. usable_top(memmap) \in 1 .. Limit
  BY UsableTopBounds DEF Init
<1>2. NoReq \in Region
  BY <1>1, ConstantAssumption DEF NoReq, Region
<1>3. req \in [CPU -> Region] /\ live \subseteq Region
  BY <1>2 DEF Init
<1>4. memmap \in MemMaps /\ bitmap \in [0 .. Limit - 1 -> BOOLEAN]
  BY DEF Init
<1>5. pc \in [CPU -> {"idle", "scan", "mark", "unlock", "clear", "unlock_free"}]
  BY DEF Init
<1>6. attempt \in [CPU -> 0 .. 2] /\ last_bit \in Nat
  BY DEF Init
<1>7. phase \in {"boot", "up"} /\ bitmap_lock \in CPU \cup {NoCPU} /\ scribbled \in BOOLEAN
  BY DEF Init
<1>8. TypeOK
  BY <1>3, <1>4, <1>5, <1>6, <1>7 DEF TypeOK
<1> QED
  BY <1>8, ConstantAssumption DEF Init, TypeInv, LockInv, ReqInv

\* mm_pmem_init.
LEMMA MmPmemInitTyped ==
  ASSUME TypeInv, MmPmemInit
  PROVE  TypeInv'
<1> USE DEF TypeInv
<1>1. TypeOK'
  BY DEF TypeOK, MmPmemInit, Region, pmem_fill_bitmap
<1>2. LockInv' /\ ReqInv'
  BY DEF LockInv, ReqInv, MmPmemInit
<1> QED  BY <1>1, <1>2

\* Taking the lock for an allocation, when nobody is in it.
LEMMA AcquireAllocTyped ==
  ASSUME TypeInv, NEW c \in CPU, NEW count \in Counts, AcquireAlloc(c, count)
  PROVE  TypeInv' /\ \A d \in CPU : pc[d] = "idle" /\ pc'[d] \in {"idle", "scan"}
<1> USE DEF TypeInv
<1>1. bitmap_lock = NoCPU /\ bitmap_lock' = c
  BY DEF AcquireAlloc, Lock!Acquire
<1>2. \A d \in CPU : pc[d] = "idle"
  BY <1>1, ConstantAssumption DEF LockInv
<1>3. pc' = [pc EXCEPT ![c] = "scan"] /\ pc \in [CPU -> {"idle", "scan", "mark", "unlock", "clear", "unlock_free"}]
  BY DEF AcquireAlloc, TypeOK
<1>4. LockInv'
  BY <1>1, <1>2, <1>3 DEF LockInv
<1>5. req' \in [CPU -> Region]
  <2>1. [start |-> -1, count |-> count] \in Region
    <3>1. usable_top(memmap) \in Nat
      BY Tops
    <3> QED  BY <3>1 DEF Region
  <2> QED  BY <2>1 DEF AcquireAlloc, TypeOK
<1>6. TypeOK'
  BY <1>1, <1>3, <1>5 DEF TypeOK, AcquireAlloc, shared, Region
<1>7. ReqInv'
  BY <1>2, <1>3 DEF ReqInv, AcquireAlloc, shared
<1> QED  BY <1>2, <1>3, <1>4, <1>6, <1>7

\* Taking the lock to free a region.
LEMMA AcquireFreeTyped ==
  ASSUME TypeInv, NEW c \in CPU, NEW r \in live, AcquireFree(c, r)
  PROVE  /\ TypeInv'
         /\ \A d \in CPU : pc[d] = "idle"
         /\ pc' = [pc EXCEPT ![c] = "clear"]
<1> USE DEF TypeInv
<1>1. bitmap_lock = NoCPU /\ bitmap_lock' = c
  BY DEF AcquireFree, Lock!Acquire
<1>2. \A d \in CPU : pc[d] = "idle"
  BY <1>1, ConstantAssumption DEF LockInv
<1>3. pc' = [pc EXCEPT ![c] = "clear"] /\ pc \in [CPU -> {"idle", "scan", "mark", "unlock", "clear", "unlock_free"}]
  BY DEF AcquireFree, TypeOK
<1>4. LockInv'
  BY <1>1, <1>2, <1>3 DEF LockInv
<1>5. req' = [req EXCEPT ![c] = r] /\ r \in Region /\ r.start > 0 /\ phase = "up"
  BY DEF AcquireFree, TypeOK, ReqInv
<1>6. r.start >= 0
  BY <1>5, RegionNumbers
<1>7. TypeOK'
  BY <1>1, <1>3, <1>5 DEF TypeOK, AcquireFree, shared, Region
<1>8. ReqInv'
  BY <1>2, <1>3, <1>5, <1>6 DEF ReqInv, AcquireFree, shared, TypeOK
<1> QED  BY <1>2, <1>3, <1>4, <1>7, <1>8

\* What the scan does.
LEMMA ScanDoes ==
  ASSUME TypeInv, NEW c \in CPU, Scan(c)
  PROVE  /\ pc[c] = "scan" /\ \A d \in CPU : d # c => pc[d] = "idle"
         /\ UNCHANGED <<bitmap, bitmap_lock, live, memmap, phase, scribbled>>
         /\ last_bit' = 0
         /\ attempt' \in [CPU -> 0 .. 2]
         /\ req' = [req EXCEPT ![c].start = req'[c].start]
         /\ req'[c].start = pmem_scan(bitmap, 0, usable_top(memmap), req[c].count)
         /\ \/ /\ req'[c].start = -1
               /\ pc' = [pc EXCEPT ![c] = "scan"] \/ pc' = [pc EXCEPT ![c] = "unlock"]
            \/ /\ req'[c].start \in 0 .. usable_top(memmap) - 1
               /\ ~bitmap[req'[c].start]
               /\ req'[c].start = 0 \/ bitmap[req'[c].start - 1]
               /\ pc' = [pc EXCEPT ![c] = "mark"]
<1> DEFINE top == usable_top(memmap)
           start == pmem_scan(bitmap, last_bit, top, req[c].count)
<1> USE DEF TypeInv
<1>1. pc[c] = "scan" /\ \A d \in CPU : d # c => pc[d] = "idle"
  BY OthersIdle DEF Scan
<1>2. req' = [req EXCEPT ![c].start = start] /\ UNCHANGED <<bitmap, bitmap_lock, live, memmap, phase, scribbled>>
  BY DEF Scan, shared
<1>3. last_bit = 0 /\ start = pmem_scan(bitmap, 0, top, req[c].count)
  BY DEF ReqInv
<1>4. \/ start = -1
      \/ start \in 0 .. top - 1 /\ ~bitmap[start] /\ (start = 0 \/ bitmap[start - 1])
  <2>1. bitmap \in [0 .. Limit - 1 -> BOOLEAN] /\ 0 \in Nat /\ top \in 0 .. Limit
    <3>1. top \in Nat /\ top <= Limit /\ Limit \in Nat
      BY Tops
    <3> HIDE DEF top
    <3> QED  BY <3>1 DEF TypeOK
  <2> DEFINE s == pmem_scan(bitmap, 0, top, req[c].count)
  <2>2. \/ s = -1
        \/ s \in 0 .. top - 1 /\ ~bitmap[s] /\ (s = 0 \/ bitmap[s - 1])
    BY <2>1, ScanFinds
  <2>3. start = s
    BY <1>3
  <2> HIDE DEF top, start, s
  <2> QED  BY <2>2, <2>3
<1>5. /\ start < 0 => Returned(c, start)
      /\ ~(start < 0) => pc' = [pc EXCEPT ![c] = "mark"] /\ UNCHANGED <<last_bit, attempt>>
  BY DEF Scan
<1> HIDE DEF start
<1>6. req'[c].start = start
  <2>1. req[c] \in Region
    BY DEF TypeOK
  <2> QED  BY <1>2, <2>1 DEF TypeOK, Region
<1>7. top \in Nat
  BY Tops
<1> HIDE DEF top
<1>8. CASE start = -1
  <2>1. Returned(c, start)
    BY <1>5, <1>8
  <2>2. \/ last_bit' = 0 /\ attempt' = [attempt EXCEPT ![c] = 2] /\ pc' = [pc EXCEPT ![c] = "scan"]
        \/ last_bit' = last_bit /\ attempt' = attempt /\ pc' = [pc EXCEPT ![c] = "unlock"]
    BY <2>1 DEF Returned
  <2>3. attempt' \in [CPU -> 0 .. 2] /\ last_bit' = 0
    BY <2>2, <1>3 DEF TypeOK
  <2> QED  BY <1>1, <1>2, <1>3, <1>6, <1>8, <2>2, <2>3 DEF top
<1>9. CASE start # -1
  <2>1. start \in 0 .. top - 1 /\ ~bitmap[start] /\ (start = 0 \/ bitmap[start - 1])
    BY <1>4, <1>9
  <2>2. ~(start < 0)
    BY <1>7, <2>1
  <2>3. pc' = [pc EXCEPT ![c] = "mark"] /\ attempt' \in [CPU -> 0 .. 2] /\ last_bit' = 0
    BY <1>3, <1>5, <2>2 DEF TypeOK
  <2> QED  BY <1>1, <1>2, <1>3, <1>6, <2>1, <2>3 DEF top
<1> QED  BY <1>8, <1>9

LEMMA ScanTyped ==
  ASSUME TypeInv, NEW c \in CPU, Scan(c)
  PROVE  TypeInv'
<1> USE DEF TypeInv
<1> DEFINE start == req'[c].start
<1>1. /\ pc[c] = "scan" /\ \A d \in CPU : d # c => pc[d] = "idle"
      /\ UNCHANGED <<bitmap, bitmap_lock, live, memmap, phase, scribbled>>
      /\ last_bit' = 0 /\ attempt' \in [CPU -> 0 .. 2]
      /\ req' = [req EXCEPT ![c].start = start]
  BY ScanDoes
<1>2. \/ start = -1 /\ (pc' = [pc EXCEPT ![c] = "scan"] \/ pc' = [pc EXCEPT ![c] = "unlock"])
      \/ start \in 0 .. usable_top(memmap) - 1 /\ pc' = [pc EXCEPT ![c] = "mark"]
  BY ScanDoes
<1>3. usable_top(memmap) \in Nat
  BY Tops
<1> HIDE DEF start
<1>4. start \in -1 .. usable_top(memmap) - 1
  BY <1>2, <1>3
<1>5. req' \in [CPU -> Region]
  <2>1. req[c] \in Region
    BY DEF TypeOK
  <2>2. [req[c] EXCEPT !.start = start] \in Region
    BY <1>4, <2>1 DEF Region
  <2>3. req \in [CPU -> Region]
    BY DEF TypeOK
  <2> QED  BY <1>1, <2>2, <2>3
<1>6. /\ pc \in [CPU -> {"idle", "scan", "mark", "unlock", "clear", "unlock_free"}]
      /\ pc' \in [CPU -> {"idle", "scan", "mark", "unlock", "clear", "unlock_free"}]
  BY <1>2 DEF TypeOK
<1>7. TypeOK'
  <2>1. Region' = Region
    BY <1>1 DEF Region
  <2> QED  BY <1>1, <1>5, <1>6, <2>1 DEF TypeOK
<1>8. LockInv'
  BY <1>1, <1>2, <1>6 DEF LockInv
<1>9. ReqInv'
  <2>1. \A d \in CPU : pc'[d] \in {"mark", "clear"} => d = c /\ start \in 0 .. usable_top(memmap) - 1
    BY <1>1, <1>2, <1>6
  <2>2. \A d \in CPU : pc'[d] \in {"mark", "clear"} => req'[d].start >= 0
    BY <1>3, <2>1 DEF start
  <2>3. \A d \in CPU : pc'[d] # "idle" => phase' = "up"
    BY <1>1, <1>2, <1>6 DEF ReqInv
  <2> QED  BY <1>1, <2>2, <2>3 DEF ReqInv
<1> QED  BY <1>7, <1>8, <1>9

\* What the marking does.
LEMMA MarkDoes ==
  ASSUME TypeInv, NEW c \in CPU, Mark(c)
  PROVE  /\ pc[c] = "mark" /\ \A d \in CPU : d # c => pc[d] = "idle"
         /\ UNCHANGED <<req, live, bitmap_lock, memmap, phase, scribbled>>
         /\ last_bit' = 0
         /\ attempt' \in [CPU -> 0 .. 2]
         /\ req[c].start \in 0 .. usable_top(memmap) - 1
         /\ bitmap' \in [0 .. Limit - 1 -> BOOLEAN]
         /\ \A i \in 0 .. Limit - 1 : bitmap'[i] <=> i \in Frames(req[c]) \/ bitmap[i]
         /\ \/ req[c].start = 0 /\ pc' = [pc EXCEPT ![c] = "scan"]
            \/ pc' = [pc EXCEPT ![c] = "unlock"]
<1> USE DEF TypeInv
<1>1. pc[c] = "mark" /\ \A d \in CPU : d # c => pc[d] = "idle"
  BY OthersIdle DEF Mark
<1>2. /\ UNCHANGED <<req, live, bitmap_lock, memmap, phase, scribbled>>
      /\ bitmap' = bitmap_set_range(bitmap, req[c].start, req[c].start + req[c].count, TRUE)
      /\ Returned(c, req[c].start)
  BY DEF Mark, MarkRegion, shared
<1>3. /\ req[c].start \in Int /\ req[c].start <= usable_top(memmap) - 1 /\ req[c].start >= 0
      /\ req[c].count \in Int
  <2>1. req[c] \in Region
    BY DEF TypeOK
  <2>2. req[c].start >= 0
    BY <1>1 DEF ReqInv
  <2>3. /\ req[c].start \in Int /\ req[c].start <= usable_top(memmap) - 1
        /\ req[c].count \in Nat
    BY <2>1, RegionNumbers
  <2> QED  BY <2>2, <2>3
<1>4. usable_top(memmap) \in Nat
  BY Tops
<1>5. req[c].start \in 0 .. usable_top(memmap) - 1
  BY <1>3, <1>4
<1>6. bitmap \in [0 .. Limit - 1 -> BOOLEAN]
  BY DEF TypeOK
<1>7. bitmap' \in [0 .. Limit - 1 -> BOOLEAN]
  BY <1>2, <1>6 DEF bitmap_set_range
<1>8. \A i \in 0 .. Limit - 1 : bitmap'[i] <=> i \in Frames(req[c]) \/ bitmap[i]
  BY <1>2, <1>3, <1>6, SetRangeBits
<1>9. last_bit = 0 /\ attempt \in [CPU -> 0 .. 2]
  BY DEF ReqInv, TypeOK
<1>10. CASE Retries(c, req[c].start)
  <2>1. /\ last_bit' = 0 /\ attempt' = [attempt EXCEPT ![c] = 2]
        /\ pc' = [pc EXCEPT ![c] = "scan"]
    BY <1>2, <1>10 DEF Returned
  <2>2. req[c].start = 0
    BY <1>3, <1>10 DEF Retries
  <2>3. attempt' \in [CPU -> 0 .. 2]
    BY <1>9, <2>1
  <2> QED  BY <1>1, <1>2, <1>5, <1>7, <1>8, <2>1, <2>2, <2>3
<1>11. CASE ~Retries(c, req[c].start)
  <2>1. pc' = [pc EXCEPT ![c] = "unlock"] /\ UNCHANGED <<last_bit, attempt>>
    BY <1>2, <1>11 DEF Returned
  <2> QED  BY <1>1, <1>2, <1>5, <1>7, <1>8, <1>9, <2>1
<1> QED  BY <1>10, <1>11

LEMMA MarkTyped ==
  ASSUME TypeInv, NEW c \in CPU, Mark(c)
  PROVE  TypeInv'
<1> USE DEF TypeInv
<1>1. /\ pc[c] = "mark" /\ \A d \in CPU : d # c => pc[d] = "idle"
      /\ UNCHANGED <<req, live, bitmap_lock, memmap, phase, scribbled>>
      /\ last_bit' = 0 /\ attempt' \in [CPU -> 0 .. 2]
      /\ bitmap' \in [0 .. Limit - 1 -> BOOLEAN]
      /\ pc' = [pc EXCEPT ![c] = "scan"] \/ pc' = [pc EXCEPT ![c] = "unlock"]
  BY MarkDoes
<1>2. /\ pc \in [CPU -> {"idle", "scan", "mark", "unlock", "clear", "unlock_free"}]
      /\ pc' \in [CPU -> {"idle", "scan", "mark", "unlock", "clear", "unlock_free"}]
  BY <1>1 DEF TypeOK
<1>3. TypeOK'
  <2>1. Region' = Region
    BY <1>1 DEF Region
  <2> QED  BY <1>1, <1>2, <2>1 DEF TypeOK
<1>4. LockInv'
  BY <1>1, <1>2 DEF LockInv
<1>5. \A d \in CPU : pc'[d] \notin {"mark", "clear"} /\ (pc'[d] # "idle" => pc[d] # "idle")
  BY <1>1, <1>2
<1>6. ReqInv'
  BY <1>1, <1>5 DEF ReqInv
<1> QED  BY <1>3, <1>4, <1>6

\* Leaving mm_pmem_alloc.
LEMMA ReleaseAllocTyped ==
  ASSUME TypeInv, NEW c \in CPU, ReleaseAlloc(c)
  PROVE  /\ TypeInv'
         /\ pc[c] = "unlock" /\ \A d \in CPU : d # c => pc[d] = "idle"
         /\ \A d \in CPU : pc'[d] = "idle"
<1> USE DEF TypeInv
<1>1. pc[c] = "unlock" /\ \A d \in CPU : d # c => pc[d] = "idle"
  BY OthersIdle DEF ReleaseAlloc
<1>2. /\ UNCHANGED <<memmap, phase, scribbled, bitmap, last_bit>>
      /\ bitmap_lock' = NoCPU
      /\ pc' = [pc EXCEPT ![c] = "idle"]
      /\ req' = [req EXCEPT ![c] = NoReq]
      /\ attempt' = [attempt EXCEPT ![c] = 0]
      /\ live' = IF req[c].start > 0 THEN live \cup {req[c]} ELSE live
  BY DEF ReleaseAlloc, Lock!Release, shared
<1>3. pc \in [CPU -> {"idle", "scan", "mark", "unlock", "clear", "unlock_free"}]
  BY DEF TypeOK
<1>4. \A d \in CPU : pc'[d] = "idle"
  BY <1>1, <1>2, <1>3
<1>5. TypeOK'
  <2>1. NoReq \in Region
    <3>1. usable_top(memmap) \in Nat
      BY Tops
    <3> QED  BY <3>1 DEF NoReq, Region
  <2>2. req' \in [CPU -> Region] /\ live' \subseteq Region
    BY <1>2, <2>1 DEF TypeOK
  <2>3. Region' = Region
    BY <1>2 DEF Region
  <2>4. attempt' \in [CPU -> 0 .. 2]
    BY <1>2 DEF TypeOK
  <2>5. pc' \in [CPU -> {"idle", "scan", "mark", "unlock", "clear", "unlock_free"}]
    BY <1>2, <1>3
  <2> QED  BY <1>2, <2>2, <2>3, <2>4, <2>5 DEF TypeOK
<1>6. LockInv'
  BY <1>2, <1>4, ConstantAssumption DEF LockInv
<1>7. ReqInv'
  <2>1. phase = "up"
    BY <1>1 DEF ReqInv
  <2>2. \A r \in live' : r.start > 0 /\ phase' = "up"
    BY <1>2, <2>1 DEF ReqInv
  <2>3. last_bit' = 0
    BY <1>2 DEF ReqInv
  <2> QED  BY <1>4, <2>2, <2>3 DEF ReqInv
<1> QED  BY <1>1, <1>4, <1>5, <1>6, <1>7

\* What clearing the bits does.
LEMMA ClearDoes ==
  ASSUME TypeInv, NEW c \in CPU, Clear(c)
  PROVE  /\ pc[c] = "clear" /\ \A d \in CPU : d # c => pc[d] = "idle"
         /\ \A d \in CPU : pc'[d] \in {"idle", "unlock_free"}
         /\ UNCHANGED <<memmap, phase, scribbled, live>>
         /\ \A i \in 0 .. Limit - 1 : bitmap'[i] <=> i \notin Frames(req[c]) /\ bitmap[i]
         /\ TypeInv'
<1> USE DEF TypeInv
<1>1. pc[c] = "clear" /\ \A d \in CPU : d # c => pc[d] = "idle"
  BY OthersIdle DEF Clear
<1>2. /\ UNCHANGED <<memmap, phase, scribbled, last_bit, bitmap_lock, req, attempt, live>>
      /\ bitmap' = bitmap_set_range(bitmap, req[c].start, req[c].start + req[c].count, FALSE)
      /\ pc' = [pc EXCEPT ![c] = "unlock_free"]
  BY DEF Clear, shared
<1>3. pc \in [CPU -> {"idle", "scan", "mark", "unlock", "clear", "unlock_free"}]
  BY DEF TypeOK
<1>4. \A d \in CPU : pc'[d] \in {"idle", "unlock_free"}
  BY <1>1, <1>2, <1>3
<1>5. bitmap \in [0 .. Limit - 1 -> BOOLEAN]
  BY DEF TypeOK
<1>6. \A i \in 0 .. Limit - 1 : bitmap'[i] <=> i \notin Frames(req[c]) /\ bitmap[i]
  <2>1. req[c] \in Region
    BY DEF TypeOK
  <2>2. req[c].start \in Int /\ req[c].count \in Int
    BY <2>1, RegionNumbers
  <2> QED  BY <1>2, <1>5, <2>2, SetRangeBits
<1>7. TypeOK'
  <2>1. bitmap' \in [0 .. Limit - 1 -> BOOLEAN]
    BY <1>2, <1>5 DEF bitmap_set_range
  <2>2. Region' = Region
    BY <1>2 DEF Region
  <2>3. pc' \in [CPU -> {"idle", "scan", "mark", "unlock", "clear", "unlock_free"}]
    BY <1>2, <1>3
  <2> QED  BY <1>2, <2>1, <2>2, <2>3 DEF TypeOK
<1>8. LockInv'
  BY <1>1, <1>2, <1>3 DEF LockInv
<1>9. ReqInv'
  BY <1>1, <1>2, <1>4 DEF ReqInv
<1> QED  BY <1>1, <1>2, <1>4, <1>6, <1>7, <1>8, <1>9

\* Leaving mm_pmem_free.
LEMMA ReleaseFreeTyped ==
  ASSUME TypeInv, NEW c \in CPU, ReleaseFree(c)
  PROVE  /\ TypeInv'
         /\ pc[c] = "unlock_free" /\ \A d \in CPU : d # c => pc[d] = "idle"
         /\ \A d \in CPU : pc'[d] = "idle"
<1> USE DEF TypeInv
<1>1. pc[c] = "unlock_free" /\ \A d \in CPU : d # c => pc[d] = "idle"
  BY OthersIdle DEF ReleaseFree
<1>2. /\ UNCHANGED <<memmap, phase, scribbled, bitmap, last_bit, attempt, live>>
      /\ bitmap_lock' = NoCPU
      /\ pc' = [pc EXCEPT ![c] = "idle"]
      /\ req' = [req EXCEPT ![c] = NoReq]
  BY DEF ReleaseFree, Lock!Release, shared
<1>3. pc \in [CPU -> {"idle", "scan", "mark", "unlock", "clear", "unlock_free"}]
  BY DEF TypeOK
<1>4. \A d \in CPU : pc'[d] = "idle"
  BY <1>1, <1>2, <1>3
<1>5. TypeOK'
  <2>1. NoReq \in Region
    <3>1. usable_top(memmap) \in Nat
      BY Tops
    <3> QED  BY <3>1 DEF NoReq, Region
  <2>2. req' \in [CPU -> Region]
    BY <1>2, <2>1 DEF TypeOK
  <2>3. Region' = Region
    BY <1>2 DEF Region
  <2>4. pc' \in [CPU -> {"idle", "scan", "mark", "unlock", "clear", "unlock_free"}]
    BY <1>2, <1>3
  <2> QED  BY <1>2, <2>2, <2>3, <2>4 DEF TypeOK
<1>6. LockInv'
  BY <1>2, <1>4, ConstantAssumption DEF LockInv
<1>7. ReqInv'
  BY <1>2, <1>4 DEF ReqInv
<1> QED  BY <1>1, <1>4, <1>5, <1>6, <1>7

\* An owner that writes over bits of the bitmap.
LEMMA FillTyped ==
  ASSUME TypeInv, NEW r \in live, NEW value \in BOOLEAN, Fill(r, value)
  PROVE  TypeInv' /\ scribbled'
<1> USE DEF TypeInv
<1>1. UNCHANGED <<memmap, phase, last_bit, bitmap_lock, pc, req, attempt, live>> /\ scribbled' = TRUE
  BY DEF Fill
<1>2. bitmap' \in [0 .. Limit - 1 -> BOOLEAN]
  BY DEF Fill, TypeOK
<1>3. TypeOK'
  <2>1. Region' = Region
    BY <1>1 DEF Region
  <2> QED  BY <1>1, <1>2, <2>1 DEF TypeOK
<1>4. LockInv' /\ ReqInv'
  BY <1>1 DEF LockInv, ReqInv
<1> QED  BY <1>1, <1>3, <1>4

LEMMA StutterTyped ==
  ASSUME TypeInv, UNCHANGED vars
  PROVE  TypeInv'
BY DEF vars, TypeInv, TypeOK, LockInv, ReqInv, Region

\* Every step preserves it.
LEMMA NextTyped ==
  ASSUME TypeInv, [Next]_vars
  PROVE  TypeInv'
<1>1. CASE MmPmemInit
  BY <1>1, MmPmemInitTyped
<1>2. ASSUME NEW c \in CPU, Step(c) PROVE TypeInv'
  <2>1. ASSUME NEW count \in Counts, AcquireAlloc(c, count) PROVE TypeInv'
    BY <2>1, AcquireAllocTyped
  <2>2. ASSUME NEW r \in live, AcquireFree(c, r) PROVE TypeInv'
    BY <2>2, AcquireFreeTyped
  <2>3. CASE Scan(c)
    BY <2>3, ScanTyped
  <2>4. CASE Mark(c)
    BY <2>4, MarkTyped
  <2>5. CASE ReleaseAlloc(c)
    BY <2>5, ReleaseAllocTyped
  <2>6. CASE Clear(c)
    BY <2>6, ClearDoes
  <2>7. CASE ReleaseFree(c)
    BY <2>7, ReleaseFreeTyped
  <2> QED  BY <1>2, <2>1, <2>2, <2>3, <2>4, <2>5, <2>6, <2>7 DEF Step
<1>3. ASSUME NEW r \in live, NEW value \in BOOLEAN, Fill(r, value) PROVE TypeInv'
  BY <1>3, FillTyped
<1>4. CASE UNCHANGED vars
  BY <1>4, StutterTyped
<1> QED  BY <1>1, <1>2, <1>3, <1>4 DEF Next

-----------------------------------------------------------------------------
(***************************************************************************)
(* What the bits say for as long as nobody wrote over them.  BitsInv:      *)
(* owned regions are disjoint and usable, and below the top of usable      *)
(* memory exactly the frames that are owned or never were usable are       *)
(* marked.  FoundFree: a region about to be marked is free and usable to   *)
(* its end; every step but the scan itself preserves both.                 *)
(***************************************************************************)
Truth == phase = "up" /\ ~scribbled

\* The frames of a processor between the marking and its return, or between
\* the call of mm_pmem_free and the clearing.
Held(c) == IF c \in Returning \/ pc[c] = "clear" THEN Frames(req[c]) ELSE {}

BitsInv ==
  Truth =>
    /\ \A r, s \in live : r # s => Frames(r) \cap Frames(s) = {}
    /\ \A c \in CPU : \A r \in live : Held(c) \cap Frames(r) = {}
    /\ \A r \in live : Frames(r) \subseteq UsableFrames(memmap)
    /\ \A c \in CPU : Held(c) \subseteq UsableFrames(memmap)
    /\ \A i \in 0 .. usable_top(memmap) - 1 :
         bitmap[i] <=> \/ i \notin UsableFrames(memmap)
                       \/ \E r \in live : i \in Frames(r)
                       \/ \E c \in CPU : i \in Held(c)

FoundFree ==
  Truth => \A c \in CPU : pc[c] = "mark" =>
             /\ ~bitmap[req[c].start]
             /\ \A f \in Frames(req[c]) : f \in UsableFrames(memmap) /\ ~bitmap[f]

\* Frames below the top of usable memory have a bit; usable frames are there.
LEMMA TopBits ==
  ASSUME TypeOK
  PROVE  /\ \A i \in 0 .. usable_top(memmap) - 1 : i \in 0 .. Limit - 1
         /\ \A f \in UsableFrames(memmap) : f \in 0 .. usable_top(memmap) - 1
         /\ 0 \in 0 .. usable_top(memmap) - 1 /\ 0 \notin UsableFrames(memmap)
<1> DEFINE top == usable_top(memmap)
<1>1. top \in Nat \ {0} /\ top <= Limit /\ Limit \in Nat
  BY Tops
<1>2. \A f \in UsableFrames(memmap) : f \in 1 .. top - 1
  BY Tops
<1> HIDE DEF top
<1>3. /\ \A i \in 0 .. top - 1 : i \in 0 .. Limit - 1
      /\ \A f \in UsableFrames(memmap) : f \in 0 .. top - 1
      /\ 0 \in 0 .. top - 1 /\ 0 \notin UsableFrames(memmap)
  BY <1>1, <1>2
<1> QED  BY <1>3 DEF top

LEMMA InitBits == Init => BitsInv /\ FoundFree
BY DEF Init, BitsInv, FoundFree, Truth

\* mm_pmem_init tells the truth about every frame the bitmap describes.
LEMMA MmPmemInitBits ==
  ASSUME AllCovered, TypeInv, MmPmemInit
  PROVE  /\ BitsInv' /\ FoundFree'
         /\ \A c \in CPU : pc'[c] = "idle"
         /\ \A i \in 0 .. usable_top(memmap) - 1 : bitmap'[i] <=> i \notin UsableFrames(memmap)
<1> USE DEF TypeInv
<1>1. memmap \in MemMaps /\ memmap' = memmap
  BY DEF TypeOK, MmPmemInit
<1>2. live = {} /\ live' = {} /\ \A c \in CPU : pc[c] = "idle" /\ pc'[c] = "idle"
  BY DEF ReqInv, MmPmemInit
<1>3. \A c \in CPU : Held(c)' = {}
  BY <1>2 DEF Held, Returning
<1>4. \A i \in 0 .. usable_top(memmap) - 1 :
        bitmap'[i] <=> i \notin UsableFrames(memmap)
  <2> TAKE i \in 0 .. usable_top(memmap) - 1
  <2>1. InBitmap(memmap, i)
    BY <1>1 DEF AllCovered, Covered
  <2>2. i \in 0 .. Limit - 1
    BY TopBits
  <2>3. bitmap' = pmem_fill_bitmap(memmap, bitmap)
    BY DEF MmPmemInit
  <2> QED  BY <2>1, <2>2, <2>3 DEF pmem_fill_bitmap
<1>5. BitsInv'
  BY <1>1, <1>2, <1>3, <1>4 DEF BitsInv
<1>6. FoundFree'
  BY <1>2 DEF FoundFree
<1> QED  BY <1>2, <1>4, <1>5, <1>6

\* Taking the lock.
LEMMA AcquireBits ==
  ASSUME TypeInv, BitsInv, NEW c \in CPU,
         \/ \E count \in Counts : AcquireAlloc(c, count)
         \/ \E r \in live : AcquireFree(c, r)
  PROVE  BitsInv' /\ \A d \in CPU : pc'[d] \notin {"mark", "unlock"}
<1>1. ASSUME NEW count \in Counts, AcquireAlloc(c, count)
      PROVE BitsInv' /\ \A d \in CPU : pc'[d] \notin {"mark", "unlock"}
  <2>1. \A d \in CPU : pc[d] = "idle" /\ pc'[d] \in {"idle", "scan"}
    BY <1>1, AcquireAllocTyped
  <2>2. \A d \in CPU : Held(d) = {} /\ Held(d)' = {} /\ pc'[d] \notin {"mark", "unlock"}
    BY <2>1 DEF Held, Returning
  <2>3. UNCHANGED <<memmap, phase, scribbled, bitmap, live>>
    BY <1>1 DEF AcquireAlloc, shared
  <2>4. BitsInv'
    BY <2>2, <2>3 DEF BitsInv, Truth
  <2> QED  BY <2>2, <2>4
<1>2. ASSUME NEW r \in live, AcquireFree(c, r)
      PROVE BitsInv' /\ \A d \in CPU : pc'[d] \notin {"mark", "unlock"}
  <2>1. (\A d \in CPU : pc[d] = "idle") /\ pc' = [pc EXCEPT ![c] = "clear"]
    BY <1>2, AcquireFreeTyped
  <2>2. pc \in [CPU -> {"idle", "scan", "mark", "unlock", "clear", "unlock_free"}] /\ req \in [CPU -> Region]
    BY DEF TypeInv, TypeOK
  <2>3. /\ UNCHANGED <<memmap, phase, scribbled, bitmap>>
        /\ live' = live \ {r} /\ req' = [req EXCEPT ![c] = r]
    BY <1>2 DEF AcquireFree, shared
  <2>4. \A d \in CPU : Held(d) = {} /\ pc'[d] \notin {"mark", "unlock"}
    BY <2>1, <2>2 DEF Held, Returning
  <2>5. Held(c)' = Frames(r) /\ \A d \in CPU \ {c} : Held(d)' = {}
    BY <2>1, <2>2, <2>3 DEF Held, Returning
  <2>6. BitsInv'
    <3>1. SUFFICES ASSUME Truth PROVE BitsInv'
      BY <2>3 DEF BitsInv, Truth
    <3>2. /\ \A s, t \in live : s # t => Frames(s) \cap Frames(t) = {}
          /\ \A s \in live : Frames(s) \subseteq UsableFrames(memmap)
          /\ \A i \in 0 .. usable_top(memmap) - 1 :
               bitmap[i] <=> \/ i \notin UsableFrames(memmap)
                             \/ \E s \in live : i \in Frames(s)
      BY <3>1, <2>4 DEF BitsInv
    <3>3. \A i \in 0 .. usable_top(memmap) - 1 :
            bitmap[i] <=> \/ i \notin UsableFrames(memmap)
                          \/ \E s \in live' : i \in Frames(s)
                          \/ \E d \in CPU : i \in Held(d)'
      BY <3>2, <2>3, <2>5
    <3>4. \A d \in CPU : Held(d)' \subseteq UsableFrames(memmap)
      BY <3>2, <2>5
    <3>5. \A d \in CPU : \A s \in live' : Held(d)' \cap Frames(s) = {}
      BY <3>2, <2>3, <2>5
    <3> QED  BY <2>3, <3>2, <3>3, <3>4, <3>5 DEF BitsInv
  <2> QED  BY <2>4, <2>6
<1> QED  BY <1>1, <1>2

\* The scan changes no bit and hands nothing out.
LEMMA ScanBits ==
  ASSUME TypeInv, BitsInv, NEW c \in CPU, Scan(c)
  PROVE  BitsInv' /\ \A d \in CPU : pc'[d] \in {"mark", "unlock"} => d = c
<1>1. /\ pc[c] = "scan" /\ \A d \in CPU : d # c => pc[d] = "idle"
      /\ UNCHANGED <<bitmap, live, memmap, phase, scribbled>>
  BY ScanDoes
<1>2. \/ req'[c].start = -1 /\ (pc' = [pc EXCEPT ![c] = "scan"] \/ pc' = [pc EXCEPT ![c] = "unlock"])
      \/ pc' = [pc EXCEPT ![c] = "mark"]
  BY ScanDoes
<1>3. pc \in [CPU -> {"idle", "scan", "mark", "unlock", "clear", "unlock_free"}]
  BY DEF TypeInv, TypeOK
<1>4. \A d \in CPU : Held(d) = {} /\ Held(d)' = {}
  BY <1>1, <1>2, <1>3 DEF Held, Returning
<1>5. BitsInv'
  BY <1>1, <1>4 DEF BitsInv, Truth
<1> QED  BY <1>1, <1>2, <1>3, <1>5

\* Marking a region that is free keeps the truth.
LEMMA MarkBits ==
  ASSUME TypeInv, BitsInv, FoundFree, NEW c \in CPU, Mark(c)
  PROVE  /\ BitsInv'
         /\ \A d \in CPU : pc'[d] # "mark" /\ (pc'[d] = "unlock" => d = c)
         /\ Truth => req'[c].start > 0
<1> DEFINE top == usable_top(memmap)
<1>1. /\ pc[c] = "mark" /\ \A d \in CPU : d # c => pc[d] = "idle"
      /\ UNCHANGED <<req, live, memmap, phase, scribbled>>
      /\ req[c].start \in 0 .. top - 1
      /\ \A i \in 0 .. Limit - 1 : bitmap'[i] <=> i \in Frames(req[c]) \/ bitmap[i]
      /\ \/ req[c].start = 0 /\ pc' = [pc EXCEPT ![c] = "scan"]
         \/ pc' = [pc EXCEPT ![c] = "unlock"]
  BY MarkDoes
<1>2. pc \in [CPU -> {"idle", "scan", "mark", "unlock", "clear", "unlock_free"}]
  BY DEF TypeInv, TypeOK
<1>3. TypeOK /\ top \in Nat
  BY Tops DEF TypeInv
<1>4. \A d \in CPU : pc'[d] # "mark" /\ (pc'[d] = "unlock" => d = c)
  BY <1>1, <1>2
<1>5. ASSUME Truth PROVE req[c].start > 0
  <2>1. ~bitmap[req[c].start]
    BY <1>1, <1>5 DEF FoundFree
  <2>2. bitmap[0]
    BY <1>3, <1>5, TopBits DEF BitsInv
  <2>3. req[c].start # 0
    BY <2>1, <2>2
  <2> HIDE DEF top
  <2> QED  BY <1>1, <1>3, <2>3
<1>6. BitsInv'
  <2>1. SUFFICES ASSUME Truth PROVE BitsInv'
    BY <1>1 DEF BitsInv, Truth
  <2>2. pc' = [pc EXCEPT ![c] = "unlock"] /\ req[c].start > 0 /\ req' = req
    BY <1>1, <1>5, <2>1
  <2>3. \A d \in CPU : Held(d) = {}
    BY <1>1, <1>2 DEF Held, Returning
  <2>4. Held(c)' = Frames(req[c]) /\ \A d \in CPU \ {c} : Held(d)' = {}
    BY <1>1, <1>2, <2>2 DEF Held, Returning
  <2>5. \A f \in Frames(req[c]) : f \in UsableFrames(memmap) /\ ~bitmap[f]
    BY <1>1, <2>1 DEF FoundFree
  <2>6. /\ \A r, s \in live : r # s => Frames(r) \cap Frames(s) = {}
        /\ \A r \in live : Frames(r) \subseteq UsableFrames(memmap)
        /\ \A i \in 0 .. top - 1 :
             bitmap[i] <=> \/ i \notin UsableFrames(memmap)
                           \/ \E r \in live : i \in Frames(r)
    BY <2>1, <2>3 DEF BitsInv
  <2>7. \A r \in live : Frames(req[c]) \cap Frames(r) = {}
    <3> SUFFICES ASSUME NEW r \in live, NEW f \in Frames(req[c]), f \in Frames(r) PROVE FALSE
      OBVIOUS
    <3>1. f \in 0 .. top - 1
      BY <1>3, <2>5, TopBits
    <3> QED  BY <2>5, <2>6, <3>1
  <2>8. \A i \in 0 .. top - 1 :
          bitmap'[i] <=> \/ i \notin UsableFrames(memmap)
                         \/ \E r \in live : i \in Frames(r)
                         \/ \E d \in CPU : i \in Held(d)'
    <3> TAKE i \in 0 .. top - 1
    <3>1. i \in 0 .. Limit - 1
      BY <1>3, TopBits
    <3>2. bitmap'[i] <=> i \in Frames(req[c]) \/ bitmap[i]
      BY <1>1, <3>1
    <3>3. (\E d \in CPU : i \in Held(d)') <=> i \in Frames(req[c])
      BY <2>4
    <3> QED  BY <2>6, <3>2, <3>3
  <2>9. \A d \in CPU : Held(d)' \subseteq UsableFrames(memmap)
    BY <2>4, <2>5
  <2>10. \A d \in CPU : \A r \in live : Held(d)' \cap Frames(r) = {}
    BY <2>4, <2>7
  <2> QED  BY <1>1, <2>6, <2>8, <2>9, <2>10 DEF BitsInv
<1> QED  BY <1>1, <1>4, <1>5, <1>6

\* Handing the region out.
LEMMA ReleaseAllocBits ==
  ASSUME TypeInv, BitsInv, NEW c \in CPU, ReleaseAlloc(c)
  PROVE  BitsInv'
<1>1. /\ pc[c] = "unlock" /\ \A d \in CPU : d # c => pc[d] = "idle"
      /\ \A d \in CPU : pc'[d] = "idle"
  BY ReleaseAllocTyped
<1>2. /\ UNCHANGED <<memmap, phase, scribbled, bitmap>>
      /\ live' = IF req[c].start > 0 THEN live \cup {req[c]} ELSE live
  BY DEF ReleaseAlloc, shared
<1>3. /\ \A d \in CPU : Held(d)' = {}
      /\ \A d \in CPU \ {c} : Held(d) = {}
      /\ Held(c) = IF req[c].start > 0 THEN Frames(req[c]) ELSE {}
  BY <1>1 DEF Held, Returning
<1>4. SUFFICES ASSUME Truth PROVE BitsInv'
  BY <1>2 DEF BitsInv, Truth
<1>5. /\ \A r, s \in live : r # s => Frames(r) \cap Frames(s) = {}
      /\ \A r \in live : Held(c) \cap Frames(r) = {}
      /\ \A r \in live : Frames(r) \subseteq UsableFrames(memmap)
      /\ Held(c) \subseteq UsableFrames(memmap)
      /\ \A i \in 0 .. usable_top(memmap) - 1 :
           bitmap[i] <=> \/ i \notin UsableFrames(memmap)
                         \/ \E r \in live : i \in Frames(r)
                         \/ i \in Held(c)
  BY <1>3, <1>4 DEF BitsInv
<1>6. CASE req[c].start > 0
  <2>1. live' = live \cup {req[c]} /\ Held(c) = Frames(req[c])
    BY <1>2, <1>3, <1>6
  <2>2. /\ \A r, s \in live' : r # s => Frames(r) \cap Frames(s) = {}
        /\ \A r \in live' : Frames(r) \subseteq UsableFrames(memmap)
    BY <1>5, <2>1
  <2>3. \A i \in 0 .. usable_top(memmap) - 1 :
           bitmap[i] <=> \/ i \notin UsableFrames(memmap)
                         \/ \E r \in live' : i \in Frames(r)
    BY <1>5, <2>1
  <2> QED  BY <1>2, <1>3, <2>2, <2>3 DEF BitsInv
<1>7. CASE ~(req[c].start > 0)
  <2>1. live' = live /\ Held(c) = {}
    BY <1>2, <1>3, <1>7
  <2> QED  BY <1>2, <1>3, <1>5, <2>1 DEF BitsInv
<1> QED  BY <1>6, <1>7

\* Clearing the bits of a region given back.
LEMMA ClearBits ==
  ASSUME TypeInv, BitsInv, NEW c \in CPU, Clear(c)
  PROVE  BitsInv'
<1>1. /\ pc[c] = "clear" /\ \A d \in CPU : d # c => pc[d] = "idle"
      /\ \A d \in CPU : pc'[d] \in {"idle", "unlock_free"}
      /\ UNCHANGED <<memmap, phase, scribbled, live>>
      /\ \A i \in 0 .. Limit - 1 : bitmap'[i] <=> i \notin Frames(req[c]) /\ bitmap[i]
  BY ClearDoes
<1>2. /\ \A d \in CPU : Held(d)' = {}
      /\ \A d \in CPU \ {c} : Held(d) = {}
      /\ Held(c) = Frames(req[c])
  BY <1>1 DEF Held, Returning
<1>3. SUFFICES ASSUME Truth PROVE BitsInv'
  BY <1>1 DEF BitsInv, Truth
<1>4. /\ \A r, s \in live : r # s => Frames(r) \cap Frames(s) = {}
      /\ \A r \in live : Frames(req[c]) \cap Frames(r) = {}
      /\ \A r \in live : Frames(r) \subseteq UsableFrames(memmap)
      /\ Frames(req[c]) \subseteq UsableFrames(memmap)
      /\ \A i \in 0 .. usable_top(memmap) - 1 :
           bitmap[i] <=> \/ i \notin UsableFrames(memmap)
                         \/ \E r \in live : i \in Frames(r)
                         \/ i \in Frames(req[c])
  BY <1>2, <1>3 DEF BitsInv
<1>5. \A i \in 0 .. usable_top(memmap) - 1 :
        bitmap'[i] <=> \/ i \notin UsableFrames(memmap)
                       \/ \E r \in live : i \in Frames(r)
  <2> TAKE i \in 0 .. usable_top(memmap) - 1
  <2>1. i \in 0 .. Limit - 1
    BY TopBits DEF TypeInv
  <2>2. bitmap'[i] <=> i \notin Frames(req[c]) /\ bitmap[i]
    BY <1>1, <2>1
  <2> QED  BY <1>4, <2>2
<1> QED  BY <1>1, <1>2, <1>4, <1>5 DEF BitsInv

\* Leaving mm_pmem_free.
LEMMA ReleaseFreeBits ==
  ASSUME TypeInv, BitsInv, NEW c \in CPU, ReleaseFree(c)
  PROVE  BitsInv'
<1>1. /\ pc[c] = "unlock_free" /\ \A d \in CPU : d # c => pc[d] = "idle"
      /\ \A d \in CPU : pc'[d] = "idle"
  BY ReleaseFreeTyped
<1>2. UNCHANGED <<memmap, phase, scribbled, bitmap, live>>
  BY DEF ReleaseFree, shared
<1>3. \A d \in CPU : Held(d) = {} /\ Held(d)' = {}
  BY <1>1 DEF Held, Returning
<1> QED  BY <1>2, <1>3 DEF BitsInv, Truth

\* Every step keeps the truth, and only the scan finds regions.
LEMMA NextBits ==
  ASSUME AllCovered, TypeInv, BitsInv, FoundFree, [Next]_vars
  PROVE  BitsInv' /\ (FoundFree' \/ \E c \in CPU : Scan(c))
<1> DEFINE goal == BitsInv' /\ (FoundFree' \/ \E c \in CPU : Scan(c))
<1>1. CASE MmPmemInit
  BY <1>1, MmPmemInitBits
<1>2. ASSUME NEW c \in CPU, Step(c) PROVE goal
  <2>0. (\A d \in CPU : pc'[d] # "mark") => FoundFree'
    BY DEF FoundFree
  <2>1. ASSUME \/ \E count \in Counts : AcquireAlloc(c, count)
               \/ \E r \in live : AcquireFree(c, r)
        PROVE  goal
    <3>1. BitsInv' /\ \A d \in CPU : pc'[d] \notin {"mark", "unlock"}
      BY <2>1, AcquireBits
    <3> QED  BY <2>0, <3>1
  <2>2. CASE Scan(c)
    BY <2>2, ScanBits
  <2>3. CASE Mark(c)
    <3>1. BitsInv' /\ \A d \in CPU : pc'[d] # "mark"
      BY <2>3, MarkBits
    <3> QED  BY <2>0, <3>1
  <2>4. CASE ReleaseAlloc(c)
    <3>1. BitsInv' /\ \A d \in CPU : pc'[d] = "idle"
      BY <2>4, ReleaseAllocBits, ReleaseAllocTyped
    <3> QED  BY <2>0, <3>1
  <2>5. CASE Clear(c)
    <3>1. BitsInv' /\ \A d \in CPU : pc'[d] \in {"idle", "unlock_free"}
      BY <2>5, ClearBits, ClearDoes
    <3> QED  BY <2>0, <3>1
  <2>6. CASE ReleaseFree(c)
    <3>1. BitsInv' /\ \A d \in CPU : pc'[d] = "idle"
      BY <2>6, ReleaseFreeBits, ReleaseFreeTyped
    <3> QED  BY <2>0, <3>1
  <2> HIDE DEF goal
  <2> QED  BY <1>2, <2>1, <2>2, <2>3, <2>4, <2>5, <2>6 DEF Step
<1>3. ASSUME NEW r \in live, NEW value \in BOOLEAN, Fill(r, value) PROVE goal
  <2>1. scribbled'
    BY <1>3, FillTyped
  <2> QED  BY <2>1 DEF BitsInv, FoundFree, Truth
<1>4. CASE UNCHANGED vars
  BY <1>4 DEF vars, BitsInv, FoundFree, Truth, Held, Returning
<1> HIDE DEF goal
<1>5. goal
  BY <1>1, <1>2, <1>3, <1>4 DEF Next, goal
<1> QED  BY <1>5 DEF goal

\* What the two say about the properties.
LEMMA BitsImply ==
  ASSUME TypeInv, BitsInv
  PROVE  NoDoubleAlloc /\ OnlyUsable /\ FramesAccounted
<1>1. \A c \in Returning : c \in CPU /\ Held(c) = Frames(req[c]) /\ phase = "up"
  BY DEF Held, Returning, TypeInv, ReqInv
<1>2. \A r \in live : phase = "up"
  BY DEF TypeInv, ReqInv
<1>3. NoDoubleAlloc
  BY <1>1, <1>2 DEF NoDoubleAlloc, RegionsDisjoint, BitsInv, Truth
<1>4. OnlyUsable
  BY <1>1, <1>2 DEF OnlyUsable, BitsInv, Truth
<1>5. FramesAccounted
  <2> SUFFICES ASSUME phase = "up", ~scribbled, NEW f \in UsableFrames(memmap)
               PROVE  bitmap[f] <=> f \in OwnedFrames
    BY DEF FramesAccounted
  <2>1. f \in 0 .. usable_top(memmap) - 1
    BY TopBits DEF TypeInv
  <2>2. bitmap[f] <=> \/ \E r \in live : f \in Frames(r)
                      \/ \E c \in CPU : f \in Held(c)
    BY <2>1 DEF BitsInv, Truth
  <2>3. (\E c \in CPU : f \in Held(c)) <=>
        \E c \in Returning \cup {d \in CPU : pc[d] = "clear"} : f \in Frames(req[c])
    BY DEF Held, Returning
  <2> QED  BY <2>2, <2>3 DEF OwnedFrames
<1> QED  BY <1>3, <1>4, <1>5

-----------------------------------------------------------------------------
(***************************************************************************)
(* Requests that have room: what the scan finds is a free region, and it   *)
(* finds none only when no frame is left.                                  *)
(***************************************************************************)
RoomInv == TypeInv /\ BitsInv /\ FoundFree /\ FailsOnlyWhenExhausted /\ RequestsHaveRoom

RoomNext == Next /\ RequestsHaveRoom'

LEMMA RoomScan ==
  ASSUME RoomInv, NEW c \in CPU, Scan(c)
  PROVE  FoundFree' /\ FailsOnlyWhenExhausted'
<1> USE DEF RoomInv
<1> DEFINE start == req'[c].start
           top == usable_top(memmap)
           count == req[c].count
<1>1. /\ pc[c] = "scan" /\ \A d \in CPU : d # c => pc[d] = "idle"
      /\ UNCHANGED <<bitmap, live, memmap, phase, scribbled>>
      /\ req' = [req EXCEPT ![c].start = start]
      /\ start = pmem_scan(bitmap, 0, top, count)
  BY ScanDoes
<1>2. \/ start = -1 /\ (pc' = [pc EXCEPT ![c] = "scan"] \/ pc' = [pc EXCEPT ![c] = "unlock"])
      \/ start \in 0 .. top - 1 /\ pc' = [pc EXCEPT ![c] = "mark"]
  BY ScanDoes
<1>3. /\ TypeOK /\ req[c] \in Region
      /\ pc \in [CPU -> {"idle", "scan", "mark", "unlock", "clear", "unlock_free"}]
      /\ bitmap \in [0 .. Limit - 1 -> BOOLEAN]
  BY DEF TypeInv, TypeOK
<1>4. top \in Nat /\ top <= Limit /\ Limit \in Nat
  BY <1>3, Tops
<1>5. count \in Nat /\ req'[c].count = count
  <2>1. count \in Nat
    BY <1>3, RegionNumbers
  <2>2. req'[c].count = count
    <3>1. req \in [CPU -> Region]
      BY <1>3 DEF TypeOK
    <3> QED  BY <1>1, <3>1 DEF Region
  <2> QED  BY <2>1, <2>2
<1>6. phase = "up"
  BY <1>1 DEF TypeInv, ReqInv
<1>7. ASSUME Truth
      PROVE  \/ start = -1 /\ FreeBits(bitmap, 0, top) = {}
             \/ start \in 0 .. top - 1 /\ \A i \in start .. start + count - 1 : i \in 0 .. top - 1 /\ ~bitmap[i]
  <2>1. HasRoom(bitmap, top, count)
    BY <1>1, <1>7 DEF RequestsHaveRoom, Truth
  <2>2. top \in 0 .. Limit
    BY <1>4
  <2> HIDE DEF top, count, start
  <2>3. ScanServes(bitmap, top, count)
    BY <1>3, <1>5, <2>1, <2>2, ScanServesRoom
  <2>4. \/ start = -1 /\ FreeBits(bitmap, 0, top) = {}
        \/ /\ start \in 0 .. top - 1
           /\ start + count <= top
           /\ \A i \in start .. start + count - 1 : ~bitmap[i]
    BY <1>1, <2>3 DEF ScanServes
  <2> QED  BY <1>4, <1>5, <2>4
<1>8. FoundFree'
  <2> SUFFICES ASSUME Truth, NEW d \in CPU, pc'[d] = "mark"
               PROVE  /\ ~bitmap[req'[d].start]
                      /\ \A f \in Frames(req'[d]) : f \in UsableFrames(memmap) /\ ~bitmap[f]
    BY <1>1 DEF FoundFree, Truth, Frames
  <2>1. d = c /\ start \in 0 .. top - 1
    BY <1>1, <1>2, <1>3
  <2>2. start # -1
    <3> HIDE DEF start
    <3> QED  BY <1>4, <2>1
  <2>3. \A f \in Frames(req'[c]) : f \in 0 .. top - 1 /\ ~bitmap[f]
    BY <1>5, <1>7, <2>2 DEF Frames
  <2>4. \A f \in Frames(req'[c]) : f \in UsableFrames(memmap)
    BY <2>3 DEF BitsInv
  <2>5. ~bitmap[start]
    BY <1>1, <1>2, <2>1, ScanDoes
  <2> QED  BY <2>1, <2>3, <2>4, <2>5
<1>9. FailsOnlyWhenExhausted'
  <2> SUFFICES ASSUME ~scribbled, NEW d \in CPU, pc'[d] = "unlock", NEW f \in UsableFrames(memmap)
               PROVE  bitmap[f]
    BY <1>1 DEF FailsOnlyWhenExhausted
  <2>1. d = c /\ start = -1
    BY <1>1, <1>2, <1>3
  <2>2. FreeBits(bitmap, 0, top) = {}
    <3>1. ~(start \in 0 .. top - 1)
      <4> HIDE DEF start, top
      <4> QED  BY <1>4, <2>1
    <3> QED  BY <1>6, <1>7, <3>1 DEF Truth
  <2>3. f \in 0 .. top - 1
    BY <1>3, TopBits
  <2> HIDE DEF top
  <2> QED  BY <2>2, <2>3 DEF FreeBits
<1> QED  BY <1>8, <1>9

LEMMA NextRoom ==
  ASSUME AllCovered, RoomInv, [RoomNext]_vars
  PROVE  RoomInv'
<1> USE DEF RoomInv
<1>0. [Next]_vars
  BY DEF RoomNext
<1>1. TypeInv' /\ BitsInv' /\ (FoundFree' \/ \E c \in CPU : Scan(c))
  BY <1>0, NextTyped, NextBits
<1>2. FoundFree'
  BY <1>1, RoomScan
<1>3. FailsOnlyWhenExhausted'
  <2>0. (\A d \in CPU : pc'[d] # "unlock") => FailsOnlyWhenExhausted'
    BY DEF FailsOnlyWhenExhausted
  <2>1. CASE MmPmemInit
    BY <2>1, <2>0, MmPmemInitBits
  <2>2. ASSUME NEW c \in CPU, Step(c) PROVE FailsOnlyWhenExhausted'
    <3>1. ASSUME \/ \E count \in Counts : AcquireAlloc(c, count)
                 \/ \E r \in live : AcquireFree(c, r)
          PROVE  FailsOnlyWhenExhausted'
      <4>1. \A d \in CPU : pc'[d] # "unlock"
        BY <3>1, AcquireBits
      <4> QED  BY <2>0, <4>1
    <3>2. CASE Scan(c)
      BY <3>2, RoomScan
    <3>3. CASE Mark(c)
      <4>1. \A d \in CPU : pc'[d] = "unlock" => d = c
        BY <3>3, MarkBits
      <4>2. Truth => req'[c].start > 0
        BY <3>3, MarkBits
      <4>3. phase = "up" /\ scribbled' = scribbled /\ req' = req
        BY <3>3, MarkDoes DEF TypeInv, ReqInv
      <4>4. req[c].start \in Int
        <5>1. req[c] \in Region /\ TypeOK
          BY DEF TypeInv, TypeOK
        <5> QED  BY <5>1, RegionNumbers
      <4> QED  BY <4>1, <4>2, <4>3, <4>4 DEF FailsOnlyWhenExhausted, Truth
    <3>4. CASE ReleaseAlloc(c)
      <4>1. \A d \in CPU : pc'[d] = "idle"
        BY <3>4, ReleaseAllocTyped
      <4> QED  BY <2>0, <4>1
    <3>5. CASE Clear(c)
      <4>1. \A d \in CPU : pc'[d] \in {"idle", "unlock_free"}
        BY <3>5, ClearDoes
      <4> QED  BY <2>0, <4>1
    <3>6. CASE ReleaseFree(c)
      <4>1. \A d \in CPU : pc'[d] = "idle"
        BY <3>6, ReleaseFreeTyped
      <4> QED  BY <2>0, <4>1
    <3> QED  BY <2>2, <3>1, <3>2, <3>3, <3>4, <3>5, <3>6 DEF Step
  <2>3. ASSUME NEW r \in live, NEW value \in BOOLEAN, Fill(r, value)
        PROVE FailsOnlyWhenExhausted'
    <3>1. scribbled'
      BY <2>3, FillTyped
    <3> QED  BY <3>1 DEF FailsOnlyWhenExhausted
  <2>4. CASE UNCHANGED vars
    BY <2>4 DEF vars, FailsOnlyWhenExhausted
  <2> QED  BY <1>0, <2>1, <2>2, <2>3, <2>4 DEF Next
<1>4. RequestsHaveRoom'
  BY DEF RoomNext, RequestsHaveRoom, vars
<1> QED  BY <1>1, <1>2, <1>3, <1>4

LEMMA SpecRoom ==
  ASSUME AllCovered
  PROVE  RoomSpec => []RoomInv
<1>1. Init => RoomInv
  BY InitTyped, InitBits DEF RoomInv, Init, FailsOnlyWhenExhausted, RequestsHaveRoom
<1>2. RoomInv /\ [RoomNext]_vars => RoomInv'
  BY NextRoom
<1>3. RoomSpec <=> Init /\ [][RoomNext]_vars
  BY DEF RoomSpec, RoomNext
<1> QED  BY <1>1, <1>2, <1>3, PTL

\* Callers that ask for at most one frame have room for it.
LEMMA SingleHasRoom ==
  ASSUME SingleFrames
  PROVE  Spec => RoomSpec
<1>1. Init => TypeInv
  BY InitTyped
<1>2. TypeInv /\ [Next]_vars => TypeInv'
  BY NextTyped
<1>3. TypeInv' /\ [Next]_vars => [Next /\ RequestsHaveRoom']_vars
  <2> SUFFICES ASSUME TypeInv' PROVE RequestsHaveRoom'
    OBVIOUS
  <2>1. \A c \in CPU : req'[c].count \in {0, 1}
    BY DEF TypeInv, TypeOK, Region, SingleFrames
  <2>2. \A c \in CPU : req'[c].count <= 1
    BY <2>1
  <2> QED  BY <2>2 DEF RequestsHaveRoom, HasRoom
<1> QED  BY <1>1, <1>2, <1>3, PTL DEF Spec, RoomSpec
-----------------------------------------------------------------------------
\* The variables keep their types, whatever the memory map, the sizes asked
\* for and the damage to the bitmap: in particular the scan never leaves the
\* bits below the top of usable memory, and no region starts past it.
THEOREM TypeCorrect == Spec => []TypeOK
<1>1. Init => TypeInv
  BY InitTyped
<1>2. TypeInv /\ [Next]_vars => TypeInv'
  BY NextTyped
<1>3. TypeInv => TypeOK
  BY DEF TypeInv
<1> QED
  BY <1>1, <1>2, <1>3, PTL DEF Spec

\* On memory maps that the bitmap covers, what mm_pmem_alloc hands out is usable
\* memory and nobody else's, on every interleaving of allocations and frees of
\* any size, as long as callers ask only where there is room.
THEOREM RoomSafe ==
  ASSUME AllCovered
  PROVE  RoomSpec => []FramesSafe
<1>1. RoomInv => FramesSafe
  BY BitsImply DEF RoomInv, FramesSafe
<1> QED
  BY <1>1, SpecRoom, PTL

\* The bitmap marks exactly the usable frames that are owned.
THEOREM RoomAccounted ==
  ASSUME AllCovered
  PROVE  RoomSpec => []FramesAccounted
<1>1. RoomInv => FramesAccounted
  BY BitsImply DEF RoomInv
<1> QED
  BY <1>1, SpecRoom, PTL

\* mm_pmem_alloc fails only when every usable frame is taken.
THEOREM RoomExhausted ==
  ASSUME AllCovered
  PROVE  RoomSpec => []FailsOnlyWhenExhausted
<1>1. RoomInv => FailsOnlyWhenExhausted
  BY DEF RoomInv
<1> QED
  BY <1>1, SpecRoom, PTL

\* Callers that ask for at most one frame at a time need no such care: the three
\* hold of all they do, whatever is allocated and freed in between.
THEOREM SingleFramesSafe ==
  ASSUME SingleFrames, AllCovered
  PROVE  Spec => []FramesSafe /\ []FramesAccounted /\ []FailsOnlyWhenExhausted
<1> QED
  BY SingleHasRoom, RoomSafe, RoomAccounted, RoomExhausted, PTL
=============================================================================
