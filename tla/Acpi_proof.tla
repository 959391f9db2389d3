----------------------------- MODULE Acpi_proof -----------------------------
(***************************************************************************)
(* Proofs about Acpi, for any firmware whose tables and MADTs are as the   *)
(* assumptions of Acpi say.                                                *)
(***************************************************************************)
EXTENDS Acpi, TLAPS, NaturalsInduction, WellFoundedInduction

\* A half of an address of the XSDT is where no table is, or where one is
\* that the XSDT lists.  (The addresses below Word are their own lower half.)
NoStrayHalves ==
  \A fw \in Firmwares : \A a \in ToSet(fw.xsdt) :
    {a % Word, a \div Word} \cap DOMAIN fw.table \subseteq ToSet(fw.xsdt)
-----------------------------------------------------------------------------
\* A non-empty set of naturals has a least element.
LEMMA Least ==
  ASSUME NEW S \in SUBSET Nat, S # {}
  PROVE  \E x \in S : \A y \in S : x <= y
<1>1. PICK x \in S : \A y \in S : ~ (<<y, x>> \in OpToRel(<, Nat))
  BY NatLessThanWellFounded, WFMin
<1>2. ASSUME NEW y \in S, y < x PROVE FALSE
  <2>1. <<y, x>> \in Nat \X Nat /\ <<y, x>>[1] < <<y, x>>[2]
    BY <1>2
  <2>2. <<y, x>> \in OpToRel(<, Nat)
    BY <2>1, Zenon DEF OpToRel
  <2> QED  BY <1>1, <2>2
<1> QED  BY <1>2

\* Induction up to a bound: a set of naturals that holds 0 and, with n, n + 1.
LEMMA UpTo ==
  ASSUME NEW N \in Nat, NEW S, 0 \in S, \A n \in 1 .. N : n - 1 \in S => n \in S
  PROVE  \A n \in 0 .. N : n \in S
<1> SUFFICES ASSUME (0 .. N) \ S # {} PROVE FALSE
  OBVIOUS
<1> DEFINE T == (0 .. N) \ S
<1>1. PICK n \in T : \A k \in T : n <= k
  <2>1. T \in SUBSET Nat /\ T # {}
    OBVIOUS
  <2> HIDE DEF T
  <2> QED  BY <2>1, Least
<1>2. n \in 1 .. N /\ n - 1 \in 0 .. N /\ ~(n <= n - 1)
  BY <1>1
<1>3. n - 1 \in S
  BY <1>1, <1>2
<1> QED  BY <1>1, <1>2, <1>3

\* A function that is defined from its value before is defined up to any
\* bound.
Iterates(N, V, first, step, f) ==
  /\ f \in [0 .. N -> V]
  /\ f[0] = first
  /\ \A n \in 1 .. N : f[n] = step[n][f[n - 1]]

LEMMA Iterated ==
  ASSUME NEW N \in Nat, NEW V, NEW first \in V, NEW step \in [1 .. N -> [V -> V]]
  PROVE  \E f : Iterates(N, V, first, step, f)
<1> DEFINE Is(k, f) == Iterates(k, V, first, step, f)
           S == {k \in 0 .. N : \E f : Is(k, f)}
<1>1. 0 \in S
  <2>1. Is(0, [n \in 0 .. 0 |-> first])
    BY DEF Iterates
  <2>2. \E f : Is(0, f)
    BY <2>1
  <2> HIDE DEF Is
  <2> QED  BY <2>2
<1>2. ASSUME NEW k \in 1 .. N, k - 1 \in S PROVE k \in S
  <2>1. PICK f : Is(k - 1, f)
    BY <1>2
  <2> DEFINE g == [n \in 0 .. k |-> IF n = k THEN step[k][f[k - 1]] ELSE f[n]]
  <2>2. g \in [0 .. k -> V]
    BY <2>1 DEF Iterates
  <2>3. g[0] = first
    BY <2>1 DEF Iterates
  <2>4. ASSUME NEW n \in 1 .. k PROVE g[n] = step[n][g[n - 1]]
    BY <2>1 DEF Iterates
  <2>5. Is(k, g)
    BY <2>2, <2>3, <2>4 DEF Iterates
  <2> HIDE DEF Is, g
  <2> QED  BY <2>5
<1>3. N \in S
  <2> HIDE DEF S, Is
  <2>1. \A k \in 0 .. N : k \in S
    BY <1>1, <1>2, UpTo
  <2> QED  BY <2>1
<1> QED  BY <1>3
-----------------------------------------------------------------------------
\* What a table of a firmware is.
IsTable(t) == t \in Seq(Byte) /\ Len(t) >= HeaderBytes /\ t[Length] = Len(t)

\* The two sums of a table, as functions of the bytes they are over.
LEMMA Csum ==
  ASSUME NEW t, IsTable(t)
  PROVE  \E f \in [0 .. Len(t) -> Byte] :
           /\ f[0] = 0 /\ \A i \in 1 .. Len(t) : f[i] = (f[i - 1] + t[i]) % 256
           /\ acpi_checksum(t) <=> f[Len(t)] = 0
<1> DEFINE N == Len(t)
           F(f) == [i \in 0 .. N |-> IF i = 0 THEN 0 ELSE (f[i - 1] + t[i]) % 256]
           h == CHOOSE f : f = F(f)
           step == [i \in 1 .. N |-> [b \in Byte |-> (b + t[i]) % 256]]
<1>1. N \in Nat /\ \A i \in 1 .. N : t[i] \in Byte
  BY DEF IsTable
<1>2. step \in [1 .. N -> [Byte -> Byte]]
  <2>1. \A b \in Byte, c \in Byte : (b + c) % 256 \in Byte
    BY DEF Byte
  <2>2. \A i \in 1 .. N : [b \in Byte |-> (b + t[i]) % 256] \in [Byte -> Byte]
    BY <1>1, <2>1
  <2> HIDE DEF N
  <2> QED  BY <2>2
<1>3. PICK g \in [0 .. N -> Byte] : g[0] = 0 /\ \A i \in 1 .. N : g[i] = step[i][g[i - 1]]
  <2>1. 0 \in Byte
    BY DEF Byte
  <2> HIDE DEF N, step
  <2>2. \E g : Iterates(N, Byte, 0, step, g)
    BY <1>1, <1>2, <2>1, Iterated
  <2> QED  BY <2>2 DEF Iterates
<1>4. \A i \in 1 .. N : g[i] = (g[i - 1] + t[i]) % 256
  <2> TAKE i \in 1 .. N
  <2>1. i - 1 \in 0 .. N
    BY <1>1
  <2>2. g[i - 1] \in Byte
    BY <1>3, <2>1
  <2>3. g[i] = step[i][g[i - 1]]
    BY <1>3
  <2> HIDE DEF N
  <2> QED  BY <2>2, <2>3
<1>5. g = F(g)
  <2> HIDE DEF N, step
  <2> QED  BY <1>1, <1>3, <1>4
<1>6. h = F(h)
  <2> HIDE DEF F
  <2> QED  BY <1>5
<1>7. acpi_checksum(t) <=> h[N] = 0
  BY DEF acpi_checksum, IsTable
<1> HIDE DEF h
<1>8. h[0] = 0 /\ \A i \in 1 .. N : h[i] = (h[i - 1] + t[i]) % 256
  BY <1>1, <1>6
<1>9. h \in [0 .. N -> Byte]
  <2>1. \A i \in 0 .. N : h[i] \in Byte
    <3> DEFINE S == {i \in 0 .. N : h[i] \in Byte}
    <3>1. 0 \in S
      BY <1>1, <1>8 DEF Byte
    <3>2. ASSUME NEW i \in 1 .. N, i - 1 \in S PROVE i \in S
      <4>1. h[i - 1] \in Byte /\ t[i] \in Byte /\ h[i] = (h[i - 1] + t[i]) % 256
        BY <1>1, <1>8, <3>2
      <4>2. \A b \in Byte, c \in Byte : (b + c) % 256 \in Byte
        BY DEF Byte
      <4>3. h[i] \in Byte
        BY <4>1, <4>2
      <4> QED  BY <4>3, <1>1
    <3> HIDE DEF S
    <3>3. \A i \in 0 .. N : i \in S
      BY <1>1, <3>1, <3>2, UpTo
    <3> QED  BY <3>3 DEF S
  <2> QED  BY <1>1, <1>6, <2>1
<1> QED  BY <1>7, <1>8, <1>9

LEMMA TotalUpTo ==
  ASSUME NEW t, IsTable(t)
  PROVE  \E f \in [0 .. Len(t) -> Nat] :
           /\ f[0] = 0 /\ \A i \in 1 .. Len(t) : f[i] = f[i - 1] + t[i]
           /\ Total(t) = f[Len(t)]
<1> DEFINE N == Len(t)
           F(f) == [i \in 0 .. N |-> IF i = 0 THEN 0 ELSE f[i - 1] + t[i]]
           h == CHOOSE f : f = F(f)
           step == [i \in 1 .. N |-> [b \in Nat |-> b + t[i]]]
<1>1. N \in Nat /\ \A i \in 1 .. N : t[i] \in Nat
  <2>1. Byte \subseteq Nat
    BY DEF Byte
  <2>2. N \in Nat /\ \A i \in 1 .. N : t[i] \in Byte
    BY DEF IsTable
  <2> HIDE DEF N
  <2> QED  BY <2>1, <2>2
<1>2. step \in [1 .. N -> [Nat -> Nat]]
  <2>1. \A i \in 1 .. N : [b \in Nat |-> b + t[i]] \in [Nat -> Nat]
    BY <1>1
  <2>2. \A i \in 1 .. N : step[i] = [b \in Nat |-> b + t[i]]
    BY Zenon
  <2>3. step = [i \in 1 .. N |-> step[i]]
    BY Zenon
  <2> HIDE DEF N, step
  <2>4. \A i \in 1 .. N : step[i] \in [Nat -> Nat]
    BY <2>1, <2>2, Zenon
  <2> QED  BY <2>3, <2>4, Zenon
<1>3. PICK g \in [0 .. N -> Nat] : g[0] = 0 /\ \A i \in 1 .. N : g[i] = step[i][g[i - 1]]
  <2>1. 0 \in Nat
    OBVIOUS
  <2> HIDE DEF N, step
  <2>2. \E g : Iterates(N, Nat, 0, step, g)
    BY <1>1, <1>2, <2>1, Iterated
  <2> QED  BY <2>2 DEF Iterates
<1>4. \A i \in 1 .. N : g[i] = g[i - 1] + t[i]
  <2> TAKE i \in 1 .. N
  <2>1. i - 1 \in 0 .. N
    BY <1>1
  <2>2. g[i - 1] \in Nat
    BY <1>3, <2>1
  <2>3. g[i] = step[i][g[i - 1]]
    BY <1>3
  <2>4. step[i] = [b \in Nat |-> b + t[i]]
    BY Zenon
  <2>5. step[i][g[i - 1]] = g[i - 1] + t[i]
    <3> HIDE DEF N, step
    <3> QED  BY <2>2, <2>4, Zenon
  <2> QED  BY <2>3, <2>5
<1>5. g = F(g)
  <2> HIDE DEF N, step
  <2> QED  BY <1>1, <1>3, <1>4
<1>6. h = F(h)
  <2> HIDE DEF F
  <2> QED  BY <1>5
<1>7. Total(t) = h[N]
  BY DEF Total
<1> HIDE DEF h
<1>8. h[0] = 0 /\ \A i \in 1 .. N : h[i] = h[i - 1] + t[i]
  BY <1>1, <1>6
<1>9. h \in [0 .. N -> Nat]
  <2>1. \A i \in 0 .. N : h[i] \in Nat
    <3> DEFINE S == {i \in 0 .. N : h[i] \in Nat}
    <3>1. 0 \in S
      BY <1>1, <1>8
    <3>2. ASSUME NEW i \in 1 .. N, i - 1 \in S PROVE i \in S
      BY <1>1, <1>8, <3>2
    <3> HIDE DEF S
    <3>3. \A i \in 0 .. N : i \in S
      BY <1>1, <3>1, <3>2, UpTo
    <3> QED  BY <3>3 DEF S
  <2> QED  BY <1>1, <1>6, <2>1
<1> QED  BY <1>7, <1>8, <1>9

\* The sum of a uint8_t is 0 exactly when all the bytes add up to a multiple
\* of 256.
LEMMA ChecksumIsSound ==
  ASSUME NEW t, IsTable(t)
  PROVE  acpi_checksum(t) <=> Total(t) % 256 = 0
<1>1. PICK c \in [0 .. Len(t) -> Byte] :
             /\ c[0] = 0 /\ \A i \in 1 .. Len(t) : c[i] = (c[i - 1] + t[i]) % 256
             /\ acpi_checksum(t) <=> c[Len(t)] = 0
  BY Csum
<1>2. PICK f \in [0 .. Len(t) -> Nat] :
             /\ f[0] = 0 /\ \A i \in 1 .. Len(t) : f[i] = f[i - 1] + t[i]
             /\ Total(t) = f[Len(t)]
  BY TotalUpTo
<1> DEFINE S == {i \in 0 .. Len(t) : c[i] = f[i] % 256}
<1>3. Len(t) \in Nat /\ \A i \in 1 .. Len(t) : t[i] \in Byte
  BY DEF IsTable
<1>4. 0 \in S
  BY <1>1, <1>2, <1>3
<1>5. ASSUME NEW i \in 1 .. Len(t), i - 1 \in S PROVE i \in S
  <2>1. \A x \in Nat, b \in Byte : ((x % 256) + b) % 256 = (x + b) % 256
    BY DEF Byte
  <2>2. c[i] = ((f[i - 1] % 256) + t[i]) % 256
    BY <1>1, <1>5
  <2>3. f[i - 1] \in Nat /\ f[i] = f[i - 1] + t[i] /\ t[i] \in Byte
    BY <1>2, <1>3
  <2>4. c[i] = f[i] % 256
    BY <2>1, <2>2, <2>3
  <2> QED  BY <2>4, <1>3
<1> HIDE DEF S
<1>6. Len(t) \in S
  <2>1. \A i \in 0 .. Len(t) : i \in S
    BY <1>3, <1>4, <1>5, UpTo
  <2> QED  BY <1>3, <2>1
<1> QED  BY <1>1, <1>2, <1>6 DEF S
-----------------------------------------------------------------------------
LEMMA ByteIsNat == \A b \in Byte : b \in Nat
  BY DEF Byte

\* A MADT whose entries are whole.
IsMadt(t) ==
  /\ IsTable(t)
  /\ \A p \in Positions(t) : p = Len(t) \/ (p + 2 <= Len(t) /\ t[p + 2] # 0)

\* Its positions are those of a walk by the lengths of the entries.
LEMMA PositionsInOrder ==
  ASSUME NEW t, IsTable(t)
  PROVE  \E f \in [0 .. Len(t) -> Nat] :
           /\ Positions(t) = {f[n] : n \in 0 .. Len(t)}
           /\ f[0] = MadtBytes
           /\ \A n \in 1 .. Len(t) :
                f[n] = IF f[n - 1] + 2 > Len(t) THEN f[n - 1] ELSE f[n - 1] + t[f[n - 1] + 2]
<1> DEFINE N == Len(t)
           After(p) == IF p + 2 > N THEN p ELSE p + t[p + 2]
           F(f) == [n \in 0 .. N |-> IF n = 0 THEN MadtBytes ELSE After(f[n - 1])]
           h == CHOOSE f : f = F(f)
           after == [p \in Nat |-> After(p)]
           step == [n \in 1 .. N |-> after]
<1>1. N \in Nat /\ MadtBytes \in Nat
  BY DEF IsTable, MadtBytes, HeaderBytes
<1>2. \A p \in Nat : After(p) \in Nat
  <2> TAKE p \in Nat
  <2>1. CASE p + 2 > N
    BY <2>1
  <2>2. CASE ~(p + 2 > N)
    <3>1. p + 2 \in 1 .. N
      BY <1>1, <2>2
    <3>2. t[p + 2] \in Byte
      BY <3>1 DEF IsTable
    <3>3. t[p + 2] \in Nat
      BY <3>2 DEF Byte
    <3> HIDE DEF N
    <3> QED  BY <2>2, <3>3
  <2> QED  BY <2>1, <2>2
<1>3. PICK g \in [0 .. N -> Nat] : g[0] = MadtBytes /\ \A n \in 1 .. N : g[n] = step[n][g[n - 1]]
  <2>1. step \in [1 .. N -> [Nat -> Nat]]
    <3>1. after \in [Nat -> Nat]
      <4> HIDE DEF After
      <4> QED  BY <1>2
    <3> HIDE DEF after, N
    <3> QED  BY <3>1
  <2> HIDE DEF N, step
  <2>2. \E g : Iterates(N, Nat, MadtBytes, step, g)
    BY <1>1, <2>1, Iterated
  <2> QED  BY <2>2 DEF Iterates
<1> HIDE DEF After
<1>4. \A n \in 1 .. N : g[n] = After(g[n - 1])
  <2> TAKE n \in 1 .. N
  <2>1. g[n - 1] \in Nat
    BY <1>1, <1>3
  <2>2. g[n] = step[n][g[n - 1]]
    BY <1>3
  <2>3. step[n] = after
    BY Zenon
  <2> QED  BY <2>1, <2>2, <2>3, Zenon
<1>5. g = F(g)
  <2> HIDE DEF N, step
  <2> QED  BY <1>1, <1>3, <1>4
<1>6. h = F(h)
  <2> HIDE DEF F
  <2> QED  BY <1>5
<1>7. Positions(t) = {h[n] : n \in 0 .. N}
  BY DEF Positions, After
<1> HIDE DEF h
<1>8. h[0] = MadtBytes /\ \A n \in 1 .. N : h[n] = After(h[n - 1])
  BY <1>1, <1>6
<1>9. h \in [0 .. N -> Nat]
  <2> DEFINE S == {n \in 0 .. N : h[n] \in Nat}
  <2>1. 0 \in S
    BY <1>1, <1>8
  <2>2. ASSUME NEW n \in 1 .. N, n - 1 \in S PROVE n \in S
    <3>1. n - 1 \in 0 .. N /\ n \in 0 .. N
      BY <1>1
    <3>2. h[n - 1] \in Nat
      BY <2>2
    <3>3. h[n] \in Nat
      BY <1>2, <1>8, <3>2
    <3> QED  BY <3>1, <3>3
  <2> HIDE DEF S
  <2>3. \A n \in 0 .. N : n \in S
    BY <1>1, <2>1, <2>2, UpTo
  <2>4. \A n \in 0 .. N : h[n] \in Nat
    BY <2>3 DEF S
  <2> QED  BY <1>1, <1>6, <2>4
<1> QED  BY <1>7, <1>8, <1>9 DEF After

\* An entry that begins before the end lies within the table, and the next
\* position is where it ends.
LEMMA NextPosition ==
  ASSUME NEW t, IsMadt(t), NEW p \in Positions(t), p < Len(t)
  PROVE  /\ p + 1 \in 1 .. Len(t) /\ p + 2 \in 1 .. Len(t)
         /\ t[p + 2] \in Byte \ {0}
         /\ p + t[p + 2] \in Positions(t)
         /\ \A q \in Positions(t) : q < p + t[p + 2] <=> q <= p
<1>1. PICK f \in [0 .. Len(t) -> Nat] :
           /\ Positions(t) = {f[n] : n \in 0 .. Len(t)}
           /\ f[0] = MadtBytes
           /\ \A n \in 1 .. Len(t) :
                f[n] = IF f[n - 1] + 2 > Len(t) THEN f[n - 1] ELSE f[n - 1] + t[f[n - 1] + 2]
  BY PositionsInOrder DEF IsMadt
<1> DEFINE N == Len(t)
<1>2. N \in Nat /\ MadtBytes = 5 /\ \A i \in 1 .. N : t[i] \in Byte
  BY DEF IsMadt, IsTable, MadtBytes, HeaderBytes
<1> HIDE DEF N
<1>3. \A n \in 0 .. N : f[n] \in Nat /\ (f[n] = N \/ (f[n] + 2 <= N /\ t[f[n] + 2] # 0))
  BY <1>1 DEF IsMadt, N
<1>4. ASSUME NEW n \in 1 .. N, f[n - 1] # N
      PROVE  /\ f[n - 1] + 2 \in 1 .. N
             /\ t[f[n - 1] + 2] \in Byte \ {0}
             /\ f[n] = f[n - 1] + t[f[n - 1] + 2]
  <2>1. n - 1 \in 0 .. N
    BY <1>2
  <2>2. f[n - 1] \in Nat /\ f[n - 1] + 2 <= N /\ t[f[n - 1] + 2] # 0
    BY <1>3, <1>4, <2>1
  <2>3. f[n - 1] + 2 \in 1 .. N
    BY <1>2, <2>2
  <2>4. f[n] = IF f[n - 1] + 2 > N THEN f[n - 1] ELSE f[n - 1] + t[f[n - 1] + 2]
    BY <1>1 DEF N
  <2> QED  BY <1>2, <2>2, <2>3, <2>4
<1>5. ASSUME NEW n \in 1 .. N, f[n - 1] = N PROVE f[n] = N
  BY <1>1, <1>2, <1>5 DEF N
<1>6. \A n \in 0 .. N : f[n] = N \/ f[n] >= 5 + n
  <2> DEFINE S == {n \in 0 .. N : f[n] = N \/ f[n] >= 5 + n}
  <2>1. 0 \in S
    BY <1>1, <1>2
  <2>2. ASSUME NEW n \in 1 .. N, n - 1 \in S PROVE n \in S
    <3>1. CASE f[n - 1] = N
      BY <1>5, <3>1
    <3>2. CASE f[n - 1] # N
      <4>1. f[n - 1] >= 5 + (n - 1) /\ f[n - 1] \in Nat
        BY <1>2, <1>3, <2>2, <3>2
      <4>2. t[f[n - 1] + 2] \in Nat \ {0} /\ f[n] = f[n - 1] + t[f[n - 1] + 2]
        <5>1. t[f[n - 1] + 2] \in Byte \ {0} /\ f[n] = f[n - 1] + t[f[n - 1] + 2]
          BY <1>4, <3>2
        <5> QED  BY <5>1, ByteIsNat
      <4>3. f[n] >= 5 + n
        BY <4>1, <4>2
      <4> QED  BY <4>3
    <3> QED  BY <3>1, <3>2
  <2> HIDE DEF S
  <2>3. \A n \in 0 .. N : n \in S
    BY <1>2, <2>1, <2>2, UpTo
  <2> QED  BY <2>3 DEF S
<1>7. \A n \in 0 .. N : \A m \in 0 .. n : f[m] <= f[n]
  <2> DEFINE S == {n \in 0 .. N : \A m \in 0 .. n : f[m] <= f[n]}
  <2>1. 0 \in S
    BY <1>2, <1>3
  <2>2. ASSUME NEW n \in 1 .. N, n - 1 \in S PROVE n \in S
    <3>1. f[n - 1] <= f[n]
      <4>1. f[n - 1] \in Nat /\ f[n] \in Nat
        BY <1>2, <1>3
      <4>2. CASE f[n - 1] = N
        BY <1>5, <4>1, <4>2
      <4>3. CASE f[n - 1] # N
        <5>1. t[f[n - 1] + 2] \in Nat /\ f[n] = f[n - 1] + t[f[n - 1] + 2]
          <6>1. t[f[n - 1] + 2] \in Byte \ {0} /\ f[n] = f[n - 1] + t[f[n - 1] + 2]
            BY <1>4, <4>3
          <6> QED  BY <6>1, ByteIsNat
        <5> QED  BY <4>1, <5>1
      <4> QED  BY <4>2, <4>3
    <3>2. ASSUME NEW m \in 0 .. n PROVE f[m] <= f[n]
      <4>1. f[m] \in Nat /\ f[n] \in Nat /\ f[n - 1] \in Nat
        BY <1>2, <1>3
      <4>2. m = n \/ f[m] <= f[n - 1]
        BY <2>2
      <4> QED  BY <3>1, <4>1, <4>2
    <3> QED  BY <3>2
  <2> HIDE DEF S
  <2>3. \A n \in 0 .. N : n \in S
    BY <1>2, <2>1, <2>2, UpTo
  <2> QED  BY <2>3 DEF S
<1>8. PICK n \in 0 .. N : p = f[n]
  BY <1>1 DEF N
<1>9. f[n] # N /\ f[n] \in Nat /\ n + 1 \in 1 .. N /\ (n + 1) - 1 = n
  <2>1. f[n] \in Nat /\ f[n] < N
    BY <1>3, <1>8 DEF N
  <2> QED  BY <1>2, <1>6, <2>1
<1> DEFINE k == n + 1
<1>10. k \in 1 .. N /\ k - 1 = n
  BY <1>9
<1> HIDE DEF k
<1>11. /\ f[k - 1] + 2 \in 1 .. N /\ t[f[k - 1] + 2] \in Byte \ {0}
       /\ f[k] = f[k - 1] + t[f[k - 1] + 2]
  BY <1>4, <1>9, <1>10
<1>12. /\ p + 2 \in 1 .. N /\ t[p + 2] \in Byte \ {0}
       /\ f[k] = p + t[p + 2]
  BY <1>8, <1>10, <1>11
<1>13. p + t[p + 2] \in Positions(t)
  <2>1. k \in 0 .. N
    BY <1>10
  <2> QED  BY <1>1, <1>12, <2>1 DEF N
<1>14. ASSUME NEW q \in Positions(t) PROVE q < p + t[p + 2] <=> q <= p
  <2>1. PICK m \in 0 .. N : q = f[m]
    BY <1>1 DEF N
  <2>2. m <= n => f[m] <= f[n]
    BY <1>7, <2>1
  <2>3. ~(m <= n) => f[k] <= f[m]
    <3>1. ~(m <= n) => k \in 0 .. m
      BY <1>2, <1>9, <1>10, <2>1
    <3> QED  BY <1>7, <3>1
  <2>4. f[m] \in Nat /\ f[n] \in Nat /\ f[k] \in Nat /\ f[k] > f[n]
    <3>1. f[m] \in Nat /\ f[n] \in Nat
      BY <1>3
    <3>2. t[p + 2] \in Nat \ {0}
      BY <1>12, ByteIsNat
    <3> QED  BY <1>8, <1>12, <3>1, <3>2
  <2> QED  BY <1>8, <1>12, <2>1, <2>2, <2>3, <2>4
<1>15. p + 1 \in 1 .. N
  <2>1. p \in Nat
    BY <1>8, <1>9
  <2> QED  BY <1>2, <1>12, <2>1
<1> QED  BY <1>12, <1>13, <1>14, <1>15 DEF N
-----------------------------------------------------------------------------
\* The firmware stays what it is, the root table is of its kind, and a walk
\* is at a position of the MADT.
FirmwareInv == firmware \in Firmwares
WalkInv == pc = "walk" => madt # 0 /\ cur \in Positions(At(madt))

AcpiInv == TypeOK /\ FirmwareInv /\ MadtKept /\ WalkInv /\ CallbackSees

\* What is at an address with a signature is a table of the firmware.
LEMMA TableAt ==
  ASSUME FirmwareInv, NEW a, At(a)[Signature] # 0
  PROVE  /\ a \in DOMAIN firmware.table /\ a # 0
         /\ At(a) = firmware.table[a]
         /\ IsTable(At(a))
<1>1. a \in DOMAIN firmware.table
  BY DEF At, Signature
<1>2. At(a) = firmware.table[a]
  BY <1>1 DEF At
<1>3. a # 0 /\ IsTable(firmware.table[a])
  BY <1>1, AcpiAssumption DEF FirmwareInv, IsTable
<1> QED  BY <1>1, <1>2, <1>3

LEMMA MadtAt ==
  ASSUME FirmwareInv, NEW a, At(a)[Signature] = APIC
  PROVE  IsMadt(At(a)) /\ a \in DOMAIN firmware.table /\ a # 0
<1>1. APIC # 0
  BY AcpiAssumption
<1>2. a \in DOMAIN firmware.table /\ a # 0 /\ At(a) = firmware.table[a] /\ IsTable(At(a))
  BY <1>1, TableAt
<1>3. \A p \in Positions(firmware.table[a]) :
        \/ p = Len(firmware.table[a])
        \/ p + 2 <= Len(firmware.table[a]) /\ firmware.table[a][p + 2] # 0
  BY <1>2, MadtAssumption DEF FirmwareInv
<1> QED  BY <1>2, <1>3 DEF IsMadt

LEMMA HalvesAreNaturals ==
  ASSUME NEW w \in Nat \ {0}, NEW a \in Nat
  PROVE  a % w \in Nat /\ a \div w \in Nat
OBVIOUS

\* The elements of the root table that are looked at.
LEMMA Elements ==
  ASSUME FirmwareInv
  PROVE  /\ sdt_entries \in Nat
         /\ \A i \in 1 .. sdt_entries : Tables[i] \in Nat
         /\ root # "xsdt" => Tables = firmware.rsdt /\ sdt_entries = Len(firmware.rsdt)
         /\ root = "xsdt" => \A i \in 1 .. sdt_entries : \E a \in ToSet(firmware.xsdt) :
                               Tables[i] \in {a % Word, a \div Word}
<1>1. firmware.rsdt \in Seq(Nat) /\ firmware.xsdt \in Seq(Nat) /\ Word \in Nat \ {0}
  <2>1. firmware.rsdt \in Seq(0 .. Word - 1) /\ firmware.xsdt \in Seq(Nat) /\ Word \in Nat \ {0}
    BY AcpiAssumption DEF FirmwareInv
  <2>2. 0 .. Word - 1 \subseteq Nat
    BY <2>1
  <2> QED  BY <2>1, <2>2
<1>2. CASE root # "xsdt"
  <2>1. Tables = firmware.rsdt /\ sdt_entries = Len(firmware.rsdt)
    BY <1>2 DEF Tables, sdt_entries
  <2> QED  BY <1>1, <1>2, <2>1
<1>3. CASE root = "xsdt"
  <2> DEFINE xsdt == firmware.xsdt
             n == Len(xsdt)
             Half(i) == IF i % 2 = 1 THEN xsdt[(i + 1) \div 2] % Word ELSE xsdt[(i + 1) \div 2] \div Word
  <2>1. Tables = [i \in 1 .. 2 * n |-> Half(i)]
    BY <1>3 DEF Tables, Halves
  <2>2. n \in Nat
    BY <1>1
  <2>3. Len(Tables) = 2 * n
    <3> HIDE DEF n, Half
    <3> QED  BY <2>1, <2>2
  <2>4. sdt_entries = n
    <3>1. sdt_entries = Len(Tables) \div 2
      BY <1>3 DEF sdt_entries
    <3>2. (2 * n) \div 2 = n
      <4> HIDE DEF n
      <4> QED  BY <2>2
    <3> QED  BY <2>3, <3>1, <3>2
  <2>5. ASSUME NEW i \in 1 .. n
        PROVE  \E a \in ToSet(xsdt) : a \in Nat /\ Tables[i] \in {a % Word, a \div Word}
    <3> DEFINE k == (i + 1) \div 2
    <3>1. k \in 1 .. n /\ i \in 1 .. 2 * n
      <4> HIDE DEF n
      <4> QED  BY <2>2
    <3>2. Tables[i] = Half(i)
      <4> HIDE DEF n, Half
      <4> QED  BY <2>1, <3>1
    <3>3. xsdt[k] \in ToSet(xsdt) /\ xsdt[k] \in Nat
      BY <1>1, <3>1 DEF ToSet
    <3> QED  BY <3>2, <3>3
  <2>6. \A a \in Nat : a % Word \in Nat /\ a \div Word \in Nat
    BY <1>1, HalvesAreNaturals
  <2>7. \A i \in 1 .. n : Tables[i] \in Nat
    <3> HIDE DEF n, xsdt
    <3> QED  BY <2>5, <2>6
  <2> QED  BY <1>3, <2>2, <2>4, <2>5, <2>7
<1> QED  BY <1>2, <1>3

\* What acpi_query returns.
LEMMA QueryFinds ==
  ASSUME FirmwareInv, NEW s \in Signatures, acpi_query(s) # 0
  PROVE  /\ At(acpi_query(s))[Signature] = s
         /\ Sound(acpi_query(s))
         /\ \E i \in 1 .. sdt_entries : acpi_query(s) = Tables[i]
<1> DEFINE hits == {i \in 1 .. sdt_entries : At(Tables[i])[Signature] = s}
           r == Tables[Min(hits)]
<1>1. hits # {} /\ acpi_checksum(At(r)) /\ acpi_query(s) = r
  BY DEF acpi_query
<1>2. Min(hits) \in hits
  <2>1. hits \in SUBSET Nat
    BY Elements
  <2> HIDE DEF hits
  <2>2. PICK x \in hits : \A y \in hits : x <= y
    BY <1>1, <2>1, Least
  <2> QED  BY <2>2 DEF Min
<1>3. At(r)[Signature] = s
  BY <1>2
<1>4. s # 0
  BY AcpiAssumption
<1>5. IsTable(At(r))
  <2> HIDE DEF r
  <2> QED  BY <1>3, <1>4, TableAt
<1>6. Sound(r)
  <2> HIDE DEF r
  <2> QED  BY <1>1, <1>5, ChecksumIsSound DEF Sound
<1> QED  BY <1>1, <1>2, <1>3, <1>6

\* When it returns NULL, the first table of the signature is not sound.
LEMMA QueryFails ==
  ASSUME FirmwareInv, NEW s \in Signatures, acpi_query(s) = 0,
         NEW i \in 1 .. sdt_entries, At(Tables[i])[Signature] = s, Sound(Tables[i])
  PROVE  \E j \in 1 .. i - 1 : At(Tables[j])[Signature] = s
<1> DEFINE hits == {j \in 1 .. sdt_entries : At(Tables[j])[Signature] = s}
           r == Tables[Min(hits)]
<1>1. s # 0
  BY AcpiAssumption
<1>2. Min(hits) \in hits /\ \A y \in hits : Min(hits) <= y
  <2>1. hits \in SUBSET Nat /\ hits # {}
    BY Elements
  <2> HIDE DEF hits
  <2>2. PICK x \in hits : \A y \in hits : x <= y
    BY <2>1, Least
  <2> QED  BY <2>2 DEF Min
<1>3. ~acpi_checksum(At(r)) \/ r = 0
  BY DEF acpi_query
<1>4. At(r)[Signature] = s
  BY <1>2
<1>5. r # 0 /\ IsTable(At(r))
  <2> HIDE DEF r
  <2> QED  BY <1>1, <1>4, TableAt
<1>6. ~Sound(r)
  <2> HIDE DEF r
  <2> QED  BY <1>3, <1>5, ChecksumIsSound DEF Sound
<1>7. Min(hits) # i
  BY <1>6
<1>8. Min(hits) \in 1 .. i - 1
  <2>1. i \in hits /\ sdt_entries \in Nat
    BY Elements
  <2>2. Min(hits) \in 1 .. sdt_entries
    BY <1>2
  <2> HIDE DEF hits
  <2> DEFINE least == Min(hits)
  <2>3. least <= i /\ least # i /\ least \in 1 .. sdt_entries
    BY <1>2, <1>7, <2>1, <2>2
  <2> HIDE DEF least
  <2>4. least \in 1 .. i - 1
    BY <2>1, <2>3
  <2> QED  BY <2>4 DEF least
<1> QED  BY <1>4, <1>8
-----------------------------------------------------------------------------
\* The invariant at the start, and that each action keeps it.
LEMMA InitInv == Init => AcpiInv
<1> SUFFICES ASSUME Init PROVE AcpiInv
  OBVIOUS
<1>1. firmware.revision \in Nat
  BY AcpiAssumption DEF Init
<1> QED  BY <1>1 DEF Init, AcpiInv, TypeOK, FirmwareInv, MadtKept, WalkInv, CallbackSees

\* What a step that leaves the tables alone leaves true.
LEMMA SameFirmware ==
  ASSUME firmware' = firmware
  PROVE  \A a : At(a)' = At(a)
BY DEF At

LEMMA WalkKept ==
  ASSUME AcpiInv, firmware' = firmware, UNCHANGED walk, pc' # "walk"
  PROVE  FirmwareInv' /\ MadtKept' /\ WalkInv' /\ CallbackSees'
<1>1. At(madt)' = At(madt)
  <2>1. madt' = madt
    BY DEF walk
  <2> QED  BY <2>1, SameFirmware DEF At
<1>2. Sound(madt)' <=> Sound(madt)
  BY <1>1 DEF Sound
<1>3. MadtKept'
  BY <1>1, <1>2 DEF AcpiInv, MadtKept, walk
<1> QED  BY <1>3 DEF AcpiInv, FirmwareInv, WalkInv, CallbackSees

LEMMA PanicKeeps == ASSUME AcpiInv, Panic PROVE AcpiInv'
<1>1. TypeOK'
  BY DEF AcpiInv, TypeOK, Panic, walk
<1> QED  BY <1>1, WalkKept DEF AcpiInv, Panic

LEMMA acpi_initKeeps == ASSUME AcpiInv, acpi_init PROVE AcpiInv'
<1>1. Bumped \in Nat \ {0}
  BY AcpiAssumption DEF AcpiInv, FirmwareInv, Bumped
<1>2. TypeOK'
  BY <1>1 DEF AcpiInv, TypeOK, acpi_init, walk
<1> QED  BY <1>2, WalkKept DEF AcpiInv, acpi_init

LEMMA QueryKeeps == ASSUME AcpiInv, NEW s \in Signatures, Query(s) PROVE AcpiInv'
<1>1. acpi_query(s) \in Int
  <2>1. CASE acpi_query(s) # 0
    BY <2>1, QueryFinds, Elements DEF AcpiInv
  <2> QED  BY <2>1
<1>2. TypeOK'
  BY <1>1 DEF AcpiInv, TypeOK, Query, walk
<1> QED  BY <1>2, WalkKept DEF AcpiInv, Query

\* The MADT that a walk begins with.
LEMMA MadtFound ==
  ASSUME AcpiInv, Madt # 0
  PROVE  At(Madt)[Signature] = APIC /\ Sound(Madt)
<1>1. CASE madt = 0
  BY <1>1, AcpiAssumption, QueryFinds DEF Madt, AcpiInv
<1>2. CASE madt # 0
  BY <1>2 DEF Madt, AcpiInv, MadtKept
<1> QED  BY <1>1, <1>2

LEMMA ReadMadtKeeps == ASSUME AcpiInv, NEW type \in Types, ReadMadt(type) PROVE AcpiInv'
<1>1. madt' = Madt /\ Madt # 0 /\ firmware' = firmware /\ cur' = MadtBytes /\ visited' = <<>>
  BY DEF ReadMadt
<1>2. At(Madt)[Signature] = APIC /\ Sound(Madt)
  BY <1>1, MadtFound
<1>3. IsMadt(At(Madt)) /\ Madt \in DOMAIN firmware.table
  BY <1>2, MadtAt DEF AcpiInv
<1>4. At(madt)' = At(Madt)
  BY <1>1, SameFirmware DEF At
<1>5. TypeOK'
  <2>1. MadtBytes \in Nat
    BY DEF MadtBytes, HeaderBytes
  <2> QED  BY <1>1, <1>3, <2>1 DEF AcpiInv, TypeOK, ReadMadt
<1>6. MadtKept'
  <2>1. Sound(madt)' <=> Sound(Madt)
    BY <1>4 DEF Sound
  <2> QED  BY <1>2, <1>4, <2>1 DEF MadtKept
<1>7. PICK f \in [0 .. Len(At(Madt)) -> Nat] :
             /\ Positions(At(Madt)) = {f[n] : n \in 0 .. Len(At(Madt))}
             /\ f[0] = MadtBytes
             /\ \A n \in 1 .. Len(At(Madt)) :
                  f[n] = IF f[n - 1] + 2 > Len(At(Madt)) THEN f[n - 1]
                         ELSE f[n - 1] + At(Madt)[f[n - 1] + 2]
  BY <1>3, PositionsInOrder DEF IsMadt
<1>8. \A p \in Positions(At(Madt)) : MadtBytes <= p
  <2> DEFINE t == At(Madt)
             S == {n \in 0 .. Len(t) : MadtBytes <= f[n]}
  <2>1. MadtBytes \in Nat
    BY DEF MadtBytes, HeaderBytes
  <2>2. Len(t) \in Nat /\ \A i \in 1 .. Len(t) : t[i] \in Nat
    BY <1>3, ByteIsNat DEF IsMadt, IsTable
  <2>3. 0 \in S
    BY <1>7, <2>1, <2>2
  <2>4. ASSUME NEW n \in 1 .. Len(t), n - 1 \in S PROVE n \in S
    <3>1. n - 1 \in 0 .. Len(t) /\ f[n - 1] \in Nat /\ MadtBytes <= f[n - 1]
      BY <2>2, <2>4
    <3>2. f[n - 1] <= f[n]
      <4>1. CASE f[n - 1] + 2 > Len(t)
        BY <1>7, <3>1, <4>1
      <4>2. CASE ~(f[n - 1] + 2 > Len(t))
        <5>1. f[n - 1] + 2 \in 1 .. Len(t)
          BY <2>2, <3>1, <4>2
        <5>2. t[f[n - 1] + 2] \in Nat
          BY <2>2, <5>1
        <5>3. f[n] = f[n - 1] + t[f[n - 1] + 2]
          BY <1>7, <4>2
        <5> QED  BY <3>1, <5>2, <5>3
      <4> QED  BY <4>1, <4>2
    <3>3. n \in 0 .. Len(t) /\ f[n] \in Nat
      BY <2>2
    <3> QED  BY <2>1, <3>1, <3>2, <3>3
  <2> HIDE DEF S, t
  <2>5. \A n \in 0 .. Len(t) : n \in S
    BY <2>2, <2>3, <2>4, UpTo
  <2>6. \A n \in 0 .. Len(t) : MadtBytes <= f[n]
    BY <2>5 DEF S
  <2> QED  BY <1>7, <2>6 DEF t
<1>9. MadtBytes \in Positions(At(Madt)) /\ Positions(At(Madt)) \subseteq Nat
  <2>1. 0 \in 0 .. Len(At(Madt))
    BY <1>3 DEF IsMadt, IsTable
  <2> QED  BY <1>7, <2>1
<1>10. WalkInv'
  BY <1>1, <1>4, <1>9 DEF WalkInv
<1>11. CallbackSees'
  <2>1. \A p \in Positions(At(Madt)) : ~(p < MadtBytes)
    <3>1. MadtBytes \in Nat
      BY DEF MadtBytes, HeaderBytes
    <3> QED  BY <1>8, <1>9, <3>1
  <2>2. ToSet(visited)' = {}
    BY <1>1 DEF ToSet
  <2>3. {p \in Positions(At(madt)') : p < cur' /\ At(madt)'[p + 1] = asked'} = {}
    BY <1>1, <1>4, <2>1
  <2>4. DOMAIN visited' = {} /\ visited' = <<>>
    BY <1>1
  <2> QED  BY <2>2, <2>3, <2>4 DEF CallbackSees
<1>12. FirmwareInv'
  BY <1>1 DEF AcpiInv, FirmwareInv
<1> QED  BY <1>5, <1>6, <1>10, <1>11, <1>12 DEF AcpiInv

\* One turn of the loop.
LEMMA VisitKeeps == ASSUME AcpiInv, Visit PROVE AcpiInv'
<1> DEFINE t == At(madt)
           Passed(c) == {p \in Positions(t) : p < c /\ t[p + 1] = asked}
<1>1. /\ pc = "walk" /\ madt # 0 /\ cur \in Positions(t) /\ cur \in Nat /\ visited \in Seq(Nat)
      /\ ToSet(visited) = Passed(cur)
      /\ \A i, j \in DOMAIN visited : i < j => visited[i] < visited[j]
      /\ visited # <<>> => retval = -1
  BY DEF AcpiInv, Visit, WalkInv, CallbackSees, TypeOK
<1>2. /\ firmware' = firmware /\ madt' = madt /\ asked' = asked
      /\ cur < t[Length]
      /\ EntryType = asked => retval' \in {-1, 0, 1} /\ visited' = Append(visited, cur)
      /\ EntryType # asked => retval' = retval /\ visited' = visited
      /\ retval' >= 0 => pc' = "ready" /\ result' = retval' /\ cur' = cur
      /\ ~(retval' >= 0) => cur' = cur + t[cur + 2] /\ pc' = pc /\ result' = result
  BY DEF Visit, Returns, EntryLength
<1>3. IsMadt(t) /\ IsTable(t) /\ Positions(t) \subseteq Nat
  <2>1. IsMadt(t) /\ IsTable(t)
    BY <1>1, MadtAt DEF AcpiInv, MadtKept, IsMadt
  <2> HIDE DEF t
  <2>2. Len(t) \in Nat
    BY <2>1 DEF IsTable
  <2> QED  BY <2>1, <2>2, PositionsInOrder
<1>4. t' = t
  BY <1>2, SameFirmware DEF At
<1>5. /\ t[cur + 2] \in Byte \ {0}
      /\ cur + t[cur + 2] \in Positions(t)
      /\ \A q \in Positions(t) : q < cur + t[cur + 2] <=> q <= cur
  <2>1. cur < Len(t)
    BY <1>2, <1>3 DEF IsTable
  <2> HIDE DEF t
  <2> QED  BY <1>1, <1>3, <2>1, NextPosition
<1>6. retval' \in {-1, 0, 1} /\ cur' \in Nat /\ visited' \in Seq(Nat)
  <2>1. retval' \in {-1, 0, 1}
    BY <1>2 DEF AcpiInv, TypeOK
  <2>2. t[cur + 2] \in Nat
    BY <1>5, ByteIsNat
  <2>3. cur' \in Nat
    <3> HIDE DEF t
    <3> QED  BY <1>1, <1>2, <2>2
  <2>4. visited' \in Seq(Nat)
    BY <1>1, <1>2
  <2> QED  BY <2>1, <2>3, <2>4
<1>7. TypeOK'
  <2>1. revision' = revision /\ root' = root /\ pc' \in {"ready", "walk"} /\ result' \in Int
    BY <1>1, <1>2, <1>6 DEF Visit, AcpiInv, TypeOK
  <2> QED  BY <1>2, <1>6, <2>1 DEF AcpiInv, TypeOK
<1>8. MadtKept'
  <2>1. Sound(madt)' <=> Sound(madt)
    BY <1>4 DEF Sound
  <2> QED  BY <1>2, <1>4, <2>1 DEF AcpiInv, MadtKept
<1>9. WalkInv'
  <2>1. ASSUME pc' = "walk" PROVE cur' = cur + t[cur + 2]
    BY <1>2, <2>1
  <2> QED  BY <1>1, <1>2, <1>4, <1>5, <2>1 DEF WalkInv
<1>10. FirmwareInv'
  BY <1>2 DEF AcpiInv, FirmwareInv
\* The walk goes on: what it has passed now.
<1>11. ASSUME pc' = "walk" PROVE CallbackSees'
  <2>1. ~(retval' >= 0) /\ cur' = cur + t[cur + 2] /\ retval' = -1
    BY <1>2, <1>6, <1>11
  <2>2. \A p \in Positions(t) : p < cur' <=> (p < cur \/ p = cur)
    <3> TAKE p \in Positions(t)
    <3>1. p < cur' <=> p <= cur
      BY <1>5, <2>1
    <3>2. p \in Nat
      BY <1>3
    <3> QED  BY <1>1, <3>1, <3>2
  <2>3. Passed(cur') = Passed(cur) \cup {p \in {cur} : EntryType = asked}
    <3>1. EntryType = t[cur + 1] /\ ~(cur < cur)
      BY <1>1 DEF EntryType
    <3> HIDE DEF t
    <3> QED  BY <1>1, <2>2, <3>1
  <2>4. ToSet(visited') = ToSet(visited) \cup {p \in {cur} : EntryType = asked}
    <3>1. CASE EntryType = asked
      <4>1. visited' = Append(visited, cur)
        BY <1>2, <3>1
      <4>2. /\ DOMAIN visited' = 1 .. Len(visited) + 1 /\ DOMAIN visited = 1 .. Len(visited)
            /\ Len(visited) \in Nat /\ visited'[Len(visited) + 1] = cur
            /\ \A i \in 1 .. Len(visited) : visited'[i] = visited[i]
        BY <1>1, <4>1
      <4>3. DOMAIN visited' = (DOMAIN visited) \cup {Len(visited) + 1}
        BY <4>2
      <4>4. ToSet(visited') = ToSet(visited) \cup {cur}
        <5>1. \A i \in DOMAIN visited : visited'[i] = visited[i]
          BY <4>2
        <5> QED  BY <4>2, <4>3, <5>1 DEF ToSet
      <4> QED  BY <3>1, <4>4
    <3>2. CASE EntryType # asked
      BY <1>2, <3>2
    <3> QED  BY <3>1, <3>2
  <2>5. ToSet(visited') = Passed(cur')
    BY <1>1, <2>3, <2>4
  <2>6. \A i, j \in DOMAIN visited' : i < j => visited'[i] < visited'[j]
    <3>1. CASE EntryType # asked
      BY <1>1, <1>2, <3>1
    <3>2. CASE EntryType = asked
      <4>1. visited' = Append(visited, cur)
        BY <1>2, <3>2
      <4>2. \A i \in 1 .. Len(visited) : visited[i] < cur
        <5> TAKE i \in 1 .. Len(visited)
        <5>1. visited[i] \in ToSet(visited)
          BY <1>1 DEF ToSet
        <5> QED  BY <1>1, <5>1
      <4>3. /\ DOMAIN visited' = 1 .. Len(visited) + 1 /\ DOMAIN visited = 1 .. Len(visited)
            /\ Len(visited) \in Nat /\ visited'[Len(visited) + 1] = cur
            /\ \A i \in 1 .. Len(visited) : visited'[i] = visited[i]
        BY <1>1, <4>1
      <4> TAKE i, j \in DOMAIN visited'
      <4>4. CASE j \in 1 .. Len(visited)
        <5>1. i < j => i \in 1 .. Len(visited)
          BY <4>3, <4>4
        <5> QED  BY <1>1, <4>3, <4>4, <5>1
      <4>5. CASE j = Len(visited) + 1
        <5>1. i < j => i \in 1 .. Len(visited)
          BY <4>3, <4>5
        <5> QED  BY <4>2, <4>3, <4>5, <5>1
      <4>6. j \in 1 .. Len(visited) \/ j = Len(visited) + 1
        BY <4>3
      <4> QED  BY <4>4, <4>5, <4>6
    <3> QED  BY <3>1, <3>2
  <2>7. Passed(cur') = {p \in Positions(At(madt)') : p < cur' /\ At(madt)'[p + 1] = asked'}
    BY <1>2, <1>4
  <2> HIDE DEF Passed, t
  <2>8. ToSet(visited)' = {p \in Positions(At(madt)') : p < cur' /\ At(madt)'[p + 1] = asked'}
    BY <2>5, <2>7 DEF ToSet
  <2> QED  BY <2>1, <2>6, <2>8 DEF CallbackSees
<1>12. CallbackSees'
  BY <1>11 DEF CallbackSees
<1> QED  BY <1>7, <1>8, <1>9, <1>10, <1>12 DEF AcpiInv

LEMMA EndOfMadtKeeps == ASSUME AcpiInv, EndOfMadt PROVE AcpiInv'
<1>1. TypeOK'
  BY DEF AcpiInv, TypeOK, EndOfMadt, walk
<1> QED  BY <1>1, WalkKept DEF AcpiInv, EndOfMadt

LEMMA StutterKeeps == ASSUME AcpiInv, UNCHANGED vars PROVE AcpiInv'
<1>1. \A a : At(a)' = At(a)
  BY SameFirmware DEF vars
<1>2. At(madt)' = At(madt) /\ (Sound(madt)' <=> Sound(madt))
  BY <1>1 DEF vars, At, Sound
<1> QED  BY <1>2 DEF vars, AcpiInv, TypeOK, FirmwareInv, MadtKept, WalkInv, CallbackSees

LEMMA Inductive == AcpiInv /\ [Next]_vars => AcpiInv'
<1> SUFFICES ASSUME AcpiInv, [Next]_vars PROVE AcpiInv'
  OBVIOUS
<1>1. CASE acpi_init
  BY <1>1, acpi_initKeeps
<1>2. CASE InitPanics \/ ReadMadtPanics
  BY <1>2, PanicKeeps DEF InitPanics, ReadMadtPanics
<1>3. ASSUME NEW s \in Signatures, Query(s) PROVE AcpiInv'
  BY <1>3, QueryKeeps
<1>4. ASSUME NEW type \in Types, ReadMadt(type) PROVE AcpiInv'
  BY <1>4, ReadMadtKeeps
<1>5. CASE Visit
  BY <1>5, VisitKeeps
<1>6. CASE EndOfMadt
  BY <1>6, EndOfMadtKeeps
<1>7. CASE Halted \/ UNCHANGED vars
  BY <1>7, StutterKeeps DEF Halted
<1> QED  BY <1>1, <1>2, <1>3, <1>4, <1>5, <1>6, <1>7 DEF Next

LEMMA InvHolds == Spec => []AcpiInv
BY InitInv, Inductive, PTL DEF Spec
-----------------------------------------------------------------------------
\* The variables keep their types, for any firmware.
THEOREM TypeCorrect == Spec => []TypeOK
<1>1. AcpiInv => TypeOK
  BY DEF AcpiInv
<1> QED  BY <1>1, InvHolds, PTL

\* acpi_read_madt walks a sound MADT and gives the callback exactly the
\* entries of the type it asked for that it has passed, in their order, until
\* it accepts one; whatever the callback answers and wherever these entries
\* are in the table.
THEOREM VisitsRight == Spec => []MadtVisits
<1>1. AcpiInv => MadtVisits
  BY DEF AcpiInv, MadtVisits
<1> QED  BY <1>1, InvHolds, PTL

\* acpi_query answers with a sound table of the signature that the root table
\* lists, and with the RSDT fails only where the first one of the signature is
\* damaged; if no half of an address of the XSDT is that of another table.
THEOREM QueriesRight == ASSUME NoStrayHalves PROVE Spec => QueryRight
<1> DEFINE Right == \A s \in Signatures : Query(s) =>
       IF result' # 0
         THEN result' \in Listed /\ At(result')[Signature] = s /\ Sound(result')
         ELSE root = "rsdt" =>
                LET rsdt == firmware.rsdt
                IN  \A i \in DOMAIN rsdt :
                      At(rsdt[i])[Signature] = s /\ Sound(rsdt[i]) =>
                        \E j \in 1 .. i - 1 : At(rsdt[j])[Signature] = s
<1>1. ASSUME AcpiInv PROVE Right
  <2> SUFFICES ASSUME NEW s \in Signatures, Query(s)
               PROVE  IF result' # 0
                        THEN result' \in Listed /\ At(result')[Signature] = s /\ Sound(result')
                        ELSE root = "rsdt" =>
                               \A i \in DOMAIN firmware.rsdt :
                                 At(firmware.rsdt[i])[Signature] = s /\ Sound(firmware.rsdt[i]) =>
                                   \E j \in 1 .. i - 1 : At(firmware.rsdt[j])[Signature] = s
    OBVIOUS
  <2>1. result' = acpi_query(s) /\ FirmwareInv
    BY <1>1 DEF Query, AcpiInv
  <2>2. CASE result' # 0
    <3> DEFINE r == acpi_query(s)
    <3>1. At(r)[Signature] = s /\ Sound(r) /\ \E i \in 1 .. sdt_entries : r = Tables[i]
      BY <2>1, <2>2, QueryFinds
    <3>2. r \in Listed
      <4>1. PICK i \in 1 .. sdt_entries : r = Tables[i]
        BY <3>1
      <4>2. CASE root # "xsdt"
        BY <2>1, <4>1, <4>2, Elements DEF Listed, ToSet
      <4>3. CASE root = "xsdt"
        <5>1. PICK a \in ToSet(firmware.xsdt) : Tables[i] \in {a % Word, a \div Word}
          BY <2>1, <4>3, Elements
        <5>2. r \in DOMAIN firmware.table
          <6>1. s # 0
            BY AcpiAssumption
          <6> HIDE DEF r
          <6> QED  BY <2>1, <3>1, <6>1, TableAt
        <5>3. r \in {a % Word, a \div Word} \cap DOMAIN firmware.table
          BY <4>1, <5>1, <5>2
        <5>4. r \in ToSet(firmware.xsdt)
          <6> HIDE DEF r
          <6> QED  BY <2>1, <5>1, <5>3 DEF NoStrayHalves, FirmwareInv
        <5> QED  BY <4>3, <5>4 DEF Listed
      <4> QED  BY <4>2, <4>3
    <3> HIDE DEF r
    <3>3. result' = r
      BY <2>1 DEF r
    <3> QED  BY <2>2, <3>1, <3>2, <3>3
  <2>3. CASE result' = 0
    <3> SUFFICES ASSUME root = "rsdt", NEW i \in DOMAIN firmware.rsdt,
                        At(firmware.rsdt[i])[Signature] = s, Sound(firmware.rsdt[i])
                 PROVE  \E j \in 1 .. i - 1 : At(firmware.rsdt[j])[Signature] = s
      BY <2>3
    <3>1. Tables = firmware.rsdt /\ sdt_entries = Len(firmware.rsdt)
      BY <2>1, Elements
    <3>2. i \in 1 .. sdt_entries
      <4>1. firmware.rsdt \in Seq(0 .. Word - 1)
        BY <2>1, AcpiAssumption DEF FirmwareInv
      <4> QED  BY <3>1, <4>1
    <3>3. acpi_query(s) = 0
      BY <2>1, <2>3
    <3> QED  BY <2>1, <3>1, <3>2, <3>3, QueryFails
  <2> QED  BY <2>2, <2>3
<1>2. AcpiInv /\ [Next]_vars => [Right]_vars
  BY <1>1
<1>3. Spec => [][Right]_vars
  BY <1>2, InvHolds, PTL DEF Spec
<1> QED  BY <1>3 DEF QueryRight
=============================================================================
