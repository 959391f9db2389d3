---------------------------- MODULE Objects_proof ----------------------------
(***************************************************************************)
(* Proofs about Objects, for any finite memory and any names.              *)
(***************************************************************************)
EXTENDS Objects, TLAPS, FiniteSetTheorems, NaturalsInduction, WellFoundedInduction

\* What is in a cell, junk included.
NodeRec == [name : (Names \ LongNames) \cup {"", "/"}, type : Types, data : Cell \cup {NULL},
            next : Cell \cup {NULL}, prev : Addresses]
DirRec == [first : Cell \cup {NULL}, last : Addresses, nelem : Nat, entry_count : Nat]

Typed == /\ node \in [Cell -> NodeRec] /\ dir \in [Cell -> DirRec]
         /\ root_dir \in Cell \cup {NULL}
         /\ used \subseteq Cell /\ held \subseteq Cell

\* A directory's data d is the queue of the nodes s.
Queue(nd, dr, d, s) ==
  /\ dr[d].first = IF s = <<>> THEN NULL ELSE s[1]
  /\ dr[d].last = IF s = <<>> THEN FirstOf(d) ELSE NextOf(s[Len(s)])
  /\ dr[d].nelem = Len(s) /\ dr[d].entry_count = Len(s)
  /\ \A i \in 1 .. Len(s) :
       /\ nd[s[i]].next = IF i = Len(s) THEN NULL ELSE s[i + 1]
       /\ nd[s[i]].prev = IF i = 1 THEN FirstOf(d) ELSE NextOf(s[i - 1])

\* The nodes N, of which some list others as l says, are trees whose roots are
\* H: every node but a root is listed, in one place, and every one is reached
\* from a root.
Once(l) == \A m, n \in DOMAIN l : \A i \in 1 .. Len(l[m]), j \in 1 .. Len(l[n]) :
             l[m][i] = l[n][j] => m = n /\ i = j

ListedBy(l) == UNION {{l[n][i] : i \in 1 .. Len(l[n])} : n \in DOMAIN l}

Closed(l, S) == \A n \in S \cap DOMAIN l : \A i \in 1 .. Len(l[n]) : l[n][i] \in S

Trees(N, l, H) ==
  /\ H \subseteq N
  /\ DOMAIN l \subseteq N /\ l \in [DOMAIN l -> Seq(N)]
  /\ Once(l)
  /\ ListedBy(l) = N \ H
  /\ \A S \in SUBSET N : H \subseteq S /\ Closed(l, S) => S = N

\* The directories of N, and their data: cells of their own.
Dirs(nd, N) == {n \in N : nd[n].type = "K_DIR"}
DataOf(nd, N) == {nd[n].data : n \in Dirs(nd, N)}

Memory(nd, N, us) ==
  /\ N \subseteq Cell
  /\ \A n \in Dirs(nd, N) : nd[n].data \in Cell \ N
  /\ \A m, n \in Dirs(nd, N) : nd[m].data = nd[n].data => m = n
  /\ us = N \cup DataOf(nd, N)

\* The store holds the nodes N, which list each other as l says.
Whole(N, l) ==
  /\ Trees(N, l, held)
  /\ DOMAIN l = Dirs(node, N)
  /\ Memory(node, N, used)
  /\ \A n \in Dirs(node, N) : Queue(node, dir, node[n].data, l[n])
  /\ root_dir # NULL => root_dir \in Dirs(node, N)
  /\ \A n \in N : node[n].name \in (Names \ LongNames) \cup {"/"}

\* The inductive invariant.
StoreInv == Typed /\ \E N, l : Whole(N, l)

\* The same, of what the queues read as.
StoreInvRead == Typed /\ Whole(Nodes, Listing)
-----------------------------------------------------------------------------
\* A non-empty set of naturals has a least element.
LEMMA Least ==
  ASSUME NEW S \in SUBSET Nat, S # {}
  PROVE  \E x \in S : \A y \in S : x <= y
<1>1. PICK x \in S : \A y \in S : ~ (<<y, x>> \in OpToRel(<, Nat))
  BY NatLessThanWellFounded, WFMin
<1>2. ASSUME NEW y \in S, y < x PROVE FALSE
  <2>1. <<y, x>> \in Nat \X Nat /\ <<y, x>>[1] < <<y, x>>[2]
    BY <1>2
  <2>2. <<y, x>> \in OpToRel(<, Nat)
    BY <2>1, Zenon DEF OpToRel
  <2> QED  BY <1>1, <2>2
<1> QED  BY <1>2

\* Induction up to a bound: a set of naturals that holds 0 and, with n, n + 1.
LEMMA UpTo ==
  ASSUME NEW N \in Nat, NEW S, 0 \in S, \A n \in 1 .. N : n - 1 \in S => n \in S
  PROVE  \A n \in 0 .. N : n \in S
<1> SUFFICES ASSUME (0 .. N) \ S # {} PROVE FALSE
  OBVIOUS
<1> DEFINE T == (0 .. N) \ S
<1>1. PICK n \in T : \A k \in T : n <= k
  <2>1. T \in SUBSET Nat /\ T # {}
    OBVIOUS
  <2> HIDE DEF T
  <2> QED  BY <2>1, Least
<1>2. n \in 1 .. N /\ n - 1 \in 0 .. N /\ ~(n <= n - 1)
  BY <1>1
<1>3. n - 1 \in S
  BY <1>1, <1>2
<1> QED  BY <1>1, <1>2, <1>3

\* A function that is defined from its value before is defined up to any
\* bound.
Iterates(N, V, first, step, f) ==
  /\ f \in [0 .. N -> V]
  /\ f[0] = first
  /\ \A n \in 1 .. N : f[n] = step[n][f[n - 1]]

LEMMA Iterated ==
  ASSUME NEW N \in Nat, NEW V, NEW first \in V, NEW step \in [1 .. N -> [V -> V]]
  PROVE  \E f : Iterates(N, V, first, step, f)
<1> DEFINE Is(k, f) == Iterates(k, V, first, step, f)
           S == {k \in 0 .. N : \E f : Is(k, f)}
<1>1. 0 \in S
  <2>1. Is(0, [n \in 0 .. 0 |-> first])
    BY DEF Iterates
  <2>2. \E f : Is(0, f)
    BY <2>1
  <2> HIDE DEF Is
  <2> QED  BY <2>2
<1>2. ASSUME NEW k \in 1 .. N, k - 1 \in S PROVE k \in S
  <2>1. PICK f : Is(k - 1, f)
    BY <1>2
  <2> DEFINE g == [n \in 0 .. k |-> IF n = k THEN step[k][f[k - 1]] ELSE f[n]]
  <2>2. g \in [0 .. k -> V]
    BY <2>1 DEF Iterates
  <2>3. g[0] = first
    BY <2>1 DEF Iterates
  <2>4. ASSUME NEW n \in 1 .. k PROVE g[n] = step[n][g[n - 1]]
    BY <2>1 DEF Iterates
  <2>5. Is(k, g)
    BY <2>2, <2>3, <2>4 DEF Iterates
  <2> HIDE DEF Is, g
  <2> QED  BY <2>5
<1>3. N \in S
  <2> HIDE DEF S, Is
  <2>1. \A k \in 0 .. N : k \in S
    BY <1>1, <1>2, UpTo
  <2> QED  BY <2>1
<1> QED  BY <1>3
-----------------------------------------------------------------------------
\* What AllBelow computes, for any function of sets.
Reach(W, tops) ==
  LET level[n \in 0 .. Bound] == IF n = 0 THEN tops ELSE W[level[n - 1]]
  IN  level[Bound]

\* A set and all its elements list.
Widened(kids, S) == S \cup UNION {kids[k] : k \in S}

\* With a node, a set has what it lists.
Shut(kids, S) == \A k \in S : kids[k] \subseteq S

LEMMA BoundNat == Bound \in Nat /\ IsFiniteSet(Cell)
BY ObjectsAssumption, FS_CardinalityType DEF Bound

\* Widening a set as often as there are cells gives a set that is closed: each
\* time it grows by one at least, or not at all any more.
LEMMA ReachIs ==
  ASSUME NEW N \in SUBSET Cell, NEW kids \in [N -> SUBSET N], NEW W,
         \A S \in SUBSET N : W[S] = Widened(kids, S),
         NEW tops \in SUBSET N
  PROVE  /\ Reach(W, tops) \in SUBSET N /\ tops \subseteq Reach(W, tops)
         /\ Shut(kids, Reach(W, tops))
<1> DEFINE F(f) == [n \in 0 .. Bound |-> IF n = 0 THEN tops ELSE W[f[n - 1]]]
           h == CHOOSE f : f = F(f)
           step == [n \in 1 .. Bound |-> [S \in SUBSET N |-> S \cup UNION {kids[k] : k \in S}]]
<1>1. Bound \in Nat /\ IsFiniteSet(N) /\ Cardinality(N) \in Nat /\ Cardinality(N) <= Bound
  BY BoundNat, FS_Subset, FS_CardinalityType DEF Bound
<1>2. step \in [1 .. Bound -> [SUBSET N -> SUBSET N]]
  <2>1. \A S \in SUBSET N : S \cup UNION {kids[k] : k \in S} \in SUBSET N
    OBVIOUS
  <2> QED  BY <2>1
<1>3. PICK g \in [0 .. Bound -> SUBSET N] : g[0] = tops /\ \A n \in 1 .. Bound : g[n] = step[n][g[n - 1]]
  <2> HIDE DEF step
  <2>1. \E g : Iterates(Bound, SUBSET N, tops, step, g)
    BY <1>1, <1>2, Iterated
  <2> QED  BY <2>1 DEF Iterates
<1>4. \A n \in 1 .. Bound : g[n] = W[g[n - 1]]
  <2> TAKE n \in 1 .. Bound
  <2>1. g[n - 1] \in SUBSET N
    BY <1>1, <1>3
  <2> QED  BY <1>3, <2>1 DEF Widened
<1>5. g = F(g)
  <2> HIDE DEF step
  <2> QED  BY <1>1, <1>3, <1>4
<1>6. h = F(h)
  <2> HIDE DEF F
  <2> QED  BY <1>5
<1>7. Reach(W, tops) = h[Bound]
  BY DEF Reach
<1> HIDE DEF h, step
<1>8. h[0] = tops /\ \A n \in 1 .. Bound : h[n] = W[h[n - 1]]
  <2>1. \A n \in 0 .. Bound : h[n] = IF n = 0 THEN tops ELSE W[h[n - 1]]
    <3>1. \A n \in 0 .. Bound : F(h)[n] = IF n = 0 THEN tops ELSE W[h[n - 1]]
      OBVIOUS
    <3> HIDE DEF F
    <3> QED  BY <1>6, <3>1, Zenon
  <2> HIDE DEF F
  <2> QED  BY <1>1, <2>1
<1>9. \A n \in 0 .. Bound : h[n] \in SUBSET N /\ tops \subseteq h[n]
  <2> DEFINE S == {n \in 0 .. Bound : h[n] \in SUBSET N /\ tops \subseteq h[n]}
  <2>1. 0 \in S
    BY <1>1, <1>8
  <2>2. ASSUME NEW n \in 1 .. Bound, n - 1 \in S PROVE n \in S
    <3>1. h[n] = h[n - 1] \cup UNION {kids[k] : k \in h[n - 1]}
      BY <1>8, <2>2 DEF Widened
    <3> QED  BY <1>1, <2>2, <3>1
  <2> HIDE DEF S
  <2>3. \A n \in 0 .. Bound : n \in S
    BY <1>1, <2>1, <2>2, UpTo
  <2> QED  BY <2>3 DEF S
<1>10. \A n \in 1 .. Bound : h[n] = h[n - 1] \cup UNION {kids[k] : k \in h[n - 1]}
  <2> TAKE n \in 1 .. Bound
  <2>1. h[n - 1] \in SUBSET N
    BY <1>1, <1>9
  <2> QED  BY <1>8, <2>1 DEF Widened
<1>11. Shut(kids, h[Bound])
  <2> DEFINE T == {n \in 0 .. Bound : Shut(kids, h[n]) \/ Cardinality(h[n]) >= n}
  <2>1. \A n \in 0 .. Bound : IsFiniteSet(h[n]) /\ Cardinality(h[n]) \in Nat
    BY <1>1, <1>9, FS_Subset, FS_CardinalityType
  <2>2. 0 \in T
    BY <1>1, <2>1
  <2>3. ASSUME NEW n \in 1 .. Bound, n - 1 \in T PROVE n \in T
    <3>1. n \in 0 .. Bound /\ n - 1 \in 0 .. Bound
      BY <1>1
    <3>2. CASE Shut(kids, h[n - 1])
      <4>1. h[n] = h[n - 1] \cup UNION {kids[k] : k \in h[n - 1]}
        BY <1>10
      <4>2. UNION {kids[k] : k \in h[n - 1]} \subseteq h[n - 1]
        BY <3>2 DEF Shut
      <4>3. h[n] = h[n - 1]
        BY <4>1, <4>2, Zenon
      <4> QED  BY <3>1, <3>2, <4>3
    <3>3. CASE ~Shut(kids, h[n - 1])
      <4>1. h[n - 1] \subseteq h[n] /\ h[n - 1] # h[n]
        BY <1>10, <3>3 DEF Shut
      <4>2. Cardinality(h[n - 1]) < Cardinality(h[n])
        BY <2>1, <3>1, <4>1, FS_Subset
      <4>3. Cardinality(h[n - 1]) >= n - 1
        BY <2>3, <3>3
      <4> QED  BY <2>1, <3>1, <4>2, <4>3
    <3> QED  BY <3>2, <3>3
  <2> HIDE DEF T
  <2>4. Bound \in T
    <3>1. \A n \in 0 .. Bound : n \in T
      BY <1>1, <2>2, <2>3, UpTo
    <3> QED  BY <3>1, <1>1
  <2>5. CASE Cardinality(h[Bound]) >= Bound
    <3>1. h[Bound] \in SUBSET N
      BY <1>1, <1>9
    <3>2. Cardinality(h[Bound]) = Cardinality(N)
      <4>1. Cardinality(h[Bound]) <= Cardinality(N) /\ Cardinality(h[Bound]) \in Nat
        BY <1>1, <3>1, FS_Subset, FS_CardinalityType
      <4> QED  BY <1>1, <2>5, <4>1
    <3>3. h[Bound] = N
      BY <1>1, <3>1, <3>2, FS_Subset
    <3> QED  BY <1>1, <3>3 DEF Shut
  <2> QED  BY <2>4, <2>5 DEF T
<1> QED  BY <1>1, <1>7, <1>9, <1>11
-----------------------------------------------------------------------------
\* What Elements computes, from the next node of each node.
Walk(next, first) ==
  LET turn[n \in 0 .. Bound] == IF n = 0 THEN first ELSE next[turn[n - 1]]
  IN  [i \in {n \in 1 .. Bound : turn[n - 1] # NULL} |-> turn[i - 1]]

\* A chain of nodes shorter than the bound is read as it is.
LEMMA WalkIs ==
  ASSUME NEW next, NEW s \in Seq(Cell), Len(s) < Bound, next[NULL] = NULL,
         \A i \in 1 .. Len(s) : next[s[i]] = IF i = Len(s) THEN NULL ELSE s[i + 1]
  PROVE  Walk(next, IF s = <<>> THEN NULL ELSE s[1]) = s
<1> DEFINE first == IF s = <<>> THEN NULL ELSE s[1]
           F(f) == [n \in 0 .. Bound |-> IF n = 0 THEN first ELSE next[f[n - 1]]]
           h == CHOOSE f : f = F(f)
           At(n) == IF n < Len(s) THEN s[n + 1] ELSE NULL
           g == [n \in 0 .. Bound |-> At(n)]
<1>1. Bound \in Nat /\ Len(s) \in Nat /\ (s = <<>> <=> Len(s) = 0)
  BY BoundNat
<1>2. \A i \in 1 .. Len(s) : s[i] \in Cell /\ s[i] # NULL
  BY ObjectsAssumption
<1>3. \A n \in 1 .. Bound : At(n) = next[At(n - 1)]
  <2> TAKE n \in 1 .. Bound
  <2>1. CASE n - 1 < Len(s)
    <3>1. n \in 1 .. Len(s) /\ At(n - 1) = s[n]
      BY <1>1, <2>1
    <3>2. next[s[n]] = IF n = Len(s) THEN NULL ELSE s[n + 1]
      BY <3>1
    <3> QED  BY <1>1, <3>1, <3>2
  <2>2. CASE ~(n - 1 < Len(s))
    BY <1>1, <2>2
  <2> QED  BY <2>1, <2>2
<1>4. At(0) = first
  BY <1>1
<1>5. g = F(g)
  <2>1. \A n \in 0 .. Bound : g[n] = IF n = 0 THEN first ELSE next[g[n - 1]]
    <3> TAKE n \in 0 .. Bound
    <3>1. CASE n = 0
      BY <1>1, <1>4, <3>1
    <3>2. CASE n # 0
      <4>1. n \in 1 .. Bound /\ n - 1 \in 0 .. Bound
        BY <1>1, <3>2
      <4>2. At(n) = next[At(n - 1)]
        BY <1>3, <4>1
      <4> HIDE DEF At
      <4> QED  BY <3>2, <4>1, <4>2
    <3> QED  BY <3>1, <3>2
  <2> HIDE DEF At, first
  <2> QED  BY <2>1
<1>6. h = F(h)
  <2> HIDE DEF F
  <2> QED  BY <1>5
<1>7. Walk(next, first) = [i \in {n \in 1 .. Bound : h[n - 1] # NULL} |-> h[i - 1]]
  BY DEF Walk
<1> HIDE DEF h
<1>8. \A n \in 0 .. Bound : h[n] = IF n = 0 THEN first ELSE next[h[n - 1]]
  <2>1. \A n \in 0 .. Bound : F(h)[n] = IF n = 0 THEN first ELSE next[h[n - 1]]
    OBVIOUS
  <2> HIDE DEF F
  <2> QED  BY <1>6, <2>1, Zenon
<1> HIDE DEF F, g, first
<1>9. \A n \in 0 .. Bound : h[n] = At(n)
  <2> DEFINE S == {n \in 0 .. Bound : h[n] = At(n)}
  <2>1. 0 \in S
    <3>1. 0 \in 0 .. Bound
      BY <1>1
    <3> HIDE DEF At
    <3> QED  BY <1>4, <1>8, <3>1
  <2>2. ASSUME NEW n \in 1 .. Bound, n - 1 \in S PROVE n \in S
    <3>1. n \in 0 .. Bound /\ n # 0
      BY <1>1
    <3>2. h[n] = next[h[n - 1]] /\ At(n) = next[At(n - 1)]
      BY <1>3, <1>8, <3>1
    <3>3. h[n - 1] = At(n - 1)
      BY <2>2
    <3> HIDE DEF At
    <3> QED  BY <3>1, <3>2, <3>3
  <2> HIDE DEF S, At
  <2>3. \A n \in 0 .. Bound : n \in S
    BY <1>1, <2>1, <2>2, UpTo
  <2> QED  BY <2>3 DEF S
<1>10. {n \in 1 .. Bound : h[n - 1] # NULL} = 1 .. Len(s)
  <2>1. \A n \in 1 .. Bound : h[n - 1] # NULL <=> n - 1 < Len(s)
    <3> TAKE n \in 1 .. Bound
    <3>1. n - 1 \in 0 .. Bound
      BY <1>1
    <3>2. h[n - 1] = At(n - 1)
      BY <1>9, <3>1
    <3>3. n - 1 < Len(s) => n \in 1 .. Len(s) /\ At(n - 1) = s[n]
      BY <1>1
    <3> QED  BY <1>2, <3>2, <3>3
  <2> QED  BY <1>1, <2>1
<1>11. \A i \in 1 .. Len(s) : h[i - 1] = s[i]
  <2> TAKE i \in 1 .. Len(s)
  <2>1. i - 1 \in 0 .. Bound /\ i - 1 < Len(s)
    BY <1>1
  <2>2. h[i - 1] = At(i - 1)
    BY <1>9, <2>1
  <2> QED  BY <1>1, <2>1, <2>2
<1>12. Walk(next, first) = [i \in 1 .. Len(s) |-> s[i]]
  BY <1>7, <1>10, <1>11
<1>13. s = [i \in 1 .. Len(s) |-> s[i]]
  OBVIOUS
<1> QED  BY <1>12, <1>13 DEF first

\* A chain of different cells that leaves one out is shorter than the bound.
LEMMA Short ==
  ASSUME NEW s \in Seq(Cell), NEW d \in Cell,
         \A i \in 1 .. Len(s) : s[i] # d,
         \A i, j \in 1 .. Len(s) : s[i] = s[j] => i = j
  PROVE  Len(s) < Bound
<1>1. Len(s) \in Nat /\ s \in [1 .. Len(s) -> Cell \ {d}]
  OBVIOUS
<1>2. s \in Injection(1 .. Len(s), Cell \ {d})
  BY <1>1 DEF Injection, IsInjective
<1>3. IsFiniteSet(Cell \ {d}) /\ Cardinality(Cell \ {d}) = Bound - 1
  BY BoundNat, FS_RemoveElement DEF Bound
<1>4. Cardinality(1 .. Len(s)) <= Cardinality(Cell \ {d})
  BY <1>2, <1>3, FS_Injection
<1>5. Cardinality(1 .. Len(s)) = Len(s)
  BY <1>1, FS_Interval
<1> QED  BY <1>1, <1>3, <1>4, <1>5, BoundNat
-----------------------------------------------------------------------------
\* What the store reads as is what it holds.
LEMMA ReadElements ==
  ASSUME NEW N, NEW l, Typed, Whole(N, l), NEW n \in Dirs(node, N)
  PROVE  /\ Elements(node[n].data) = l[n]
         /\ n \in N /\ n \in Cell /\ l[n] \in Seq(N) /\ Len(l[n]) < Bound
<1> DEFINE d == node[n].data
           s == l[n]
<1>1. N \subseteq Cell /\ n \in N /\ d \in Cell \ N
  BY DEF Whole, Memory, Dirs
<1>2. n \in DOMAIN l /\ s \in Seq(N) /\ s \in Seq(Cell)
  <2>1. n \in DOMAIN l /\ l \in [DOMAIN l -> Seq(N)]
    BY DEF Whole, Trees
  <2>2. s \in Seq(N)
    BY <2>1
  <2> HIDE DEF s
  <2> QED  BY <1>1, <2>1, <2>2
<1>3. \A i \in 1 .. Len(s) : s[i] \in N
  <2> HIDE DEF s
  <2> QED  BY <1>2
<1>4. \A i, j \in 1 .. Len(s) : s[i] = s[j] => i = j
  <2>1. Once(l)
    BY DEF Whole, Trees
  <2> QED  BY <1>2, <2>1, Zenon DEF Once
<1>5. Len(s) < Bound
  <2>1. \A i \in 1 .. Len(s) : s[i] # d
    BY <1>1, <1>3
  <2> HIDE DEF s, d
  <2> QED  BY <1>1, <1>2, <1>4, <2>1, Short
<1>6. Queue(node, dir, d, s)
  BY DEF Whole
<1>7. After[NULL] = NULL
  BY DEF After
<1>8. \A i \in 1 .. Len(s) : After[s[i]] = IF i = Len(s) THEN NULL ELSE s[i + 1]
  <2> TAKE i \in 1 .. Len(s)
  <2>1. s[i] \in Cell /\ s[i] # NULL
    BY <1>1, <1>3, ObjectsAssumption
  <2>2. After[s[i]] = node[s[i]].next
    BY <2>1 DEF After
  <2> HIDE DEF s, d
  <2> QED  BY <1>6, <2>2 DEF Queue
<1>9. dir[d].first = IF s = <<>> THEN NULL ELSE s[1]
  BY <1>6 DEF Queue
<1>10. Elements(d) = Walk(After, dir[d].first)
  BY DEF Elements, Walk
<1> HIDE DEF s, d
<1>11. Walk(After, IF s = <<>> THEN NULL ELSE s[1]) = s
  BY <1>2, <1>5, <1>7, <1>8, WalkIs
<1> QED  BY <1>1, <1>2, <1>5, <1>9, <1>10, <1>11 DEF s, d

LEMMA ReadChildren ==
  ASSUME NEW N, NEW l, Typed, Whole(N, l)
  PROVE  /\ N \subseteq Cell /\ DOMAIN l = Dirs(node, N)
         /\ \A k \in N : /\ Children(k) \in SUBSET N
                         /\ Children(k) = IF k \in DOMAIN l THEN {l[k][i] : i \in 1 .. Len(l[k])}
                                                            ELSE {}
<1>1. N \subseteq Cell /\ DOMAIN l = Dirs(node, N)
  BY DEF Whole, Memory
<1>2. ASSUME NEW k \in N PROVE /\ Children(k) \in SUBSET N
                               /\ Children(k) = IF k \in DOMAIN l THEN {l[k][i] : i \in 1 .. Len(l[k])}
                                                                  ELSE {}
  <2>1. CASE k \in Dirs(node, N)
    <3>1. Elements(node[k].data) = l[k] /\ l[k] \in Seq(N)
      BY <2>1, ReadElements
    <3>2. DOMAIN l[k] = 1 .. Len(l[k]) /\ \A i \in 1 .. Len(l[k]) : l[k][i] \in N
      BY <3>1
    <3>3. Children(k) = {l[k][i] : i \in 1 .. Len(l[k])}
      BY <2>1, <3>1, <3>2 DEF Children, Directory, Dirs
    <3> QED  BY <1>1, <2>1, <3>2, <3>3
  <2>2. CASE k \notin Dirs(node, N)
    BY <1>1, <2>2 DEF Children, Directory, Dirs
  <2> QED  BY <2>1, <2>2
<1> QED  BY <1>1, <1>2

LEMMA ReadBelow ==
  ASSUME NEW N, NEW l, Typed, Whole(N, l), NEW tops \in SUBSET N
  PROVE  AllBelow(tops) \in SUBSET N /\ tops \subseteq AllBelow(tops) /\ Closed(l, AllBelow(tops))
<1> DEFINE kids == [k \in N |-> Children(k)]
<1>1. kids \in [N -> SUBSET N] /\ N \in SUBSET Cell
  BY ReadChildren
<1>2. \A S \in SUBSET N : With[S] = Widened(kids, S)
  <2> TAKE S \in SUBSET N
  <2>1. With[S] = S \cup UNION {Children(k) : k \in S}
    BY <1>1 DEF With
  <2> QED  BY <2>1 DEF Widened
<1>3. AllBelow(tops) = Reach(With, tops)
  BY DEF AllBelow, Reach
<1>4. \A k \in N : kids[k] = IF k \in DOMAIN l THEN {l[k][i] : i \in 1 .. Len(l[k])} ELSE {}
  BY ReadChildren
<1> HIDE DEF kids
<1>5. /\ Reach(With, tops) \in SUBSET N /\ tops \subseteq Reach(With, tops)
      /\ Shut(kids, Reach(With, tops))
  BY <1>1, <1>2, ReachIs
<1>6. Closed(l, Reach(With, tops))
  BY <1>4, <1>5 DEF Closed, Shut
<1> QED  BY <1>3, <1>5, <1>6

ReadRight == \A N, l : Typed /\ Whole(N, l) => Nodes = N /\ Listing = l

LEMMA ReadStore == ReadRight
<1> SUFFICES ASSUME NEW N, NEW l, Typed, Whole(N, l) PROVE Nodes = N /\ Listing = l
  BY DEF ReadRight
<1> DEFINE tops == held \cup ({root_dir} \ {NULL})
<1>1. tops \in SUBSET N
  BY DEF Whole, Trees, Dirs
<1>2. Nodes \in SUBSET N /\ held \subseteq Nodes /\ Closed(l, Nodes)
  <2> HIDE DEF tops
  <2>1. Nodes \in SUBSET N /\ tops \subseteq Nodes /\ Closed(l, Nodes)
    BY <1>1, ReadBelow DEF Nodes, tops
  <2> QED  BY <2>1 DEF tops
<1>3. Nodes = N
  BY <1>2 DEF Whole, Trees
<1>4. Listing = [n \in Dirs(node, N) |-> l[n]]
  <2>1. Listing = [n \in Dirs(node, N) |-> Elements(node[n].data)]
    BY <1>3 DEF Listing, Dirs, Directory
  <2>2. \A n \in Dirs(node, N) : Elements(node[n].data) = l[n]
    BY ReadElements
  <2> QED  BY <2>1, <2>2
<1>5. l = [n \in DOMAIN l |-> l[n]] /\ DOMAIN l = Dirs(node, N)
  BY DEF Whole, Trees
<1> QED  BY <1>3, <1>4, <1>5

LEMMA ReadStoreNext == ReadRight'
BY ReadStore, PTL
-----------------------------------------------------------------------------
LEMMA OnePlace ==
  ASSUME NEW l, Once(l), NEW m \in DOMAIN l, NEW n \in DOMAIN l,
         NEW i \in 1 .. Len(l[m]), NEW j \in 1 .. Len(l[n]), l[m][i] = l[n][j]
  PROVE  m = n /\ i = j
BY Zenon DEF Once

\* A new node, which lists nothing, is a tree of its own.
LEMMA TreesNew ==
  ASSUME NEW N, NEW l, NEW H, Trees(N, l, H), NEW k, k \notin N, NEW l1,
         l1 = [n \in DOMAIN l1 |-> l1[n]],
         DOMAIN l \subseteq DOMAIN l1, DOMAIN l1 \subseteq DOMAIN l \cup {k},
         \A n \in DOMAIN l1 : l1[n] = IF n = k THEN <<>> ELSE l[n]
  PROVE  Trees(N \cup {k}, l1, H \cup {k})
<1>1. /\ H \subseteq N /\ DOMAIN l \subseteq N /\ l \in [DOMAIN l -> Seq(N)]
      /\ Once(l) /\ ListedBy(l) = N \ H
      /\ \A S \in SUBSET N : H \subseteq S /\ Closed(l, S) => S = N
  BY DEF Trees
<1>2. \A n \in DOMAIN l : l[n] \in Seq(N) /\ l1[n] = l[n]
  BY <1>1
<1>3. \A n \in DOMAIN l1 \ DOMAIN l : n = k /\ l1[n] = <<>>
  OBVIOUS
<1>4. \A n \in DOMAIN l1 : l1[n] \in Seq(N \cup {k})
  <2> TAKE n \in DOMAIN l1
  <2>1. CASE n \in DOMAIN l
    BY <1>2, <2>1
  <2>2. CASE n \notin DOMAIN l
    <3>1. l1[n] = <<>>
      BY <1>3, <2>2
    <3>2. <<>> \in Seq(N \cup {k})
      OBVIOUS
    <3> QED  BY <3>1, <3>2, Zenon
  <2> QED  BY <2>1, <2>2
<1>5. \A n \in DOMAIN l1 : \A i \in 1 .. Len(l1[n]) : n \in DOMAIN l
  <2> SUFFICES ASSUME NEW n \in DOMAIN l1, NEW i \in 1 .. Len(l1[n]), n \notin DOMAIN l PROVE FALSE
    OBVIOUS
  <2>1. l1[n] = <<>>
    BY <1>3
  <2> QED  BY <2>1
<1>6. Once(l1)
  <2> SUFFICES ASSUME NEW m \in DOMAIN l1, NEW n \in DOMAIN l1,
                      NEW i \in 1 .. Len(l1[m]), NEW j \in 1 .. Len(l1[n]), l1[m][i] = l1[n][j]
               PROVE  m = n /\ i = j
    BY DEF Once
  <2>1. m \in DOMAIN l /\ n \in DOMAIN l
    BY <1>5
  <2>2. l1[m] = l[m] /\ l1[n] = l[n]
    BY <1>2, <2>1
  <2>3. i \in 1 .. Len(l[m]) /\ j \in 1 .. Len(l[n]) /\ l[m][i] = l[n][j]
    BY <2>2
  <2> QED  BY <1>1, <2>1, <2>3, OnePlace
<1>7. ListedBy(l1) = (N \cup {k}) \ (H \cup {k})
  <2>1. \A x : x \in ListedBy(l1) <=> x \in ListedBy(l)
    <3> TAKE x
    <3>1. ASSUME x \in ListedBy(l1) PROVE x \in ListedBy(l)
      <4>0. PICK n \in DOMAIN l1 : \E i \in 1 .. Len(l1[n]) : x = l1[n][i]
        BY <3>1 DEF ListedBy
      <4>1. PICK i \in 1 .. Len(l1[n]) : x = l1[n][i]
        BY <4>0
      <4>2. n \in DOMAIN l /\ l1[n] = l[n]
        BY <1>2, <1>5
      <4> QED  BY <4>1, <4>2 DEF ListedBy
    <3>2. ASSUME x \in ListedBy(l) PROVE x \in ListedBy(l1)
      <4>0. PICK n \in DOMAIN l : \E i \in 1 .. Len(l[n]) : x = l[n][i]
        BY <3>2 DEF ListedBy
      <4>1. PICK i \in 1 .. Len(l[n]) : x = l[n][i]
        BY <4>0
      <4>2. n \in DOMAIN l1 /\ l1[n] = l[n]
        BY <1>2
      <4> QED  BY <4>1, <4>2 DEF ListedBy
    <3> QED  BY <3>1, <3>2
  <2> QED  BY <1>1, <2>1
<1>8. ASSUME NEW S \in SUBSET (N \cup {k}), H \cup {k} \subseteq S, Closed(l1, S) PROVE S = N \cup {k}
  <2> DEFINE R == S \ {k}
  <2>1. R \in SUBSET N /\ H \subseteq R
    BY <1>1, <1>8
  <2>2. Closed(l, R)
    <3> SUFFICES ASSUME NEW n \in R \cap DOMAIN l, NEW i \in 1 .. Len(l[n]) PROVE l[n][i] \in R
      BY DEF Closed
    <3>1. n \in S \cap DOMAIN l1 /\ l1[n] = l[n] /\ l[n] \in Seq(N)
      BY <1>2
    <3>2. l[n][i] \in N
      BY <3>1
    <3>3. l[n][i] \in S
      BY <1>8, <3>1 DEF Closed
    <3> QED  BY <3>2, <3>3
  <2>3. R = N
    BY <1>1, <2>1, <2>2
  <2> QED  BY <1>8, <2>3
<1>9. DOMAIN l1 \subseteq N \cup {k} /\ l1 \in [DOMAIN l1 -> Seq(N \cup {k})]
  BY <1>1, <1>4
<1> QED  BY <1>1, <1>6, <1>7, <1>8, <1>9 DEF Trees

\* A root is appended to what a node lists that is not below it: nothing else
\* moves, and it is a root no more.
LEMMA TreesAppend ==
  ASSUME NEW N, NEW l, NEW H, Trees(N, l, H), NEW k \in H, NEW t \in DOMAIN l,
         NEW B \in SUBSET N, k \in B, Closed(l, B), t \notin B,
         NEW l1, l1 = [l EXCEPT ![t] = Append(l[t], k)]
  PROVE  Trees(N, l1, H \ {k})
<1>1. /\ H \subseteq N /\ DOMAIN l \subseteq N /\ l \in [DOMAIN l -> Seq(N)]
      /\ Once(l) /\ ListedBy(l) = N \ H
      /\ \A S \in SUBSET N : H \subseteq S /\ Closed(l, S) => S = N
  BY DEF Trees
<1>2. DOMAIN l1 = DOMAIN l /\ \A n \in DOMAIN l : l1[n] = IF n = t THEN Append(l[t], k) ELSE l[n]
  BY <1>1
<1>3. \A n \in DOMAIN l : l[n] \in Seq(N) /\ Len(l[n]) \in Nat
  <2> TAKE n \in DOMAIN l
  <2>1. l[n] \in Seq(N)
    BY <1>1
  <2> QED  BY <2>1
<1>4. /\ Len(l1[t]) = Len(l[t]) + 1 /\ l1[t][Len(l[t]) + 1] = k
      /\ \A i \in 1 .. Len(l[t]) : l1[t][i] = l[t][i]
      /\ l1[t] \in Seq(N)
  <2>1. l[t] \in Seq(N) /\ k \in N /\ l1[t] = Append(l[t], k)
    BY <1>1, <1>2, <1>3
  <2> QED  BY <2>1
<1>5. l1 \in [DOMAIN l1 -> Seq(N)]
  BY <1>1, <1>2, <1>4
<1>6. \A n \in DOMAIN l : \A i \in 1 .. Len(l[n]) :
        i \in 1 .. Len(l1[n]) /\ l1[n][i] = l[n][i] /\ l[n][i] # k
  <2> TAKE n \in DOMAIN l
  <2> TAKE i \in 1 .. Len(l[n])
  <2>1. l[n][i] \in ListedBy(l)
    BY DEF ListedBy
  <2>2. l[n][i] # k
    BY <1>1, <2>1
  <2>3. i \in 1 .. Len(l1[n]) /\ l1[n][i] = l[n][i]
    BY <1>2, <1>3, <1>4
  <2> QED  BY <2>2, <2>3
<1>7. \A n \in DOMAIN l : \A i \in 1 .. Len(l1[n]) :
        i \in 1 .. Len(l[n]) \/ (n = t /\ i = Len(l[t]) + 1)
  BY <1>2, <1>3, <1>4
<1>8. Once(l1)
  <2> SUFFICES ASSUME NEW m \in DOMAIN l, NEW n \in DOMAIN l,
                      NEW i \in 1 .. Len(l1[m]), NEW j \in 1 .. Len(l1[n]), l1[m][i] = l1[n][j]
               PROVE  m = n /\ i = j
    BY <1>2 DEF Once
  <2>1. CASE i \in 1 .. Len(l[m]) /\ j \in 1 .. Len(l[n])
    <3>1. l[m][i] = l[n][j]
      BY <1>6, <2>1
    <3> QED  BY <1>1, <2>1, <3>1, OnePlace
  <2>2. CASE i \notin 1 .. Len(l[m]) /\ j \notin 1 .. Len(l[n])
    BY <1>7, <2>2
  <2>3. CASE i \notin 1 .. Len(l[m]) /\ j \in 1 .. Len(l[n])
    <3>1. l1[m][i] = k /\ l1[n][j] # k
      BY <1>4, <1>6, <1>7, <2>3
    <3> QED  BY <3>1
  <2>4. CASE i \in 1 .. Len(l[m]) /\ j \notin 1 .. Len(l[n])
    <3>1. l1[n][j] = k /\ l1[m][i] # k
      BY <1>4, <1>6, <1>7, <2>4
    <3> QED  BY <3>1
  <2> QED  BY <2>1, <2>2, <2>3, <2>4
<1>9. ListedBy(l1) = N \ (H \ {k})
  <2>1. \A x : x \in ListedBy(l1) <=> x \in ListedBy(l) \/ x = k
    <3> TAKE x
    <3>1. ASSUME x \in ListedBy(l1) PROVE x \in ListedBy(l) \/ x = k
      <4>0. PICK n \in DOMAIN l : \E i \in 1 .. Len(l1[n]) : x = l1[n][i]
        BY <1>2, <3>1 DEF ListedBy
      <4>1. PICK i \in 1 .. Len(l1[n]) : x = l1[n][i]
        BY <4>0
      <4>2. CASE i \in 1 .. Len(l[n])
        BY <1>6, <4>1, <4>2 DEF ListedBy
      <4>3. CASE i \notin 1 .. Len(l[n])
        BY <1>4, <1>7, <4>1, <4>3
      <4> QED  BY <4>2, <4>3
    <3>2. ASSUME x \in ListedBy(l) PROVE x \in ListedBy(l1)
      <4>0. PICK n \in DOMAIN l : \E i \in 1 .. Len(l[n]) : x = l[n][i]
        BY <3>2 DEF ListedBy
      <4>1. PICK i \in 1 .. Len(l[n]) : x = l[n][i]
        BY <4>0
      <4> QED  BY <1>2, <1>6, <4>1 DEF ListedBy
    <3>3. k \in ListedBy(l1)
      <4>1. Len(l[t]) + 1 \in 1 .. Len(l1[t])
        BY <1>3, <1>4
      <4> QED  BY <1>2, <1>4, <4>1 DEF ListedBy
    <3> QED  BY <3>1, <3>2, <3>3
  <2> QED  BY <1>1, <2>1
<1>10. ASSUME NEW S \in SUBSET N, H \ {k} \subseteq S, Closed(l1, S) PROVE S = N
  <2>1. Closed(l, S)
    BY <1>2, <1>6, <1>10 DEF Closed
  <2>2. CASE t \in S
    <3>1. Len(l[t]) + 1 \in 1 .. Len(l1[t])
      BY <1>3, <1>4
    <3>2. k \in S
      BY <1>2, <1>4, <1>10, <2>2, <3>1 DEF Closed
    <3> QED  BY <1>1, <1>10, <2>1, <3>2
  <2>3. CASE t \notin S
    <3>1. S \cup B \in SUBSET N /\ H \subseteq S \cup B
      BY <1>1, <1>10
    <3>2. Closed(l, S \cup B)
      BY <2>1 DEF Closed
    <3>3. S \cup B = N
      BY <1>1, <3>1, <3>2
    <3> QED  BY <1>1, <2>3, <3>3
  <2> QED  BY <2>2, <2>3
<1> QED  BY <1>1, <1>2, <1>5, <1>8, <1>9, <1>10 DEF Trees
-----------------------------------------------------------------------------
\* What the steps write.
LEMMA CellTypes ==
  /\ \A c \in Cell : /\ NextOf(c) \in Addresses /\ NextOf(c).cell = c /\ NextOf(c).field = "next"
                     /\ FirstOf(c) \in Addresses /\ FirstOf(c).cell = c /\ FirstOf(c).field = "first"
  /\ \A a \in Addresses : \E c \in Cell : a = NextOf(c) \/ a = FirstOf(c)
BY DEF Addresses, NextOf, FirstOf

\* A node whose memory was junk, with its data.
Written(knp, name, type, data) == [Named(knp, name, type) EXCEPT ![knp].data = data]

LEMMA NodeWritten ==
  ASSUME Typed, NEW knp \in Cell, NEW name \in (Names \ LongNames) \cup {"/"}, NEW type \in Types,
         NEW data \in Cell \cup {NULL}, NEW nd, nd = Written(knp, name, type, data)
  PROVE  /\ nd \in [Cell -> NodeRec]
         /\ nd[knp].name = name /\ nd[knp].type = type /\ nd[knp].data = data
         /\ \A c \in Cell \ {knp} : nd[c] = node[c]
<1>1. node \in [Cell -> NodeRec] /\ node[knp] \in NodeRec
  BY DEF Typed
<1> DEFINE r == [[[node[knp] EXCEPT !.name = name] EXCEPT !.type = type] EXCEPT !.data = data]
<1>2. r \in NodeRec /\ r.name = name /\ r.type = type /\ r.data = data
  BY <1>1 DEF NodeRec
<1>3. nd = [node EXCEPT ![knp] = r]
  BY <1>1 DEF Named, Written
<1> HIDE DEF r
<1> QED  BY <1>1, <1>2, <1>3

LEMMA EmptyDirIs ==
  ASSUME NEW d \in Cell
  PROVE  EmptyDir(d) \in DirRec /\ \A nd, dr : dr[d] = EmptyDir(d) => Queue(nd, dr, d, <<>>)
BY CellTypes DEF EmptyDir, DirRec, Queue

Same(nd, nd1, s) == \A i \in 1 .. Len(s) : nd1[s[i]] = nd[s[i]]

LEMMA QueueKept ==
  ASSUME NEW nd, NEW nd1, NEW dr, NEW dr1, NEW d, NEW s, Queue(nd, dr, d, s), dr1[d] = dr[d],
         Same(nd, nd1, s)
  PROVE  Queue(nd1, dr1, d, s)
BY DEF Queue, Same

\* What lists a node beside others that do not change.
LEMMA ListedNodes ==
  ASSUME NEW N, NEW l, NEW H, Trees(N, l, H), NEW n \in DOMAIN l
  PROVE  l[n] \in Seq(N) /\ n \in N /\ \A i \in 1 .. Len(l[n]) : l[n][i] \in N
<1>1. l[n] \in Seq(N) /\ n \in N
  BY DEF Trees
<1> QED  BY <1>1
-----------------------------------------------------------------------------
\* A node that lists nothing: one of a caller's own, or a directory.
LEMMA NodeAdded ==
  ASSUME Typed, NEW N, NEW l, Whole(N, l), NEW knp \in Cell \ used,
         NEW name \in (Names \ LongNames) \cup {"/"},
         node' = Written(knp, name, "K_CLKDEV", NULL),
         dir' = dir, used' = used \cup {knp}, held' = held \cup {knp}, root_dir' = root_dir
  PROVE  knp \notin N /\ Typed' /\ Whole(N \cup {knp}, l)'
<1>1. /\ Trees(N, l, held) /\ DOMAIN l = Dirs(node, N)
      /\ N \subseteq Cell /\ used = N \cup DataOf(node, N)
      /\ \A n \in Dirs(node, N) : node[n].data \in Cell \ N
      /\ \A m, n \in Dirs(node, N) : node[m].data = node[n].data => m = n
      /\ \A n \in Dirs(node, N) : Queue(node, dir, node[n].data, l[n])
      /\ root_dir # NULL => root_dir \in Dirs(node, N)
      /\ \A n \in N : node[n].name \in (Names \ LongNames) \cup {"/"}
  BY DEF Whole, Memory
<1>2. knp \notin N /\ \A n \in Dirs(node, N) : node[n].data # knp
  BY <1>1 DEF DataOf
<1>3. /\ node' \in [Cell -> NodeRec] /\ node'[knp].name = name
      /\ node'[knp].type = "K_CLKDEV" /\ node'[knp].data = NULL
      /\ \A c \in Cell \ {knp} : node'[c] = node[c]
  <2>1. {"K_DIR", "K_CLKDEV"} = Types /\ {NULL} \subseteq Cell \cup {NULL}
    BY DEF Types
  <2> QED  BY <2>1, NodeWritten
<1>4. Typed'
  BY <1>3 DEF Typed
<1>5. Trees(N \cup {knp}, l, held')
  <2>1. l = [n \in DOMAIN l |-> l[n]] /\ DOMAIN l \subseteq N
    BY <1>1 DEF Trees
  <2>2. \A n \in DOMAIN l : l[n] = IF n = knp THEN <<>> ELSE l[n]
    BY <1>2, <2>1
  <2> QED  BY <1>1, <1>2, <2>1, <2>2, TreesNew
<1>6. \A n \in N : n # knp /\ node'[n] = node[n]
  BY <1>1, <1>2, <1>3
<1>7. Dirs(node', N \cup {knp}) = Dirs(node, N)
  BY <1>3, <1>6 DEF Dirs
<1>8. \A n \in Dirs(node, N) : node'[n].data = node[n].data /\ n \in N
  BY <1>6 DEF Dirs
<1>9. Memory(node', N \cup {knp}, used')
  <2>1. DataOf(node', N \cup {knp}) = DataOf(node, N)
    BY <1>7, <1>8 DEF DataOf
  <2>2. used' = (N \cup {knp}) \cup DataOf(node', N \cup {knp})
    BY <1>1, <2>1
  <2> QED  BY <1>1, <1>2, <1>7, <1>8, <2>2 DEF Memory
<1>10. \A n \in Dirs(node, N) : Queue(node', dir', node[n].data, l[n])
  <2> TAKE n \in Dirs(node, N)
  <2>1. Same(node, node', l[n])
    BY <1>1, <1>6, ListedNodes DEF Same
  <2> QED  BY <1>1, <2>1, QueueKept
<1>11. \A n \in N \cup {knp} : node'[n].name \in (Names \ LongNames) \cup {"/"}
  BY <1>1, <1>3, <1>6
<1> QED  BY <1>1, <1>2, <1>4, <1>5, <1>7, <1>8, <1>9, <1>10, <1>11 DEF Whole

\* The listing with a directory of which nothing is listed.
AndEmpty(l, knp) == [n \in DOMAIN l \cup {knp} |-> IF n = knp THEN <<>> ELSE l[n]]

LEMMA DirAdded ==
  ASSUME Typed, NEW N, NEW l, Whole(N, l), NEW knp \in Cell \ used,
         NEW data \in Cell \ (used \cup {knp}),
         NEW name \in (Names \ LongNames) \cup {"/"},
         node' = Written(knp, name, "K_DIR", data),
         dir' = [dir EXCEPT ![data] = EmptyDir(data)],
         used' = used \cup {knp, data}, held' = held \cup {knp}, root_dir' \in {root_dir, knp}
  PROVE  knp \notin N /\ Typed' /\ Whole(N \cup {knp}, AndEmpty(l, knp))'
<1> DEFINE l1 == AndEmpty(l, knp)
<1>1. /\ Trees(N, l, held) /\ DOMAIN l = Dirs(node, N)
      /\ N \subseteq Cell /\ used = N \cup DataOf(node, N)
      /\ \A n \in Dirs(node, N) : node[n].data \in Cell \ N
      /\ \A m, n \in Dirs(node, N) : node[m].data = node[n].data => m = n
      /\ \A n \in Dirs(node, N) : Queue(node, dir, node[n].data, l[n])
      /\ root_dir # NULL => root_dir \in Dirs(node, N)
      /\ \A n \in N : node[n].name \in (Names \ LongNames) \cup {"/"}
  BY DEF Whole, Memory
<1>2. /\ knp \notin N /\ data \notin N /\ data # knp
      /\ \A n \in Dirs(node, N) : node[n].data # knp /\ node[n].data # data
  BY <1>1 DEF DataOf
<1>3. /\ node' \in [Cell -> NodeRec] /\ node'[knp].name = name
      /\ node'[knp].type = "K_DIR" /\ node'[knp].data = data
      /\ \A c \in Cell \ {knp} : node'[c] = node[c]
  <2>1. {"K_DIR", "K_CLKDEV"} = Types /\ {NULL} \subseteq Cell \cup {NULL}
    BY DEF Types
  <2> QED  BY <2>1, NodeWritten
<1>4. Typed'
  <2>1. dir' \in [Cell -> DirRec]
    BY EmptyDirIs DEF Typed
  <2> QED  BY <1>3, <2>1 DEF Typed
<1>5. Trees(N \cup {knp}, l1, held')
  <2>1. DOMAIN l \subseteq N /\ DOMAIN l1 = DOMAIN l \cup {knp}
    BY <1>1 DEF Trees, AndEmpty
  <2>2. \A n \in DOMAIN l1 : l1[n] = IF n = knp THEN <<>> ELSE l[n]
    BY DEF AndEmpty
  <2>3. l1 = [n \in DOMAIN l1 |-> l1[n]]
    BY DEF AndEmpty
  <2> HIDE DEF l1
  <2> QED  BY <1>1, <1>2, <2>1, <2>2, <2>3, TreesNew
<1>6. \A n \in N : n # knp /\ node'[n] = node[n]
  BY <1>1, <1>2, <1>3
<1>7. Dirs(node', N \cup {knp}) = Dirs(node, N) \cup {knp}
  BY <1>3, <1>6 DEF Dirs
<1>8. \A n \in Dirs(node, N) : node'[n].data = node[n].data /\ n \in N
  BY <1>6 DEF Dirs
<1>9. Memory(node', N \cup {knp}, used')
  <2>1. DataOf(node', N \cup {knp}) = DataOf(node, N) \cup {data}
    <3>1. DataOf(node', N \cup {knp}) = {node'[n].data : n \in Dirs(node, N) \cup {knp}}
      BY <1>7 DEF DataOf
    <3> DEFINE D == Dirs(node, N)
    <3>2. {node'[n].data : n \in D \cup {knp}} = {node'[n].data : n \in D} \cup {node'[knp].data}
      OBVIOUS
    <3>3. {node'[n].data : n \in D} = {node[n].data : n \in D}
      BY <1>8
    <3> QED  BY <1>3, <3>1, <3>2, <3>3 DEF DataOf
  <2>2. used' = (N \cup {knp}) \cup DataOf(node', N \cup {knp})
    BY <1>1, <2>1
  <2>3. \A n \in Dirs(node, N) \cup {knp} : node'[n].data \in Cell \ (N \cup {knp})
    BY <1>1, <1>2, <1>3, <1>8
  <2>4. \A m, n \in Dirs(node, N) \cup {knp} : node'[m].data = node'[n].data => m = n
    BY <1>1, <1>2, <1>3, <1>8
  <2> QED  BY <1>1, <1>7, <2>2, <2>3, <2>4 DEF Memory
<1>10. \A n \in Dirs(node, N) : Queue(node', dir', node[n].data, l1[n])
  <2> TAKE n \in Dirs(node, N)
  <2>1. Same(node, node', l[n])
    BY <1>1, <1>6, ListedNodes DEF Same
  <2>2. l1[n] = l[n]
    BY <1>1, <1>2, <1>8 DEF AndEmpty
  <2>3. dir'[node[n].data] = dir[node[n].data]
    BY <1>1, <1>2 DEF Typed
  <2> QED  BY <1>1, <2>1, <2>2, <2>3, QueueKept
<1>11. Queue(node', dir', data, l1[knp])
  <2>1. l1[knp] = <<>> /\ dir'[data] = EmptyDir(data)
    BY DEF AndEmpty, Typed
  <2> QED  BY <2>1, EmptyDirIs
<1>12. \A n \in N \cup {knp} : node'[n].name \in (Names \ LongNames) \cup {"/"}
  BY <1>1, <1>3, <1>6
<1>13. root_dir' # NULL => root_dir' \in Dirs(node', N \cup {knp})
  BY <1>1, <1>7
<1>14. DOMAIN l1 = Dirs(node', N \cup {knp})
  BY <1>1, <1>7 DEF AndEmpty
<1>15. \A n \in Dirs(node', N \cup {knp}) : Queue(node', dir', node'[n].data, l1[n])
  BY <1>3, <1>7, <1>8, <1>10, <1>11
<1> HIDE DEF l1
<1>16. Whole(N \cup {knp}, l1)'
  BY <1>5, <1>9, <1>12, <1>13, <1>14, <1>15 DEF Whole
<1> QED  BY <1>2, <1>4, <1>16 DEF l1

\* A directory that could not be made: only the memory of its node, which is
\* free again, has changed.
LEMMA DirFailed ==
  ASSUME Typed, NEW N, NEW l, Whole(N, l), NEW knp \in Cell \ used,
         NEW name \in (Names \ LongNames) \cup {"/"},
         node' = Written(knp, name, "K_DIR", NULL),
         UNCHANGED <<dir, used, held, root_dir>>
  PROVE  Typed' /\ Whole(N, l)' /\ \A n \in N : node'[n] = node[n]
<1>1. /\ Trees(N, l, held) /\ DOMAIN l = Dirs(node, N)
      /\ N \subseteq Cell /\ used = N \cup DataOf(node, N)
      /\ Memory(node, N, used)
      /\ \A n \in Dirs(node, N) : Queue(node, dir, node[n].data, l[n])
      /\ root_dir # NULL => root_dir \in Dirs(node, N)
      /\ \A n \in N : node[n].name \in (Names \ LongNames) \cup {"/"}
  BY DEF Whole, Memory
<1>2. node' \in [Cell -> NodeRec] /\ \A c \in Cell \ {knp} : node'[c] = node[c]
  <2>1. {"K_DIR", "K_CLKDEV"} = Types /\ {NULL} \subseteq Cell \cup {NULL}
    BY DEF Types
  <2> QED  BY <2>1, NodeWritten
<1>3. Typed'
  BY <1>2 DEF Typed
<1>4. \A n \in N : node'[n] = node[n]
  BY <1>1, <1>2
<1>5. Dirs(node', N) = Dirs(node, N) /\ \A n \in Dirs(node, N) : node'[n].data = node[n].data
  BY <1>4 DEF Dirs
<1>6. Memory(node', N, used)
  BY <1>1, <1>5 DEF Memory, DataOf
<1>7. \A n \in Dirs(node, N) : Queue(node', dir, node[n].data, l[n])
  <2> TAKE n \in Dirs(node, N)
  <2>1. Same(node, node', l[n])
    BY <1>1, <1>4, ListedNodes DEF Same
  <2> QED  BY <1>1, <2>1, QueueKept
<1>8. \A n \in N : node'[n].name \in (Names \ LongNames) \cup {"/"}
  BY <1>1, <1>4
<1> QED  BY <1>1, <1>3, <1>4, <1>5, <1>6, <1>7, <1>8 DEF Whole
-----------------------------------------------------------------------------
LEMMA DirAfter ==
  ASSUME NEW q \in DirRec, NEW a
  PROVE  [[[q EXCEPT !.last = a] EXCEPT !.nelem = q.nelem + 1] EXCEPT !.entry_count = q.entry_count + 1]
           = [first |-> q.first, last |-> a, nelem |-> q.nelem + 1, entry_count |-> q.entry_count + 1]
<1> DEFINE x == q.nelem + 1
           y == q.entry_count + 1
           q1 == [q EXCEPT !.last = a]
           q2 == [q1 EXCEPT !.nelem = x]
<1> HIDE DEF x, y, q1, q2
<1>1. q1 = [first |-> q.first, last |-> a, nelem |-> q.nelem, entry_count |-> q.entry_count]
  BY DEF DirRec, q1
<1>2. q2 = [first |-> q.first, last |-> a, nelem |-> x, entry_count |-> q.entry_count]
  BY <1>1 DEF q2
<1>3. [q2 EXCEPT !.entry_count = y] = [first |-> q.first, last |-> a, nelem |-> x, entry_count |-> y]
  BY <1>2
<1> QED  BY <1>3, Zenon DEF x, y, q1, q2

\* A node at the end of the queue of a directory it is not above.
LEMMA TailWritten ==
  ASSUME Typed, NEW d \in Cell, NEW knp \in Cell, InsertTail(d, knp),
         NEW s \in Seq(Cell), Queue(node, dir, d, s),
         \A i \in 1 .. Len(s) : s[i] # knp,
         \A i, j \in 1 .. Len(s) : s[i] = s[j] => i = j
  PROVE  /\ node' \in [Cell -> NodeRec] /\ dir' \in [Cell -> DirRec]
         /\ Queue(node', dir', d, Append(s, knp))
         /\ \A c \in Cell : /\ node'[c].name = node[c].name /\ node'[c].type = node[c].type
                            /\ node'[c].data = node[c].data
         /\ \A c \in Cell \ {d} : dir'[c] = dir[c]
         /\ \A c \in Cell \ {knp} : (\A i \in 1 .. Len(s) : s[i] # c) => node'[c] = node[c]
<1> DEFINE last == dir[d].last
           n == Len(s)
           A == Append(s, knp)
<1>1. /\ n \in Nat /\ (s = <<>> <=> n = 0) /\ \A i \in 1 .. n : s[i] \in Cell
      /\ A \in Seq(Cell) /\ Len(A) = n + 1 /\ A[n + 1] = knp
      /\ \A i \in 1 .. n : A[i] = s[i]
      /\ A # <<>>
  OBVIOUS
<1>2. /\ node \in [Cell -> NodeRec] /\ dir \in [Cell -> DirRec]
      /\ dir[d] \in DirRec /\ last \in Addresses
  BY DEF Typed, DirRec
<1>3. /\ last.cell \in Cell
      /\ n = 0 => last = FirstOf(d) /\ last.field = "first" /\ last.cell = d
      /\ n # 0 => last = NextOf(s[n]) /\ last.field = "next" /\ last.cell = s[n] /\ s[n] \in Cell
  <2>1. last = IF s = <<>> THEN FirstOf(d) ELSE NextOf(s[n])
    BY DEF Queue
  <2> HIDE DEF last
  <2>2. n = 0 => last = FirstOf(d) /\ last.field = "first" /\ last.cell = d
    BY <1>1, <2>1, CellTypes
  <2>3. n # 0 => last = NextOf(s[n]) /\ last.field = "next" /\ last.cell = s[n] /\ s[n] \in Cell
    <3> SUFFICES ASSUME n # 0
                 PROVE  last = NextOf(s[n]) /\ last.field = "next" /\ last.cell = s[n] /\ s[n] \in Cell
      OBVIOUS
    <3>1. s[n] \in Cell /\ last = NextOf(s[n])
      BY <1>1, <2>1
    <3> QED  BY <3>1, CellTypes
  <2> QED  BY <1>1, <2>2, <2>3
<1> DEFINE linked == [node EXCEPT ![knp].next = NULL, ![knp].prev = last]
           stored == [dir EXCEPT ![last.cell].first = IF last.field = "first" THEN knp ELSE @]
<1>4. /\ node' = IF n # 0 THEN [linked EXCEPT ![s[n]].next = knp] ELSE linked
      /\ dir' = [stored EXCEPT ![d].last = NextOf(knp), ![d].nelem = @ + 1, ![d].entry_count = @ + 1]
  BY <1>3 DEF InsertTail
<1>5. /\ linked \in [Cell -> NodeRec] /\ linked[knp].next = NULL /\ linked[knp].prev = last
      /\ linked[knp].name = node[knp].name /\ linked[knp].type = node[knp].type
      /\ linked[knp].data = node[knp].data
      /\ \A c \in Cell \ {knp} : linked[c] = node[c]
  <2> DEFINE r == [[node[knp] EXCEPT !.next = NULL] EXCEPT !.prev = last]
  <2>1. node[knp] \in NodeRec
    BY <1>2
  <2>2. r \in NodeRec /\ r.next = NULL /\ r.prev = last
        /\ r.name = node[knp].name /\ r.type = node[knp].type /\ r.data = node[knp].data
    BY <1>2, <2>1 DEF NodeRec
  <2>3. linked = [node EXCEPT ![knp] = r]
    BY <1>2
  <2> HIDE DEF r, linked
  <2> QED  BY <1>2, <2>2, <2>3
<1>6. stored = IF n = 0 THEN [dir EXCEPT ![d].first = knp] ELSE dir
  <2>1. CASE n = 0
    BY <1>2, <1>3, <2>1
  <2>2. CASE n # 0
    <3>1. last.field # "first" /\ last.cell \in Cell
      BY <1>3, <2>2
    <3>2. stored = [dir EXCEPT ![last.cell].first = @]
      BY <3>1
    <3>3. dir[last.cell] \in DirRec
      BY <1>2, <3>1
    <3>4. [dir[last.cell] EXCEPT !.first = @] = dir[last.cell]
      BY <3>3 DEF DirRec
    <3> QED  BY <1>2, <2>2, <3>1, <3>2, <3>4
  <2> QED  BY <2>1, <2>2
<1>7. /\ dir' \in [Cell -> DirRec]
      /\ dir'[d].first = IF n = 0 THEN knp ELSE dir[d].first
      /\ dir'[d].last = NextOf(knp)
      /\ dir'[d].nelem = dir[d].nelem + 1 /\ dir'[d].entry_count = dir[d].entry_count + 1
      /\ \A c \in Cell \ {d} : dir'[c] = dir[c]
  <2> DEFINE f == IF n = 0 THEN knp ELSE dir[d].first
             r == [first |-> f, last |-> NextOf(knp), nelem |-> dir[d].nelem + 1,
                   entry_count |-> dir[d].entry_count + 1]
  <2>1. r \in DirRec
    BY <1>2, CellTypes DEF DirRec
  <2>2. stored = [dir EXCEPT ![d] = [dir[d] EXCEPT !.first = f]]
    BY <1>2, <1>6 DEF DirRec
  <2>3. dir' = [dir EXCEPT ![d] = r]
    <3> HIDE DEF stored, f
    <3>1. stored[d] = [dir[d] EXCEPT !.first = f]
      BY <1>2, <2>2
    <3>2. stored \in [Cell -> DirRec] /\ stored[d] \in DirRec
      BY <1>2, <2>2, <3>1 DEF DirRec, f
    <3> DEFINE e == [[[stored[d] EXCEPT !.last = NextOf(knp)] EXCEPT !.nelem = stored[d].nelem + 1]
                       EXCEPT !.entry_count = stored[d].entry_count + 1]
    <3>3. dir' = [stored EXCEPT ![d] = e]
      BY <1>4, <3>2
    <3>4. /\ stored[d].first = f /\ stored[d].last = dir[d].last
          /\ stored[d].nelem = dir[d].nelem /\ stored[d].entry_count = dir[d].entry_count
      BY <1>2, <3>1 DEF DirRec
    <3>5. e = r
      <4> HIDE DEF stored, f
      <4>1. e = [first |-> stored[d].first, last |-> NextOf(knp), nelem |-> stored[d].nelem + 1,
                 entry_count |-> stored[d].entry_count + 1]
        BY <3>2, DirAfter, Zenon
      <4> QED  BY <3>4, <4>1, Zenon
    <3> HIDE DEF e, r
    <3> QED  BY <1>2, <2>2, <3>2, <3>3, <3>5
  <2> HIDE DEF stored
  <2> QED  BY <1>2, <2>1, <2>3
<1>8. /\ node' \in [Cell -> NodeRec]
      /\ \A c \in Cell : /\ node'[c].name = node[c].name /\ node'[c].type = node[c].type
                         /\ node'[c].data = node[c].data
                         /\ node'[c].prev = IF c = knp THEN last ELSE node[c].prev
                         /\ node'[c].next = IF c = knp THEN NULL
                                            ELSE IF n # 0 /\ c = s[n] THEN knp ELSE node[c].next
      /\ \A c \in Cell \ {knp} : (n # 0 => c # s[n]) => node'[c] = node[c]
  <2>1. CASE n = 0
    <3>1. node' = linked
      BY <1>4, <2>1
    <3> HIDE DEF linked
    <3> QED  BY <1>2, <1>5, <2>1, <3>1
  <2>2. CASE n # 0
    <3>1. s[n] \in Cell /\ s[n] # knp /\ linked[s[n]] \in NodeRec
      BY <1>1, <1>3, <1>5, <2>2
    <3> DEFINE r == [linked[s[n]] EXCEPT !.next = knp]
    <3>2. /\ r \in NodeRec /\ r.next = knp /\ r.prev = linked[s[n]].prev /\ r.name = linked[s[n]].name
          /\ r.type = linked[s[n]].type /\ r.data = linked[s[n]].data
      BY <3>1 DEF NodeRec
    <3>3. node' = [linked EXCEPT ![s[n]] = r]
      BY <1>4, <1>5, <2>2, <3>1
    <3> HIDE DEF linked, r
    <3> QED  BY <1>5, <2>2, <3>1, <3>2, <3>3
  <2> QED  BY <2>1, <2>2
<1> HIDE DEF linked, stored, last, n, A
<1>9. Queue(node', dir', d, A)
  <2>1. dir'[d].first = A[1]
    <3>1. dir[d].first = IF s = <<>> THEN NULL ELSE s[1]
      BY DEF Queue
    <3> QED  BY <1>1, <1>7, <3>1
  <2>2. dir'[d].nelem = Len(A) /\ dir'[d].entry_count = Len(A)
    BY <1>1, <1>7 DEF Queue, n
  <2>3. ASSUME NEW i \in 1 .. Len(A)
        PROVE  /\ node'[A[i]].next = IF i = Len(A) THEN NULL ELSE A[i + 1]
               /\ node'[A[i]].prev = IF i = 1 THEN FirstOf(d) ELSE NextOf(A[i - 1])
    <3>1. CASE i = n + 1
      <4>1. node'[A[i]].next = NULL /\ node'[A[i]].prev = last
        BY <1>1, <1>8, <3>1
      <4>2. n # 0 => i - 1 = n /\ A[i - 1] = s[n]
        BY <1>1, <3>1
      <4> QED  BY <1>1, <1>3, <3>1, <4>1, <4>2
    <3>2. CASE i \in 1 .. n
      <4>1. A[i] = s[i] /\ s[i] \in Cell /\ s[i] # knp
        BY <1>1, <3>2 DEF n
      <4>2. /\ node[s[i]].next = IF i = n THEN NULL ELSE s[i + 1]
            /\ node[s[i]].prev = IF i = 1 THEN FirstOf(d) ELSE NextOf(s[i - 1])
        BY <3>2 DEF Queue, n
      <4>3. node'[s[i]].prev = node[s[i]].prev
        BY <1>8, <4>1
      <4>4. i # 1 => A[i - 1] = s[i - 1]
        <5>1. i # 1 => i - 1 \in 1 .. n
          BY <1>1, <3>2
        <5> QED  BY <1>1, <5>1
      <4>5. CASE i = n
        <5>1. node'[s[i]].next = knp
          BY <1>1, <1>8, <3>2, <4>1, <4>5
        <5> QED  BY <1>1, <3>2, <4>1, <4>2, <4>3, <4>4, <4>5, <5>1
      <4>6. CASE i # n
        <5>1. n \in 1 .. n /\ i + 1 \in 1 .. n
          BY <1>1, <3>2, <4>6
        <5>2. s[i] # s[n]
          BY <3>2, <4>6, <5>1 DEF n
        <5>3. node'[s[i]].next = s[i + 1]
          BY <1>8, <4>1, <4>2, <4>6, <5>2
        <5> QED  BY <1>1, <3>2, <4>1, <4>2, <4>3, <4>4, <4>6, <5>1, <5>3
      <4> QED  BY <4>5, <4>6
    <3> QED  BY <1>1, <3>1, <3>2
  <2> QED  BY <1>1, <1>7, <2>1, <2>2, <2>3 DEF Queue
<1>10. \A c \in Cell \ {knp} : (\A i \in 1 .. Len(s) : s[i] # c) => node'[c] = node[c]
  <2> SUFFICES ASSUME NEW c \in Cell \ {knp}, \A i \in 1 .. Len(s) : s[i] # c PROVE node'[c] = node[c]
    OBVIOUS
  <2>1. n # 0 => c # s[n]
    <3>1. n # 0 => n \in 1 .. Len(s)
      BY <1>1 DEF n
    <3> QED  BY <3>1
  <2> QED  BY <1>8, <2>1
<1> QED  BY <1>7, <1>8, <1>9, <1>10 DEF A

LEMMA NodeAppended ==
  ASSUME Typed, NEW N, NEW l, Whole(N, l), NEW knp \in held, NEW t \in Dirs(node, N),
         t \notin Below(knp), InsertTail(node[t].data, knp),
         held' = held \ {knp}, UNCHANGED <<root_dir, used>>
  PROVE  /\ Typed' /\ Whole(N, [l EXCEPT ![t] = Append(l[t], knp)])'
         /\ \A n \in N : node'[n].name = node[n].name
<1> DEFINE l1 == [l EXCEPT ![t] = Append(l[t], knp)]
           d == node[t].data
           s == l[t]
<1>1. /\ Trees(N, l, held) /\ DOMAIN l = Dirs(node, N)
      /\ N \subseteq Cell /\ used = N \cup DataOf(node, N)
      /\ Memory(node, N, used)
      /\ \A n \in Dirs(node, N) : node[n].data \in Cell \ N
      /\ \A m, n \in Dirs(node, N) : node[m].data = node[n].data => m = n
      /\ \A n \in Dirs(node, N) : Queue(node, dir, node[n].data, l[n])
      /\ root_dir # NULL => root_dir \in Dirs(node, N)
      /\ \A n \in N : node[n].name \in (Names \ LongNames) \cup {"/"}
  BY DEF Whole, Memory
<1>2. held \subseteq N /\ Once(l) /\ ListedBy(l) = N \ held /\ l = [n \in DOMAIN l |-> l[n]]
  BY <1>1 DEF Trees
<1>3. knp \in N /\ knp \in Cell /\ t \in N /\ t \in DOMAIN l /\ d \in Cell
  BY <1>1, <1>2 DEF Dirs
<1>4. \A n \in DOMAIN l : \A i \in 1 .. Len(l[n]) : l[n][i] \in N /\ l[n][i] # knp
  <2> TAKE n \in DOMAIN l
  <2> TAKE i \in 1 .. Len(l[n])
  <2>1. l[n][i] \in ListedBy(l)
    BY DEF ListedBy
  <2> QED  BY <1>2, <2>1
<1>5. s \in Seq(N) /\ s \in Seq(Cell)
  <2>1. s \in Seq(N)
    BY <1>1, <1>3, ListedNodes
  <2> HIDE DEF s
  <2> QED  BY <1>1, <2>1
<1>6. \A i, j \in 1 .. Len(s) : s[i] = s[j] => i = j
  BY <1>2, <1>3, OnePlace
<1>7. /\ node' \in [Cell -> NodeRec] /\ dir' \in [Cell -> DirRec]
      /\ Queue(node', dir', d, Append(s, knp))
      /\ \A c \in Cell : /\ node'[c].name = node[c].name /\ node'[c].type = node[c].type
                         /\ node'[c].data = node[c].data
      /\ \A c \in Cell \ {d} : dir'[c] = dir[c]
      /\ \A c \in Cell \ {knp} : (\A i \in 1 .. Len(s) : s[i] # c) => node'[c] = node[c]
  <2>1. InsertTail(d, knp) /\ Queue(node, dir, d, s) /\ \A i \in 1 .. Len(s) : s[i] # knp
    BY <1>1, <1>3, <1>4
  <2> HIDE DEF s, d
  <2> QED  BY <1>3, <1>5, <1>6, <2>1, TailWritten
<1>8. Typed'
  BY <1>7 DEF Typed
<1>9. Trees(N, l1, held')
  <2>1. {knp} \in SUBSET N
    BY <1>3
  <2>2. Below(knp) \in SUBSET N /\ {knp} \subseteq Below(knp) /\ Closed(l, Below(knp))
    BY <2>1, ReadBelow DEF Below
  <2>3. knp \in Below(knp)
    BY <2>2
  <2> QED  BY <1>1, <1>3, <2>2, <2>3, TreesAppend
<1>10. Dirs(node', N) = Dirs(node, N) /\ \A n \in Dirs(node, N) : node'[n].data = node[n].data /\ n \in N
  BY <1>1, <1>7 DEF Dirs
<1>11. Memory(node', N, used')
  BY <1>1, <1>10 DEF Memory, DataOf
<1>12. \A n \in Dirs(node, N) : Queue(node', dir', node[n].data, l1[n])
  <2> TAKE n \in Dirs(node, N)
  <2>1. CASE n = t
    <3>1. l1[n] = Append(s, knp)
      BY <1>2, <1>3, <2>1
    <3> QED  BY <1>7, <2>1, <3>1
  <2>2. CASE n # t
    <3>1. l1[n] = l[n]
      BY <1>1, <1>2, <2>2
    <3>2. dir'[node[n].data] = dir[node[n].data]
      BY <1>1, <1>7, <2>2
    <3>3. ASSUME NEW i \in 1 .. Len(l[n]) PROVE node'[l[n][i]] = node[l[n][i]]
      <4>1. l[n][i] \in Cell \ {knp}
        BY <1>1, <1>4
      <4>2. \A j \in 1 .. Len(s) : s[j] # l[n][i]
        BY <1>1, <1>2, <1>3, <2>2, OnePlace
      <4> HIDE DEF s
      <4> QED  BY <1>7, <4>1, <4>2
    <3> QED  BY <1>1, <3>1, <3>2, <3>3, QueueKept DEF Same
  <2> QED  BY <2>1, <2>2
<1>13. \A n \in N : node'[n].name = node[n].name
  BY <1>1, <1>7
<1>14. DOMAIN l1 = Dirs(node', N)
  BY <1>1, <1>10
<1> HIDE DEF l1
<1>15. Whole(N, l1)'
  BY <1>1, <1>9, <1>10, <1>11, <1>12, <1>13, <1>14 DEF Whole
<1> QED  BY <1>8, <1>13, <1>15 DEF l1
-----------------------------------------------------------------------------
\* The steps of Directories, on the nodes N that list l; Nm and Nm1 are the
\* names before and after.
NamesOf(N) == [n \in N |-> node[n].name]

Made(N, l, Nm, N1, l1, Nm1) ==
  \E n \in Cell, nm \in Names \cup {"/"}, isDir \in BOOLEAN :
    /\ n \notin N /\ N1 = N \cup {n}
    /\ Nm1 = [m \in N1 |-> IF m = n THEN nm ELSE Nm[m]]
    /\ l1 = IF isDir THEN AndEmpty(l, n) ELSE l

Listed(N, l, Nm, N1, l1, Nm1) ==
  \E n \in N, t \in DOMAIN l :
    n \notin ListedBy(l) /\ N1 = N /\ Nm1 = Nm /\ l1 = [l EXCEPT ![t] = Append(l[t], n)]

Moved(N, l, Nm, N1, l1, Nm1) ==
  \/ Made(N, l, Nm, N1, l1, Nm1)
  \/ Listed(N, l, Nm, N1, l1, Nm1)
  \/ N1 = N /\ l1 = l /\ Nm1 = Nm

\* One call of the code: what it makes of a store.
StepOf(N, l) == Typed' /\ \E N1, l1 : Whole(N1, l1)' /\ Moved(N, l, NamesOf(N), N1, l1, NamesOf(N1)')

LEMMA NewStep ==
  ASSUME Typed, NEW N, NEW l, Whole(N, l), NEW name \in Names, ObKnodeNew(name)
  PROVE  StepOf(N, l)
<1>1. name \in (Names \ LongNames) \cup {"/"}
  BY DEF ObKnodeNew, TooLong
<1>2. PICK knp \in Cell \ used :
        /\ used' = used \cup {knp} /\ held' = held \cup {knp}
        /\ node' = Written(knp, name, "K_CLKDEV", NULL)
        /\ root_dir' = root_dir /\ dir' = dir
  BY ObjectsAssumption DEF ObKnodeNew, os_pool_allocate, Written
<1>3. knp \notin N /\ Typed' /\ Whole(N \cup {knp}, l)'
  BY <1>1, <1>2, NodeAdded
<1>4. N \subseteq Cell /\ node'[knp].name = name /\ \A c \in Cell \ {knp} : node'[c] = node[c]
  <2>1. "K_CLKDEV" \in Types /\ NULL \in Cell \cup {NULL} /\ N \subseteq Cell
    BY DEF Types, Whole, Memory
  <2> QED  BY <1>1, <1>2, <2>1, NodeWritten
<1>5. NamesOf(N \cup {knp})' = [m \in N \cup {knp} |-> IF m = knp THEN name ELSE NamesOf(N)[m]]
  BY <1>3, <1>4 DEF NamesOf
<1>6. Made(N, l, NamesOf(N), N \cup {knp}, l, NamesOf(N \cup {knp})')
  BY <1>3, <1>5 DEF Made
<1> QED  BY <1>3, <1>6 DEF StepOf, Moved

LEMMA DirStep ==
  ASSUME Typed, NEW N, NEW l, Whole(N, l), NEW name \in (Names \ LongNames) \cup {"/"},
         NEW knp \in Cell \ used, NEW data \in Cell \ (used \cup {knp}), DirNew(name, knp, data),
         root_dir' \in {root_dir, knp}
  PROVE  StepOf(N, l)
<1>1. /\ node' = Written(knp, name, "K_DIR", data) /\ dir' = [dir EXCEPT ![data] = EmptyDir(data)]
      /\ used' = used \cup {knp, data} /\ held' = held \cup {knp}
  BY ObjectsAssumption DEF DirNew, Written
<1>2. knp \notin N /\ Typed' /\ Whole(N \cup {knp}, AndEmpty(l, knp))'
  BY <1>1, DirAdded
<1>3. N \subseteq Cell /\ node'[knp].name = name /\ \A c \in Cell \ {knp} : node'[c] = node[c]
  <2>1. "K_DIR" \in Types /\ data \in Cell \cup {NULL} /\ N \subseteq Cell
    BY DEF Types, Whole, Memory
  <2> QED  BY <1>1, <2>1, NodeWritten
<1>4. NamesOf(N \cup {knp})' = [m \in N \cup {knp} |-> IF m = knp THEN name ELSE NamesOf(N)[m]]
  BY <1>2, <1>3 DEF NamesOf
<1>5. Made(N, l, NamesOf(N), N \cup {knp}, AndEmpty(l, knp), NamesOf(N \cup {knp})')
  BY <1>2, <1>4 DEF Made
<1> QED  BY <1>2, <1>5 DEF StepOf, Moved

LEMMA FailedStep ==
  ASSUME Typed, NEW N, NEW l, Whole(N, l), NEW name \in (Names \ LongNames) \cup {"/"},
         NEW knp \in Cell \ used, DirNew(name, knp, NULL), root_dir' = root_dir
  PROVE  StepOf(N, l)
<1>1. node' = Written(knp, name, "K_DIR", NULL) /\ UNCHANGED <<dir, used, held, root_dir>>
  BY DEF DirNew, Written, FreedOnFailure
<1>2. Typed' /\ Whole(N, l)' /\ \A n \in N : node'[n] = node[n]
  BY <1>1, DirFailed
<1>3. NamesOf(N)' = NamesOf(N)
  BY <1>2 DEF NamesOf
<1> QED  BY <1>2, <1>3 DEF StepOf, Moved

LEMMA AppendStep ==
  ASSUME Typed, NEW N, NEW l, Whole(N, l), NEW knp \in held, NEW dir_kn \in N \cup {NULL},
         ObDirAppend(knp, dir_kn)
  PROVE  StepOf(N, l)
<1>1. PICK t \in Dirs(node, N) : t = IF dir_kn = NULL THEN root_dir ELSE dir_kn
  BY DEF ObDirAppend, Whole, Dirs
<1>2. t \notin Below(knp) /\ InsertTail(node[t].data, knp) /\ held' = held \ {knp}
      /\ UNCHANGED <<root_dir, used>>
  BY <1>1 DEF ObDirAppend
<1>3. /\ DOMAIN l = Dirs(node, N) /\ ListedBy(l) = N \ held /\ held \subseteq N
  BY DEF Whole, Trees
<1>4. /\ Typed' /\ Whole(N, [l EXCEPT ![t] = Append(l[t], knp)])'
      /\ \A n \in N : node'[n].name = node[n].name
  BY <1>1, <1>2, NodeAppended
<1>5. NamesOf(N)' = NamesOf(N)
  BY <1>4 DEF NamesOf
<1>6. Listed(N, l, NamesOf(N), N, [l EXCEPT ![t] = Append(l[t], knp)], NamesOf(N)')
  BY <1>2, <1>3, <1>5 DEF Listed
<1> QED  BY <1>4, <1>6 DEF StepOf, Moved

\* Every call keeps the store whole and makes one step of the directories, or
\* none.
LEMMA StoreStep ==
  ASSUME Typed, NEW N, NEW l, Whole(N, l), [Next]_vars
  PROVE  StepOf(N, l)
<1>1. ASSUME NEW name \in Names, ObKnodeNew(name) PROVE StepOf(N, l)
  BY <1>1, NewStep
<1>2. ASSUME NEW name \in Names, ObDirNew(name) PROVE StepOf(N, l)
  <2>1. PICK knp \in Cell \ used : \E data \in os_pool_allocate(used \cup {knp}) : DirNew(name, knp, data)
    BY <1>2, ObjectsAssumption DEF ObDirNew, os_pool_allocate
  <2>2. PICK data \in (Cell \ (used \cup {knp})) \cup {NULL} : DirNew(name, knp, data)
    BY <2>1 DEF os_pool_allocate
  <2>3. root_dir' = root_dir /\ name \in (Names \ LongNames) \cup {"/"}
    BY <1>2 DEF ObDirNew, TooLong
  <2>4. CASE data = NULL
    BY <2>2, <2>3, <2>4, FailedStep
  <2>5. CASE data # NULL
    BY <2>2, <2>3, <2>5, DirStep
  <2> QED  BY <2>4, <2>5
<1>3. ASSUME ObStoreInit PROVE StepOf(N, l)
  <2>1. PICK knp \in Cell \ used :
          \E data \in os_pool_allocate(used \cup {knp}) \ {NULL} :
            DirNew("/", knp, data) /\ root_dir' = knp
    BY <1>3, ObjectsAssumption DEF ObStoreInit, os_pool_allocate
  <2>2. PICK data \in Cell \ (used \cup {knp}) : DirNew("/", knp, data) /\ root_dir' = knp
    BY <2>1 DEF os_pool_allocate
  <2> QED  BY <2>2, DirStep
<1>4. ASSUME NEW knp \in held, NEW dir_kn \in Nodes \cup {NULL}, ObDirAppend(knp, dir_kn)
      PROVE  StepOf(N, l)
  <2>1. Nodes = N
    BY ReadStore DEF ReadRight
  <2> QED  BY <1>4, <2>1, AppendStep
<1>5. ASSUME UNCHANGED vars PROVE StepOf(N, l)
  <2>1. Typed' /\ Whole(N, l)' /\ NamesOf(N)' = NamesOf(N)
    BY <1>5 DEF vars, Typed, Whole, NamesOf
  <2> QED  BY <2>1 DEF StepOf, Moved
<1> QED  BY <1>1, <1>2, <1>3, <1>4, <1>5 DEF Next

LEMMA StoreInit ==
  ASSUME Init
  PROVE  Typed /\ Whole({}, [n \in {} |-> <<>>])
<1> DEFINE l == [n \in {} |-> <<>>]
<1>1. Typed
  <2>1. ASSUME NEW c \in Cell
        PROVE  /\ [name |-> "", type |-> "K_DIR", data |-> c, next |-> c, prev |-> NextOf(c)] \in NodeRec
               /\ [first |-> c, last |-> FirstOf(c), nelem |-> 1, entry_count |-> 1] \in DirRec
    BY CellTypes DEF NodeRec, DirRec, Types
  <2> QED  BY <2>1 DEF Init, Typed
<1>2. DOMAIN l = {} /\ l \in [DOMAIN l -> Seq({})]
  OBVIOUS
<1> HIDE DEF l
<1>3. Trees({}, l, {})
  BY <1>2 DEF Trees, Once, ListedBy, Closed
<1>4. Dirs(node, {}) = {} /\ DataOf(node, {}) = {}
  BY DEF Dirs, DataOf
<1>5. Whole({}, l)
  BY <1>2, <1>3, <1>4 DEF Whole, Memory, Init
<1> QED  BY <1>1, <1>5 DEF l

\* The invariant is one.
LEMMA StoreInvariant == Spec => []StoreInv
<1>1. Init => StoreInv
  BY StoreInit DEF StoreInv
<1>2. StoreInv /\ [Next]_vars => StoreInv'
  BY StoreStep DEF StoreInv, StepOf
<1> QED  BY <1>1, <1>2, PTL DEF Spec
-----------------------------------------------------------------------------
\* What the store reads as, state by state.
LEMMA ReadDirs ==
  ASSUME NEW N, NEW l, Typed, Whole(N, l)
  PROVE  /\ Nodes = N /\ Listing = l /\ {k \in Nodes : Directory(k)} = Dirs(node, N)
         /\ \A n \in Dirs(node, N) : /\ n \in N /\ n \in DOMAIN l /\ node[n].data \in Cell
                                     /\ Elements(node[n].data) = l[n] /\ l[n] \in Seq(N)
                                     /\ Len(l[n]) \in Nat /\ DOMAIN l[n] = 1 .. Len(l[n])
                                     /\ Len(l[n]) < Bound
                                     /\ Queue(node, dir, node[n].data, l[n])
<1>1. Nodes = N /\ Listing = l
  BY ReadStore DEF ReadRight
<1>2. {k \in Nodes : Directory(k)} = Dirs(node, N)
  BY <1>1 DEF Dirs, Directory
<1>3. ASSUME NEW n \in Dirs(node, N)
      PROVE  /\ n \in N /\ n \in DOMAIN l /\ node[n].data \in Cell
             /\ Elements(node[n].data) = l[n] /\ l[n] \in Seq(N)
             /\ Len(l[n]) \in Nat /\ DOMAIN l[n] = 1 .. Len(l[n])
             /\ Len(l[n]) < Bound
             /\ Queue(node, dir, node[n].data, l[n])
  <2>1. /\ Elements(node[n].data) = l[n] /\ n \in N /\ l[n] \in Seq(N) /\ Len(l[n]) < Bound
    BY ReadElements
  <2>2. n \in DOMAIN l /\ node[n].data \in Cell /\ Queue(node, dir, node[n].data, l[n])
    BY DEF Whole, Memory
  <2>3. Len(l[n]) \in Nat /\ DOMAIN l[n] = 1 .. Len(l[n])
    BY <2>1
  <2> QED  BY <2>1, <2>2, <2>3
<1> QED  BY <1>1, <1>2, <1>3

LEMMA QueuesRead ==
  ASSUME NEW N, NEW l, Typed, Whole(N, l)
  PROVE  QueuesWellFormed
<1> SUFFICES ASSUME NEW knp \in Dirs(node, N)
             PROVE  LET d == node[knp].data
                        elements == Elements(d)
                    IN  /\ Len(elements) < Bound
                        /\ dir[d].entry_count = Len(elements) /\ dir[d].nelem = Len(elements)
                        /\ dir[d].last = IF elements = <<>> THEN FirstOf(d)
                                         ELSE NextOf(elements[Len(elements)])
                        /\ \A i \in DOMAIN elements : Load(node[elements[i]].prev) = elements[i]
  BY ReadDirs DEF QueuesWellFormed
<1> DEFINE d == node[knp].data
           s == l[knp]
<1>1. /\ Elements(d) = s /\ Len(s) \in Nat /\ DOMAIN s = 1 .. Len(s) /\ Len(s) < Bound
      /\ Queue(node, dir, d, s) /\ s \in Seq(N) /\ d \in Cell /\ N \subseteq Cell
  BY ReadDirs, ReadChildren
<1> HIDE DEF s, d
<1>2. \A i \in 1 .. Len(s) : Load(node[s[i]].prev) = s[i]
  <2> TAKE i \in 1 .. Len(s)
  <2>1. node[s[i]].prev = IF i = 1 THEN FirstOf(d) ELSE NextOf(s[i - 1])
    BY <1>1 DEF Queue
  <2>2. CASE i = 1
    <3>1. s # <<>>
      BY <1>1, <2>2
    <3>2. dir[d].first = s[1]
      BY <1>1, <3>1 DEF Queue
    <3> QED  BY <1>1, <2>1, <2>2, <3>2, CellTypes DEF Load
  <2>3. CASE i # 1
    <3> DEFINE j == i - 1
    <3>1. j \in 1 .. Len(s) /\ j # Len(s)
      BY <1>1, <2>3
    <3>2. node[s[j]].next = IF j = Len(s) THEN NULL ELSE s[j + 1]
      <4> HIDE DEF j
      <4> QED  BY <1>1, <3>1 DEF Queue
    <3>3. s[j] \in Cell /\ j + 1 = i
      BY <1>1, <3>1
    <3>4. node[s[j]].next = s[i]
      <4> HIDE DEF j
      <4> QED  BY <3>1, <3>2, <3>3
    <3> QED  BY <2>1, <2>3, <3>3, <3>4, CellTypes DEF Load
  <2> QED  BY <2>2, <2>3
<1>3. /\ dir[d].entry_count = Len(s) /\ dir[d].nelem = Len(s)
      /\ dir[d].last = IF s = <<>> THEN FirstOf(d) ELSE NextOf(s[Len(s)])
  BY <1>1 DEF Queue
<1> QED  BY <1>1, <1>2, <1>3 DEF d

LEMMA MemoryRead ==
  ASSUME NEW N, NEW l, Typed, Whole(N, l)
  PROVE  MemoryAccounted
<1> DEFINE D == Dirs(node, N)
           data == DataOf(node, N)
           f == [n \in D |-> node[n].data]
<1>1. Nodes = N /\ {k \in Nodes : Directory(k)} = D
  BY ReadDirs
<1>2. /\ N \subseteq Cell /\ used = N \cup data /\ D \subseteq N
      /\ \A n \in D : node[n].data \in Cell \ N
      /\ \A m, n \in D : node[m].data = node[n].data => m = n
  BY DEF Whole, Memory, Dirs
<1>3. data = {node[n].data : n \in D} /\ data \subseteq Cell /\ N \cap data = {}
  BY <1>2 DEF DataOf
<1>4. IsFiniteSet(N) /\ IsFiniteSet(D) /\ IsFiniteSet(data)
  BY <1>2, <1>3, BoundNat, FS_Subset
<1>5. f \in Bijection(D, data)
  <2>1. f \in [D -> data] /\ \A x \in data : \E n \in D : f[n] = x
    BY <1>3
  <2>2. \A m, n \in D : f[m] = f[n] => m = n
    BY <1>2
  <2> QED  BY <2>1, <2>2 DEF Bijection, Injection, Surjection, IsInjective
<1>6. Cardinality(data) = Cardinality(D)
  BY <1>4, <1>5, FS_Bijection DEF ExistsBijection
<1>7. Cardinality(N \cup data) = Cardinality(N) + Cardinality(data)
  <2>1. Cardinality(N \cup data) = Cardinality(N) + Cardinality(data) - Cardinality(N \cap data)
    BY <1>4, FS_Union
  <2>2. Cardinality(N \cap data) = 0 /\ Cardinality(N) \in Nat /\ Cardinality(data) \in Nat
    BY <1>3, <1>4, FS_EmptySet, FS_CardinalityType
  <2> QED  BY <2>1, <2>2
<1> HIDE DEF D, data
<1> QED  BY <1>1, <1>2, <1>3, <1>6, <1>7 DEF MemoryAccounted

LEMMA PlacesRead ==
  ASSUME NEW N, NEW l, Typed, Whole(N, l)
  PROVE  ListedOnce
<1> DEFINE places == {p \in Nodes \X (1 .. Bound) :
                        Directory(p[1]) /\ p[2] \in DOMAIN Elements(node[p[1]].data)}
           At(p) == Elements(node[p[1]].data)[p[2]]
<1>1. /\ Nodes = N /\ DOMAIN l = Dirs(node, N) /\ Bound \in Nat
      /\ Once(l) /\ ListedBy(l) = N \ held
  BY ReadDirs, BoundNat DEF Whole, Trees
<1>2. \A p \in places : /\ p[1] \in DOMAIN l /\ p[2] \in 1 .. Len(l[p[1]])
                        /\ At(p) = l[p[1]][p[2]] /\ p = <<p[1], p[2]>>
  <2> TAKE p \in places
  <2>1. p[1] \in Dirs(node, N) /\ p = <<p[1], p[2]>>
    BY <1>1 DEF Dirs, Directory
  <2>2. Elements(node[p[1]].data) = l[p[1]] /\ DOMAIN l[p[1]] = 1 .. Len(l[p[1]])
    BY <2>1, ReadDirs
  <2> QED  BY <1>1, <2>1, <2>2
<1>3. \A n \in DOMAIN l : \A i \in 1 .. Len(l[n]) : <<n, i>> \in places /\ At(<<n, i>>) = l[n][i]
  <2> TAKE n \in DOMAIN l
  <2> TAKE i \in 1 .. Len(l[n])
  <2>1. /\ Elements(node[n].data) = l[n] /\ DOMAIN l[n] = 1 .. Len(l[n]) /\ n \in N
        /\ Len(l[n]) < Bound /\ Len(l[n]) \in Nat
    BY <1>1, ReadDirs
  <2>2. Directory(n)
    BY <1>1 DEF Dirs, Directory
  <2>3. <<n, i>> \in N \X (1 .. Bound)
    BY <1>1, <2>1
  <2> QED  BY <1>1, <2>1, <2>2, <2>3
<1> HIDE DEF places, At
<1>4. \A p, q \in places : At(p) = At(q) => p = q
  <2> SUFFICES ASSUME NEW p \in places, NEW q \in places, At(p) = At(q) PROVE p = q
    OBVIOUS
  <2>1. p[1] = q[1] /\ p[2] = q[2]
    <3>1. /\ p[1] \in DOMAIN l /\ q[1] \in DOMAIN l
          /\ p[2] \in 1 .. Len(l[p[1]]) /\ q[2] \in 1 .. Len(l[q[1]])
          /\ l[p[1]][p[2]] = l[q[1]][q[2]]
      BY <1>2
    <3> QED  BY <1>1, <3>1, OnePlace
  <2> QED  BY <1>2, <2>1
<1>5. {At(p) : p \in places} = ListedBy(l)
  <2>1. \A p \in places : At(p) \in ListedBy(l)
    BY <1>2 DEF ListedBy
  <2>2. ASSUME NEW x \in ListedBy(l) PROVE x \in {At(p) : p \in places}
    <3>1. PICK n \in DOMAIN l : \E i \in 1 .. Len(l[n]) : x = l[n][i]
      BY DEF ListedBy
    <3>2. PICK i \in 1 .. Len(l[n]) : x = l[n][i]
      BY <3>1
    <3> QED  BY <1>3, <3>2
  <2> QED  BY <2>1, <2>2
<1> QED  BY <1>1, <1>4, <1>5 DEF ListedOnce, places, At
-----------------------------------------------------------------------------
\* Both walks of a queue find the first node of the name.
LEMMA FirstIs ==
  ASSUME NEW N, NEW l, Typed, Whole(N, l), NEW n \in Dirs(node, N), NEW name
  PROVE  FirstNamed(node[n].data, name) = First(l[n], name) /\ First(l[n], name) \in SUBSET N
<1> DEFINE s == l[n]
           hits == {i \in DOMAIN s : node[s[i]].name = name}
<1>1. Elements(node[n].data) = s /\ s \in Seq(N) /\ Len(s) \in Nat /\ DOMAIN s = 1 .. Len(s)
  BY ReadDirs
<1>2. FirstNamed(node[n].data, name) = {s[i] : i \in {j \in hits : \A k \in hits : j <= k}}
  BY <1>1 DEF FirstNamed
<1>3. First(s, name) = {s[i] : i \in {j \in DOMAIN s : node[s[j]].name = name
                          /\ \A k \in 1 .. j - 1 : node[s[k]].name # name}}
  BY DEF First
<1> HIDE DEF s
<1>4. {j \in hits : \A k \in hits : j <= k}
        = {j \in DOMAIN s : node[s[j]].name = name
             /\ \A k \in 1 .. j - 1 : node[s[k]].name # name}
  <2>1. ASSUME NEW j \in hits
        PROVE  (\A k \in hits : j <= k) <=> \A k \in 1 .. j - 1 : node[s[k]].name # name
    <3>1. ASSUME \A k \in hits : j <= k, NEW k \in 1 .. j - 1, node[s[k]].name = name PROVE FALSE
      <4>1. k \in hits /\ ~(j <= k)
        BY <1>1, <3>1
      <4> QED  BY <3>1, <4>1
    <3>2. ASSUME \A k \in 1 .. j - 1 : node[s[k]].name # name, NEW k \in hits, ~(j <= k) PROVE FALSE
      <4>1. k \in 1 .. j - 1
        BY <1>1, <3>2
      <4> QED  BY <3>2, <4>1
    <3> QED  BY <3>1, <3>2
  <2> QED  BY <2>1
<1>5. \A i \in DOMAIN s : s[i] \in N
  BY <1>1
<1> HIDE DEF hits
<1> QED  BY <1>2, <1>3, <1>4, <1>5 DEF s

\* What a component is looked up as from some nodes.
Found(S, name) == UNION {Component(k, name) : k \in S}

LEMMA ComponentIs ==
  ASSUME NEW N, NEW l, Typed, Whole(N, l), root_dir # NULL, NEW name, name # "/"
  PROVE  /\ root_dir \in DOMAIN l /\ Component(NULL, name) = First(l[root_dir], name)
         /\ \A k \in N : Component(k, name) = IF k \in DOMAIN l THEN First(l[k], name) ELSE {}
         /\ \A n \in DOMAIN l : First(l[n], name) \in SUBSET N
<1>1. DOMAIN l = Dirs(node, N) /\ root_dir \in DOMAIN l /\ N \subseteq Cell /\ NULL \notin N
  BY ObjectsAssumption DEF Whole, Memory
<1>2. \A n \in DOMAIN l : /\ FirstNamed(node[n].data, name) = First(l[n], name)
                          /\ First(l[n], name) \in SUBSET N
  BY <1>1, FirstIs
<1>3. Component(NULL, name) = First(l[root_dir], name)
  BY <1>1, <1>2 DEF Component, ob_root_get
<1>4. \A k \in N : Component(k, name) = IF k \in DOMAIN l THEN First(l[k], name) ELSE {}
  BY <1>1, <1>2 DEF Component, knode_subdir_find, Dirs
<1> QED  BY <1>1, <1>2, <1>3, <1>4

\* A look-up leads where the component does, from the nodes reached, or from
\* the root when there are none.
LEMMA FoundIs ==
  ASSUME NEW N, NEW l, Typed, Whole(N, l), root_dir # NULL, NEW name, name # "/",
         NEW S \in SUBSET N
  PROVE  Found(S, name) = Leads(l, S, name) /\ Leads(l, S, name) \in SUBSET N
<1>1. /\ \A k \in N : Component(k, name) = IF k \in DOMAIN l THEN First(l[k], name) ELSE {}
      /\ \A n \in DOMAIN l : First(l[n], name) \in SUBSET N
  BY ComponentIs, Zenon
<1>2. Leads(l, S, name) = UNION {First(l[k], name) : k \in S \cap DOMAIN l}
  BY DEF Leads
<1>3. \A x : x \in Found(S, name) <=> \E k \in S : x \in Component(k, name)
  BY DEF Found
<1>4. \A x : x \in Leads(l, S, name) <=> \E k \in S \cap DOMAIN l : x \in First(l[k], name)
  BY <1>2
<1>5. \A x : (\E k \in S : x \in Component(k, name))
               <=> \E k \in S \cap DOMAIN l : x \in First(l[k], name)
  BY <1>1
<1>6. \A x : x \in Found(S, name) <=> x \in Leads(l, S, name)
  BY <1>3, <1>4, <1>5
<1>7. Found(S, name) = Leads(l, S, name)
  BY <1>6, Zenon
<1> QED  BY <1>1, <1>2, <1>7

LEMMA FoundFirst ==
  ASSUME NEW N, NEW l, Typed, Whole(N, l), root_dir # NULL, NEW name, name # "/"
  PROVE  Found({NULL}, name) = Leads(l, {root_dir}, name)
<1>1. root_dir \in DOMAIN l /\ Component(NULL, name) = First(l[root_dir], name)
  BY ComponentIs
<1>2. Found({NULL}, name) = Component(NULL, name)
  BY DEF Found
<1>3. Leads(l, {root_dir}, name) = First(l[root_dir], name)
  BY <1>1 DEF Leads
<1> QED  BY <1>1, <1>2, <1>3

\* The names and slashes of a path that ends in a name.
PathShape(path) == /\ Len(path) \in Nat \ {0} /\ DOMAIN path = 1 .. Len(path)
                   /\ path[Len(path)] # "/"

LEMMA PathIs == \A path \in Paths : PathShape(path)
<1> SUFFICES ASSUME NEW path \in Paths PROVE PathShape(path)
  OBVIOUS
<1>1. PICK n \in 1 .. MaxPath : path \in [1 .. n -> Names \cup {"/"}]
  BY DEF Paths
<1>2. path[Len(path)] # "/"
  BY DEF Paths
<1>3. n \in Nat \ {0} /\ Len(path) = n /\ DOMAIN path = 1 .. n
  BY <1>1, ObjectsAssumption
<1> QED  BY <1>2, <1>3 DEF PathShape

\* From any place in it there is a component ahead, after slashes alone.
LEMMA ComponentAtIs ==
  ASSUME NEW path, PathShape(path), NEW p \in 1 .. Len(path)
  PROVE  /\ ComponentAt(path, p) \in p .. Len(path)
         /\ \A i \in p .. ComponentAt(path, p) - 1 : path[i] = "/"
         /\ path[ComponentAt(path, p)] # "/"
<1> DEFINE T == {q \in p .. Len(path) : path[q] # "/"}
           Is(q) == /\ \A i \in p .. q - 1 : path[i] = "/"
                    /\ q <= Len(path) => path[q] # "/"
           c == ComponentAt(path, p)
<1>1. Len(path) \in Nat /\ path[Len(path)] # "/" /\ p \in Nat /\ p <= Len(path)
  BY DEF PathShape
<1>2. \E q \in p .. Len(path) + 1 : Is(q)
  <2>1. Len(path) \in T /\ T \in SUBSET Nat
    BY <1>1
  <2>2. PICK q \in T : \A k \in T : q <= k
    <3> HIDE DEF T
    <3> QED  BY <2>1, Least
  <2>3. \A i \in p .. q - 1 : path[i] = "/"
    <3> TAKE i \in p .. q - 1
    <3>1. i \in p .. Len(path) /\ ~(q <= i)
      BY <1>1, <2>2
    <3> QED  BY <2>2, <3>1
  <2>4. q \in p .. Len(path) + 1 /\ path[q] # "/"
    BY <1>1, <2>2
  <2> QED  BY <2>3, <2>4
<1>3. c = CHOOSE q \in p .. Len(path) + 1 : Is(q)
  BY DEF ComponentAt
<1>4. c \in p .. Len(path) + 1 /\ Is(c)
  <2> HIDE DEF c, Is
  <2> QED  BY <1>2, <1>3
<1>5. c <= Len(path)
  <2> SUFFICES ASSUME ~(c <= Len(path)) PROVE FALSE
    OBVIOUS
  <2> HIDE DEF c
  <2>1. Len(path) \in p .. c - 1
    BY <1>1, <1>4
  <2> QED  BY <1>1, <1>4, <2>1
<1> HIDE DEF c
<1> QED  BY <1>1, <1>4, <1>5 DEF c

\* Where a path leads from the root, as ResolveFollowsPath has it.
Follow(l, path) ==
  LET at[n \in 0 .. Len(path)] == IF n = 0 THEN {root_dir} ELSE Leads(l, at[n - 1], path[n])
  IN  at[Len(path)]

Follows(N, l, path, at) ==
  /\ at \in [0 .. Len(path) -> SUBSET N]
  /\ at[0] = {root_dir}
  /\ \A n \in 1 .. Len(path) : at[n] = Leads(l, at[n - 1], path[n])

LEMMA FollowIs ==
  ASSUME NEW N, NEW l, Typed, Whole(N, l), root_dir # NULL, NEW path, PathShape(path)
  PROVE  \E at : Follows(N, l, path, at) /\ Follow(l, path) = at[Len(path)]
<1> DEFINE L == Len(path)
           F(f) == [n \in 0 .. L |-> IF n = 0 THEN {root_dir} ELSE Leads(l, f[n - 1], path[n])]
           h == CHOOSE f : f = F(f)
           step == [n \in 1 .. L |-> [S \in SUBSET N |-> Leads(l, S, path[n])]]
<1>1. L \in Nat /\ {root_dir} \in SUBSET N
  BY DEF PathShape, Whole, Dirs
<1>2. \A n \in 1 .. L : \A S \in SUBSET N : Leads(l, S, path[n]) \in SUBSET N
  <2> TAKE n \in 1 .. L
  <2>1. CASE path[n] = "/"
    BY <2>1 DEF Leads
  <2>2. CASE path[n] # "/"
    <3> DEFINE name == path[n]
    <3> HIDE DEF name
    <3>1. name # "/"
      BY <2>2 DEF name
    <3>2. \A S \in SUBSET N : Leads(l, S, name) \in SUBSET N
      BY <3>1, FoundIs, Zenon
    <3> QED  BY <3>2 DEF name
  <2> QED  BY <2>1, <2>2
<1>3. step \in [1 .. L -> [SUBSET N -> SUBSET N]]
  BY <1>2
<1>4. PICK g \in [0 .. L -> SUBSET N] : g[0] = {root_dir} /\ \A n \in 1 .. L : g[n] = step[n][g[n - 1]]
  <2> HIDE DEF step, L
  <2>1. \E g : Iterates(L, SUBSET N, {root_dir}, step, g)
    BY <1>1, <1>3, Iterated
  <2> QED  BY <2>1 DEF Iterates
<1>5. \A n \in 1 .. L : g[n] = Leads(l, g[n - 1], path[n])
  <2> TAKE n \in 1 .. L
  <2>1. g[n - 1] \in SUBSET N
    BY <1>1, <1>4
  <2> QED  BY <1>4, <2>1
<1>6. g = F(g)
  <2> HIDE DEF step
  <2> QED  BY <1>1, <1>4, <1>5
<1>7. h = F(h)
  <2> HIDE DEF F
  <2> QED  BY <1>6
<1>8. Follow(l, path) = h[L]
  BY DEF Follow
<1> HIDE DEF h, step
<1>9. \A n \in 0 .. L : h[n] = IF n = 0 THEN {root_dir} ELSE Leads(l, h[n - 1], path[n])
  <2>1. \A n \in 0 .. L : F(h)[n] = IF n = 0 THEN {root_dir} ELSE Leads(l, h[n - 1], path[n])
    OBVIOUS
  <2> HIDE DEF F
  <2> QED  BY <1>7, <2>1, Zenon
<1>10. DOMAIN h = 0 .. L /\ h = [n \in 0 .. L |-> h[n]]
  <2>1. DOMAIN F(h) = 0 .. L /\ F(h) = [n \in 0 .. L |-> F(h)[n]]
    OBVIOUS
  <2> HIDE DEF F
  <2> QED  BY <1>7, <2>1
<1>11. h[0] = {root_dir} /\ \A n \in 1 .. L : h[n] = Leads(l, h[n - 1], path[n])
  <2> HIDE DEF F, L
  <2> QED  BY <1>1, <1>9
<1>12. \A n \in 0 .. L : h[n] \in SUBSET N
  <2> DEFINE S == {n \in 0 .. L : h[n] \in SUBSET N}
  <2>1. 0 \in S
    BY <1>1, <1>11
  <2>2. ASSUME NEW n \in 1 .. L, n - 1 \in S PROVE n \in S
    <3>1. h[n - 1] \in SUBSET N /\ n \in 0 .. L
      BY <1>1, <2>2
    <3>2. h[n] = Leads(l, h[n - 1], path[n])
      BY <1>11
    <3> HIDE DEF F, L
    <3>3. h[n] \in SUBSET N
      BY <1>2, <3>1, <3>2
    <3> QED  BY <3>1, <3>3
  <2> HIDE DEF S, F, L
  <2>3. \A n \in 0 .. L : n \in S
    BY <1>1, <2>1, <2>2, UpTo
  <2> QED  BY <2>3 DEF S
<1>13. Follows(N, l, path, h)
  <2> HIDE DEF F
  <2> QED  BY <1>10, <1>11, <1>12 DEF Follows
<1> QED  BY <1>8, <1>13

\* A turn of the loop follows the path over the slashes and one component.
LEMMA TurnFollows ==
  ASSUME NEW N, NEW l, Typed, Whole(N, l), root_dir # NULL, NEW path, PathShape(path),
         NEW at, Follows(N, l, path, at),
         NEW p \in 1 .. Len(path), NEW reached, reached = IF p = 1 THEN {NULL} ELSE at[p - 1]
  PROVE  \E q \in p + 1 .. Len(path) + 1 :
           NextComponent(path, [p |-> p, knp |-> reached]) = [p |-> q, knp |-> at[q - 1]]
<1> DEFINE q == ComponentAt(path, p)
           name == path[q]
<1>1. /\ q \in p .. Len(path) /\ name # "/" /\ \A i \in p .. q - 1 : path[i] = "/"
      /\ Len(path) \in Nat /\ p \in Nat /\ p >= 1
  <2>1. q \in p .. Len(path)
    BY ComponentAtIs, Zenon
  <2>2. name # "/"
    BY ComponentAtIs, Zenon
  <2>3. \A i \in p .. q - 1 : path[i] = "/"
    BY ComponentAtIs, Zenon
  <2>4. Len(path) \in Nat /\ p \in Nat /\ p >= 1
    BY DEF PathShape
  <2> QED  BY <2>1, <2>2, <2>3, <2>4, Zenon
<1>2. NextComponent(path, [p |-> p, knp |-> reached])
        = [p |-> q + 1, knp |-> Found(reached, name)]
  BY <1>1 DEF NextComponent, Found
<1> HIDE DEF q
<1>3. \A n \in 0 .. q - p : at[p - 1 + n] = at[p - 1]
  <2> DEFINE S == {n \in 0 .. q - p : at[p - 1 + n] = at[p - 1]}
  <2>1. 0 \in S
    BY <1>1
  <2>2. ASSUME NEW n \in 1 .. q - p, n - 1 \in S PROVE n \in S
    <3> DEFINE i == p - 1 + n
    <3>1. i \in p .. q - 1 /\ i \in 1 .. Len(path) /\ i - 1 = p - 1 + (n - 1) /\ n \in 0 .. q - p
      BY <1>1
    <3>2. path[i] = "/" /\ at[i] = Leads(l, at[i - 1], path[i])
      BY <1>1, <3>1 DEF Follows
    <3>3. at[i] = at[i - 1]
      BY <3>2 DEF Leads
    <3>4. at[i - 1] = at[p - 1]
      BY <2>2, <3>1
    <3> QED  BY <3>1, <3>3, <3>4
  <2> HIDE DEF S
  <2>3. \A n \in 0 .. q - p : n \in S
    <3>1. q - p \in Nat
      BY <1>1
    <3> QED  BY <2>1, <2>2, <3>1, UpTo
  <2> QED  BY <2>3 DEF S
<1>4. at[q - 1] = at[p - 1]
  <2>1. q - p \in 0 .. q - p /\ p - 1 + (q - p) = q - 1
    BY <1>1
  <2> QED  BY <1>3, <2>1
<1>5. at[q] = Leads(l, at[p - 1], name) /\ at[p - 1] \in SUBSET N /\ at[0] = {root_dir}
  <2>1. q \in 1 .. Len(path) /\ p - 1 \in 0 .. Len(path)
    BY <1>1
  <2> QED  BY <1>4, <2>1 DEF Follows
<1> HIDE DEF name
<1>6. Found(reached, name) = at[q]
  <2>1. name # "/"
    BY <1>1
  <2>2. \A S \in SUBSET N : Found(S, name) = Leads(l, S, name)
    <3> TAKE S \in SUBSET N
    <3>1. Found(S, name) = Leads(l, S, name) /\ Leads(l, S, name) \in SUBSET N
      BY <2>1, FoundIs, Zenon
    <3> QED  BY <3>1
  <2>3. Found({NULL}, name) = Leads(l, {root_dir}, name)
    BY <2>1, FoundFirst, Zenon
  <2>4. reached = IF p = 1 THEN {NULL} ELSE at[p - 1]
    OBVIOUS
  <2>5. p = 1 => at[p - 1] = {root_dir}
    BY <1>5
  <2>6. Found(at[p - 1], name) = Leads(l, at[p - 1], name)
    BY <1>5, <2>2
  <2> QED  BY <1>5, <2>3, <2>4, <2>5, <2>6
<1>7. q + 1 \in p + 1 .. Len(path) + 1 /\ (q + 1) - 1 = q
  BY <1>1
<1> QED  BY <1>2, <1>6, <1>7

\* What has been reached after some turns.
Turned(path, at, n, r) ==
  \E p \in n + 1 .. Len(path) + 1 :
    r = [p |-> p, knp |-> IF p = 1 THEN {NULL} ELSE at[p - 1]]

LEMMA OneTurn ==
  ASSUME NEW N, NEW l, Typed, Whole(N, l), root_dir # NULL, NEW path, PathShape(path),
         NEW at, Follows(N, l, path, at), NEW n \in 1 .. Len(path),
         NEW r, Turned(path, at, n - 1, r)
  PROVE  Turned(path, at, n, NextComponent(path, r))
<1>1. PICK p \in n .. Len(path) + 1 :
        r = [p |-> p, knp |-> IF p = 1 THEN {NULL} ELSE at[p - 1]]
  <2>1. (n - 1) + 1 = n
    BY DEF PathShape
  <2> QED  BY <2>1 DEF Turned
<1>2. Len(path) \in Nat /\ p \in Nat /\ n \in Nat /\ n <= p /\ 1 <= p /\ p <= Len(path) + 1 /\ n <= Len(path)
  BY <1>1 DEF PathShape
<1>3. CASE p > Len(path)
  <2>1. NextComponent(path, r) = r
    BY <1>1, <1>3 DEF NextComponent
  <2>2. p \in n + 1 .. Len(path) + 1
    BY <1>2, <1>3
  <2> QED  BY <1>1, <2>1, <2>2 DEF Turned
<1>4. CASE ~(p > Len(path))
  <2>1. p \in 1 .. Len(path)
    BY <1>2, <1>4
  <2> DEFINE reached == IF p = 1 THEN {NULL} ELSE at[p - 1]
  <2>2. PICK q \in p + 1 .. Len(path) + 1 :
          NextComponent(path, [p |-> p, knp |-> reached]) = [p |-> q, knp |-> at[q - 1]]
    <3> HIDE DEF reached
    <3>1. reached = IF p = 1 THEN {NULL} ELSE at[p - 1]
      BY DEF reached
    <3> QED  BY <2>1, <3>1, TurnFollows
  <2>3. q \in n + 1 .. Len(path) + 1 /\ q # 1
    BY <1>2, <2>2
  <2> QED  BY <1>1, <2>2, <2>3 DEF Turned
<1> QED  BY <1>3, <1>4

LEMMA ResolveIs ==
  ASSUME NEW N, NEW l, Typed, Whole(N, l), root_dir # NULL, NEW path, PathShape(path)
  PROVE  ob_knode_resolve(path) = Follow(l, path)
<1>1. PICK at : Follows(N, l, path, at) /\ Follow(l, path) = at[Len(path)]
  BY FollowIs
<1> DEFINE L == Len(path)
           first == [p |-> 1, knp |-> {NULL}]
           F(f) == [n \in 0 .. L |-> IF n = 0 THEN first ELSE NextComponent(path, f[n - 1])]
           h == CHOOSE f : f = F(f)
           V == {r \in [p : 1 .. L + 1, knp : SUBSET (N \cup {NULL})] : Turned(path, at, 0, r)}
           step == [n \in 1 .. L |-> [r \in V |-> NextComponent(path, r)]]
<1>2. L \in Nat \ {0}
  BY DEF PathShape
<1>3. \A n \in 0 .. L : \A r : Turned(path, at, n, r) => r \in V
  <2> SUFFICES ASSUME NEW n \in 0 .. L, NEW r, Turned(path, at, n, r) PROVE r \in V
    OBVIOUS
  <2>1. PICK p \in n + 1 .. L + 1 : r = [p |-> p, knp |-> IF p = 1 THEN {NULL} ELSE at[p - 1]]
    BY DEF Turned
  <2>2. p \in 1 .. L + 1 /\ p - 1 \in 0 .. L
    BY <1>2, <2>1
  <2>3. (IF p = 1 THEN {NULL} ELSE at[p - 1]) \in SUBSET (N \cup {NULL})
    BY <1>1, <2>2 DEF Follows
  <2> QED  BY <2>1, <2>2, <2>3 DEF Turned
<1>4. Turned(path, at, 0, first) /\ first \in V
  <2>1. 1 \in 0 + 1 .. L + 1
    BY <1>2
  <2>2. Turned(path, at, 0, first)
    BY <2>1 DEF Turned
  <2>3. 0 \in 0 .. L
    BY <1>2
  <2> QED  BY <1>3, <2>2, <2>3
<1>5. \A r \in V : NextComponent(path, r) \in V
  <2> SUFFICES ASSUME NEW r \in V PROVE NextComponent(path, r) \in V
    OBVIOUS
  <2>1. 1 \in 1 .. L /\ 1 \in 0 .. L /\ 1 - 1 = 0 /\ Turned(path, at, 0, r)
    BY <1>2
  <2>2. Turned(path, at, 1, NextComponent(path, r))
    BY <1>1, <2>1, OneTurn
  <2> QED  BY <1>3, <2>1, <2>2
<1>6. PICK g \in [0 .. L -> V] : g[0] = first /\ \A n \in 1 .. L : g[n] = NextComponent(path, g[n - 1])
  <2>1. step \in [1 .. L -> [V -> V]]
    <3> HIDE DEF V
    <3> QED  BY <1>5
  <2>2. \E g : Iterates(L, V, first, step, g)
    <3> HIDE DEF V, step, L, first
    <3> QED  BY <1>2, <1>4, <2>1, Iterated
  <2>3. PICK g : g \in [0 .. L -> V] /\ g[0] = first /\ \A n \in 1 .. L : g[n] = step[n][g[n - 1]]
    BY <2>2 DEF Iterates
  <2>4. \A n \in 1 .. L : g[n] = NextComponent(path, g[n - 1])
    <3> TAKE n \in 1 .. L
    <3> HIDE DEF V
    <3>1. n - 1 \in 0 .. L
      BY <1>2
    <3> QED  BY <2>3, <3>1
  <2> HIDE DEF V, step
  <2> QED  BY <2>3, <2>4
<1> HIDE DEF V, step
<1>7. g = F(g)
  BY <1>2, <1>6
<1>8. h = F(h)
  <2> HIDE DEF F
  <2> QED  BY <1>7
<1>9. ob_knode_resolve(path) = h[L].knp
  BY DEF ob_knode_resolve
<1> HIDE DEF h
<1>10. h[0] = first /\ \A n \in 1 .. L : h[n] = NextComponent(path, h[n - 1])
  <2>1. \A n \in 0 .. L : h[n] = IF n = 0 THEN first ELSE NextComponent(path, h[n - 1])
    <3>1. \A n \in 0 .. L : F(h)[n] = IF n = 0 THEN first ELSE NextComponent(path, h[n - 1])
      OBVIOUS
    <3> HIDE DEF F
    <3> QED  BY <1>8, <3>1, Zenon
  <2> HIDE DEF F, L, first
  <2> QED  BY <1>2, <2>1
<1>11. Turned(path, at, L, h[L])
  <2> DEFINE S == {n \in 0 .. L : Turned(path, at, n, h[n])}
  <2>1. 0 \in S
    BY <1>2, <1>4, <1>10
  <2>2. ASSUME NEW n \in 1 .. L, n - 1 \in S PROVE n \in S
    <3>1. Turned(path, at, n - 1, h[n - 1])
      BY <2>2
    <3>2. Turned(path, at, n, NextComponent(path, h[n - 1]))
      BY <1>1, <3>1, OneTurn
    <3>3. n \in 0 .. L
      BY <1>2
    <3> QED  BY <1>10, <3>2, <3>3
  <2> HIDE DEF S, L
  <2>3. \A n \in 0 .. L : n \in S
    BY <1>2, <2>1, <2>2, UpTo
  <2>4. L \in S
    BY <1>2, <2>3
  <2> QED  BY <2>4 DEF S
<1>12. h[L].knp = at[L]
  <2>1. PICK p \in L + 1 .. L + 1 : h[L] = [p |-> p, knp |-> IF p = 1 THEN {NULL} ELSE at[p - 1]]
    BY <1>11 DEF Turned
  <2>2. p # 1 /\ p - 1 = L
    BY <1>2, <2>1
  <2> QED  BY <2>1, <2>2
<1> QED  BY <1>1, <1>9, <1>12
-----------------------------------------------------------------------------
\* Every variable of the object store is of its type, whatever a cell held
\* before, and no node has a name too long for it.
THEOREM TypeCorrect == Spec => []TypeOK
<1>1. StoreInv => TypeOK
  <2> SUFFICES ASSUME Typed, NEW N, NEW l, Whole(N, l) PROVE TypeOK
    BY DEF StoreInv
  <2>1. \A knp \in Nodes : node[knp].name \in (Names \ LongNames) \cup {"/"}
    BY ReadDirs DEF Whole
  <2>2. \A c \in Cell : node[c] \in NodeRec /\ dir[c] \in DirRec
    BY DEF Typed
  <2> QED  BY <2>1, <2>2 DEF TypeOK, Typed, NodeRec, DirRec
<1> QED  BY <1>1, StoreInvariant, PTL

\* Between calls every queue can be walked and appended to, no memory is lost,
\* and every node is in one place, in a store of any size.
THEOREM StoreStaysWhole == Spec => []StoreConsistent
<1>1. StoreInv => StoreConsistent
  BY QueuesRead, MemoryRead, PlacesRead DEF StoreInv, StoreConsistent
<1> QED  BY <1>1, StoreInvariant, PTL

\* A path resolves to the node that its components lead to from the root, for
\* paths of any length in a store of any size.
THEOREM ResolvesRight == Spec => []ResolveFollowsPath
<1>1. StoreInv => ResolveFollowsPath
  <2> SUFFICES ASSUME Typed, NEW N, NEW l, Whole(N, l), root_dir # NULL, NEW path \in Paths
               PROVE  ob_knode_resolve(path) = Follow(Listing, path)
    BY DEF StoreInv, ResolveFollowsPath, Follow
  <2>1. Listing = l /\ PathShape(path)
    BY ReadDirs, PathIs
  <2> QED  BY <2>1, ResolveIs
<1> QED  BY <1>1, StoreInvariant, PTL

\* The store implements Directories: a call appends one node at the end of one
\* directory or makes one that nothing lists, and changes no other.
THEOREM Implements == Spec => ImplementsDirectories
<1>1. Init => Store!Init
  <2> SUFFICES ASSUME Init PROVE Store!Init
    OBVIOUS
  <2>1. Nodes = {} /\ Listing = [n \in {} |-> <<>>]
    BY StoreInit, ReadDirs
  <2> QED  BY <2>1 DEF Store!Init
<1>2. StoreInv /\ [Next]_vars => [Store!Next]_<<[knp \in Nodes |-> node[knp].name], Listing>>
  <2> SUFFICES ASSUME Typed, NEW N, NEW l, Whole(N, l), [Next]_vars
               PROVE  [Store!Next]_<<[knp \in Nodes |-> node[knp].name], Listing>>
    BY DEF StoreInv
  <2> DEFINE name == [knp \in Nodes |-> node[knp].name]
  <2>1. PICK N1, l1 : Typed' /\ Whole(N1, l1)' /\ Moved(N, l, NamesOf(N), N1, l1, NamesOf(N1)')
    BY StoreStep DEF StepOf
  <2>2. Nodes = N /\ Listing = l /\ Nodes' = N1 /\ Listing' = l1
    BY <2>1, ReadStore, ReadStoreNext DEF ReadRight
  <2>3. name = NamesOf(N) /\ name' = NamesOf(N1)'
    BY <2>2 DEF NamesOf
  <2>4. DOMAIN name = N /\ DOMAIN l \subseteq N /\ \A n \in DOMAIN l : DOMAIN l[n] = 1 .. Len(l[n])
    BY <2>2, ReadDirs DEF Whole, Trees
  <2> HIDE DEF name
  <2>5. CASE Made(N, l, NamesOf(N), N1, l1, NamesOf(N1)')
    <3>1. PICK n \in Cell, nm \in Names \cup {"/"}, isDir \in BOOLEAN :
            /\ n \notin N /\ N1 = N \cup {n}
            /\ NamesOf(N1)' = [m \in N1 |-> IF m = n THEN nm ELSE NamesOf(N)[m]]
            /\ l1 = IF isDir THEN AndEmpty(l, n) ELSE l
      BY <2>5 DEF Made
    <3>2. Store!Create(n, nm, isDir)
      BY <2>2, <2>3, <2>4, <3>1 DEF Store!Create, AndEmpty, name
    <3> QED  BY <3>1, <3>2 DEF Store!Next
  <2>6. CASE Listed(N, l, NamesOf(N), N1, l1, NamesOf(N1)')
    <3>1. PICK n \in N, t \in DOMAIN l :
            n \notin ListedBy(l) /\ N1 = N /\ NamesOf(N1)' = NamesOf(N)
            /\ l1 = [l EXCEPT ![t] = Append(l[t], n)]
      BY <2>6 DEF Listed
    <3>2. Store!Listed = ListedBy(l)
      BY <2>2, <2>4 DEF Store!Listed, ListedBy
    <3>3. Store!Add(n, t)
      BY <2>2, <2>3, <2>4, <3>1, <3>2 DEF Store!Add, name
    <3> QED  BY <2>2, <2>3, <2>4, <3>1, <3>3 DEF Store!Next, name
  <2>7. CASE N1 = N /\ l1 = l /\ NamesOf(N1)' = NamesOf(N)
    BY <2>2, <2>3, <2>7 DEF name
  <2> QED  BY <2>1, <2>5, <2>6, <2>7 DEF Moved
<1> QED  BY <1>1, <1>2, StoreInvariant, PTL DEF Spec, ImplementsDirectories, Store!Spec
=============================================================================
