----------------------------- MODULE Pmap_proof -----------------------------
(***************************************************************************)
(* What mapping pages through four levels of tables guarantees, for any    *)
(* memory, any tables at boot and any pages.                               *)
(***************************************************************************)
EXTENDS Pmap, FunctionTheorems, FiniteSetTheorems, TLAPS

Levels == 1 .. 4

Present(m, f, i) == m[f][i] # NotPresent

\* The entry of a table of a level that page v has.
Idx(v, lvl) == (v \div Reach(lvl)) % TABLE_SIZE

(***************************************************************************)
(* Tables as a tree: every table of level 2 to 4 leads to tables one level *)
(* down, and a table hangs in one entry, its home.  Frames that are no     *)
(* tables are at level 0.                                                  *)
(***************************************************************************)
Tree(m, level, home) ==
  /\ level \in [Frame -> 0 .. 4]
  /\ level[CR3] = 4
  /\ \A f \in Frame : level[f] = 4 => f = CR3
  /\ \A f \in Frame, i \in Index :
       Present(m, f, i) /\ level[f] > 1 =>
         /\ m[f][i].frame \in Frame
         /\ level[m[f][i].frame] = level[f] - 1
         /\ home[m[f][i].frame].frame = f
         /\ home[m[f][i].frame].index = i
  /\ \A f \in Frame, i \in Index :
       Present(m, f, i) /\ level[f] = 1 => m[f][i].frame \notin Frame

Memories == [Frame -> [Index -> Entry]]
-----------------------------------------------------------------------------
(* The indices of a page. *)

LEMMA Division ==
  ASSUME NEW size \in Nat \ {0}, NEW n \in Nat
  PROVE  /\ n = (n \div size) * size + (n % size)
         /\ n \div size \in Nat /\ n % size \in 0 .. size - 1
OBVIOUS

LEMMA QuotientIs ==
  ASSUME NEW size \in Nat \ {0}, NEW q \in Nat, NEW r \in 0 .. size - 1
  PROVE  (q * size + r) \div size = q
OBVIOUS

\* Dividing twice is dividing by the product.
LEMMA DivideTwice ==
  ASSUME NEW a \in Nat \ {0}, NEW b \in Nat \ {0}, NEW n \in Nat
  PROVE  (n \div a) \div b = n \div (a * b)
<1> DEFINE q == n \div a
           s == n % a
           r == q \div b
           t == q % b
<1>1. n = q * a + s /\ q \in Nat /\ s \in 0 .. a - 1
  BY Division
<1>2. q = r * b + t /\ r \in Nat /\ t \in 0 .. b - 1
  BY <1>1, Division
<1> HIDE DEF q, s, r, t
<1>3. n = (r * b + t) * a + s
  BY <1>1, <1>2
<1>4. (r * b + t) * a = r * (a * b) + t * a
  BY <1>1, <1>2
<1>5. t * a \in Nat /\ t * a <= (b - 1) * a
  BY <1>2
<1>6. (b - 1) * a = a * b - a
  OBVIOUS
<1>7. a * b \in Nat \ {0}
  OBVIOUS
<1>8. t * a + s \in 0 .. a * b - 1
  BY <1>1, <1>5, <1>6, <1>7
<1>9. n = r * (a * b) + (t * a + s)
  BY <1>1, <1>2, <1>3, <1>4, <1>5, <1>7
<1>10. n \div (a * b) = r
  BY <1>2, <1>7, <1>8, <1>9, QuotientIs
<1> QED  BY <1>10 DEF r, q

LEMMA IndexOf ==
  ASSUME ~LA57, NEW v \in Pages, NEW lvl \in Levels
  PROVE  /\ vma_level_index(v, lvl) = Idx(v, lvl)
         /\ Idx(v, lvl) \in Index
<1>1. TABLE_SIZE \in Nat \ {0} /\ Reach(lvl) \in Nat \ {0} /\ v \in Nat
  <2>1. pmap_toplevel = 4
    BY DEF pmap_toplevel, PMAP_PML4
  <2>2. Reach(5) \in Nat
    BY <2>1, PowersOfTwo DEF PMAP_PML1
  <2>3. v \in Nat
    BY <2>1, <2>2, PmapAssumption
  <2> QED  BY <2>1, <2>3, PowersOfTwo DEF Levels, PMAP_PML1
<1>2. v \div Reach(lvl) \in Nat
  BY <1>1
<1>3. Idx(v, lvl) \in Index
  BY <1>1, <1>2 DEF Idx, Index
<1> QED  BY <1>3 DEF vma_level_index, Idx, Levels, PMAP_PML5

LEMMA SlotIs ==
  ASSUME ~LA57, NEW v \in Pages, NEW lvl \in Levels, NEW base \in Frame
  PROVE  Slot(base, vma_level_index(v, lvl)) = [frame |-> base, index |-> Idx(v, lvl)]
<1> DEFINE i == Idx(v, lvl)
<1>1. i \in 0 .. TABLE_SIZE - 1 /\ TABLE_SIZE \in Nat \ {0} /\ vma_level_index(v, lvl) = i
  BY IndexOf, PowersOfTwo DEF Index
<1> HIDE DEF i
<1>2. i \div TABLE_SIZE = 0 /\ i % TABLE_SIZE = i
  BY <1>1
<1>3. base + 0 = base
  BY PmapAssumption
<1> QED  BY <1>1, <1>2, <1>3 DEF Slot, i

\* The quotients of a page, from the top-level table down.
LEMMA Quotients ==
  ASSUME ~LA57, NEW v \in Pages
  PROVE  /\ v \div Reach(4) = Idx(v, 4)
         /\ \A lvl \in 1 .. 3 :
              v \div Reach(lvl) = (v \div Reach(lvl + 1)) * TABLE_SIZE + Idx(v, lvl)
         /\ v \div Reach(1) = v
<1> DEFINE Q(lvl) == v \div Reach(lvl)
<1>1. pmap_toplevel = 4 /\ v \in Nat /\ TABLE_SIZE \in Nat \ {0}
  <2>1. pmap_toplevel = 4
    BY DEF pmap_toplevel, PMAP_PML4
  <2>2. Reach(5) \in Nat
    BY <2>1, PowersOfTwo DEF PMAP_PML1
  <2> QED  BY <2>1, <2>2, PmapAssumption, PowersOfTwo
<1>2. \A lvl \in 1 .. 4 : /\ Reach(lvl) \in Nat \ {0}
                          /\ Reach(lvl + 1) = Reach(lvl) * TABLE_SIZE
  BY <1>1, PowersOfTwo DEF PMAP_PML1
<1>3. ASSUME NEW lvl \in 1 .. 4
      PROVE  Q(lvl) \in Nat /\ Q(lvl) = (Q(lvl) \div TABLE_SIZE) * TABLE_SIZE + Idx(v, lvl)
  <2>1. Q(lvl) \in Nat
    BY <1>1, <1>2
  <2> QED  BY <1>1, <2>1, Division DEF Idx
<1>4. ASSUME NEW lvl \in 1 .. 3
      PROVE  Q(lvl) \div TABLE_SIZE = Q(lvl + 1)
  BY <1>1, <1>2, DivideTwice
<1>5. Q(4) \div TABLE_SIZE = 0
  <2>1. v \div (Reach(4) * TABLE_SIZE) = 0
    <3>1. v < Reach(5) /\ Reach(5) = Reach(4) * TABLE_SIZE /\ Reach(4) * TABLE_SIZE \in Nat \ {0}
      BY <1>1, <1>2, PmapAssumption
    <3> QED  BY <1>1, <3>1
  <2> QED  BY <1>1, <1>2, <2>1, DivideTwice
<1>6. Q(4) = Idx(v, 4)
  <2>1. Q(4) = 0 * TABLE_SIZE + Idx(v, 4)
    BY <1>3, <1>5
  <2>2. Idx(v, 4) \in Nat
    BY IndexOf, <1>1 DEF Index, Levels
  <2> QED  BY <1>1, <2>1, <2>2
<1>7. Q(1) = v
  BY <1>1, PowersOfTwo DEF PMAP_PML1
<1> QED  BY <1>3, <1>4, <1>6, <1>7

\* A page has its indices to itself.
LEMMA IndicesDiffer ==
  ASSUME ~LA57, NEW v \in Pages, NEW w \in Pages, \A lvl \in Levels : Idx(v, lvl) = Idx(w, lvl)
  PROVE  v = w
<1>1. v \div Reach(4) = w \div Reach(4)
  BY Quotients DEF Levels
<1>2. v \div Reach(3) = w \div Reach(3)
  BY <1>1, Quotients DEF Levels
<1>3. v \div Reach(2) = w \div Reach(2)
  BY <1>2, Quotients DEF Levels
<1>4. v \div Reach(1) = w \div Reach(1)
  BY <1>3, Quotients DEF Levels
<1> QED  BY <1>4, Quotients
-----------------------------------------------------------------------------
(* The page walker's path. *)

LEMMA TopLevel ==
  ASSUME ~LA57
  PROVE  pmap_toplevel = 4 /\ PMAP_PML1 = 1
BY DEF pmap_toplevel, PMAP_PML4, PMAP_PML1

LEMMA PathStep ==
  ASSUME ~LA57, NEW m, NEW v
  PROVE  /\ Path(m, v)[4] = {Top}
         /\ \A lvl \in 0 .. 3 : Path(m, v)[lvl] = Entered(m, v, lvl + 1, Path(m, v)[lvl + 1])
<1> DEFINE P4 == {Top}
           P3 == Entered(m, v, 4, P4)
           P2 == Entered(m, v, 3, P3)
           P1 == Entered(m, v, 2, P2)
           P0 == Entered(m, v, 1, P1)
           g == [lvl \in 0 .. 4 |-> IF lvl = 4 THEN P4 ELSE IF lvl = 3 THEN P3
                                    ELSE IF lvl = 2 THEN P2 ELSE IF lvl = 1 THEN P1 ELSE P0]
           F(at) == [lvl \in 0 .. 4 |-> IF lvl = 4 THEN P4 ELSE Entered(m, v, lvl + 1, at[lvl + 1])]
           h == CHOOSE at : at = F(at)
<1>1. \A lvl \in 0 .. 4 : g[lvl] = IF lvl = 4 THEN P4 ELSE Entered(m, v, lvl + 1, g[lvl + 1])
  <2> TAKE lvl \in 0 .. 4
  <2>1. lvl = 0 \/ lvl = 1 \/ lvl = 2 \/ lvl = 3 \/ lvl = 4
    OBVIOUS
  <2> HIDE DEF P4
  <2> QED  BY <2>1
<1>2. g = F(g)
  <2>1. g = [lvl \in 0 .. 4 |-> g[lvl]]
    OBVIOUS
  <2> HIDE DEF g, P4
  <2> QED  BY <1>1, <2>1
<1>3. h = F(h)
  <2> HIDE DEF g, F
  <2> QED  BY <1>2
<1>4. Path(m, v) = h
  BY TopLevel DEF Path
<1> HIDE DEF h
<1> QED  BY <1>3, <1>4

LEMMA PathBelow ==
  ASSUME ~LA57, NEW m, NEW v, NEW lvl \in Levels
  PROVE  Path(m, v)[lvl - 1] = Entered(m, v, lvl, Path(m, v)[lvl])
<1> DEFINE l == lvl - 1
<1>1. l \in 0 .. 3 /\ l + 1 = lvl
  BY DEF Levels
<1> HIDE DEF l
<1>2. Path(m, v)[l] = Entered(m, v, l + 1, Path(m, v)[l + 1])
  BY <1>1, PathStep
<1>3. Path(m, v)[l] = Entered(m, v, lvl, Path(m, v)[lvl])
  BY <1>1, <1>2
<1> QED  BY <1>3 DEF l

\* A table or a translation on the path of a page comes from one entry.
LEMMA OnPath ==
  ASSUME ~LA57, NEW m, NEW v, NEW lvl \in 0 .. 3, NEW t \in Path(m, v)[lvl]
  PROVE  \E above \in Path(m, v)[lvl + 1] :
           /\ Present(m, above.frame, Idx(v, lvl + 1))
           /\ t = Narrowed(above, m[above.frame][Idx(v, lvl + 1)])
           /\ t.frame = m[above.frame][Idx(v, lvl + 1)].frame
<1>1. t \in Entered(m, v, lvl + 1, Path(m, v)[lvl + 1])
  BY PathStep
<1>2. PICK above \in Path(m, v)[lvl + 1] :
             /\ Present(m, above.frame, Idx(v, lvl + 1))
             /\ t = Narrowed(above, m[above.frame][Idx(v, lvl + 1)])
  BY <1>1 DEF Entered, Idx, Present
<1> QED  BY <1>2 DEF Narrowed

\* And an entry of a table on the path is followed.
LEMMA Followed ==
  ASSUME ~LA57, NEW m, NEW v, NEW lvl \in 0 .. 3, NEW above \in Path(m, v)[lvl + 1],
         Present(m, above.frame, Idx(v, lvl + 1))
  PROVE  Narrowed(above, m[above.frame][Idx(v, lvl + 1)]) \in Path(m, v)[lvl]
BY PathStep DEF Entered, Idx, Present

\* The walker is at one table of a level at most.
LEMMA PathStepSingle ==
  ASSUME ~LA57, NEW m, NEW v, NEW lvl \in 0 .. 3,
         \A a, b \in Path(m, v)[lvl + 1] : a = b
  PROVE  \A a, b \in Path(m, v)[lvl] : a = b
<1> SUFFICES ASSUME NEW a \in Path(m, v)[lvl], NEW b \in Path(m, v)[lvl] PROVE a = b
  OBVIOUS
<1>1. PICK c \in Path(m, v)[lvl + 1] : a = Narrowed(c, m[c.frame][Idx(v, lvl + 1)])
  BY OnPath
<1>2. PICK d \in Path(m, v)[lvl + 1] : b = Narrowed(d, m[d.frame][Idx(v, lvl + 1)])
  BY OnPath
<1> QED  BY <1>1, <1>2

LEMMA PathSingle ==
  ASSUME ~LA57, NEW m, NEW v
  PROVE  \A lvl \in 0 .. 4 : \A a, b \in Path(m, v)[lvl] : a = b
<1>4. \A a, b \in Path(m, v)[4] : a = b
  BY PathStep
<1>3. \A a, b \in Path(m, v)[3] : a = b
  BY <1>4, PathStepSingle
<1>2. \A a, b \in Path(m, v)[2] : a = b
  BY <1>3, PathStepSingle
<1>1. \A a, b \in Path(m, v)[1] : a = b
  BY <1>2, PathStepSingle
<1>0. \A a, b \in Path(m, v)[0] : a = b
  BY <1>1, PathStepSingle
<1> QED  BY <1>0, <1>1, <1>2, <1>3, <1>4

\* Where the path ends, it has ended.
LEMMA PathEnds ==
  ASSUME ~LA57, NEW m, NEW v, NEW lvl \in 0 .. 3, Path(m, v)[lvl] = {}
  PROVE  \A l \in 0 .. lvl : Path(m, v)[l] = {}
<1>1. \A l \in 0 .. 3 : Path(m, v)[l + 1] = {} => Path(m, v)[l] = {}
  BY OnPath
<1>2. \A l \in 0 .. 3 : l < lvl => Path(m, v)[l] = {}
  <2>1. Path(m, v)[2] = {} \/ lvl # 3
    BY <1>1
  <2>2. Path(m, v)[1] = {} \/ lvl \notin {2, 3}
    BY <1>1, <2>1
  <2>3. Path(m, v)[0] = {} \/ lvl \notin {1, 2, 3}
    BY <1>1, <2>2
  <2> QED  BY <2>1, <2>2, <2>3
<1> QED  BY <1>2

\* Writing entries that are not on the path down to a level keeps that much
\* of the path.
LEMMA PathKept ==
  ASSUME ~LA57, NEW m, NEW n, NEW v, NEW low \in 0 .. 4,
         \A lvl \in Levels : lvl > low =>
           \A t \in Path(m, v)[lvl] : n[t.frame][Idx(v, lvl)] = m[t.frame][Idx(v, lvl)]
  PROVE  \A lvl \in 0 .. 4 : lvl >= low => Path(n, v)[lvl] = Path(m, v)[lvl]
<1>1. ASSUME NEW lvl \in 0 .. 3, lvl >= low, Path(n, v)[lvl + 1] = Path(m, v)[lvl + 1]
      PROVE  Path(n, v)[lvl] = Path(m, v)[lvl]
  <2>1. \A t \in Path(m, v)[lvl + 1] : n[t.frame][Idx(v, lvl + 1)] = m[t.frame][Idx(v, lvl + 1)]
    BY <1>1 DEF Levels
  <2>2. Entered(n, v, lvl + 1, Path(m, v)[lvl + 1]) = Entered(m, v, lvl + 1, Path(m, v)[lvl + 1])
    BY <2>1 DEF Entered, Idx
  <2> QED  BY <1>1, <2>2, PathStep
<1>4. Path(n, v)[4] = Path(m, v)[4]
  BY PathStep
<1>3. 3 >= low => Path(n, v)[3] = Path(m, v)[3]
  BY <1>1, <1>4
<1>2. 2 >= low => Path(n, v)[2] = Path(m, v)[2]
  BY <1>1, <1>3
<1>21. 1 >= low => Path(n, v)[1] = Path(m, v)[1]
  BY <1>1, <1>2
<1>20. 0 >= low => Path(n, v)[0] = Path(m, v)[0]
  BY <1>1, <1>21
<1> QED  BY <1>4, <1>3, <1>2, <1>21, <1>20

\* In a tree the tables on a path are at their levels.
LEMMA PathLevel ==
  ASSUME ~LA57, NEW m, NEW level, NEW home, Tree(m, level, home), NEW v \in Pages
  PROVE  \A lvl \in Levels : \A t \in Path(m, v)[lvl] : t.frame \in Frame /\ level[t.frame] = lvl
<1>1. ASSUME NEW lvl \in 1 .. 3,
             \A t \in Path(m, v)[lvl + 1] : t.frame \in Frame /\ level[t.frame] = lvl + 1
      PROVE  \A t \in Path(m, v)[lvl] : t.frame \in Frame /\ level[t.frame] = lvl
  <2> TAKE t \in Path(m, v)[lvl]
  <2>1. PICK a \in Path(m, v)[lvl + 1] : /\ Present(m, a.frame, Idx(v, lvl + 1))
                                         /\ t.frame = m[a.frame][Idx(v, lvl + 1)].frame
    BY OnPath
  <2>2. a.frame \in Frame /\ level[a.frame] = lvl + 1
    BY <1>1, <2>1
  <2>3. Idx(v, lvl + 1) \in Index
    BY IndexOf DEF Levels
  <2> QED  BY <2>1, <2>2, <2>3 DEF Tree
<1>4. \A t \in Path(m, v)[4] : t.frame \in Frame /\ level[t.frame] = 4
  BY PathStep, PmapAssumption DEF Top, Tree
<1>3. \A t \in Path(m, v)[3] : t.frame \in Frame /\ level[t.frame] = 3
  BY <1>1, <1>4
<1>2. \A t \in Path(m, v)[2] : t.frame \in Frame /\ level[t.frame] = 2
  BY <1>1, <1>3
<1>21. \A t \in Path(m, v)[1] : t.frame \in Frame /\ level[t.frame] = 1
  BY <1>1, <1>2
<1> QED  BY <1>4, <1>3, <1>2, <1>21 DEF Levels

LEMMA HomeOf ==
  ASSUME ~LA57, NEW m, NEW level, NEW home, Tree(m, level, home),
         NEW lvl \in 1 .. 3
  PROVE  \A v \in Pages : \A t \in Path(m, v)[lvl] :
           /\ home[t.frame].index = Idx(v, lvl + 1)
           /\ \E a \in Path(m, v)[lvl + 1] : home[t.frame].frame = a.frame
<1> TAKE v \in Pages
<1> TAKE t \in Path(m, v)[lvl]
<1>0. lvl \in 0 .. 3
  OBVIOUS
<1>1. PICK a \in Path(m, v)[lvl + 1] : /\ Present(m, a.frame, Idx(v, lvl + 1))
                                       /\ t.frame = m[a.frame][Idx(v, lvl + 1)].frame
  BY <1>0, OnPath
<1>2. a.frame \in Frame /\ level[a.frame] = lvl + 1
  BY PathLevel DEF Levels
<1>3. Idx(v, lvl + 1) \in Index
  BY IndexOf DEF Levels
<1>4. level[a.frame] > 1
  BY <1>2
<1>5. /\ home[m[a.frame][Idx(v, lvl + 1)].frame].frame = a.frame
      /\ home[m[a.frame][Idx(v, lvl + 1)].frame].index = Idx(v, lvl + 1)
  BY <1>1, <1>2, <1>3, <1>4 DEF Tree
<1> QED  BY <1>1, <1>5

LEMMA SameWayUp ==
  ASSUME ~LA57, NEW m, NEW level, NEW home, Tree(m, level, home),
         NEW v \in Pages, NEW w \in Pages, NEW lvl \in 1 .. 3,
         NEW t \in Path(m, v)[lvl], NEW s \in Path(m, w)[lvl]
  PROVE  t.frame = s.frame =>
           /\ Idx(v, lvl + 1) = Idx(w, lvl + 1)
           /\ \E a \in Path(m, v)[lvl + 1], b \in Path(m, w)[lvl + 1] : a.frame = b.frame
<1>1. PICK c \in Path(m, v)[lvl + 1] : home[t.frame].frame = c.frame
  BY HomeOf
<1>2. PICK d \in Path(m, w)[lvl + 1] : home[s.frame].frame = d.frame
  BY HomeOf
<1>3. home[t.frame].index = Idx(v, lvl + 1) /\ home[s.frame].index = Idx(w, lvl + 1)
  BY HomeOf
<1> QED  BY <1>1, <1>2, <1>3

\* Two pages that meet at a table have come the same way.
LEMMA SameWay ==
  ASSUME ~LA57, NEW m, NEW level, NEW home, Tree(m, level, home),
         NEW v \in Pages, NEW w \in Pages, NEW lvl \in Levels,
         NEW t \in Path(m, v)[lvl], NEW s \in Path(m, w)[lvl], t.frame = s.frame
  PROVE  \A l \in Levels : l > lvl => Idx(v, l) = Idx(w, l)
<1> DEFINE Meet(l) == \E a \in Path(m, v)[l], b \in Path(m, w)[l] : a.frame = b.frame
<1>1. ASSUME NEW l \in 1 .. 3, Meet(l)
      PROVE  Idx(v, l + 1) = Idx(w, l + 1) /\ Meet(l + 1)
  BY <1>1, SameWayUp
<1>2. Meet(lvl)
  OBVIOUS
<1> HIDE DEF Meet
<1>3. lvl = 1 => Idx(v, 2) = Idx(w, 2) /\ Meet(2)
  BY <1>1, <1>2
<1>4. lvl \in {1, 2} => Idx(v, 3) = Idx(w, 3) /\ Meet(3)
  BY <1>1, <1>2, <1>3
<1>5. lvl \in {1, 2, 3} => Idx(v, 4) = Idx(w, 4)
  BY <1>1, <1>2, <1>4
<1> QED  BY <1>3, <1>4, <1>5 DEF Levels
-----------------------------------------------------------------------------
(* What a write into the tables does to the paths. *)

LEMMA StoredAt ==
  ASSUME NEW m \in Memories, NEW f \in Frame, NEW i \in Index, NEW e,
         NEW n, n = Stored(m, [frame |-> f, index |-> i], e)
  PROVE  /\ n[f][i] = e
         /\ \A g \in Frame, j \in Index : g # f \/ j # i => n[g][j] = m[g][j]
         /\ \A g \in Frame : g # f => n[g] = m[g]
         /\ e \in Entry => n \in Memories
BY DEF Stored, Memories

\* Writing an entry of a table on the path of v leaves the upper part of every
\* path alone, and every path that does not go through the entry.
LEMMA StoredPath ==
  ASSUME ~LA57, NEW m \in Memories, NEW level, NEW home, Tree(m, level, home),
         NEW v \in Pages, NEW lvl \in Levels, NEW t \in Path(m, v)[lvl], NEW e, NEW n,
         n = Stored(m, [frame |-> t.frame, index |-> Idx(v, lvl)], e), NEW w \in Pages
  PROVE  /\ \A l \in 0 .. 4 : l >= lvl => Path(n, w)[l] = Path(m, w)[l]
         /\ \/ \E s \in Path(m, w)[lvl] : s.frame = t.frame /\ Idx(w, lvl) = Idx(v, lvl)
            \/ \A l \in 0 .. 4 : Path(n, w)[l] = Path(m, w)[l]
<1>1. t.frame \in Frame /\ level[t.frame] = lvl
  BY PathLevel
<1>2. Idx(v, lvl) \in Index /\ \A l \in Levels : Idx(w, l) \in Index
  BY IndexOf
<1>3. \A g \in Frame, j \in Index : g # t.frame \/ j # Idx(v, lvl) => n[g][j] = m[g][j]
  BY <1>1, <1>2, StoredAt
<1>4. \A l \in Levels : \A s \in Path(m, w)[l] : s.frame \in Frame /\ level[s.frame] = l
  BY PathLevel
<1>5. \A l \in Levels : l # lvl =>
        \A s \in Path(m, w)[l] : n[s.frame][Idx(w, l)] = m[s.frame][Idx(w, l)]
  BY <1>1, <1>2, <1>3, <1>4
<1>6. \A l \in 0 .. 4 : l >= lvl => Path(n, w)[l] = Path(m, w)[l]
  <2>1. lvl \in 0 .. 4 /\ \A l \in Levels : l > lvl => l # lvl
    BY DEF Levels
  <2> QED  BY <1>5, <2>1, PathKept
<1>7. CASE \E s \in Path(m, w)[lvl] : s.frame = t.frame /\ Idx(w, lvl) = Idx(v, lvl)
  BY <1>6, <1>7
<1>8. CASE \A s \in Path(m, w)[lvl] : ~(s.frame = t.frame /\ Idx(w, lvl) = Idx(v, lvl))
  <2>1. \A l \in Levels :
          \A s \in Path(m, w)[l] : n[s.frame][Idx(w, l)] = m[s.frame][Idx(w, l)]
    BY <1>2, <1>3, <1>4, <1>5, <1>8
  <2>2. \A l \in 0 .. 4 : l >= 0 => Path(n, w)[l] = Path(m, w)[l]
    BY <2>1, PathKept
  <2>3. \A l \in 0 .. 4 : Path(n, w)[l] = Path(m, w)[l]
    BY <2>2
  <2> QED  BY <1>6, <2>3
<1> QED  BY <1>7, <1>8

\* A write at the last level is on the path of one page only.
LEMMA LeafPath ==
  ASSUME ~LA57, NEW m \in Memories, NEW level, NEW home, Tree(m, level, home),
         NEW v \in Pages, NEW t \in Path(m, v)[1], NEW e, e # NotPresent, NEW n,
         n = Stored(m, [frame |-> t.frame, index |-> Idx(v, 1)], e)
  PROVE  /\ \A w \in Pages : \A l \in Levels : Path(n, w)[l] = Path(m, w)[l]
         /\ \A w \in Pages \ {v} : Walk(n, w) = Walk(m, w)
         /\ Walk(n, v) = {Narrowed(t, e)}
<1>0. 1 \in Levels /\ \A l \in Levels : l \in 0 .. 4 /\ l >= 1
  BY DEF Levels
<1>1. \A w \in Pages : \A l \in Levels : Path(n, w)[l] = Path(m, w)[l]
  BY <1>0, StoredPath
<1>2. ASSUME NEW w \in Pages \ {v} PROVE Walk(n, w) = Walk(m, w)
  <2>1. CASE \E s \in Path(m, w)[1] : s.frame = t.frame /\ Idx(w, 1) = Idx(v, 1)
    <3>1. \A l \in Levels : l > 1 => Idx(v, l) = Idx(w, l)
      BY <1>0, <2>1, SameWay
    <3>2. \A l \in Levels : Idx(v, l) = Idx(w, l)
      BY <2>1, <3>1 DEF Levels
    <3> QED  BY <3>2, IndicesDiffer
  <2>2. CASE \A l \in 0 .. 4 : Path(n, w)[l] = Path(m, w)[l]
    BY <2>2 DEF Walk
  <2> QED  BY <1>0, <2>1, <2>2, StoredPath
<1>3. Walk(n, v) = {Narrowed(t, e)}
  <2>1. Path(n, v)[1] = {t}
    <3>1. Path(n, v)[1] = Path(m, v)[1]
      BY <1>0, <1>1
    <3>2. \A a, b \in Path(m, v)[1] : a = b
      BY PathSingle
    <3> QED  BY <3>1, <3>2
  <2>2. n[t.frame][Idx(v, 1)] = e
    BY <1>0, PathLevel, IndexOf, StoredAt
  <2>3. Walk(n, v) = Entered(n, v, 1, {t})
    <3>1. Path(n, v)[1 - 1] = Entered(n, v, 1, Path(n, v)[1])
      BY <1>0, PathBelow
    <3>2. 1 - 1 = 0
      OBVIOUS
    <3> QED  BY <2>1, <3>1, <3>2 DEF Walk
  <2> QED  BY <2>2, <2>3 DEF Entered, Idx
<1> QED  BY <1>1, <1>2, <1>3

\* Linking an empty table moves the end of some paths one level down.
LEMMA LinkPath ==
  ASSUME ~LA57, NEW m \in Memories, NEW level, NEW home, Tree(m, level, home),
         NEW v \in Pages, NEW lvl \in 2 .. 4, NEW t \in Path(m, v)[lvl],
         ~Present(m, t.frame, Idx(v, lvl)),
         NEW f \in Frame, level[f] = 0, m[f] = ZeroPage, NEW n,
         n = Stored(m, [frame |-> t.frame, index |-> Idx(v, lvl)], TableEntry(f)),
         NEW w \in Pages,
         NEW s \in Path(m, w)[lvl], s.frame = t.frame, Idx(w, lvl) = Idx(v, lvl)
  PROVE  /\ Path(n, w)[lvl - 1] = {Narrowed(s, TableEntry(f))}
         /\ \A l \in 0 .. lvl - 2 : Path(n, w)[l] = {}
         /\ \A l \in 0 .. lvl - 1 : Path(m, w)[l] = {}
<1>0. lvl \in Levels /\ lvl \in 0 .. 4 /\ lvl - 1 \in 0 .. 3 /\ lvl - 2 \in 0 .. 3
      /\ (lvl - 1) + 1 = lvl /\ (lvl - 2) + 1 = lvl - 1 /\ lvl - 1 \in Levels
  BY DEF Levels
<1>1. t.frame \in Frame /\ level[t.frame] = lvl
  BY <1>0, PathLevel
<1>2. Idx(v, lvl) \in Index /\ \A l \in Levels : Idx(w, l) \in Index
  BY <1>0, IndexOf
<1>3. Path(m, w)[lvl] = {s}
  BY <1>0, PathSingle
<1>4. Path(m, w)[lvl - 1] = {}
  <2>1. Path(m, w)[lvl - 1] = Entered(m, w, lvl, {s})
    <3>1. Path(m, w)[lvl - 1] = Entered(m, w, lvl, Path(m, w)[lvl])
      BY <1>0, PathBelow
    <3> QED  BY <1>3, <3>1
  <2> QED  BY <2>1 DEF Entered, Idx, Present
<1>5. Path(n, w)[lvl] = {s}
  BY <1>0, <1>3, StoredPath
<1>6. n[s.frame][Idx(w, lvl)] = TableEntry(f)
  BY <1>1, <1>2, StoredAt
<1>7. TableEntry(f) # NotPresent
  <2>1. TableEntry(f) \in [frame : Frame \cup PMA, flags : Flags]
    BY DEF TableEntry, Flags
  <2> QED  BY <2>1, EntryAssumption
<1>8. Path(n, w)[lvl - 1] = {Narrowed(s, TableEntry(f))}
  <2>1. Path(n, w)[lvl - 1] = Entered(n, w, lvl, {s})
    <3>1. Path(n, w)[lvl - 1] = Entered(n, w, lvl, Path(n, w)[lvl])
      BY <1>0, PathBelow
    <3> QED  BY <1>5, <3>1
  <2> QED  BY <1>6, <1>7, <2>1 DEF Entered, Idx
<1>9. Path(n, w)[lvl - 2] = {}
  <2>1. Path(n, w)[lvl - 2] = Entered(n, w, lvl - 1, {Narrowed(s, TableEntry(f))})
    <3> DEFINE l == lvl - 1
    <3>1. l \in Levels /\ l - 1 = lvl - 2
      BY <1>0
    <3> HIDE DEF l
    <3>2. Path(n, w)[l - 1] = Entered(n, w, l, Path(n, w)[l])
      BY <3>1, PathBelow
    <3> QED  BY <1>8, <3>1, <3>2 DEF l
  <2>2. Narrowed(s, TableEntry(f)).frame = f
    BY DEF Narrowed, TableEntry
  <2>3. f # t.frame
    BY <1>0, <1>1
  <2>4. n[f] = ZeroPage
    BY <1>1, <1>2, <2>3, StoredAt
  <2>5. n[f][Idx(w, lvl - 1)] = NotPresent
    BY <1>0, <1>2, <2>4 DEF ZeroPage
  <2> QED  BY <2>1, <2>2, <2>5 DEF Entered, Idx
<1> QED  BY <1>0, <1>4, <1>8, <1>9, PathEnds
-----------------------------------------------------------------------------
(* The tables that can be reached. *)

LEMMA TablesStep ==
  ASSUME ~LA57, NEW m
  PROVE  /\ TablesOf(m)[4] = {CR3}
         /\ \A lvl \in 1 .. 3 : TablesOf(m)[lvl] = Leads(m, TablesOf(m)[lvl + 1])
<1> DEFINE P4 == {CR3}
           P3 == Leads(m, P4)
           P2 == Leads(m, P3)
           P1 == Leads(m, P2)
           g == [lvl \in 1 .. 4 |-> IF lvl = 4 THEN P4 ELSE IF lvl = 3 THEN P3
                                    ELSE IF lvl = 2 THEN P2 ELSE P1]
           F(at) == [lvl \in 1 .. 4 |-> IF lvl = 4 THEN P4 ELSE Leads(m, at[lvl + 1])]
           h == CHOOSE at : at = F(at)
<1>1. \A lvl \in 1 .. 4 : g[lvl] = IF lvl = 4 THEN P4 ELSE Leads(m, g[lvl + 1])
  <2> TAKE lvl \in 1 .. 4
  <2>1. lvl = 1 \/ lvl = 2 \/ lvl = 3 \/ lvl = 4
    OBVIOUS
  <2> HIDE DEF P4
  <2> QED  BY <2>1
<1>2. g = F(g)
  <2>1. g = [lvl \in 1 .. 4 |-> g[lvl]]
    OBVIOUS
  <2> HIDE DEF g, P4
  <2> QED  BY <1>1, <2>1
<1>3. h = F(h)
  <2> HIDE DEF g, F
  <2> QED  BY <1>2
<1>4. TablesOf(m) = h
  BY TopLevel DEF TablesOf
<1> HIDE DEF h
<1> QED  BY <1>3, <1>4

LEMMA LeadsTo ==
  ASSUME NEW m, NEW tables, NEW g
  PROVE  g \in Leads(m, tables) <=>
           \E f \in tables : \E i \in Index : Present(m, f, i) /\ m[f][i].frame = g
<1> DEFINE X == UNION {{m[f][i] : i \in Index} : f \in tables}
<1>1. \A e : e \in X <=> \E f \in tables : \E i \in Index : e = m[f][i]
  OBVIOUS
<1> HIDE DEF X
<1>2. g \in {e.frame : e \in X \ {NotPresent}} <=> \E e \in X : e # NotPresent /\ e.frame = g
  <2>1. g \in {e.frame : e \in X \ {NotPresent}} <=> \E e \in X \ {NotPresent} : g = e.frame
    OBVIOUS
  <2>2. (\E e \in X \ {NotPresent} : g = e.frame) <=> \E e \in X : e # NotPresent /\ e.frame = g
    BY Zenon
  <2> QED  BY <2>1, <2>2
<1>3. g \in Leads(m, tables) <=> \E e \in X : e # NotPresent /\ e.frame = g
  BY <1>2 DEF Leads, X
<1> QED  BY <1>1, <1>3 DEF Present

\* In a tree the tables that can be reached are at their levels.
LEMMA TablesLevel ==
  ASSUME ~LA57, NEW m, NEW level, NEW home, Tree(m, level, home)
  PROVE  \A lvl \in Levels : \A f \in TablesOf(m)[lvl] : f \in Frame /\ level[f] = lvl
<1>1. ASSUME NEW lvl \in 1 .. 3, \A f \in TablesOf(m)[lvl + 1] : f \in Frame /\ level[f] = lvl + 1
      PROVE  \A f \in TablesOf(m)[lvl] : f \in Frame /\ level[f] = lvl
  <2> TAKE g \in TablesOf(m)[lvl]
  <2>1. g \in Leads(m, TablesOf(m)[lvl + 1])
    BY TablesStep
  <2>2. PICK f \in TablesOf(m)[lvl + 1] : \E i \in Index : Present(m, f, i) /\ m[f][i].frame = g
    BY <2>1, LeadsTo
  <2>3. f \in Frame /\ level[f] = lvl + 1
    BY <1>1
  <2> QED  BY <2>2, <2>3 DEF Tree
<1>4. \A f \in TablesOf(m)[4] : f \in Frame /\ level[f] = 4
  BY TablesStep, PmapAssumption DEF Tree
<1>3. \A f \in TablesOf(m)[3] : f \in Frame /\ level[f] = 3
  BY <1>1, <1>4
<1>2. \A f \in TablesOf(m)[2] : f \in Frame /\ level[f] = 2
  BY <1>1, <1>3
<1>21. \A f \in TablesOf(m)[1] : f \in Frame /\ level[f] = 1
  BY <1>1, <1>2
<1> QED  BY <1>4, <1>3, <1>2, <1>21 DEF Levels

LEMMA TablesAre ==
  ASSUME ~LA57
  PROVE  \A f : f \in Tables <=> \E lvl \in Levels : f \in TablesOf(mem)[lvl]
BY TopLevel DEF Tables, Levels

\* The tables at boot are a tree, and the free frames are not in it.
LEMMA BootTree ==
  ASSUME ~LA57, NEW m \in Boot
  PROVE  \E level, home :
           /\ Tree(m, level, home)
           /\ \A f \in Frame : level[f] # 0 => \E lvl \in Levels : f \in TablesOf(m)[lvl]
<1> DEFINE T(lvl) == TablesOf(m)[lvl]
           level == [f \in Frame |-> IF f \in T(4) THEN 4 ELSE IF f \in T(3) THEN 3
                                     ELSE IF f \in T(2) THEN 2 ELSE IF f \in T(1) THEN 1 ELSE 0]
           Leading(s, g) == /\ \E l \in 2 .. 4 : s.frame \in T(l)
                            /\ Present(m, s.frame, s.index)
                            /\ m[s.frame][s.index].frame = g
           home == [g \in Frame |-> CHOOSE s \in [frame : Frame, index : Index] : Leading(s, g)]
<1>1. /\ \A k, l \in Levels : k # l => T(k) \cap T(l) = {}
      /\ \A l \in 2 .. 4 : \A f, g \in T(l), i, j \in Index :
           Present(m, f, i) =>
             /\ m[f][i].frame \in Frame
             /\ Present(m, g, j) /\ m[g][j].frame = m[f][i].frame => f = g /\ i = j
      /\ \A f \in T(1), i \in Index : Present(m, f, i) => m[f][i].frame \notin Frame
  <2>1. PMAP_PML1 + 1 = 2
    BY DEF PMAP_PML1
  <2> QED  BY <2>1, BootAssumption, TopLevel DEF Present, Levels
<1>2. T(4) = {CR3} /\ \A l \in 1 .. 3 : T(l) = Leads(m, T(l + 1))
  BY TablesStep
<1> HIDE DEF T
<1>3. \A l \in 2 .. 4 : \A f \in T(l), i \in Index : Present(m, f, i) => m[f][i].frame \in T(l - 1)
  <2> TAKE l \in 2 .. 4
  <2>1. l - 1 \in 1 .. 3 /\ (l - 1) + 1 = l
    OBVIOUS
  <2>2. T(l - 1) = Leads(m, T(l))
    BY <1>2, <2>1
  <2> QED  BY <2>2, LeadsTo
<1>4. \A f \in Frame, l \in Levels : level[f] = l <=> f \in T(l)
  <2> TAKE f \in Frame, l \in Levels
  <2>1. l = 1 \/ l = 2 \/ l = 3 \/ l = 4
    BY DEF Levels
  <2>2. T(4) \cap T(3) = {} /\ T(4) \cap T(2) = {} /\ T(4) \cap T(1) = {}
        /\ T(3) \cap T(2) = {} /\ T(3) \cap T(1) = {} /\ T(2) \cap T(1) = {}
    BY <1>1 DEF Levels
  <2> QED  BY <2>1, <2>2
<1>5. level \in [Frame -> 0 .. 4]
  OBVIOUS
<1> HIDE DEF level
<1>6. ASSUME NEW f \in Frame, NEW i \in Index, Present(m, f, i), level[f] > 1
      PROVE  /\ m[f][i].frame \in Frame
             /\ level[m[f][i].frame] = level[f] - 1
             /\ home[m[f][i].frame].frame = f
             /\ home[m[f][i].frame].index = i
  <2> DEFINE l == level[f]
             g == m[f][i].frame
             s == home[g]
  <2>1. l \in 2 .. 4 /\ l \in Levels /\ l - 1 \in Levels
    BY <1>5, <1>6 DEF Levels
  <2>2. f \in T(l)
    BY <1>4, <2>1
  <2>3. g \in Frame /\ g \in T(l - 1)
    BY <1>1, <1>3, <1>6, <2>1, <2>2
  <2>4. level[g] = l - 1
    BY <1>4, <2>1, <2>3
  <2>5. \E x \in [frame : Frame, index : Index] : Leading(x, g)
    <3>1. [frame |-> f, index |-> i] \in [frame : Frame, index : Index]
      OBVIOUS
    <3>2. Leading([frame |-> f, index |-> i], g)
      BY <1>6, <2>1, <2>2
    <3> QED  BY <3>1, <3>2
  <2>6. s \in [frame : Frame, index : Index] /\ Leading(s, g)
    BY <2>3, <2>5
  <2> HIDE DEF l, s, home
  <2>7. PICK k \in 2 .. 4 : s.frame \in T(k)
    BY <2>6
  <2>8. s.index \in Index /\ Present(m, s.frame, s.index) /\ m[s.frame][s.index].frame = g
    BY <2>6
  <2>9. g \in T(k - 1)
    BY <1>3, <2>7, <2>8
  <2>10. k = l
    <3>1. k - 1 \in Levels /\ (k - 1 = l - 1 => k = l)
      BY <2>1 DEF Levels
    <3> QED  BY <1>1, <2>1, <2>3, <2>9, <3>1
  <2>11. s.frame = f /\ s.index = i
    BY <1>1, <1>6, <2>1, <2>2, <2>7, <2>8, <2>10
  <2> QED  BY <2>3, <2>4, <2>11 DEF l, s
<1>7. Tree(m, level, home)
  <2>1. level[CR3] = 4 /\ \A f \in Frame : level[f] = 4 => f = CR3
    BY <1>2, <1>4, PmapAssumption DEF Levels
  <2>2. \A f \in Frame, i \in Index : Present(m, f, i) /\ level[f] = 1 => m[f][i].frame \notin Frame
    BY <1>1, <1>4 DEF Levels
  <2> HIDE DEF home
  <2> QED  BY <1>5, <1>6, <2>1, <2>2 DEF Tree
<1>8. \A f \in Frame : level[f] # 0 => \E lvl \in Levels : f \in T(lvl)
  BY <1>4, <1>5 DEF Levels
<1> HIDE DEF home
<1> QED  BY <1>7, <1>8 DEF T
-----------------------------------------------------------------------------
(***************************************************************************)
(* The inductive invariant.                                                *)
(***************************************************************************)

\* The tables are a tree of frames that are neither free nor being linked.
Places(level, home) ==
  /\ Tree(mem, level, home)
  /\ \A f \in Frame : f \in free \/ f = phys => level[f] = 0

PlacesInv == \E level, home : Places(level, home)

\* The tables of the lower half deny nothing.
RightsInv ==
  phase = "up" => \A v \in Lower : \A l \in Levels : \A t \in Path(mem, v)[l] : t.flags = {"w", "u"}

Here == [frame |-> cur_base, flags |-> {"w", "u"}]

\* Where mu_pmap_map is: at a table on the path of its page.
Calling == /\ phase = "up"
           /\ call \in [v : Lower, pma : PMA, prot : Prots]
           /\ Here \in Path(mem, call.v)[cur_lvl]

Linking == /\ phys \in Frame
           /\ cur_lvl > PMAP_PML1
           /\ ~Present(mem, cur_base, Idx(call.v, cur_lvl))

CallInv == /\ pc # "idle" => Calling
           /\ pc \in {"zero", "link"} => Linking
           /\ pc = "link" => mem[phys] = ZeroPage
           /\ pc \notin {"zero", "link"} => phys = 0
           /\ phys \notin free

MapInv == TypeOK /\ PlacesInv /\ RightsInv /\ CallInv /\ MappedAsAsked /\ TlbCoherent

\* What the walker finds is a translation.
LEMMA WalkType ==
  ASSUME ~LA57, NEW m \in Memories, NEW level, NEW home, Tree(m, level, home), NEW v \in Pages
  PROVE  Walk(m, v) \in SUBSET (Entry \ {NotPresent})
<1> SUFFICES ASSUME NEW t \in Path(m, v)[0] PROVE t \in [frame : Frame \cup PMA, flags : Flags]
  BY EntryAssumption DEF Walk, Entry
<1>0. 0 \in 0 .. 3 /\ 0 + 1 = 1
  OBVIOUS
<1>1. PICK a \in Path(m, v)[1] : /\ Present(m, a.frame, Idx(v, 1))
                                 /\ t = Narrowed(a, m[a.frame][Idx(v, 1)])
  BY <1>0, OnPath
<1>2. a.frame \in Frame /\ Idx(v, 1) \in Index
  BY PathLevel, IndexOf DEF Levels
<1>3. m[a.frame][Idx(v, 1)] \in [frame : Frame \cup PMA, flags : Flags]
  BY <1>1, <1>2 DEF Memories, Entry, Present
<1> DEFINE e == m[a.frame][Idx(v, 1)]
<1>4. e.frame \in Frame \cup PMA
  BY <1>3
<1> HIDE DEF e
<1>5. t = Narrowed(a, e)
  BY <1>1 DEF e
<1> QED  BY <1>4, <1>5 DEF Narrowed, Flags

LEMMA InitInv ==
  ASSUME ~LA57, Init
  PROVE  MapInv
<1>1. PICK level, home : /\ Tree(mem, level, home)
                         /\ \A f \in Frame : level[f] # 0 =>
                              \E lvl \in Levels : f \in TablesOf(mem)[lvl]
  BY BootTree DEF Init
<1>2. free \subseteq Frame /\ \A f \in free : level[f] = 0
  BY <1>1, TablesAre DEF Init
<1>3. phys = 0 /\ phys \notin Frame
  BY PmapAssumption DEF Init
<1>4. PlacesInv
  BY <1>1, <1>2, <1>3 DEF PlacesInv, Places
<1>5. TypeOK
  <2>1. mem \in [Frame -> [Index -> Entry]]
    BY BootAssumption DEF Init
  <2>2. cur_base \in Frame /\ cur_lvl \in 1 .. pmap_toplevel
    BY PmapAssumption, TopLevel DEF Init
  <2>3. tlb \in [Pages -> SUBSET (Entry \ {NotPresent})]
    BY DEF Init
  <2> QED  BY <1>2, <1>3, <2>1, <2>2, <2>3 DEF Init, TypeOK, PMAP_PML1
<1>6. RightsInv /\ CallInv /\ MappedAsAsked /\ TlbCoherent
  BY <1>2, <1>3 DEF Init, RightsInv, CallInv, MappedAsAsked, TlbCoherent
<1> QED  BY <1>4, <1>5, <1>6 DEF MapInv
-----------------------------------------------------------------------------
(* One lemma for every step. *)

\* A write that changes no translation leaves the TLB right.
LEMMA TlbKept ==
  ASSUME TlbCoherent, tlb' = tlb, \A v \in Pages : Walk(mem, v)' = Walk(mem, v),
         pc' # "invlpg", pc # "invlpg"
  PROVE  TlbCoherent'
BY DEF TlbCoherent

\* Steps that write no memory.
LEMMA MemoryKept ==
  ASSUME MapInv, UNCHANGED <<mem, phase>>
  PROVE  /\ RightsInv'
         /\ \A v : Path(mem, v)' = Path(mem, v) /\ Walk(mem, v)' = Walk(mem, v)
<1>1. \A v : Path(mem, v)' = Path(mem, v)
  BY DEF Path, Entered, Narrowed
<1>2. \A v : Walk(mem, v)' = Walk(mem, v)
  BY DEF Walk, Path, Entered, Narrowed
<1>3. RightsInv'
  BY <1>1 DEF RightsInv, MapInv
<1> QED  BY <1>1, <1>2, <1>3

\* Where mu_pmap_map is, in the terms of the path.
LEMMA CallFacts ==
  ASSUME ~LA57, MapInv, pc # "idle"
  PROVE  /\ call.v \in Lower /\ call.v \in Pages /\ call.pma \in PMA /\ call.prot \in Prots
         /\ cur_lvl \in Levels /\ cur_base \in Frame
         /\ Idx(call.v, cur_lvl) \in Index
         /\ CurrentSlot = [frame |-> cur_base, index |-> Idx(call.v, cur_lvl)]
         /\ EntryAt(mem, CurrentSlot) = mem[cur_base][Idx(call.v, cur_lvl)]
         /\ phase = "up"
         /\ Here \in Path(mem, call.v)[cur_lvl]
         /\ Here.frame = cur_base /\ Here.flags = {"w", "u"}
         /\ mem \in Memories
<1>1. /\ call.v \in Lower /\ call.pma \in PMA /\ call.prot \in Prots
      /\ phase = "up"
      /\ Here \in Path(mem, call.v)[cur_lvl]
  BY DEF MapInv, CallInv, Calling
<1>2. call.v \in Pages
  BY <1>1, PmapAssumption
<1>3. cur_lvl \in Levels /\ cur_base \in Frame /\ mem \in Memories
  BY TopLevel DEF MapInv, TypeOK, Levels, Memories
<1>4. Idx(call.v, cur_lvl) \in Index
  BY <1>2, <1>3, IndexOf
<1>5. CurrentSlot = [frame |-> cur_base, index |-> Idx(call.v, cur_lvl)]
  BY <1>2, <1>3, SlotIs DEF CurrentSlot
<1> QED  BY <1>1, <1>2, <1>3, <1>4, <1>5 DEF EntryAt, Here

\* The table mu_pmap_map is at is at its level.
LEMMA HereLevel ==
  ASSUME ~LA57, MapInv, pc # "idle", NEW level, NEW home, Tree(mem, level, home)
  PROVE  level[cur_base] = cur_lvl
<1>1. \A lvl \in Levels : \A t \in Path(mem, call.v)[lvl] : level[t.frame] = lvl
  BY CallFacts, PathLevel
<1> QED  BY <1>1, CallFacts

LEMMA StepFillTlb ==
  ASSUME ~LA57, MapInv, NEW v \in Pages, FillTlb(v)
  PROVE  MapInv'
<1>1. PICK level, home : Places(level, home)
  BY DEF MapInv, PlacesInv
<1>2. Walk(mem, v) \in SUBSET (Entry \ {NotPresent})
  BY <1>1, WalkType DEF Places, MapInv, TypeOK, Memories
<1>3. UNCHANGED <<mem, phase>>
  BY DEF FillTlb
<1>4. TypeOK'
  BY <1>2 DEF FillTlb, MapInv, TypeOK
<1>5. PlacesInv'
  BY DEF FillTlb, MapInv, PlacesInv, Places
<1>6. \A w : Path(mem, w)' = Path(mem, w) /\ Walk(mem, w)' = Walk(mem, w)
  BY <1>3, MemoryKept
<1>7. CallInv'
  BY <1>6 DEF FillTlb, MapInv, CallInv, Calling, Linking, Here
<1>8. MappedAsAsked'
  BY <1>6 DEF FillTlb, MapInv, MappedAsAsked
<1>9. TlbCoherent'
  BY <1>6 DEF FillTlb, MapInv, TypeOK, TlbCoherent
<1> QED  BY <1>3, <1>4, <1>5, <1>7, <1>8, <1>9, MemoryKept DEF MapInv

LEMMA StepMuPmapMap ==
  ASSUME ~LA57, MapInv, NEW v \in Lower, NEW pma \in PMA, NEW prot \in Prots,
         MuPmapMap(v, pma, prot)
  PROVE  MapInv'
<1>1. UNCHANGED <<mem, phase>>
  BY DEF MuPmapMap
<1>2. \A w : Path(mem, w)' = Path(mem, w) /\ Walk(mem, w)' = Walk(mem, w)
  BY <1>1, MemoryKept
<1>3. TypeOK'
  BY PmapAssumption, TopLevel DEF MuPmapMap, MapInv, TypeOK
<1>4. PlacesInv'
  BY DEF MuPmapMap, MapInv, PlacesInv, Places
<1>5. CallInv'
  <2>1. Here' \in Path(mem, call'.v)[4]
    BY PathStep DEF MuPmapMap, Here, Top
  <2>2. Calling'
    BY <1>2, <2>1, TopLevel DEF MuPmapMap, Calling
  <2> QED  BY <2>2 DEF MuPmapMap, MapInv, CallInv
<1>6. MappedAsAsked'
  BY DEF MuPmapMap, MappedAsAsked
<1>7. TlbCoherent'
  BY <1>2 DEF MuPmapMap, MapInv, TlbCoherent
<1> QED  BY <1>1, <1>3, <1>4, <1>5, <1>6, <1>7, MemoryKept DEF MapInv

LEMMA StepDescend ==
  ASSUME ~LA57, MapInv, Descend
  PROVE  MapInv'
<1> DEFINE i == Idx(call.v, cur_lvl)
           e == mem[cur_base][i]
<1>1. UNCHANGED <<mem, phase, call, phys, free, tlb, pc>> /\ pc = "descend"
      /\ cur_lvl \in 2 .. 4 /\ cur_lvl - 1 \in 0 .. 3 /\ cur_lvl' = cur_lvl - 1
  BY CallFacts DEF Descend, PMAP_PML1, Levels
<1>2. \A w : Path(mem, w)' = Path(mem, w) /\ Walk(mem, w)' = Walk(mem, w)
  BY <1>1, MemoryKept
<1>3. Present(mem, cur_base, i) /\ cur_base' = e.frame
  BY <1>1, CallFacts DEF Descend, Present
<1>4. PICK level, home : Places(level, home)
  BY DEF MapInv, PlacesInv
<1>5. e.frame \in Frame
  <2>1. level[cur_base] = cur_lvl
    BY <1>1, <1>4, HereLevel DEF Places
  <2> QED  BY <1>1, <1>3, <1>4, <2>1, CallFacts DEF Places, Tree
<1>6. Here' \in Path(mem, call.v)[cur_lvl - 1]
  <2>1. Narrowed(Here, e) \in Path(mem, call.v)[cur_lvl - 1]
    <3> DEFINE l == cur_lvl - 1
    <3>1. l \in 0 .. 3 /\ l + 1 = cur_lvl
      BY <1>1
    <3> HIDE DEF l
    <3>2. Here \in Path(mem, call.v)[l + 1] /\ Here.frame = cur_base
      BY <1>1, <3>1, CallFacts
    <3>3. Narrowed(Here, mem[Here.frame][Idx(call.v, l + 1)]) \in Path(mem, call.v)[l]
      BY <1>3, <3>1, <3>2, Followed
    <3> QED  BY <3>1, <3>2, <3>3 DEF l
  <2>2. Narrowed(Here, e).flags = {"w", "u"}
    BY <1>1, <2>1, CallFacts DEF MapInv, RightsInv, Levels
  <2>3. Narrowed(Here, e) = [frame |-> e.frame, flags |-> {"w", "u"}]
    BY <2>2 DEF Narrowed
  <2> QED  BY <1>3, <2>1, <2>3 DEF Here
<1>7. TypeOK'
  BY <1>1, <1>3, <1>5, TopLevel DEF MapInv, TypeOK
<1>8. PlacesInv'
  BY <1>1 DEF MapInv, PlacesInv, Places
<1>9. CallInv'
  <2>1. Calling'
    <3>1. Calling
      BY <1>1 DEF MapInv, CallInv
    <3> QED  BY <1>1, <1>2, <1>6, <3>1 DEF Calling
  <2> QED  BY <1>1, <2>1 DEF MapInv, CallInv
<1>10. MappedAsAsked'
  BY <1>1 DEF MappedAsAsked
<1>11. TlbCoherent'
  BY <1>1, <1>2 DEF MapInv, TlbCoherent
<1> QED  BY <1>1, <1>7, <1>8, <1>9, <1>10, <1>11, MemoryKept DEF MapInv

LEMMA StepAlloc ==
  ASSUME ~LA57, MapInv, Alloc
  PROVE  MapInv'
<1>1. UNCHANGED <<mem, phase, cur_base, cur_lvl, tlb>> /\ pc = "descend" /\ phys = 0
  BY DEF Alloc, MapInv, CallInv
<1>2. \A w : Path(mem, w)' = Path(mem, w) /\ Walk(mem, w)' = Walk(mem, w)
  BY <1>1, MemoryKept
<1>3. PICK level, home : Places(level, home)
  BY DEF MapInv, PlacesInv
<1>4. CASE \E f \in free : phys' = f /\ free' = free \ {f} /\ pc' = "zero" /\ UNCHANGED call
  <2>1. PICK f \in free : phys' = f /\ free' = free \ {f} /\ pc' = "zero" /\ UNCHANGED call
    BY <1>4
  <2>2. f \in Frame
    BY DEF MapInv, TypeOK
  <2>3. TypeOK'
    BY <1>1, <2>1, <2>2 DEF MapInv, TypeOK
  <2>4. Places(level, home)'
    BY <1>1, <1>3, <2>1 DEF Places
  <2>5. CallInv'
    <3>1. Calling'
      BY <1>1, <1>2, <2>1 DEF MapInv, CallInv, Calling, Here
    <3>2. Linking'
      BY <1>1, <2>1, <2>2, CallFacts DEF Alloc, Linking, Present
    <3> QED  BY <2>1, <3>1, <3>2 DEF CallInv
  <2>6. MappedAsAsked'
    BY <2>1 DEF MappedAsAsked
  <2>7. TlbCoherent'
    BY <1>1, <1>2, <2>1 DEF MapInv, TlbCoherent
  <2>8. PlacesInv'
    BY <2>4 DEF PlacesInv
  <2> QED  BY <1>1, <2>3, <2>5, <2>6, <2>7, <2>8, MemoryKept DEF MapInv
<1>5. CASE free = {} /\ pc' = "idle" /\ call' = NoCall /\ UNCHANGED <<free, phys>>
  <2>1. TypeOK'
    BY <1>1, <1>5 DEF MapInv, TypeOK
  <2>2. PlacesInv'
    BY <1>1, <1>5 DEF MapInv, PlacesInv, Places
  <2>3. CallInv'
    BY <1>1, <1>5 DEF MapInv, CallInv
  <2>4. MappedAsAsked'
    BY <1>5 DEF MappedAsAsked
  <2>5. TlbCoherent'
    BY <1>1, <1>2, <1>5 DEF MapInv, TlbCoherent
  <2> QED  BY <1>1, <2>1, <2>2, <2>3, <2>4, <2>5, MemoryKept DEF MapInv
<1> QED  BY <1>4, <1>5 DEF Alloc

\* A frame that is no table is on no path.
LEMMA OffPath ==
  ASSUME ~LA57, NEW m \in Memories, NEW level, NEW home, Tree(m, level, home),
         NEW f \in Frame, level[f] = 0, NEW n, \A g \in Frame : g # f => n[g] = m[g]
  PROVE  \A v \in Pages : \A l \in 0 .. 4 : Path(n, v)[l] = Path(m, v)[l]
<1> TAKE v \in Pages
<1>1. \A lvl \in Levels :
        \A t \in Path(m, v)[lvl] : n[t.frame][Idx(v, lvl)] = m[t.frame][Idx(v, lvl)]
  <2> TAKE lvl \in Levels
  <2> TAKE t \in Path(m, v)[lvl]
  <2>1. t.frame \in Frame /\ level[t.frame] = lvl
    BY PathLevel
  <2> QED  BY <2>1 DEF Levels
<1>2. \A l \in 0 .. 4 : l >= 0 => Path(n, v)[l] = Path(m, v)[l]
  BY <1>1, PathKept
<1> QED  BY <1>2

LEMMA StepZero ==
  ASSUME ~LA57, MapInv, Zero
  PROVE  MapInv' /\ \A v \in Pages : Walk(mem', v) = Walk(mem, v)
<1>1. /\ UNCHANGED <<free, phase, call, cur_base, cur_lvl, phys, tlb>>
      /\ pc = "zero" /\ pc' = "link"
      /\ phys \in Frame /\ phase = "up" /\ Calling /\ Linking
      /\ mem \in Memories
  BY DEF Zero, MapInv, CallInv, Linking, Calling, TypeOK, Memories
<1>2. mem'[phys] = ZeroPage /\ \A g \in Frame : g # phys => mem'[g] = mem[g]
  BY <1>1 DEF Zero, Zeroed, Memories
<1>3. mem' \in Memories
  BY <1>1 DEF Zero, Zeroed, Memories, ZeroPage, Entry
<1>4. PICK level, home : Places(level, home)
  BY DEF MapInv, PlacesInv
<1>5. level[phys] = 0
  BY <1>1, <1>4 DEF Places
<1>6. \A v \in Pages : \A l \in 0 .. 4 : Path(mem', v)[l] = Path(mem, v)[l]
  BY <1>1, <1>2, <1>4, <1>5, OffPath DEF Places
<1>7. \A v \in Pages : Walk(mem', v) = Walk(mem, v)
  BY <1>6 DEF Walk
<1>8. TypeOK'
  BY <1>1, <1>3 DEF MapInv, TypeOK, Memories
<1>9. PlacesInv'
  <2>1. \A f \in Frame, i \in Index :
          level[f] \in {1, 2, 3, 4} => mem'[f][i] = mem[f][i]
    BY <1>2, <1>5
  <2>2. \A f \in Frame, i \in Index :
          level[f] \in {1, 2, 3, 4} => (Present(mem', f, i) <=> Present(mem, f, i))
    BY <2>1 DEF Present
  <2>3. \A f \in Frame : level[f] \in 0 .. 4
    BY <1>4 DEF Places, Tree
  <2>4. Tree(mem', level, home)
    <3>1. ASSUME NEW f \in Frame, NEW i \in Index, Present(mem', f, i), level[f] > 1
          PROVE  /\ mem'[f][i].frame \in Frame
                 /\ level[mem'[f][i].frame] = level[f] - 1
                 /\ home[mem'[f][i].frame].frame = f
                 /\ home[mem'[f][i].frame].index = i
      <4>1. level[f] \in {1, 2, 3, 4}
        BY <2>3, <3>1
      <4>2. Present(mem, f, i) /\ mem'[f][i] = mem[f][i]
        BY <2>1, <2>2, <3>1, <4>1
      <4> QED  BY <1>4, <3>1, <4>2 DEF Places, Tree
    <3>2. ASSUME NEW f \in Frame, NEW i \in Index, Present(mem', f, i), level[f] = 1
          PROVE  mem'[f][i].frame \notin Frame
      <4>1. Present(mem, f, i) /\ mem'[f][i] = mem[f][i]
        BY <2>1, <2>2, <3>2
      <4> QED  BY <1>4, <3>2, <4>1 DEF Places, Tree
    <3> QED  BY <1>4, <3>1, <3>2 DEF Places, Tree
  <2>5. Places(level, home)'
    BY <1>1, <1>4, <2>4 DEF Places
  <2> QED  BY <2>5 DEF PlacesInv
<1>10. RightsInv'
  <2>1. \A v \in Lower : v \in Pages
    BY PmapAssumption
  <2>2. \A l \in Levels : l \in 0 .. 4
    BY DEF Levels
  <2> QED  BY <1>1, <1>6, <2>1, <2>2 DEF MapInv, RightsInv
<1>11. CallInv'
  <2>1. Calling'
    BY <1>1, <1>6, CallFacts DEF Calling, Here, Levels
  <2>2. cur_base # phys
    <3>1. level[cur_base] = cur_lvl
      BY <1>1, <1>4, HereLevel DEF Places
    <3> QED  BY <1>1, <1>5, <3>1, CallFacts DEF Levels
  <2>3. Linking'
    BY <1>1, <1>2, <2>2, CallFacts DEF Linking, Present
  <2> QED  BY <1>1, <1>2, <2>1, <2>3 DEF MapInv, CallInv
<1>12. MappedAsAsked'
  BY <1>1 DEF MappedAsAsked
<1>13. TlbCoherent'
  BY <1>1, <1>7 DEF MapInv, TlbCoherent
<1> QED  BY <1>7, <1>8, <1>9, <1>10, <1>11, <1>12, <1>13 DEF MapInv

\* A table that has been linked is one level down.
LEMMA LinkTree ==
  ASSUME NEW m \in Memories, NEW level, NEW home, Tree(m, level, home),
         NEW g \in Frame, NEW i \in Index, level[g] \in 2 .. 4,
         NEW f \in Frame, level[f] = 0, m[f] = ZeroPage, NEW n,
         n = Stored(m, [frame |-> g, index |-> i], TableEntry(f))
  PROVE  \E level2, home2 :
           /\ Tree(n, level2, home2)
           /\ \A h \in Frame : h # f => level2[h] = level[h]
<1> DEFINE level2 == [level EXCEPT ![f] = level[g] - 1]
           home2 == [h \in Frame |-> IF h = f THEN [frame |-> g, index |-> i] ELSE home[h]]
<1>1. level \in [Frame -> 0 .. 4] /\ f # g
  BY DEF Tree
<1>2. /\ level2 \in [Frame -> 0 .. 4]
      /\ \A h \in Frame : h # f => level2[h] = level[h]
      /\ level2[f] = level[g] - 1 /\ level2[f] \in 1 .. 3
  BY <1>1
<1>3. /\ \A h \in Frame : h # f => home2[h] = home[h]
      /\ home2[f].frame = g /\ home2[f].index = i
  OBVIOUS
<1> HIDE DEF level2, home2
<1>4. /\ n[g][i] = TableEntry(f)
      /\ \A h \in Frame, j \in Index : h # g \/ j # i => n[h][j] = m[h][j]
      /\ n[f] = ZeroPage
  BY <1>1, StoredAt
<1>5. TableEntry(f).frame = f
  BY DEF TableEntry
<1>6. ASSUME NEW h \in Frame, NEW j \in Index, Present(n, h, j), level2[h] > 1
      PROVE  /\ n[h][j].frame \in Frame
             /\ level2[n[h][j].frame] = level2[h] - 1
             /\ home2[n[h][j].frame].frame = h
             /\ home2[n[h][j].frame].index = j
  <2>1. h # f
    BY <1>4, <1>6 DEF Present, ZeroPage
  <2>2. CASE h = g /\ j = i
    BY <1>2, <1>3, <1>4, <1>5, <2>1, <2>2
  <2>3. CASE h # g \/ j # i
    <3> DEFINE t == m[h][j].frame
    <3>1. Present(m, h, j) /\ n[h][j] = m[h][j] /\ level[h] > 1
      BY <1>2, <1>4, <1>6, <2>1, <2>3 DEF Present
    <3>2. t \in Frame /\ level[t] = level[h] - 1 /\ home[t].frame = h /\ home[t].index = j
      BY <3>1 DEF Tree
    <3>3. t # f
      BY <1>1, <3>1, <3>2
    <3> HIDE DEF t
    <3>4. level2[t] = level2[h] - 1 /\ home2[t].frame = h /\ home2[t].index = j
      BY <1>2, <1>3, <2>1, <3>2, <3>3
    <3> QED  BY <3>1, <3>2, <3>4 DEF t
  <2> QED  BY <2>2, <2>3
<1>7. ASSUME NEW h \in Frame, NEW j \in Index, Present(n, h, j), level2[h] = 1
      PROVE  n[h][j].frame \notin Frame
  <2>1. h # f
    BY <1>4, <1>7 DEF Present, ZeroPage
  <2>2. h # g
    BY <1>2, <1>7, <2>1
  <2>3. Present(m, h, j) /\ n[h][j] = m[h][j] /\ level[h] = 1
    BY <1>2, <1>4, <1>7, <2>1, <2>2 DEF Present
  <2> QED  BY <2>3 DEF Tree
<1>8. level2[CR3] = 4 /\ \A h \in Frame : level2[h] = 4 => h = CR3
  <2>1. CR3 # f /\ CR3 \in Frame
    BY PmapAssumption DEF Tree
  <2> QED  BY <1>2, <2>1 DEF Tree
<1>9. Tree(n, level2, home2)
  BY <1>2, <1>6, <1>7, <1>8 DEF Tree
<1> QED  BY <1>2, <1>9

LEMMA StepLink ==
  ASSUME ~LA57, MapInv, Link
  PROVE  MapInv' /\ \A v \in Pages : Walk(mem', v) = Walk(mem, v)
<1> DEFINE v == call.v
           i == Idx(call.v, cur_lvl)
<1>1. /\ UNCHANGED <<free, phase, call, tlb>>
      /\ pc = "link" /\ pc' = "descend"
      /\ cur_base' = phys /\ cur_lvl' = cur_lvl - 1 /\ phys' = 0
      /\ phys \in Frame /\ phys \notin free /\ phase = "up" /\ Calling /\ Linking
      /\ mem[phys] = ZeroPage
  BY DEF Link, MapInv, CallInv, Linking, Calling
<1>2. cur_lvl \in 2 .. 4 /\ cur_lvl \in Levels /\ cur_lvl - 1 \in Levels
  BY <1>1, CallFacts DEF Linking, PMAP_PML1, Levels
<1>3. /\ mem \in Memories /\ v \in Lower /\ v \in Pages /\ cur_base \in Frame /\ i \in Index
      /\ Here \in Path(mem, v)[cur_lvl] /\ Here.frame = cur_base /\ Here.flags = {"w", "u"}
  BY <1>1, CallFacts
<1>4. mem' = Stored(mem, [frame |-> Here.frame, index |-> i], TableEntry(phys))
  BY <1>1, <1>3, CallFacts DEF Link
<1>5. ~Present(mem, Here.frame, i)
  BY <1>1, <1>3 DEF Linking
<1> HIDE DEF v
<1>6. PICK level, home : Places(level, home)
  BY DEF MapInv, PlacesInv
<1>7. level[cur_base] = cur_lvl /\ level[phys] = 0 /\ Tree(mem, level, home)
  BY <1>1, <1>6, HereLevel DEF Places
<1>8. TableEntry(phys) \in Entry
  BY <1>1 DEF TableEntry, Entry, Flags
<1>9. mem' \in Memories
  BY <1>3, <1>4, <1>8, StoredAt
\* The path of a page: as it was, or one table longer.
<1>10. ASSUME NEW w \in Pages
       PROVE  \/ \A l \in 0 .. 4 : Path(mem', w)[l] = Path(mem, w)[l]
              \/ \E s \in Path(mem, w)[cur_lvl] :
                   /\ s.frame = cur_base
                   /\ \A l \in 0 .. 4 : l >= cur_lvl => Path(mem', w)[l] = Path(mem, w)[l]
                   /\ Path(mem', w)[cur_lvl - 1] = {Narrowed(s, TableEntry(phys))}
                   /\ \A l \in 0 .. cur_lvl - 2 : Path(mem', w)[l] = {}
                   /\ \A l \in 0 .. cur_lvl - 1 : Path(mem, w)[l] = {}
  <2>1. \/ \E s \in Path(mem, w)[cur_lvl] : s.frame = Here.frame /\ Idx(w, cur_lvl) = i
        \/ \A l \in 0 .. 4 : Path(mem', w)[l] = Path(mem, w)[l]
    BY <1>2, <1>3, <1>4, <1>7, StoredPath DEF v
  <2>2. \A l \in 0 .. 4 : l >= cur_lvl => Path(mem', w)[l] = Path(mem, w)[l]
    BY <1>2, <1>3, <1>4, <1>7, StoredPath DEF v
  <2>3. ASSUME NEW s \in Path(mem, w)[cur_lvl], s.frame = Here.frame, Idx(w, cur_lvl) = i
        PROVE  /\ Path(mem', w)[cur_lvl - 1] = {Narrowed(s, TableEntry(phys))}
               /\ \A l \in 0 .. cur_lvl - 2 : Path(mem', w)[l] = {}
               /\ \A l \in 0 .. cur_lvl - 1 : Path(mem, w)[l] = {}
    BY <1>1, <1>2, <1>3, <1>4, <1>5, <1>7, <2>3, LinkPath DEF v
  <2> QED  BY <1>3, <2>1, <2>2, <2>3
<1>11. \A w \in Pages : Walk(mem', w) = Walk(mem, w)
  <2>1. 0 \in 0 .. 4 /\ 0 \in 0 .. cur_lvl - 2 /\ 0 \in 0 .. cur_lvl - 1
    BY <1>2
  <2> QED  BY <1>10, <2>1 DEF Walk
<1>12. ASSUME NEW s, s.flags = {"w", "u"}
       PROVE  Narrowed(s, TableEntry(phys)) = [frame |-> phys, flags |-> {"w", "u"}]
  <2>1. TableEntry(phys).frame = phys /\ TableEntry(phys).flags = {"w", "u"}
    BY DEF TableEntry
  <2>2. (s.flags \cap {"w", "u"} \cap {"w", "u"}) \cup ((s.flags \cup {"w", "u"}) \cap {"nx"})
        = {"w", "u"}
    BY <1>12
  <2> QED  BY <2>1, <2>2 DEF Narrowed
<1>13. TypeOK'
  BY <1>1, <1>2, <1>9, TopLevel DEF MapInv, TypeOK, Memories, Levels
<1>14. PlacesInv'
  <2>1. PICK level2, home2 : /\ Tree(mem', level2, home2)
                             /\ \A h \in Frame : h # phys => level2[h] = level[h]
    BY <1>1, <1>2, <1>3, <1>4, <1>7, LinkTree
  <2>2. Places(level2, home2)'
    <3>1. 0 \notin Frame
      BY PmapAssumption
    <3>2. \A f \in Frame : f \in free => level2[f] = 0
      BY <1>1, <1>6, <2>1 DEF Places
    <3> QED  BY <1>1, <2>1, <3>1, <3>2 DEF Places
  <2> QED  BY <2>2 DEF PlacesInv
<1>15. RightsInv'
  <2>1. ASSUME NEW w \in Lower, NEW l \in Levels, NEW t \in Path(mem', w)[l]
        PROVE  t.flags = {"w", "u"}
    <3>1. w \in Pages /\ l \in 0 .. 4
      BY PmapAssumption DEF Levels
    <3>2. \A k \in Levels : \A x \in Path(mem, w)[k] : x.flags = {"w", "u"}
      BY <1>1 DEF MapInv, RightsInv
    <3>3. CASE Path(mem', w)[l] = Path(mem, w)[l]
      BY <2>1, <3>2, <3>3
    <3>4. CASE \E s \in Path(mem, w)[cur_lvl] :
                 l = cur_lvl - 1 /\ Path(mem', w)[l] = {Narrowed(s, TableEntry(phys))}
      BY <1>2, <1>12, <2>1, <3>2, <3>4
    <3>5. l >= cur_lvl \/ l = cur_lvl - 1 \/ l \in 0 .. cur_lvl - 2
      BY <1>2 DEF Levels
    <3> QED  BY <1>10, <2>1, <3>1, <3>3, <3>4, <3>5
  <2> QED  BY <2>1 DEF RightsInv
<1>16. CallInv'
  <2>1. Path(mem', v)[cur_lvl - 1] = {[frame |-> phys, flags |-> {"w", "u"}]}
    <3>1. Path(mem', v)[cur_lvl - 1] = {Narrowed(Here, TableEntry(phys))}
      BY <1>1, <1>2, <1>3, <1>4, <1>5, <1>7, LinkPath DEF v
    <3> QED  BY <1>3, <1>12, <3>1
  <2>2. Here' \in Path(mem', call'.v)[cur_lvl']
    BY <1>1, <2>1 DEF Here, v
  <2>3. 0 \notin free
    BY PmapAssumption DEF MapInv, TypeOK
  <2>4. Calling'
    BY <1>1, <2>2 DEF Calling
  <2> QED  BY <1>1, <2>3, <2>4 DEF CallInv
<1>17. MappedAsAsked'
  BY <1>1 DEF MappedAsAsked
<1>18. TlbCoherent'
  BY <1>1, <1>11 DEF MapInv, TlbCoherent
<1> QED  BY <1>11, <1>13, <1>14, <1>15, <1>16, <1>17, <1>18 DEF MapInv

\* The entry that mu_pmap_map writes gives what it was asked for.
LEMMA LeafRights ==
  ASSUME NEW t, t.flags = {"w", "u"}, NEW pma, NEW prot
  PROVE  Narrowed(t, [frame |-> pma, flags |-> prot_to_pte(prot)])
           = [frame |-> pma,
              flags |-> (prot \cap {"w", "u"}) \cup (IF "x" \in prot THEN {} ELSE {"nx"})]
<1> DEFINE e == [frame |-> pma, flags |-> prot_to_pte(prot)]
           given == (prot \cap {"w", "u"}) \cup (IF "x" \in prot THEN {} ELSE {"nx"})
<1>1. e.frame = pma /\ e.flags = given
  BY DEF prot_to_pte
<1> HIDE DEF e
<1>2. Narrowed(t, e) = [frame |-> pma,
                        flags |-> ({"w", "u"} \cap given \cap {"w", "u"})
                                  \cup (({"w", "u"} \cup given) \cap {"nx"})]
  BY <1>1 DEF Narrowed
<1>3. ({"w", "u"} \cap given \cap {"w", "u"}) \cup (({"w", "u"} \cup given) \cap {"nx"}) = given
  OBVIOUS
<1> QED  BY <1>2, <1>3 DEF e

LEMMA StepWriteLeaf ==
  ASSUME ~LA57, MapInv, WriteLeaf
  PROVE  /\ MapInv'
         /\ \A w \in Pages \ {call.v} : Walk(mem', w) = Walk(mem, w)
         /\ Walk(mem', call.v) = {[frame |-> call.pma, flags |-> prot_to_pte(call.prot)]}
<1> DEFINE v == call.v
           e == [frame |-> call.pma, flags |-> prot_to_pte(call.prot)]
<1>1. /\ UNCHANGED <<free, phase, call, cur_base, cur_lvl, phys, tlb>>
      /\ pc = "descend" /\ pc' = "invlpg" /\ cur_lvl = 1 /\ 1 \in Levels
      /\ phase = "up" /\ Calling /\ phys = 0
  BY DEF WriteLeaf, Bottom, PMAP_PML1, MapInv, CallInv, Calling, Levels
<1>2. /\ mem \in Memories /\ v \in Pages /\ cur_base \in Frame /\ Idx(v, 1) \in Index
      /\ Here \in Path(mem, v)[1] /\ Here.frame = cur_base /\ Here.flags = {"w", "u"}
      /\ call.pma \in PMA /\ call.prot \in Prots
  BY <1>1, CallFacts
<1>3. mem' = Stored(mem, [frame |-> Here.frame, index |-> Idx(v, 1)], e)
  BY <1>1, CallFacts DEF WriteLeaf
<1>4. e \in [frame : Frame \cup PMA, flags : Flags]
  BY <1>2 DEF prot_to_pte, Flags
<1>5. e \in Entry /\ e # NotPresent
  BY <1>4, EntryAssumption DEF Entry
<1>6. e.frame \notin Frame
  BY <1>2, PmapAssumption
<1> HIDE DEF v, e
<1>7. PICK level, home : Places(level, home)
  BY DEF MapInv, PlacesInv
<1>8. level[cur_base] = 1 /\ Tree(mem, level, home)
  BY <1>1, <1>7, HereLevel DEF Places
<1>9. mem' \in Memories
  BY <1>2, <1>3, <1>5, StoredAt
<1>10. /\ \A w \in Pages : \A l \in Levels : Path(mem', w)[l] = Path(mem, w)[l]
       /\ \A w \in Pages \ {v} : Walk(mem', w) = Walk(mem, w)
       /\ Walk(mem', v) = {Narrowed(Here, e)}
  BY <1>2, <1>3, <1>5, <1>8, LeafPath
<1>11. Walk(mem', v) =
         {[frame |-> call.pma,
           flags |-> (call.prot \cap {"w", "u"})
                     \cup (IF "x" \in call.prot THEN {} ELSE {"nx"})]}
  <2>1. Here.flags = {"w", "u"}
    BY <1>2
  <2> DEFINE h == Here
  <2> HIDE DEF h
  <2>2. h.flags = {"w", "u"}
    BY <2>1 DEF h
  <2>3. Narrowed(h, e) = [frame |-> call.pma,
                          flags |-> (call.prot \cap {"w", "u"})
                                    \cup (IF "x" \in call.prot THEN {} ELSE {"nx"})]
    BY <2>2, LeafRights DEF e
  <2>4. Walk(mem', v) = {Narrowed(h, e)}
    BY <1>10 DEF h
  <2> QED  BY <2>3, <2>4
<1>12. TypeOK'
  BY <1>1, <1>9 DEF MapInv, TypeOK, Memories
<1>13. PlacesInv'
  <2>1. /\ mem'[cur_base][Idx(v, 1)] = e
        /\ \A h \in Frame, j \in Index :
             h # cur_base \/ j # Idx(v, 1) => mem'[h][j] = mem[h][j]
    BY <1>2, <1>3, StoredAt
  <2>2. ASSUME NEW f \in Frame, NEW i \in Index, Present(mem', f, i), level[f] > 1
        PROVE  /\ mem'[f][i].frame \in Frame
               /\ level[mem'[f][i].frame] = level[f] - 1
               /\ home[mem'[f][i].frame].frame = f
               /\ home[mem'[f][i].frame].index = i
    <3>1. f # cur_base
      BY <1>8, <2>2
    <3>2. Present(mem, f, i) /\ mem'[f][i] = mem[f][i]
      BY <2>1, <2>2, <3>1 DEF Present
    <3> QED  BY <1>8, <2>2, <3>2 DEF Tree
  <2>3. ASSUME NEW f \in Frame, NEW i \in Index, Present(mem', f, i), level[f] = 1
        PROVE  mem'[f][i].frame \notin Frame
    <3>1. CASE f = cur_base /\ i = Idx(v, 1)
      BY <1>6, <2>1, <3>1
    <3>2. CASE f # cur_base \/ i # Idx(v, 1)
      <4>1. Present(mem, f, i) /\ mem'[f][i] = mem[f][i]
        BY <2>1, <2>3, <3>2 DEF Present
      <4> QED  BY <1>8, <2>3, <4>1 DEF Tree
    <3> QED  BY <3>1, <3>2
  <2>4. Tree(mem', level, home)
    BY <1>8, <2>2, <2>3 DEF Tree
  <2>5. Places(level, home)'
    BY <1>1, <1>7, <2>4 DEF Places
  <2> QED  BY <2>5 DEF PlacesInv
<1>14. RightsInv'
  <2>1. \A w \in Lower : w \in Pages
    BY PmapAssumption
  <2> QED  BY <1>1, <1>10, <2>1 DEF MapInv, RightsInv
<1>15. CallInv'
  <2>1. Here' \in Path(mem', call'.v)[cur_lvl']
    BY <1>1, <1>2, <1>10 DEF Here, v
  <2>2. Calling'
    BY <1>1, <2>1 DEF Calling
  <2> QED  BY <1>1, <2>2 DEF MapInv, CallInv
<1>16. MappedAsAsked'
  BY <1>1, <1>11 DEF MappedAsAsked, v
<1>17. TlbCoherent'
  BY <1>1, <1>10 DEF MapInv, TlbCoherent, v
<1>18. Walk(mem', call.v) = {[frame |-> call.pma, flags |-> prot_to_pte(call.prot)]}
  BY <1>11 DEF v, prot_to_pte
<1> QED  BY <1>10, <1>12, <1>13, <1>14, <1>15, <1>16, <1>17, <1>18 DEF MapInv, v

LEMMA StepInvlpg ==
  ASSUME ~LA57, MapInv, Invlpg
  PROVE  MapInv'
<1>1. UNCHANGED <<mem, free, phase, cur_base, cur_lvl, phys>> /\ pc = "invlpg"
      /\ tlb' = [tlb EXCEPT ![call.v] = {}] /\ pc' = "idle" /\ call' = NoCall /\ phys = 0
  BY DEF Invlpg, Invalidated, MapInv, CallInv
<1>2. \A w : Path(mem, w)' = Path(mem, w) /\ Walk(mem, w)' = Walk(mem, w)
  BY <1>1, MemoryKept
<1>3. call.v \in Pages
  BY <1>1, CallFacts
<1>4. TypeOK'
  BY <1>1, <1>3 DEF MapInv, TypeOK
<1>5. PlacesInv'
  BY <1>1 DEF MapInv, PlacesInv, Places
<1>6. CallInv'
  BY <1>1 DEF MapInv, CallInv
<1>7. MappedAsAsked'
  BY <1>1 DEF MappedAsAsked
<1>8. TlbCoherent'
  BY <1>1, <1>2, <1>3 DEF MapInv, TypeOK, TlbCoherent
<1> QED  BY <1>1, <1>4, <1>5, <1>6, <1>7, <1>8, MemoryKept DEF MapInv

\* Pages of the lower half have entries of the lower half of the top-level table.
LEMMA LowerIndex ==
  ASSUME ~LA57, NEW v \in Lower
  PROVE  v \in Pages /\ Idx(v, 4) < TABLE_SIZE \div 2
<1>1. v \in Pages /\ v \div Reach(4) < TABLE_SIZE \div 2
  BY PmapAssumption, TopLevel
<1> QED  BY <1>1, Quotients

\* Clearing the lower half of the top-level table ends the paths of some pages
\* and keeps those of the others.
LEMMA ClearedPath ==
  ASSUME ~LA57, NEW m \in Memories, NEW level, NEW home, Tree(m, level, home),
         NEW n \in Memories, NEW v \in Pages,
         \A f \in Frame : f # CR3 => n[f] = m[f],
         \A i \in Index : n[CR3][i] = IF i < TABLE_SIZE \div 2 THEN NotPresent ELSE m[CR3][i]
  PROVE  /\ Idx(v, 4) < TABLE_SIZE \div 2 => \A l \in 0 .. 3 : Path(n, v)[l] = {}
         /\ Idx(v, 4) >= TABLE_SIZE \div 2 =>
              \A l \in 0 .. 4 : Path(n, v)[l] = Path(m, v)[l]
<1>0. Idx(v, 4) \in Index /\ 3 \in 0 .. 3 /\ 3 + 1 = 4
  BY IndexOf DEF Levels
<1>1. ASSUME Idx(v, 4) < TABLE_SIZE \div 2 PROVE \A l \in 0 .. 3 : Path(n, v)[l] = {}
  <2>1. n[CR3][Idx(v, 4)] = NotPresent
    BY <1>0, <1>1
  <2>2. Path(n, v)[3] = Entered(n, v, 4, {Top})
    <3>1. Path(n, v)[4 - 1] = Entered(n, v, 4, Path(n, v)[4])
      BY PathBelow DEF Levels
    <3>2. 4 - 1 = 3
      OBVIOUS
    <3> QED  BY <3>1, <3>2, PathStep
  <2>3. Path(n, v)[3] = {}
    BY <2>1, <2>2 DEF Entered, Idx, Top
  <2> QED  BY <1>0, <2>3, PathEnds
<1>2. ASSUME Idx(v, 4) >= TABLE_SIZE \div 2
      PROVE  \A l \in 0 .. 4 : Path(n, v)[l] = Path(m, v)[l]
  <2>1. n[CR3][Idx(v, 4)] = m[CR3][Idx(v, 4)]
    <3>1. ~(Idx(v, 4) < TABLE_SIZE \div 2)
      <4>1. Idx(v, 4) \in Int /\ TABLE_SIZE \div 2 \in Int
        BY <1>0, PowersOfTwo DEF Index
      <4> QED  BY <1>2, <4>1
    <3> QED  BY <1>0, <3>1
  <2>2. \A lvl \in Levels :
          \A t \in Path(m, v)[lvl] : n[t.frame][Idx(v, lvl)] = m[t.frame][Idx(v, lvl)]
    <3> TAKE lvl \in Levels
    <3> TAKE t \in Path(m, v)[lvl]
    <3>1. t.frame \in Frame /\ level[t.frame] = lvl
      BY PathLevel
    <3>2. CASE t.frame = CR3
      BY <2>1, <3>1, <3>2 DEF Tree
    <3>3. CASE t.frame # CR3
      BY <3>1, <3>3
    <3> QED  BY <3>2, <3>3
  <2>3. \A l \in 0 .. 4 : l >= 0 => Path(n, v)[l] = Path(m, v)[l]
    BY <2>2, PathKept
  <2> QED  BY <2>3
<1> QED  BY <1>1, <1>2

LEMMA StepMuPmapInit ==
  ASSUME ~LA57, MapInv, MuPmapInit
  PROVE  /\ MapInv'
         /\ \A v \in Pages :
              Walk(mem', v) = IF Idx(v, 4) < TABLE_SIZE \div 2 THEN {} ELSE Walk(mem, v)
<1>1. /\ UNCHANGED <<free, pc, call, cur_base, cur_lvl, phys>>
      /\ phase = "boot" /\ phase' = "up" /\ pc = "idle"
      /\ mem \in Memories /\ CR3 \in Frame
      /\ tlb' = [v \in Pages |-> {}]
  BY PmapAssumption DEF MuPmapInit, Flushed, MapInv, CallInv, Calling, TypeOK, Memories
<1>2. /\ \A f \in Frame : f # CR3 => mem'[f] = mem[f]
      /\ \A i \in Index : mem'[CR3][i] = IF i < TABLE_SIZE \div 2 THEN NotPresent ELSE mem[CR3][i]
  BY <1>1 DEF MuPmapInit, Memories
<1>3. mem' \in Memories
  <2>1. [i \in Index |-> IF i < TABLE_SIZE \div 2 THEN NotPresent ELSE mem[CR3][i]]
          \in [Index -> Entry]
    BY <1>1 DEF Memories, Entry
  <2>2. mem' = [mem EXCEPT ![CR3] = [i \in Index |-> IF i < TABLE_SIZE \div 2 THEN NotPresent
                                                      ELSE mem[CR3][i]]]
    BY DEF MuPmapInit
  <2> QED  BY <1>1, <2>1, <2>2 DEF Memories
<1>4. PICK level, home : Places(level, home)
  BY DEF MapInv, PlacesInv
<1>5. \A v \in Pages :
        /\ Idx(v, 4) < TABLE_SIZE \div 2 => \A l \in 0 .. 3 : Path(mem', v)[l] = {}
        /\ Idx(v, 4) >= TABLE_SIZE \div 2 =>
             \A l \in 0 .. 4 : Path(mem', v)[l] = Path(mem, v)[l]
  BY <1>1, <1>2, <1>3, <1>4, ClearedPath DEF Places
<1>6. \A v \in Pages :
        Walk(mem', v) = IF Idx(v, 4) < TABLE_SIZE \div 2 THEN {} ELSE Walk(mem, v)
  <2>1. ASSUME NEW v \in Pages PROVE Idx(v, 4) \in Int /\ TABLE_SIZE \div 2 \in Int
    BY IndexOf, PowersOfTwo DEF Index, Levels
  <2>2. 0 \in 0 .. 3 /\ 0 \in 0 .. 4
    OBVIOUS
  <2> QED  BY <1>5, <2>1, <2>2 DEF Walk
<1>7. TypeOK'
  BY <1>1, <1>3 DEF MapInv, TypeOK, Memories
<1>8. PlacesInv'
  <2>1. \A f \in Frame, i \in Index :
          Present(mem', f, i) => Present(mem, f, i) /\ mem'[f][i] = mem[f][i]
    BY <1>2 DEF Present
  <2>2. Tree(mem', level, home)
    <3>1. ASSUME NEW f \in Frame, NEW i \in Index, Present(mem', f, i), level[f] > 1
          PROVE  /\ mem'[f][i].frame \in Frame
                 /\ level[mem'[f][i].frame] = level[f] - 1
                 /\ home[mem'[f][i].frame].frame = f
                 /\ home[mem'[f][i].frame].index = i
      BY <1>4, <2>1, <3>1 DEF Places, Tree
    <3>2. ASSUME NEW f \in Frame, NEW i \in Index, Present(mem', f, i), level[f] = 1
          PROVE  mem'[f][i].frame \notin Frame
      BY <1>4, <2>1, <3>2 DEF Places, Tree
    <3> QED  BY <1>4, <3>1, <3>2 DEF Places, Tree
  <2>3. Places(level, home)'
    BY <1>1, <1>4, <2>2 DEF Places
  <2> QED  BY <2>3 DEF PlacesInv
<1>9. RightsInv'
  <2>1. ASSUME NEW v \in Lower, NEW l \in Levels, NEW t \in Path(mem', v)[l]
        PROVE  t.flags = {"w", "u"}
    <3>1. l = 4
      BY <1>5, <2>1, LowerIndex DEF Levels
    <3> QED  BY <2>1, <3>1, PathStep DEF Top
  <2> QED  BY <2>1 DEF RightsInv
<1>10. CallInv'
  BY <1>1 DEF MapInv, CallInv
<1>11. MappedAsAsked' /\ TlbCoherent'
  BY <1>1 DEF MappedAsAsked, TlbCoherent
<1> QED  BY <1>6, <1>7, <1>8, <1>9, <1>10, <1>11 DEF MapInv
-----------------------------------------------------------------------------
LEMMA NextInv ==
  ASSUME ~LA57
  PROVE  MapInv /\ [Next]_vars => MapInv'
<1> SUFFICES ASSUME MapInv, [Next]_vars PROVE MapInv'
  OBVIOUS
<1>1. ASSUME NEW v \in Pages, FillTlb(v) PROVE MapInv'
  BY <1>1, StepFillTlb
<1>2. CASE MuPmapInit
  BY <1>2, StepMuPmapInit
<1>3. ASSUME NEW v \in Lower, NEW pma \in PMA, NEW prot \in Prots, MuPmapMap(v, pma, prot)
      PROVE  MapInv'
  BY <1>3, StepMuPmapMap
<1>4. CASE Step
  BY <1>4, StepDescend, StepAlloc, StepZero, StepLink, StepWriteLeaf, StepInvlpg DEF Step
<1>5. CASE UNCHANGED vars
  <2>1. UNCHANGED <<mem, free, phase, pc, call, cur_base, cur_lvl, phys, tlb>>
    BY <1>5 DEF vars
  <2>2. \A v : Path(mem, v)' = Path(mem, v) /\ Walk(mem, v)' = Walk(mem, v)
    BY <2>1, MemoryKept
  <2>3. TypeOK' /\ PlacesInv' /\ MappedAsAsked' /\ TlbCoherent'
    BY <2>1, <2>2 DEF MapInv, TypeOK, PlacesInv, Places, MappedAsAsked, TlbCoherent
  <2>4. CallInv'
    BY <2>1, <2>2 DEF MapInv, CallInv, Calling, Linking, Here
  <2> QED  BY <2>1, <2>3, <2>4, MemoryKept DEF MapInv
<1> QED  BY <1>1, <1>2, <1>3, <1>4, <1>5 DEF Next

LEMMA MapAlways ==
  ASSUME ~LA57
  PROVE  Spec => []MapInv
<1>1. Init => MapInv
  BY InitInv
<1>2. MapInv /\ [Next]_vars => MapInv'
  BY NextInv
<1> QED  BY <1>1, <1>2, PTL DEF Spec

\* The variables keep their types, whatever the tables at boot and whatever is
\* mapped: mu_pmap_map never indexes past a table or goes to a frame that is
\* none.
THEOREM TypeCorrect ==
  ASSUME ~LA57
  PROVE  Spec => []TypeOK
<1>1. MapInv => TypeOK
  BY DEF MapInv
<1> QED  BY <1>1, MapAlways, PTL

\* The tables that can be reached hang together as a tree of frames of their own.
LEMMA ReachTree ==
  ASSUME ~LA57, MapInv
  PROVE  TablesFormTree
<1> DEFINE slots == {s \in [frame : Tables, index : Index] :
                       /\ EntryAt(mem, s) # NotPresent
                       /\ EntryAt(mem, s).frame \in Tables}
           Lead(s) == EntryAt(mem, s).frame
           F == [s \in slots |-> Lead(s)]
           below == Tables \ {CR3}
<1>1. PICK level, home : Places(level, home)
  BY DEF MapInv, PlacesInv
<1>2. Tree(mem, level, home)
  BY <1>1 DEF Places
<1>3. \A f \in Tables : /\ f \in Frame /\ level[f] \in 1 .. 4 /\ f \in TablesOf(mem)[level[f]]
  BY <1>2, TablesAre, TablesLevel DEF Levels
<1>4. Tables \cap (free \cup {phys} \cup PMA) = {}
  <2>1. \A f \in Frame : f \in free \/ f = phys => level[f] = 0
    BY <1>1 DEF Places
  <2>2. PMA \cap Frame = {}
    BY PmapAssumption
  <2> QED  BY <1>3, <2>1, <2>2
\* An entry that leads to a table leads one level down, from the home of that.
<1>5. ASSUME NEW s \in slots
      PROVE  /\ Lead(s) \in below
             /\ home[Lead(s)].frame = s.frame /\ home[Lead(s)].index = s.index
  <2>1. s \in [frame : Tables, index : Index] /\ Present(mem, s.frame, s.index)
        /\ Lead(s) = mem[s.frame][s.index].frame /\ Lead(s) \in Tables
    BY DEF EntryAt, Present
  <2>2. s.frame \in Tables /\ s.index \in Index
    BY <2>1
  <2>3. s.frame \in Frame /\ level[s.frame] \in 1 .. 4 /\ Lead(s) \in Frame
    BY <1>3, <2>1, <2>2
  <2> HIDE DEF Lead, slots
  <2>4. level[s.frame] > 1
    <3>1. level[s.frame] # 1
      BY <1>2, <2>1, <2>2, <2>3 DEF Tree
    <3> QED  BY <2>3, <3>1
  <2>5. /\ level[Lead(s)] = level[s.frame] - 1
        /\ home[Lead(s)].frame = s.frame /\ home[Lead(s)].index = s.index
    BY <1>2, <2>1, <2>2, <2>3, <2>4 DEF Tree
  <2>6. Lead(s) # CR3
    BY <1>2, <2>3, <2>5 DEF Tree
  <2> QED  BY <2>1, <2>5, <2>6
\* And every table but the top one is led to.
<1>6. ASSUME NEW g \in below PROVE \E s \in slots : Lead(s) = g
  <2> DEFINE l == level[g]
  <2>1. g \in Tables /\ g \in Frame /\ l \in 1 .. 4 /\ g \in TablesOf(mem)[l]
    BY <1>3
  <2>2. l # 4
    BY <1>2, <2>1 DEF Tree
  <2> HIDE DEF l
  <2>3. l \in 1 .. 3 /\ l + 1 \in Levels
    BY <2>1, <2>2 DEF Levels
  <2>4. g \in Leads(mem, TablesOf(mem)[l + 1])
    BY <2>1, <2>3, TablesStep
  <2>5. PICK f \in TablesOf(mem)[l + 1], i \in Index : Present(mem, f, i) /\ mem[f][i].frame = g
    BY <2>4, LeadsTo
  <2>6. f \in Tables
    BY <2>3, TablesAre
  <2> DEFINE s == [frame |-> f, index |-> i]
  <2>7. s \in [frame : Tables, index : Index] /\ s.frame = f /\ s.index = i
    BY <2>6
  <2> HIDE DEF s
  <2>8. EntryAt(mem, s) # NotPresent /\ EntryAt(mem, s).frame = g
    BY <2>5, <2>7 DEF EntryAt, Present
  <2> QED  BY <2>1, <2>7, <2>8
<1>7. \A s, t \in slots : Lead(s) = Lead(t) => s = t
  <2> SUFFICES ASSUME NEW s \in slots, NEW t \in slots, Lead(s) = Lead(t) PROVE s = t
    OBVIOUS
  <2>1. s.frame = t.frame /\ s.index = t.index
    BY <1>5
  <2>2. s \in [frame : Tables, index : Index] /\ t \in [frame : Tables, index : Index]
    OBVIOUS
  <2> QED  BY <2>1, <2>2
<1> HIDE DEF slots, Lead, below
<1>8. {Lead(s) : s \in slots} = below
  BY <1>5, <1>6
<1>9. Cardinality(slots) = Cardinality(Tables) - 1
  <2>1. IsFiniteSet(Tables)
    <3>1. Tables \subseteq Frame /\ IsFiniteSet(Frame)
      BY <1>3, PmapAssumption
    <3> QED  BY <3>1, FS_Subset
  <2>2. CR3 \in Tables
    BY TablesAre, TablesStep DEF Levels
  <2>3. IsFiniteSet(below) /\ Cardinality(below) = Cardinality(Tables) - 1
    BY <2>1, <2>2, FS_RemoveElement DEF below
  <2>4. F \in [slots -> below] /\ \A s \in slots : F[s] = Lead(s)
    BY <1>5
  <2> HIDE DEF F
  <2>5. F \in Bijection(slots, below)
    <3>1. \A s, t \in slots : F[s] = F[t] => s = t
      BY <1>7, <2>4
    <3>2. \A g \in below : \E s \in slots : F[s] = g
      BY <1>6, <2>4
    <3> QED  BY <2>4, <3>1, <3>2, Fun_IsBij
  <2>6. ExistsBijection(below, slots)
    BY <2>5, Fun_ExistsBij, Fun_ExistsBijSymmetric
  <2> QED  BY <2>3, <2>6, FS_Bijection
<1> QED  BY <1>4, <1>8, <1>9 DEF TablesFormTree, slots, Lead, below

\* While mu_pmap_map works and when it returns, whatever the page walker does
\* meanwhile: the tables are a tree of frames of their own, the page asked for is
\* mapped as asked at every level, and the TLB holds nothing the tables do not
\* give but for the page in work.
THEOREM TablesAreSound ==
  ASSUME ~LA57
  PROVE  Spec => []TablesSound
<1>1. MapInv => TablesSound
  BY ReachTree DEF MapInv, TablesSound
<1> QED  BY <1>1, MapAlways, PTL
-----------------------------------------------------------------------------
(* Mapping implements an address space. *)

LEMMA StepRefines ==
  ASSUME ~LA57, MapInv, [Next]_vars
  PROVE  [AS!Next]_Translations
<1> DEFINE Same == \A v \in Pages : Walk(mem', v) = Walk(mem, v)
<1>1. Same => UNCHANGED Translations
  BY DEF Translations
<1>2. UNCHANGED <<mem, phase>> => Same
  BY MemoryKept
<1> HIDE DEF Same
<1>3. CASE MuPmapInit
  <2> DEFINE low == {v \in Pages : Idx(v, 4) < TABLE_SIZE \div 2}
  <2>1. \A v \in Pages : Walk(mem', v) = IF v \in low THEN {} ELSE Walk(mem, v)
    BY <1>3, StepMuPmapInit
  <2>2. low \in SUBSET Pages
    OBVIOUS
  <2> HIDE DEF low
  <2>3. Translations' = [v \in Pages |-> IF v \in low THEN {} ELSE Translations[v]]
    BY <2>1 DEF Translations
  <2>4. AS!Clear(low)
    BY <2>3 DEF AS!Clear
  <2> QED  BY <2>2, <2>4 DEF AS!Next
<1>4. CASE WriteLeaf
  <2> DEFINE e == [frame |-> call.pma, flags |-> prot_to_pte(call.prot)]
             v == call.v
  <2>1. v \in Pages /\ call.pma \in PMA /\ call.prot \in Prots
    BY <1>4, CallFacts DEF WriteLeaf
  <2>2. e \in [frame : PMA, flags : {prot_to_pte(prot) : prot \in Prots}]
    BY <2>1
  <2>3. (\A w \in Pages \ {v} : Walk(mem', w) = Walk(mem, w)) /\ Walk(mem', v) = {e}
    BY <1>4, StepWriteLeaf
  <2> HIDE DEF e, v
  <2>4. Translations' = [Translations EXCEPT ![v] = {e}]
    BY <2>1, <2>3 DEF Translations
  <2>5. AS!Map(v, e)
    BY <2>4 DEF AS!Map
  <2> QED  BY <2>1, <2>2, <2>5 DEF AS!Next
<1>5. CASE Zero \/ Link
  BY <1>1, <1>5, StepZero, StepLink DEF Same
<1>6. CASE UNCHANGED <<mem, phase>>
  BY <1>1, <1>2, <1>6
<1> QED  BY <1>3, <1>4, <1>5, <1>6
         DEF Next, Step, FillTlb, MuPmapMap, Descend, Alloc, Invlpg, vars

\* Linking tables, walking them, failing for want of memory and filling the TLB
\* change no translation; writing the last entry maps the page asked for, as
\* asked, and no other; only mu_pmap_init takes mappings away.
THEOREM Implements ==
  ASSUME ~LA57
  PROVE  Spec => ImplementsAddressSpace
<1>1. Init => AS!Init
  BY DEF AS!Init, Translations
<1>2. MapInv /\ [Next]_vars => [AS!Next]_Translations
  BY StepRefines
<1> QED  BY <1>1, <1>2, MapAlways, PTL DEF Spec, ImplementsAddressSpace, AS!Spec
=============================================================================
