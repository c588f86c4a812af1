------------------------------ MODULE LayoutTreeProofs ------------------------
(* The grid and the layout tree, for every number of columns and every layout. *)
(*   The packing of the grid loses no tile, stays inside the columns and lets  *)
(* no two cells overlap.  A layout is a tree, and its walks are functions      *)
(* defined by what they are on the nodes one level down: TreeInduction and     *)
(* TreeRecursion are what every fact about them rests on, and RebuildTyped and *)
(* RebuildExists their form for an operation that rebuilds the tree from the   *)
(* bottom up.  Every such operation makes a layout of a layout.                *)
EXTENDS LayoutTree, SequenceTheorems, FiniteSetTheorems, WellFoundedInduction, TLAPS

-----------------------------------------------------------------------------
(* Two facts about numbers: a set of them has a least, and, when there are     *)
(* finitely many, a greatest member.                                           *)

LessThan == {p \in Nat \X Nat : p[1] < p[2]}

LEMMA LeastMember ==
  ASSUME NEW T, T \subseteq Nat, T # {}
  PROVE  \E m \in T : \A n \in T : m <= n
<1>1. IsWellFoundedOn(LessThan, Nat)
  BY NatLessThanWellFounded DEF OpToRel, LessThan
<1>2. \E m \in T : \A n \in T : ~(<<n, m>> \in LessThan)
  BY <1>1, WFMin
<1>3. ASSUME NEW m \in Nat, NEW n \in Nat, ~(m <= n) PROVE <<n, m>> \in LessThan
  <2>1. n < m
    BY <1>3
  <2> QED
    BY <2>1 DEF LessThan
<1> QED
  BY <1>2, <1>3

\* The columns a cell takes, and the first free row over some of them.
ColumnsOf(g) == g.col..(g.col + g.cs - 1)

LEMMA HighestIs ==
  ASSUME NEW bottom, NEW c \in Nat, NEW cs \in Nat \ {0}, \A j \in c..(c + cs - 1) : bottom[j] \in Nat
  PROVE  /\ Highest(bottom, c, cs) \in Nat
         /\ \A j \in c..(c + cs - 1) : bottom[j] <= Highest(bottom, c, cs)
<1> DEFINE Tops(w) == {i \in c..(c + w - 1) : \A j \in c..(c + w - 1) : bottom[j] <= bottom[i]}
           T == {w \in 1..cs : Tops(w) = {}}
<1>1. ASSUME T # {} PROVE FALSE
  <2>1. PICK w \in T : \A v \in T : w <= v
    <3>1. T \subseteq Nat
      OBVIOUS
    <3> HIDE DEF T
    <3> QED
      BY <1>1, <3>1, LeastMember
  <2>2. w \in 1..cs /\ Tops(w) = {}
    OBVIOUS
  <2>3. w # 1
    <3>1. c \in Tops(1)
      OBVIOUS
    <3> QED
      BY <2>2, <3>1
  <2>4. Tops(w - 1) # {}
    <3>1. w - 1 \in 1..cs /\ ~(w <= w - 1)
      BY <2>2, <2>3
    <3> HIDE DEF Tops
    <3> QED
      BY <2>1, <3>1
  <2>5. PICK i : i \in Tops(w - 1)
    BY <2>4
  <2>6. CASE bottom[c + w - 1] <= bottom[i]
    <3>1. i \in Tops(w)
      BY <2>2, <2>5, <2>6
    <3> QED
      BY <2>2, <3>1
  <2>7. CASE bottom[c + w - 1] > bottom[i]
    <3>1. c + w - 1 \in Tops(w)
      BY <2>2, <2>3, <2>5, <2>7
    <3> QED
      BY <2>2, <3>1
  <2>8. bottom[i] \in Nat /\ bottom[c + w - 1] \in Nat
    BY <2>2, <2>5
  <2> QED
    BY <2>6, <2>7, <2>8
<1>2. PICK i : i \in Tops(cs)
  <2>1. cs \in 1..cs
    OBVIOUS
  <2> HIDE DEF Tops
  <2>2. Tops(cs) # {}
    BY <1>1, <2>1
  <2> QED
    BY <2>2
<1>3. i \in c..(c + cs - 1) /\ \A j \in c..(c + cs - 1) : bottom[j] <= bottom[i]
  BY <1>2
<1>4. \E r \in {bottom[j] : j \in c..(c + cs - 1)} : \A j \in c..(c + cs - 1) : bottom[j] <= r
  BY <1>3
<1>5. /\ Highest(bottom, c, cs) \in {bottom[j] : j \in c..(c + cs - 1)}
      /\ \A j \in c..(c + cs - 1) : bottom[j] <= Highest(bottom, c, cs)
  BY <1>4 DEF Highest
<1> QED
  BY <1>5

-----------------------------------------------------------------------------
(* The pack, tile by tile. *)

Spans == [cs : 1..Cols, rs : Nat \ {0}]

\* What the pack holds after k tiles.
Packs(spans, m, g) ==
  /\ g = [k \in 0..m |-> g[k]] /\ g[0] = PackStart
  /\ \A k \in 1..m : g[k] = PlaceNext(g[k - 1], spans[k])

LEMMA PacksExist ==
  ASSUME NEW spans, NEW n \in Nat
  PROVE  \E g : Packs(spans, n, g)
<1> DEFINE T == {m \in 0..n : ~ \E g : Packs(spans, m, g)}
<1>1. ASSUME T # {} PROVE FALSE
  <2>1. PICK m \in T : \A v \in T : m <= v
    <3>1. T \subseteq Nat
      OBVIOUS
    <3> HIDE DEF T
    <3> QED
      BY <1>1, <3>1, LeastMember
  <2>2. m \in 0..n /\ ~ \E g : Packs(spans, m, g)
    OBVIOUS
  <2>3. m # 0
    <3> DEFINE g == [k \in 0..0 |-> PackStart]
    <3>1. Packs(spans, 0, g)
      BY DEF Packs
    <3> HIDE DEF g
    <3> QED
      BY <2>2, <3>1
  <2>4. PICK g : Packs(spans, m - 1, g)
    <3>1. m - 1 \in 0..n /\ ~(m <= m - 1)
      BY <2>2, <2>3
    <3> QED
      BY <2>1, <3>1
  <2> DEFINE h == [k \in 0..m |-> IF k = m THEN PlaceNext(g[m - 1], spans[m]) ELSE g[k]]
  <2>5. Packs(spans, m, h)
    <3>1. h[0] = PackStart /\ h = [k \in 0..m |-> h[k]]
      BY <2>2, <2>3, <2>4 DEF Packs
    <3>2. ASSUME NEW k \in 1..m PROVE h[k] = PlaceNext(h[k - 1], spans[k])
      <4>1. k - 1 \in 0..m /\ k \in 0..m /\ k - 1 # m
        BY <2>2
      <4>2. h[k - 1] = g[k - 1]
        BY <4>1
      <4>3. CASE k = m
        BY <4>1, <4>2, <4>3
      <4>4. CASE k # m
        <5>1. k \in 1..(m - 1)
          BY <2>2, <4>4
        <5>2. g[k] = PlaceNext(g[k - 1], spans[k])
          BY <2>4, <5>1 DEF Packs
        <5> QED
          BY <4>1, <4>2, <4>4, <5>2
      <4> QED
        BY <4>3, <4>4
    <3> HIDE DEF h
    <3> QED
      BY <3>1, <3>2 DEF Packs
  <2> HIDE DEF h
  <2> QED
    BY <2>2, <2>5
<1>2. n \in 0..n /\ n \notin T
  BY <1>1
<1> QED
  BY <1>2

LEMMA PackedIs ==
  ASSUME NEW spans, Len(spans) \in Nat
  PROVE  \E g : Packs(spans, Len(spans), g) /\ PackedCells(spans) = g[Len(spans)].cells
<1> DEFINE n == Len(spans)
           F(g) == [k \in 0..n |-> IF k = 0 THEN PackStart ELSE PlaceNext(g[k - 1], spans[k])]
           f == CHOOSE g : g = F(g)
<1>1. PICK g : Packs(spans, n, g)
  BY PacksExist
<1>2. g = F(g)
  BY <1>1 DEF Packs
<1>3. f = F(f)
  BY <1>2
<1>4. PackedCells(spans) = f[n].cells
  BY DEF PackedCells
<1> HIDE DEF f
<1>5. f = [k \in 0..n |-> f[k]]
  BY <1>3
<1>6. Packs(spans, n, f)
  <2>1. f[0] = PackStart
    BY <1>3
  <2>2. ASSUME NEW k \in 1..n PROVE f[k] = PlaceNext(f[k - 1], spans[k])
    <3>1. k \in 0..n /\ k # 0
      OBVIOUS
    <3> QED
      BY <1>3, <3>1
  <2> HIDE DEF n
  <2> QED
    BY <1>5, <2>1, <2>2 DEF Packs
<1> QED
  BY <1>4, <1>6

CellRecords == [col : Nat, row : Nat, cs : 1..Cols, rs : Nat \ {0}]

\* The invariant of the pack: every cell placed lies above the first free row of its columns.
PackInv(spans, k, p) ==
  /\ p.c \in 0..(Cols - 1) /\ p.bottom \in [0..(Cols - 1) -> Nat]
  /\ p.cells \in Seq(CellRecords) /\ Len(p.cells) = k
  /\ \A i \in 1..k :
       /\ p.cells[i].cs = spans[i].cs /\ p.cells[i].rs = spans[i].rs
       /\ p.cells[i].col + p.cells[i].cs <= Cols
       /\ \A j \in ColumnsOf(p.cells[i]) : p.cells[i].row + p.cells[i].rs <= p.bottom[j]
  /\ ~AnyOverlap(p.cells)

LEMMA PlaceNextKeeps ==
  ASSUME NEW spans \in Seq(Spans), NEW k \in 1..Len(spans), NEW p, PackInv(spans, k - 1, p)
  PROVE  PackInv(spans, k, PlaceNext(p, spans[k]))
<1> DEFINE s == spans[k]
           c == IF p.c + s.cs > Cols THEN 0 ELSE p.c
           row == Highest(p.bottom, c, s.cs)
           new == Cell(c, row, s.cs, s.rs)
           q == PlaceNext(p, s)
<1>0. Cols \in Nat \ {0} /\ k \in Nat \ {0} /\ Len(spans) \in Nat
  BY GridAssumption, LenProperties
<1>1. s.cs \in 1..Cols /\ s.rs \in Nat \ {0}
  <2>1. s \in Spans
    BY ElementOfSeq
  <2> QED
    BY <2>1 DEF Spans
<1>2. /\ p.c \in 0..(Cols - 1) /\ p.bottom \in [0..(Cols - 1) -> Nat]
      /\ p.cells \in Seq(CellRecords) /\ Len(p.cells) = k - 1 /\ ~AnyOverlap(p.cells)
      /\ \A i \in 1..(k - 1) :
           /\ p.cells[i].cs = spans[i].cs /\ p.cells[i].rs = spans[i].rs
           /\ p.cells[i].col + p.cells[i].cs <= Cols
           /\ \A j \in ColumnsOf(p.cells[i]) : p.cells[i].row + p.cells[i].rs <= p.bottom[j]
  BY DEF PackInv
<1> HIDE DEF s
<1>3. c \in Nat /\ c + s.cs <= Cols
  BY <1>0, <1>1, <1>2
<1>4. /\ q.c = IF c + s.cs >= Cols THEN 0 ELSE c + s.cs
      /\ q.bottom = [j \in DOMAIN p.bottom |-> IF j \in c..(c + s.cs - 1) THEN row + s.rs ELSE p.bottom[j]]
      /\ q.cells = Append(p.cells, new)
  BY DEF PlaceNext
<1> HIDE DEF c, q
<1>5. row \in Nat /\ \A j \in c..(c + s.cs - 1) : p.bottom[j] <= row
  <2> DEFINE w == s.cs
             b == p.bottom
  <2>1. \A j \in 0..(Cols - 1) : b[j] \in Nat
    BY <1>2
  <2>2. w \in 1..Cols /\ c + w <= Cols /\ row = Highest(b, c, w)
    BY <1>1, <1>3
  <2> HIDE DEF w, b, row
  <2>3. w \in Nat \ {0}
    BY <1>0, <2>2
  <2>4. ASSUME NEW j \in c..(c + w - 1) PROVE b[j] \in Nat
    <3>1. j \in 0..(Cols - 1)
      BY <1>0, <1>3, <2>2, <2>3
    <3> QED
      BY <2>1, <3>1
  <2>5. /\ Highest(b, c, w) \in Nat
        /\ \A j \in c..(c + w - 1) : b[j] <= Highest(b, c, w)
    BY <1>3, <2>3, <2>4, HighestIs
  <2>6. row \in Nat /\ \A j \in c..(c + w - 1) : b[j] <= row
    BY <2>2, <2>5
  <2> QED
    BY <2>6 DEF w, b
<1> HIDE DEF row
<1>6. new \in CellRecords /\ new.col = c /\ new.row = row /\ new.cs = s.cs /\ new.rs = s.rs
  BY <1>1, <1>3, <1>5 DEF Cell, CellRecords
<1> HIDE DEF new
<1>7. /\ q.cells \in Seq(CellRecords) /\ Len(q.cells) = k
      /\ q.cells[k] = new /\ \A i \in 1..(k - 1) : q.cells[i] = p.cells[i]
  BY <1>0, <1>2, <1>4, <1>6, AppendProperties
<1>8. \A i \in 1..(k - 1) : p.cells[i] \in CellRecords
  BY <1>0, <1>2, ElementOfSeq, LenProperties
<1>9. /\ q.c \in 0..(Cols - 1)
      /\ q.bottom \in [0..(Cols - 1) -> Nat]
      /\ \A j \in 0..(Cols - 1) : p.bottom[j] <= q.bottom[j]
      /\ \A j \in c..(c + s.cs - 1) : q.bottom[j] = row + s.rs
  <2>1. q.c \in 0..(Cols - 1)
    BY <1>0, <1>1, <1>3, <1>4
  <2>2. \A j \in 0..(Cols - 1) : q.bottom[j] = IF j \in c..(c + s.cs - 1) THEN row + s.rs ELSE p.bottom[j]
    BY <1>2, <1>4
  <2>3. \A j \in 0..(Cols - 1) : p.bottom[j] \in Nat
    BY <1>2
  <2>4. row + s.rs \in Nat
    BY <1>1, <1>5
  <2>5. q.bottom \in [0..(Cols - 1) -> Nat]
    BY <1>2, <1>4, <2>3, <2>4
  <2>6. \A j \in 0..(Cols - 1) : p.bottom[j] <= q.bottom[j]
    BY <1>1, <1>5, <2>2, <2>3
  <2>7. \A j \in c..(c + s.cs - 1) : q.bottom[j] = row + s.rs
    BY <1>0, <1>1, <1>3, <2>2
  <2> QED
    BY <2>1, <2>5, <2>6, <2>7
<1>10. ASSUME NEW i \in 1..k
       PROVE  /\ q.cells[i].cs = spans[i].cs /\ q.cells[i].rs = spans[i].rs
              /\ q.cells[i].col + q.cells[i].cs <= Cols
              /\ \A j \in ColumnsOf(q.cells[i]) : q.cells[i].row + q.cells[i].rs <= q.bottom[j]
  <2>1. CASE i = k
    <3>1. q.cells[i] = new
      BY <1>7, <2>1
    <3>2. \A j \in ColumnsOf(new) : q.bottom[j] = new.row + new.rs
      BY <1>6, <1>9 DEF ColumnsOf
    <3>3. new.row + new.rs \in Nat
      BY <1>1, <1>5, <1>6
    <3> QED
      BY <1>3, <1>6, <2>1, <3>1, <3>2, <3>3 DEF s
  <2>2. CASE i # k
    <3>1. i \in 1..(k - 1)
      BY <1>0, <2>2
    <3> DEFINE d == p.cells[i]
    <3>2. /\ q.cells[i] = d /\ d \in CellRecords
          /\ d.cs = spans[i].cs /\ d.rs = spans[i].rs /\ d.col + d.cs <= Cols
          /\ \A j \in ColumnsOf(d) : d.row + d.rs <= p.bottom[j]
      BY <1>2, <1>7, <1>8, <3>1
    <3> HIDE DEF d
    <3>3. d.col \in Nat /\ d.cs \in 1..Cols /\ d.row + d.rs \in Nat
      BY <3>2 DEF CellRecords
    <3>4. ASSUME NEW j \in ColumnsOf(d) PROVE d.row + d.rs <= q.bottom[j]
      <4>1. j \in 0..(Cols - 1)
        <5> DEFINE a == d.col
                   v == d.cs
        <5>1. a \in Nat /\ v \in 1..Cols /\ a + v <= Cols /\ j \in a..(a + v - 1)
          BY <3>2, <3>3 DEF ColumnsOf
        <5> HIDE DEF a, v
        <5> QED
          BY <1>0, <5>1
      <4>2. p.bottom[j] \in Nat /\ q.bottom[j] \in Nat /\ p.bottom[j] <= q.bottom[j]
        BY <1>2, <1>9, <4>1
      <4>3. d.row + d.rs <= p.bottom[j]
        BY <3>2
      <4> QED
        BY <3>3, <4>2, <4>3
    <3> QED
      BY <3>2, <3>4
  <2> QED
    BY <2>1, <2>2
<1>11. ASSUME NEW i \in 1..(k - 1) PROVE ~Overlap(p.cells[i], new)
  <2> DEFINE d == p.cells[i]
  <2>1. d \in CellRecords /\ d.col + d.cs <= Cols /\ \A j \in ColumnsOf(d) : d.row + d.rs <= p.bottom[j]
    BY <1>2, <1>8
  <2> HIDE DEF d
  <2>2. d.col \in Nat /\ d.cs \in Nat \ {0} /\ d.row \in Nat /\ d.rs \in Nat
    BY <1>0, <2>1 DEF CellRecords
  <2> SUFFICES ASSUME d.col < new.col + new.cs, new.col < d.col + d.cs, new.row < d.row + d.rs PROVE FALSE
    BY DEF Overlap, d
  <2> DEFINE j == IF d.col < c THEN c ELSE d.col
  <2>3. j \in c..(c + s.cs - 1) /\ j \in ColumnsOf(d) /\ j \in 0..(Cols - 1)
    <3> DEFINE w == s.cs
               a == d.col
               v == d.cs
    <3>1. /\ a \in Nat /\ v \in Nat \ {0} /\ a + v <= Cols /\ a < c + w /\ c < a + v
          /\ w \in 1..Cols /\ c + w <= Cols /\ j = (IF a < c THEN c ELSE a)
          /\ ColumnsOf(d) = a..(a + v - 1)
      BY <1>1, <1>3, <1>6, <2>1, <2>2 DEF ColumnsOf
    <3> HIDE DEF a, v, w, j
    <3>2. j \in c..(c + w - 1) /\ j \in a..(a + v - 1) /\ j \in 0..(Cols - 1)
      BY <1>0, <1>3, <3>1
    <3> QED
      BY <3>1, <3>2 DEF w
  <2> HIDE DEF j
  <2>4. p.bottom[j] <= row /\ d.row + d.rs <= p.bottom[j] /\ p.bottom[j] \in Nat
    BY <1>2, <1>5, <2>1, <2>3
  <2> QED
    BY <1>5, <1>6, <2>2, <2>4
<1>12. ~AnyOverlap(q.cells)
  <2>1. DOMAIN q.cells = 1..k /\ DOMAIN p.cells = 1..(k - 1)
    BY <1>2, <1>7, LenProperties
  <2>2. ASSUME NEW i \in 1..k, NEW j \in 1..k, i < j PROVE ~Overlap(q.cells[i], q.cells[j])
    <3>1. i \in 1..(k - 1)
      BY <1>0, <2>2
    <3>2. CASE j = k
      BY <1>7, <1>11, <3>1, <3>2
    <3>3. CASE j # k
      <4>1. j \in 1..(k - 1)
        BY <1>0, <3>3
      <4>2. ~Overlap(p.cells[i], p.cells[j])
        BY <1>2, <2>1, <2>2, <3>1, <4>1 DEF AnyOverlap
      <4> QED
        BY <1>7, <3>1, <4>1, <4>2
    <3> QED
      BY <3>2, <3>3
  <2> QED
    BY <2>1, <2>2 DEF AnyOverlap
<1>13. PackInv(spans, k, q)
  BY <1>7, <1>9, <1>10, <1>12 DEF PackInv
<1> QED
  BY <1>13 DEF q, s

\* "Assigns non-overlapping grid cells in tile order" (tile.ts:196): the pack gives every tile a
\* cell of the tile's own size, inside the columns, and no two of them overlap, for every number of
\* columns and every list of spans.
THEOREM PackIsApart ==
  ASSUME NEW spans \in Seq(Spans)
  PROVE  /\ PackedCells(spans) \in Seq(CellRecords) /\ Len(PackedCells(spans)) = Len(spans)
         /\ ~AnyOverlap(PackedCells(spans))
         /\ \A i \in 1..Len(spans) :
              /\ PackedCells(spans)[i].cs = spans[i].cs /\ PackedCells(spans)[i].rs = spans[i].rs
              /\ PackedCells(spans)[i].col + PackedCells(spans)[i].cs <= Cols
<1> DEFINE n == Len(spans)
<1>0. n \in Nat
  BY LenProperties
<1>1. PICK g : Packs(spans, n, g) /\ PackedCells(spans) = g[n].cells
  BY <1>0, PackedIs
<1> DEFINE T == {k \in 0..n : ~PackInv(spans, k, g[k])}
<1>2. ASSUME T # {} PROVE FALSE
  <2>1. PICK k \in T : \A v \in T : k <= v
    <3>1. T \subseteq Nat
      OBVIOUS
    <3> HIDE DEF T
    <3> QED
      BY <1>2, <3>1, LeastMember
  <2>2. k \in 0..n /\ ~PackInv(spans, k, g[k])
    OBVIOUS
  <2>3. PackInv(spans, 0, PackStart)
    <3>1. PackStart.c = 0 /\ PackStart.cells = <<>> /\ PackStart.bottom \in [0..(Cols - 1) -> Nat]
      BY DEF PackStart
    <3>2. <<>> \in Seq(CellRecords) /\ Len(<<>>) = 0 /\ ~AnyOverlap(<<>>) /\ 1..0 = {}
      BY EmptySeq DEF AnyOverlap
    <3>3. 0 \in 0..(Cols - 1)
      BY GridAssumption
    <3> QED
      BY <3>1, <3>2, <3>3 DEF PackInv
  <2>4. k # 0
    BY <1>1, <2>2, <2>3 DEF Packs
  <2>5. k \in 1..n /\ k - 1 \in 0..n /\ ~(k <= k - 1)
    BY <2>2, <2>4
  <2>6. PackInv(spans, k - 1, g[k - 1])
    BY <2>1, <2>5
  <2>7. g[k] = PlaceNext(g[k - 1], spans[k])
    BY <1>1, <2>5 DEF Packs
  <2> QED
    BY <2>2, <2>5, <2>6, <2>7, PlaceNextKeeps
<1>3. PackInv(spans, n, g[n])
  <2>1. n \in 0..n /\ n \notin T
    BY <1>0, <1>2
  <2> QED
    BY <2>1
<1> QED
  BY <1>1, <1>3 DEF PackInv

-----------------------------------------------------------------------------
(* What follows for lists of tiles. *)

\* A tile as the editor holds it: a grid of any numbers or none, and a plugin with a default span.
GridRecords == [col : Int, row : Int, cs : Int, rs : Int]
IsTile(t) ==
  /\ t = [f \in DOMAIN t |-> t[f]] /\ "grid" \in DOMAIN t
  /\ t.grid # NoGrid => t.grid \in GridRecords
  /\ t.grid = NoGrid => DefaultSpan[t.plugin] \in 1..Cols

LEMMA ClampsBound ==
  ASSUME NEW n \in Int
  PROVE  ClampSpan(n) \in 1..Cols /\ ClampTall(n) \in 1..MaxRowSpan
BY GridAssumption DEF ClampSpan, ClampTall, AtMost, AtLeast

LEMMA SpansBound ==
  ASSUME NEW t, IsTile(t)
  PROVE  Span(t) \in 1..Cols /\ Tall(t) \in 1..MaxRowSpan
<1>1. CASE t.grid # NoGrid
  <2>1. t.grid.cs \in Int /\ t.grid.rs \in Int
    BY <1>1 DEF IsTile, GridRecords
  <2> QED
    BY <1>1, <2>1, ClampsBound DEF Span, Tall
<1>2. CASE t.grid = NoGrid
  <2>1. 1 \in 1..MaxRowSpan
    BY GridAssumption
  <2> QED
    BY <1>2, <2>1 DEF Span, Tall, IsTile
<1> QED
  BY <1>1, <1>2

\* A list of tiles or groups: records with a place for their grid.
HaveGrids(nodes) ==
  \A i \in DOMAIN nodes :
    nodes[i] = [f \in DOMAIN nodes[i] |-> nodes[i][f]] /\ "grid" \in DOMAIN nodes[i]

LEMMA GridsAreCells ==
  ASSUME NEW nodes, NEW cells, cells = [i \in DOMAIN nodes |-> cells[i]], HaveGrids(nodes)
  PROVE  GridsOf(WithGrids(nodes, cells)) = cells
<1> DEFINE w == WithGrids(nodes, cells)
<1>1. DOMAIN w = DOMAIN nodes
  BY DEF WithGrids
<1>2. ASSUME NEW i \in DOMAIN nodes PROVE w[i].grid = cells[i]
  <2>1. w[i] = [nodes[i] EXCEPT !.grid = cells[i]] /\ "grid" \in DOMAIN nodes[i]
    BY DEF WithGrids, HaveGrids
  <2> QED
    BY <2>1
<1> HIDE DEF w
<1>3. GridsOf(w) = [i \in DOMAIN nodes |-> cells[i]]
  BY <1>1, <1>2 DEF GridsOf
<1> QED
  BY <1>3 DEF w

LEMMA PackedAsCells ==
  ASSUME NEW Placeables, NEW nodes \in Seq(Placeables), HaveGrids(nodes),
         NEW spans \in Seq(Spans), Len(spans) = Len(nodes)
  PROVE  GridsOf(PackedAs(nodes, spans)) = PackedCells(spans)
<1> DEFINE cells == PackedCells(spans)
           n == Len(nodes)
<1>1. n \in Nat /\ DOMAIN nodes = 1..n
  BY LenProperties
<1>2. cells \in Seq(CellRecords) /\ Len(cells) = n
  BY PackIsApart
<1> HIDE DEF cells, n
<1>3. cells = [i \in DOMAIN nodes |-> cells[i]]
  BY <1>1, <1>2, LenProperties
<1>4. GridsOf(WithGrids(nodes, cells)) = cells
  BY <1>3, GridsAreCells
<1> QED
  BY <1>4 DEF PackedAs, cells

\* What every commit ends in, at the root and in a group: placements that may be kept and are apart
\* are kept, and otherwise the list is packed ("if that creates overlap, fall back to compact
\* packing", tile.ts:347). Either way no two cells overlap, for every list and every size.
THEOREM KeptOrPackedIsApart ==
  ASSUME NEW may, NEW nodes, HaveGrids(nodes), NEW cells, cells = [i \in DOMAIN nodes |-> cells[i]],
         NEW Placeables, NEW others \in Seq(Placeables), HaveGrids(others),
         NEW spans \in Seq(Spans), Len(spans) = Len(others)
  PROVE  ~AnyOverlap(GridsOf(KeepIfApart(may, nodes, cells, PackedAs(others, spans))))
<1>1. CASE may /\ ~AnyOverlap(cells)
  <2>1. GridsOf(WithGrids(nodes, cells)) = cells
    BY GridsAreCells
  <2> QED
    BY <1>1, <2>1 DEF KeepIfApart
<1>2. CASE ~(may /\ ~AnyOverlap(cells))
  <2>1. KeepIfApart(may, nodes, cells, PackedAs(others, spans)) = PackedAs(others, spans)
    BY <1>2 DEF KeepIfApart
  <2> QED
    BY <2>1, PackedAsCells, PackIsApart
<1> QED
  BY <1>1, <1>2

LEMMA SpansOfTiles ==
  ASSUME NEW Tiles, \A t \in Tiles : IsTile(t), NEW tiles \in Seq(Tiles),
         NEW spans, spans = [i \in DOMAIN tiles |-> [cs |-> Span(tiles[i]), rs |-> Tall(tiles[i])]]
  PROVE  HaveGrids(tiles) /\ spans \in Seq(Spans) /\ Len(spans) = Len(tiles)
<1> DEFINE n == Len(tiles)
<1>1. n \in Nat /\ DOMAIN tiles = 1..n /\ \A i \in 1..n : tiles[i] \in Tiles
  BY LenProperties, ElementOfSeq
<1>2. HaveGrids(tiles)
  BY <1>1 DEF HaveGrids, IsTile
<1>3. ASSUME NEW i \in 1..n PROVE spans[i] \in Spans
  <2>1. Span(tiles[i]) \in 1..Cols /\ Tall(tiles[i]) \in 1..MaxRowSpan
    BY <1>1, SpansBound
  <2>2. Tall(tiles[i]) \in Nat \ {0}
    BY <2>1, GridAssumption
  <2> QED
    BY <1>1, <2>1, <2>2 DEF Spans
<1>4. spans = [i \in 1..n |-> spans[i]]
  BY <1>1
<1> HIDE DEF n
<1>5. spans \in Seq(Spans) /\ Len(spans) = n
  BY <1>1, <1>3, <1>4
<1> QED
  BY <1>2, <1>5 DEF n

\* Reordering the tiles of a group leaves no two of them on one another, wherever they were and
\* whatever their sizes (reorderTilesPreservingSlotOrigins): the slots change hands when the tiles
\* fit there, and else the list is packed anew.
THEOREM ReorderIsApart ==
  ASSUME NEW Tiles, \A t \in Tiles : IsTile(t), NEW tiles \in Seq(Tiles),
         NEW prev, NEW wrap, ~SameOrder(tiles, prev)
  PROVE  ~AnyOverlap(GridsOf(ReorderTiles(prev, tiles, wrap)))
<1> DEFINE cells == ClampedAt(tiles, SlotOrigins(prev), wrap)
           may == Len(tiles) = Len(prev) /\ \A i \in DOMAIN prev : CompleteChild(prev[i].grid, wrap)
           spans == [i \in DOMAIN tiles |-> [cs |-> Span(tiles[i]), rs |-> Tall(tiles[i])]]
<1>1. ReorderTiles(prev, tiles, wrap) = KeepIfApart(may, tiles, cells, PackedAs(tiles, spans))
  BY DEF ReorderTiles, PackTilesToGrid
<1>2. cells = [i \in DOMAIN tiles |-> cells[i]]
  BY DEF ClampedAt
<1>3. spans = [i \in DOMAIN tiles |-> [cs |-> Span(tiles[i]), rs |-> Tall(tiles[i])]]
  OBVIOUS
<1> HIDE DEF cells, may, spans
<1>4. HaveGrids(tiles) /\ spans \in Seq(Spans) /\ Len(spans) = Len(tiles)
  BY <1>3, SpansOfTiles
<1>5. ~AnyOverlap(GridsOf(KeepIfApart(may, tiles, cells, PackedAs(tiles, spans))))
  BY <1>2, <1>4, KeptOrPackedIsApart
<1> QED
  BY <1>1, <1>5

\* A clamped tile is a placement the grid takes as it is, whatever numbers the stored one has, and
\* clamping a placement the grid takes changes nothing (clampTileGridPlacement, isCompleteGridPlacement):
\* a layout that was normalised once stays where it is when it is loaded and saved again.
THEOREM ClampIsComplete ==
  ASSUME NEW t, IsTile(t), NoGrid \notin GridRecords
  PROVE  /\ Complete(ClampedTile(t))
         /\ Complete(t.grid) => ClampedTile(t) = t.grid
<1>0. Cols \in Nat \ {0} /\ MaxRowSpan \in Nat \ {0}
  BY GridAssumption
<1> DEFINE o == OriginOf(t)
           cs == Span(t)
           rs == Tall(t)
           g == ClampedTile(t)
<1>1. o.col \in Int /\ o.row \in Int
  BY DEF OriginOf, IsTile, GridRecords, Cell
<1>2. cs \in 1..Cols /\ rs \in 1..MaxRowSpan
  BY SpansBound
<1>3. g = Cell(OriginCol(o.col, cs), AtLeast(0, o.row), cs, rs)
  BY DEF ClampedTile
<1>4. Complete(g)
  <2> HIDE DEF o, cs, rs, g
  <2>1. /\ g.col = OriginCol(o.col, cs) /\ g.row = AtLeast(0, o.row) /\ g.cs = cs /\ g.rs = rs
        /\ g \in GridRecords
    <3>1. OriginCol(o.col, cs) \in Int /\ AtLeast(0, o.row) \in Int /\ cs \in Int /\ rs \in Int
      BY <1>0, <1>1, <1>2 DEF OriginCol, AtLeast, AtMost
    <3> QED
      BY <1>3, <3>1 DEF Cell, GridRecords
  <2>2. g.col >= 0 /\ g.col + g.cs <= Cols /\ g.row >= 0
    BY <1>0, <1>1, <1>2, <2>1 DEF OriginCol, AtLeast, AtMost
  <2>3. g # NoGrid
    BY <2>1
  <2> QED
    BY <1>2, <2>1, <2>2, <2>3 DEF Complete
<1>5. ASSUME Complete(t.grid) PROVE g = t.grid
  <2> DEFINE h == t.grid
  <2>1. h \in GridRecords /\ h # NoGrid
    BY <1>5 DEF IsTile, Complete
  <2>2. o = h /\ cs = ClampSpan(h.cs) /\ rs = ClampTall(h.rs)
    BY <2>1 DEF OriginOf, Span, Tall
  <2>3. h.col >= 0 /\ h.cs \in 1..Cols /\ h.col + h.cs <= Cols /\ h.row >= 0 /\ h.rs \in 1..MaxRowSpan
    BY <1>5 DEF Complete
  <2> HIDE DEF o, cs, rs, g, h
  <2>4. h.col \in Int /\ h.row \in Int /\ h.cs \in Int /\ h.rs \in Int
    BY <2>1 DEF GridRecords
  <2>5. cs = h.cs /\ rs = h.rs
    BY <1>0, <2>2, <2>3, <2>4 DEF ClampSpan, ClampTall, AtMost, AtLeast
  <2>6. OriginCol(h.col, h.cs) = h.col /\ AtLeast(0, h.row) = h.row
    BY <1>0, <2>3, <2>4 DEF OriginCol, AtMost, AtLeast
  <2>7. g = [col |-> h.col, row |-> h.row, cs |-> h.cs, rs |-> h.rs]
    BY <1>3, <2>2, <2>5, <2>6 DEF Cell
  <2>8. h = [col |-> h.col, row |-> h.row, cs |-> h.cs, rs |-> h.rs]
    BY <2>1 DEF GridRecords
  <2> QED
    BY <2>7, <2>8 DEF h
<1> QED
  BY <1>4, <1>5

-----------------------------------------------------------------------------
(* Recursion over numbers and over trees.                                  *)

\* Induction over the numbers, as a set: the provers cannot instantiate a predicate.
LEMMA NatInduction0 ==
  ASSUME NEW P, 0 \in P, \A k \in Nat : k \in P => k + 1 \in P
  PROVE  \A k \in Nat : k \in P
<1> DEFINE Out == {k \in Nat : k \notin P}
<1>1. ASSUME Out # {} PROVE FALSE
  <2>1. Out \subseteq Nat
    OBVIOUS
  <2>2. PICK m \in Out : \A n \in Out : m <= n
    BY <1>1, <2>1, LeastMember
  <2>3. m \in Nat /\ m \notin P /\ m # 0
    OBVIOUS
  <2>4. m - 1 \in Nat /\ ~(m <= m - 1) /\ (m - 1) + 1 = m
    BY <2>3
  <2>5. m - 1 \in P
    BY <2>2, <2>4
  <2> QED
    BY <2>3, <2>4, <2>5
<1> QED
  BY <1>1

Runs(V, a, step, m, g) ==
  /\ g \in [0..m -> V] /\ g[0] = a
  /\ \A k \in 1..m : g[k] = step[k][g[k - 1]]

\* A recursive function on the numbers exists up to any number,
LEMMA RunsExist ==
  ASSUME NEW V, NEW a \in V, NEW step \in [Nat -> [V -> V]], NEW m \in Nat
  PROVE  \E g : Runs(V, a, step, m, g)
<1> DEFINE P == {k \in Nat : \E g : Runs(V, a, step, k, g)}
<1>1. 0 \in P
  <2> DEFINE g == [k \in 0..0 |-> a]
  <2>1. g \in [0..0 -> V] /\ g[0] = a /\ 1..0 = {}
    OBVIOUS
  <2>2. Runs(V, a, step, 0, g)
    BY <2>1 DEF Runs
  <2> QED
    BY <2>2
<1>2. ASSUME NEW k \in Nat, k \in P PROVE k + 1 \in P
  <2>1. PICK g : Runs(V, a, step, k, g)
    BY <1>2
  <2>2. g \in [0..k -> V] /\ g[0] = a /\ \A i \in 1..k : g[i] = step[i][g[i - 1]]
    BY <2>1 DEF Runs
  <2> DEFINE v == step[k + 1][g[k]]
             h == [i \in 0..(k + 1) |-> IF i = k + 1 THEN v ELSE g[i]]
  <2>3. v \in V
    BY <2>2
  <2>4. h \in [0..(k + 1) -> V] /\ h[0] = a
    BY <2>2, <2>3
  <2>5. ASSUME NEW i \in 1..(k + 1) PROVE h[i] = step[i][h[i - 1]]
    <3>1. i - 1 \in 0..k /\ i - 1 # k + 1 /\ i \in 0..(k + 1)
      OBVIOUS
    <3>2. h[i - 1] = g[i - 1]
      BY <3>1
    <3>3. CASE i = k + 1
      <4>1. h[i] = v /\ i - 1 = k
        BY <3>1, <3>3
      <4>2. h[i - 1] = g[k]
        BY <3>2, <4>1
      <4> QED
        BY <3>3, <4>1, <4>2
    <3>4. CASE i # k + 1
      <4>1. i \in 1..k
        BY <3>4
      <4>2. h[i] = g[i]
        BY <3>1, <3>4
      <4> QED
        BY <2>2, <3>2, <4>1, <4>2
    <3> QED
      BY <3>3, <3>4
  <2> HIDE DEF h
  <2>6. Runs(V, a, step, k + 1, h)
    BY <2>4, <2>5 DEF Runs
  <2> QED
    BY <2>6
<1> HIDE DEF P
<1>3. m \in P
  BY <1>1, <1>2, NatInduction0
<1> QED
  BY <1>3 DEF P

\* any two of them agree as far as both go,
LEMMA RunsAgree ==
  ASSUME NEW V, NEW a \in V, NEW step, NEW m \in Nat, NEW n \in Nat, NEW g, NEW h,
         Runs(V, a, step, m, g), Runs(V, a, step, n, h)
  PROVE  \A k \in Nat : k <= m /\ k <= n => g[k] = h[k]
<1> DEFINE P == {k \in Nat : k <= m /\ k <= n => g[k] = h[k]}
<1>1. 0 \in P
  BY DEF Runs
<1>2. ASSUME NEW k \in Nat, k \in P PROVE k + 1 \in P
  <2>1. SUFFICES ASSUME k + 1 <= m, k + 1 <= n PROVE g[k + 1] = h[k + 1]
    OBVIOUS
  <2>2. k + 1 \in 1..m /\ k + 1 \in 1..n /\ (k + 1) - 1 = k
    BY <2>1
  <2>3. g[k] = h[k]
    BY <1>2, <2>1
  <2>4. g[k + 1] = step[k + 1][g[k]] /\ h[k + 1] = step[k + 1][h[k]]
    BY <2>2 DEF Runs
  <2> QED
    BY <2>3, <2>4
<1> HIDE DEF P
<1>3. \A k \in Nat : k \in P
  BY <1>1, <1>2, NatInduction0
<1> QED
  BY <1>3 DEF P

Iterates(f, a, step) == f[0] = a /\ \A k \in Nat : f[k + 1] = step[k + 1][f[k]]

\* and so it exists on all of them: CHOOSE picks a function that satisfies its equations.
LEMMA NatRecursion ==
  ASSUME NEW V, NEW a \in V, NEW step \in [Nat -> [V -> V]]
  PROVE  \E f \in [Nat -> V] : Iterates(f, a, step)
<1> DEFINE run(m) == CHOOSE g : Runs(V, a, step, m, g)
           f == [k \in Nat |-> run(k)[k]]
<1>1. \A m \in Nat : Runs(V, a, step, m, run(m))
  BY RunsExist
<1> HIDE DEF run
<1>2. \A k \in Nat : run(k)[k] \in V
  <2> TAKE k \in Nat
  <2>1. k \in 0..k
    OBVIOUS
  <2> QED
    BY <1>1, <2>1 DEF Runs
<1>3. f \in [Nat -> V]
  BY <1>2
<1>4. f[0] = a
  BY <1>1 DEF Runs
<1>5. ASSUME NEW k \in Nat PROVE f[k + 1] = step[k + 1][f[k]]
  <2>1. k + 1 \in Nat /\ k + 1 \in 1..(k + 1) /\ (k + 1) - 1 = k /\ k <= k + 1
    OBVIOUS
  <2>2. Runs(V, a, step, k, run(k)) /\ Runs(V, a, step, k + 1, run(k + 1))
    BY <1>1, <2>1
  <2>3. run(k + 1)[k] = run(k)[k]
    BY <2>1, <2>2, RunsAgree
  <2>4. run(k + 1)[k + 1] = step[k + 1][run(k + 1)[k]]
    BY <2>1, <2>2 DEF Runs
  <2> QED
    BY <2>1, <2>3, <2>4
<1> HIDE DEF f
<1>6. Iterates(f, a, step)
  BY <1>4, <1>5 DEF Iterates
<1> QED
  BY <1>3, <1>6

AnyTree == UNION {Trees[d] : d \in Nat}

\* The levels of trees are what their definition says.
TreeStep(d, inner) == TileNodes \union (IF d = 0 THEN {} ELSE GroupNodes(inner))
TreeRuns(m, g) == g = [k \in 0..m |-> g[k]] /\ \A k \in 0..m : g[k] = TreeStep(k, g[k - 1])

\* The levels of Trees exist up to any depth,
LEMMA TreeRunsExist ==
  ASSUME NEW m \in Nat
  PROVE  \E g : TreeRuns(m, g)
<1> DEFINE P == {k \in Nat : \E g : TreeRuns(k, g)}
<1>1. 0 \in P
  <2> DEFINE g == [k \in 0..0 |-> TileNodes]
  <2>1. g = [k \in 0..0 |-> g[k]] /\ \A k \in 0..0 : g[k] = TreeStep(k, g[k - 1])
    BY DEF TreeStep
  <2>2. TreeRuns(0, g)
    BY <2>1 DEF TreeRuns
  <2> QED
    BY <2>2
<1>2. ASSUME NEW k \in Nat, k \in P PROVE k + 1 \in P
  <2>1. PICK g : TreeRuns(k, g)
    BY <1>2
  <2>2. g = [i \in 0..k |-> g[i]] /\ \A i \in 0..k : g[i] = TreeStep(i, g[i - 1])
    BY <2>1 DEF TreeRuns
  <2> DEFINE v == TreeStep(k + 1, g[k])
             h == [i \in 0..(k + 1) |-> IF i = k + 1 THEN v ELSE g[i]]
  <2>3. ASSUME NEW i \in 0..(k + 1) PROVE h[i] = TreeStep(i, h[i - 1])
    <3>1. CASE i = k + 1
      <4>1. h[i] = v /\ i - 1 = k /\ k \in 0..(k + 1) /\ k # k + 1
        BY <3>1
      <4>2. h[k] = g[k]
        BY <4>1
      <4> QED
        BY <3>1, <4>1, <4>2
    <3>2. CASE i # k + 1 /\ i # 0
      <4>1. i \in 0..k /\ i - 1 \in 0..(k + 1) /\ i - 1 # k + 1
        BY <3>2
      <4>2. h[i - 1] = g[i - 1] /\ h[i] = g[i]
        BY <3>2, <4>1
      <4>3. g[i] = TreeStep(i, g[i - 1])
        BY <2>2, <4>1
      <4> QED
        BY <4>2, <4>3
    <3>3. CASE i = 0
      <4>1. 0 \in 0..k /\ 0 \in 0..(k + 1) /\ 0 # k + 1
        OBVIOUS
      <4>2. h[0] = g[0]
        BY <4>1
      <4>3. g[0] = TreeStep(0, g[0 - 1])
        BY <2>2, <4>1
      <4> QED
        BY <3>3, <4>2, <4>3 DEF TreeStep
    <3> QED
      BY <3>1, <3>2, <3>3
  <2>4. h = [i \in 0..(k + 1) |-> h[i]]
    OBVIOUS
  <2> HIDE DEF h
  <2>5. TreeRuns(k + 1, h)
    BY <2>3, <2>4 DEF TreeRuns
  <2> QED
    BY <2>5
<1> HIDE DEF P
<1>3. m \in P
  BY <1>1, <1>2, NatInduction0
<1> QED
  BY <1>3 DEF P

\* and agree where they overlap.
LEMMA TreeRunsAgree ==
  ASSUME NEW m \in Nat, NEW n \in Nat, NEW g, NEW h, TreeRuns(m, g), TreeRuns(n, h)
  PROVE  \A k \in Nat : k <= m /\ k <= n => g[k] = h[k]
<1> DEFINE P == {k \in Nat : k <= m /\ k <= n => g[k] = h[k]}
<1>1. 0 \in P
  <2>1. 0 \in 0..m /\ 0 \in 0..n
    OBVIOUS
  <2>2. g[0] = TreeStep(0, g[0 - 1]) /\ h[0] = TreeStep(0, h[0 - 1])
    BY <2>1 DEF TreeRuns
  <2>3. g[0] = TileNodes /\ h[0] = TileNodes
    BY <2>2 DEF TreeStep
  <2> QED
    BY <2>3
<1>2. ASSUME NEW k \in Nat, k \in P PROVE k + 1 \in P
  <2>1. SUFFICES ASSUME k + 1 <= m, k + 1 <= n PROVE g[k + 1] = h[k + 1]
    OBVIOUS
  <2>2. k + 1 \in 0..m /\ k + 1 \in 0..n /\ (k + 1) - 1 = k
    BY <2>1
  <2>3. g[k] = h[k]
    BY <1>2, <2>1
  <2>4. g[k + 1] = TreeStep(k + 1, g[k]) /\ h[k + 1] = TreeStep(k + 1, h[k])
    BY <2>2 DEF TreeRuns
  <2> QED
    BY <2>3, <2>4
<1> HIDE DEF P
<1>3. \A k \in Nat : k \in P
  BY <1>1, <1>2, NatInduction0
<1> QED
  BY <1>3 DEF P

LEMMA TreesAre ==
  /\ Trees[0] = TileNodes
  /\ \A d \in Nat : Trees[d + 1] = TileNodes \union GroupNodes(Trees[d])
<1> DEFINE run(m) == CHOOSE g : TreeRuns(m, g)
           f == [k \in Nat |-> run(k)[k]]
<1>1. \A m \in Nat : TreeRuns(m, run(m))
  BY TreeRunsExist
<1> HIDE DEF run
<1>2. ASSUME NEW k \in Nat PROVE f[k] = TreeStep(k, f[k - 1])
  <2>1. CASE k = 0
    <3>1. run(0)[0] = TreeStep(0, run(0)[0 - 1])
      BY <1>1 DEF TreeRuns
    <3> QED
      BY <2>1, <3>1 DEF TreeStep
  <2>2. CASE k # 0
    <3>1. k - 1 \in Nat /\ k - 1 <= k
      BY <2>2
    <3>2. TreeRuns(k, run(k)) /\ TreeRuns(k - 1, run(k - 1))
      BY <1>1, <3>1
    <3>3. run(k)[k - 1] = run(k - 1)[k - 1]
      BY <3>1, <3>2, TreeRunsAgree
    <3>6. k \in 0..k
      OBVIOUS
    <3>4. run(k)[k] = TreeStep(k, run(k)[k - 1])
      BY <3>2, <3>6 DEF TreeRuns
    <3>5. f[k] = run(k)[k] /\ f[k - 1] = run(k - 1)[k - 1]
      BY <3>1
    <3> QED
      BY <3>3, <3>4, <3>5
  <2> QED
    BY <2>1, <2>2
<1>3. f = [k \in Nat |-> f[k]]
  OBVIOUS
<1> HIDE DEF f
<1>4. f = [d \in Nat |-> TileNodes \union (IF d = 0 THEN {} ELSE GroupNodes(f[d - 1]))]
  BY <1>2, <1>3 DEF TreeStep
<1> DEFINE F == CHOOSE g : g = [d \in Nat |-> TileNodes \union (IF d = 0 THEN {} ELSE GroupNodes(g[d - 1]))]
<1>5. F = [d \in Nat |-> TileNodes \union (IF d = 0 THEN {} ELSE GroupNodes(F[d - 1]))]
  BY <1>4
<1>6. Trees = F
  BY DEF Trees
<1> HIDE DEF F
<1>7. \A d \in Nat : Trees[d] = TileNodes \union (IF d = 0 THEN {} ELSE GroupNodes(Trees[d - 1]))
  BY <1>5, <1>6
<1>8. \A d \in Nat : d + 1 \in Nat /\ (d + 1) - 1 = d /\ d + 1 # 0
  OBVIOUS
<1> QED
  BY <1>7, <1>8

\* A tree of one depth is one of every greater depth.
LEMMA TreesGrow ==
  ASSUME NEW c \in Nat, NEW d \in Nat, c <= d
  PROVE  Trees[c] \subseteq Trees[d]
<1> DEFINE P == {k \in Nat : Trees[k] \subseteq Trees[k + 1]}
<1>1. 0 \in P
  BY TreesAre
<1>2. ASSUME NEW k \in Nat, k \in P PROVE k + 1 \in P
  <2>1. Trees[k] \subseteq Trees[k + 1]
    BY <1>2
  <2>2. Seq(Trees[k]) \subseteq Seq(Trees[k + 1])
    BY <2>1, SeqMonotonic
  <2>3. GroupNodes(Trees[k]) \subseteq GroupNodes(Trees[k + 1])
    BY <2>2 DEF GroupNodes
  <2>4. k + 1 \in Nat
    OBVIOUS
  <2> QED
    BY <2>3, <2>4, TreesAre
<1>3. \A k \in Nat : k \in P
  <2> HIDE DEF P
  <2> QED
    BY <1>1, <1>2, NatInduction0
<1> DEFINE Q == {k \in Nat : Trees[c] \subseteq Trees[c + k]}
<1>4. 0 \in Q
  OBVIOUS
<1>5. ASSUME NEW k \in Nat, k \in Q PROVE k + 1 \in Q
  <2>1. c + k \in Nat /\ (c + k) + 1 = c + (k + 1)
    OBVIOUS
  <2>2. Trees[c + k] \subseteq Trees[(c + k) + 1]
    BY <1>3, <2>1
  <2> QED
    BY <1>5, <2>1, <2>2
<1>6. \A k \in Nat : k \in Q
  <2> HIDE DEF Q
  <2> QED
    BY <1>4, <1>5, NatInduction0
<1>7. d - c \in Nat /\ c + (d - c) = d
  OBVIOUS
<1> QED
  BY <1>6, <1>7

\* A finite list is no deeper than its deepest member.
LEMMA ListHasDepth ==
  ASSUME NEW items \in Seq(AnyTree)
  PROVE  \E d \in Nat : items \in Seq(Trees[d])
<1> DEFINE P == {k \in Nat : k <= Len(items) => \E d \in Nat : \A i \in 1..k : items[i] \in Trees[d]}
<1>1. 0 \in P
  OBVIOUS
<1>2. ASSUME NEW k \in Nat, k \in P PROVE k + 1 \in P
  <2>1. SUFFICES ASSUME k + 1 <= Len(items) PROVE \E d \in Nat : \A i \in 1..(k + 1) : items[i] \in Trees[d]
    OBVIOUS
  <2>0. k <= Len(items)
    BY <2>1, LenProperties
  <2>2. PICK c \in Nat : \A i \in 1..k : items[i] \in Trees[c]
    BY <1>2, <2>0
  <2>3. k + 1 \in 1..Len(items)
    BY <2>1
  <2>4. items[k + 1] \in AnyTree
    BY <2>3, ElementOfSeq
  <2>5. PICK e \in Nat : items[k + 1] \in Trees[e]
    BY <2>4 DEF AnyTree
  <2> DEFINE d == IF c <= e THEN e ELSE c
  <2>6. d \in Nat /\ c <= d /\ e <= d
    OBVIOUS
  <2>7. Trees[c] \subseteq Trees[d] /\ Trees[e] \subseteq Trees[d]
    BY <2>6, TreesGrow
  <2>8. \A i \in 1..(k + 1) : i \in 1..k \/ i = k + 1
    OBVIOUS
  <2> HIDE DEF d
  <2> QED
    BY <2>2, <2>5, <2>6, <2>7, <2>8
<1>3. Len(items) \in Nat /\ items = [i \in 1..Len(items) |-> items[i]]
  BY LenProperties
<1>4. Len(items) \in P
  <2> HIDE DEF P
  <2> QED
    BY <1>1, <1>2, <1>3, NatInduction0
<1>5. PICK d \in Nat : \A i \in 1..Len(items) : items[i] \in Trees[d]
  BY <1>3, <1>4
<1>6. items \in [1..Len(items) -> Trees[d]]
  BY <1>3, <1>5
<1> QED
  BY <1>3, <1>6, SeqDef

\* Trees are tiles, and groups of trees.
LEMMA TreeIs ==
  /\ \A t \in TileNodes : t \in AnyTree
  /\ \A g \in GroupNodes(AnyTree) : g \in AnyTree
  /\ \A n \in AnyTree : n \in TileNodes \/ n \in GroupNodes(AnyTree)
<1>1. \A t \in TileNodes : t \in AnyTree
  BY TreesAre DEF AnyTree
<1>2. ASSUME NEW g \in GroupNodes(AnyTree) PROVE g \in AnyTree
  <2>1. g.kids \in Seq(AnyTree)
    BY DEF GroupNodes
  <2>2. PICK d \in Nat : g.kids \in Seq(Trees[d])
    BY <2>1, ListHasDepth
  <2>3. g \in GroupNodes(Trees[d])
    BY <2>2 DEF GroupNodes
  <2>4. g \in Trees[d + 1] /\ d + 1 \in Nat
    BY <2>3, TreesAre
  <2> QED
    BY <2>4 DEF AnyTree
<1>3. ASSUME NEW n \in AnyTree PROVE n \in TileNodes \/ n \in GroupNodes(AnyTree)
  <2>1. PICK d \in Nat : n \in Trees[d]
    BY DEF AnyTree
  <2>2. CASE d = 0
    BY <2>1, <2>2, TreesAre
  <2>3. CASE d # 0
    <3>1. d - 1 \in Nat /\ (d - 1) + 1 = d
      BY <2>3
    <3>2. Trees[d - 1] \subseteq AnyTree
      BY <3>1 DEF AnyTree
    <3>3. Seq(Trees[d - 1]) \subseteq Seq(AnyTree)
      BY <3>2, SeqMonotonic
    <3>4. GroupNodes(Trees[d - 1]) \subseteq GroupNodes(AnyTree)
      BY <3>3 DEF GroupNodes
    <3>5. n \in TileNodes \union GroupNodes(Trees[d - 1])
      BY <2>1, <3>1, TreesAre
    <3> QED
      BY <3>4, <3>5
  <2> QED
    BY <2>2, <2>3
<1> QED
  BY <1>1, <1>2, <1>3

Kids(n) == IF IsGroup(n) THEN Range(n.kids) ELSE {}
Closed(S) == \A n \in S : Kids(n) \subseteq S

\* A tile has nothing below it.
LEMMA KidsOf ==
  /\ \A n \in TileNodes : Kids(n) = {} /\ ~IsGroup(n)
  /\ \A S : \A n \in GroupNodes(S) : Kids(n) \subseteq S /\ IsGroup(n) /\ Kids(n) = Range(n.kids)
<1>1. \A n \in TileNodes : Kids(n) = {} /\ ~IsGroup(n)
  BY DEF Kids, IsGroup, TileNodes
<1>2. ASSUME NEW S, NEW n \in GroupNodes(S) PROVE Kids(n) \subseteq S /\ IsGroup(n) /\ Kids(n) = Range(n.kids)
  <2>1. n.kids \in Seq(S) /\ IsGroup(n)
    BY DEF GroupNodes, IsGroup
  <2>2. Range(n.kids) \subseteq S
    BY <2>1, ElementOfSeq, LenProperties DEF Range
  <2> QED
    BY <2>1, <2>2 DEF Kids
<1> QED
  BY <1>1, <1>2

\* Induction over the layout: what every node has when the nodes right below it have it.
LEMMA TreeInduction ==
  ASSUME NEW S, S \subseteq AnyTree, Closed(S), NEW P, \A n \in S : Kids(n) \subseteq P => n \in P
  PROVE  S \subseteq P
<1> DEFINE Q == {d \in Nat : S \intersect Trees[d] \subseteq P}
<1>1. 0 \in Q
  BY TreesAre, KidsOf
<1>2. ASSUME NEW d \in Nat, d \in Q PROVE d + 1 \in Q
  <2>1. SUFFICES ASSUME NEW n \in S, n \in Trees[d + 1] PROVE n \in P
    OBVIOUS
  <2>2. CASE n \in TileNodes
    BY <2>2, KidsOf
  <2>3. CASE n \in GroupNodes(Trees[d])
    <3>1. Kids(n) \subseteq Trees[d]
      BY <2>3, KidsOf
    <3>2. Kids(n) \subseteq S
      BY DEF Closed
    <3> QED
      BY <1>2, <3>1, <3>2
  <2> QED
    BY <2>1, <2>2, <2>3, TreesAre
<1>3. \A d \in Nat : d \in Q
  <2> HIDE DEF Q
  <2> QED
    BY <1>1, <1>2, NatInduction0
<1> QED
  BY <1>3 DEF AnyTree

\* A function on trees may be defined by what it is on the trees one level down.
Local(S, V, G) ==
  \A n \in S : \A h, k \in [S -> V] : (\A m \in Kids(n) : h[m] = k[m]) => G[n][h] = G[n][k]
Fixed(f, S, G) == \A n \in S : f[n] = G[n][f]

LEMMA TreeRecursion ==
  ASSUME NEW D \in Nat, NEW S, S \subseteq Trees[D], Closed(S), NEW V, NEW v \in V,
         NEW G \in [S -> [[S -> V] -> V]], Local(S, V, G)
  PROVE  \E f \in [S -> V] : Fixed(f, S, G)
<1> DEFINE first == [n \in S |-> v]
           W == [S -> V]
           next1 == [i \in Nat |-> [h \in W |-> [n \in S |-> G[n][h]]]]
<1>1. first \in W
  OBVIOUS
<1>2. next1 \in [Nat -> [W -> W]]
  OBVIOUS
<1>3. \A k \in Nat : \A h \in W : \A n \in S : next1[k][h][n] = G[n][h]
  OBVIOUS
<1> HIDE DEF next1
<1>4. PICK F \in [Nat -> W] : F[0] = first /\ \A k \in Nat : F[k + 1] = next1[k + 1][F[k]]
  <2> HIDE DEF W, first
  <2>1. \E F \in [Nat -> W] : Iterates(F, first, next1)
    BY <1>1, <1>2, NatRecursion
  <2> QED
    BY <2>1 DEF Iterates
<1>5. \A k \in Nat : F[k] \in W /\ k + 1 \in Nat
  BY <1>4
<1>6. \A k \in Nat : \A n \in S : F[k + 1][n] = G[n][F[k]]
  <2> HIDE DEF W, first
  <2> SUFFICES ASSUME NEW k \in Nat, NEW n \in S PROVE F[k + 1][n] = G[n][F[k]]
    OBVIOUS
  <2>1. k + 1 \in Nat /\ F[k] \in W
    BY <1>5
  <2>2. next1[k + 1][F[k]][n] = G[n][F[k]]
    BY <1>3, <2>1
  <2> QED
    BY <1>4, <2>2
<1> HIDE DEF first
<1> DEFINE Q == {d \in Nat : \A n \in S : n \in Trees[d] => \A k \in Nat : k > d => F[k + 1][n] = F[k][n]}
<1>7. ASSUME NEW n \in S, NEW k \in Nat, k > 0, \A m \in Kids(n) : F[k][m] = F[k - 1][m]
      PROVE  F[k + 1][n] = F[k][n]
  <2>1. k - 1 \in Nat /\ (k - 1) + 1 = k
    BY <1>7
  <2>2. F[k] \in W /\ F[k - 1] \in W
    BY <1>5, <2>1
  <2>3. G[n][F[k]] = G[n][F[k - 1]]
    BY <1>7, <2>2 DEF Local
  <2>4. F[k + 1][n] = G[n][F[k]]
    BY <1>6
  <2>5. F[k][n] = G[n][F[k - 1]]
    BY <1>6, <2>1
  <2> QED
    BY <2>3, <2>4, <2>5
<1>8. 0 \in Q
  <2> SUFFICES ASSUME NEW n \in S, n \in Trees[0], NEW k \in Nat, k > 0 PROVE F[k + 1][n] = F[k][n]
    OBVIOUS
  <2>1. Kids(n) = {}
    BY TreesAre, KidsOf
  <2> QED
    BY <1>7, <2>1
<1>9. ASSUME NEW d \in Nat, d \in Q PROVE d + 1 \in Q
  <2> SUFFICES ASSUME NEW n \in S, n \in Trees[d + 1], NEW k \in Nat, k > d + 1 PROVE F[k + 1][n] = F[k][n]
    OBVIOUS
  <2>1. n \in TileNodes \/ n \in GroupNodes(Trees[d])
    BY TreesAre
  <2>2. Kids(n) \subseteq Trees[d] /\ Kids(n) \subseteq S
    BY <2>1, KidsOf DEF Closed
  <2>3. k - 1 \in Nat /\ k - 1 > d /\ (k - 1) + 1 = k /\ k > 0
    OBVIOUS
  <2>4. \A m \in Kids(n) : F[k][m] = F[k - 1][m]
    BY <1>9, <2>2, <2>3
  <2> QED
    BY <1>7, <2>3, <2>4
<1>10. D \in Q
  <2> HIDE DEF Q
  <2> QED
    BY <1>8, <1>9, NatInduction0
<1>11. D + 1 \in Nat /\ D + 1 > D
  OBVIOUS
<1>12. \A n \in S : F[(D + 1) + 1][n] = F[D + 1][n]
  BY <1>10, <1>11
<1>13. \A n \in S : F[D + 1][n] = G[n][F[D + 1]]
  BY <1>6, <1>11, <1>12
<1> QED
  BY <1>5, <1>11, <1>13 DEF Fixed

-----------------------------------------------------------------------------
(* What is below a list.  *)

LevelUnder(nodes) == UNION {Range(g.kids) : g \in {n \in nodes : IsGroup(n)}}

\* Going down a level ends: the level below the tiles is empty.
LEMMA LevelUnderIs ==
  /\ \A nodes \in SUBSET AnyTree : LevelUnder(nodes) \in SUBSET AnyTree
  /\ \A d \in Nat : \A nodes \in SUBSET Trees[d + 1] : LevelUnder(nodes) \subseteq Trees[d]
  /\ \A nodes \in SUBSET Trees[0] : LevelUnder(nodes) = {}
  /\ \A nodes : \A n \in nodes : Kids(n) \subseteq LevelUnder(nodes)
<1>1. ASSUME NEW nodes \in SUBSET AnyTree, NEW m \in LevelUnder(nodes) PROVE m \in AnyTree
  <2>1. PICK n \in nodes : IsGroup(n) /\ m \in Range(n.kids)
    BY DEF LevelUnder
  <2>2. n \in GroupNodes(AnyTree)
    BY <2>1, TreeIs, KidsOf
  <2> QED
    BY <2>1, <2>2, KidsOf
<1>2. ASSUME NEW d \in Nat, NEW nodes \in SUBSET Trees[d + 1], NEW m \in LevelUnder(nodes) PROVE m \in Trees[d]
  <2>1. PICK n \in nodes : IsGroup(n) /\ m \in Range(n.kids)
    BY DEF LevelUnder
  <2>2. n \in GroupNodes(Trees[d])
    BY <2>1, TreesAre, KidsOf
  <2> QED
    BY <2>1, <2>2, KidsOf
<1>3. ASSUME NEW nodes \in SUBSET Trees[0] PROVE LevelUnder(nodes) = {}
  BY TreesAre, KidsOf DEF LevelUnder
<1>4. \A nodes : \A n \in nodes : Kids(n) \subseteq LevelUnder(nodes)
  BY DEF LevelUnder, Kids
<1> QED
  BY <1>1, <1>2, <1>3, <1>4

\* What is below a layout is finitely deep, made of nodes, and has what is below each of them.
LEMMA BelowIs ==
  ASSUME NEW items \in Seq(AnyTree)
  PROVE  /\ \E D \in Nat : Below(items) \subseteq Trees[D]
         /\ Below(items) \subseteq AnyTree
         /\ Range(items) \subseteq Below(items)
         /\ Closed(Below(items))
<1>1. PICK D \in Nat : items \in Seq(Trees[D])
  BY ListHasDepth
<1>2. Range(items) \subseteq Trees[D]
  BY <1>1, ElementOfSeq, LenProperties DEF Range
<1>3. Trees[D] \subseteq AnyTree
  BY DEF AnyTree
<1> DEFINE W == SUBSET AnyTree
           next1 == [i \in Nat |-> [w \in W |-> LevelUnder(w)]]
           IsLevel(f) == f = [k \in Nat |-> IF k = 0 THEN Range(items) ELSE LevelUnder(f[k - 1])]
<1>4. Range(items) \in W /\ next1 \in [Nat -> [W -> W]]
  BY <1>2, <1>3, LevelUnderIs
<1>5. \A k \in Nat : \A w \in W : next1[k][w] = LevelUnder(w)
  OBVIOUS
<1> HIDE DEF next1
<1>6. \E f \in [Nat -> W] : f[0] = Range(items) /\ \A k \in Nat : f[k + 1] = next1[k + 1][f[k]]
  <2> HIDE DEF W
  <2>1. \E f \in [Nat -> W] : Iterates(f, Range(items), next1)
    BY <1>4, NatRecursion
  <2> QED
    BY <2>1 DEF Iterates
<1>7. PICK g \in [Nat -> W] : g[0] = Range(items) /\ \A k \in Nat : g[k + 1] = next1[k + 1][g[k]]
  BY <1>6
<1>8. \A k \in Nat : g[k + 1] = LevelUnder(g[k])
  <2>1. \A k \in Nat : k + 1 \in Nat /\ g[k] \in W
    BY <1>7
  <2> HIDE DEF W
  <2> QED
    BY <1>5, <1>7, <2>1
<1>9. ASSUME NEW k \in Nat PROVE g[k] = IF k = 0 THEN Range(items) ELSE LevelUnder(g[k - 1])
  <2>1. CASE k = 0
    BY <1>7, <2>1
  <2>2. CASE k # 0
    <3>1. k - 1 \in Nat /\ (k - 1) + 1 = k
      BY <2>2
    <3> QED
      BY <1>8, <2>2, <3>1
  <2> QED
    BY <2>1, <2>2
<1>10. IsLevel(g)
  <2>1. g = [k \in Nat |-> g[k]]
    BY <1>7
  <2> QED
    BY <1>9, <2>1
<1> DEFINE level == CHOOSE f : IsLevel(f)
<1>11. IsLevel(level)
  BY <1>10
<1>12. level = [k \in Nat |-> IF k = 0 THEN Range(items) ELSE LevelUnder(level[k - 1])]
  BY <1>11
<1>13. level = CHOOSE f : f = [k \in Nat |-> IF k = 0 THEN Range(items)
                                  ELSE UNION {Range(h.kids) : h \in {n \in f[k - 1] : IsGroup(n)}}]
  BY DEF LevelUnder
<1> HIDE DEF level, IsLevel
<1>14. level[0] = Range(items) /\ \A k \in Nat : level[k + 1] = LevelUnder(level[k])
  <2>1. \A k \in Nat : k + 1 \in Nat /\ k + 1 # 0 /\ (k + 1) - 1 = k
    OBVIOUS
  <2> QED
    BY <1>12, <2>1
<1> DEFINE P == {k \in Nat : k <= D => level[k] \subseteq Trees[D - k]}
<1>15. \A k \in Nat : k \in P
  <2>1. 0 \in P
    <3>1. D - 0 = D
      OBVIOUS
    <3> QED
      BY <1>2, <1>14, <3>1
  <2>2. ASSUME NEW k \in Nat, k \in P PROVE k + 1 \in P
    <3>1. SUFFICES ASSUME k + 1 <= D PROVE level[k + 1] \subseteq Trees[D - (k + 1)]
      OBVIOUS
    <3>2. D - (k + 1) \in Nat /\ (D - (k + 1)) + 1 = D - k /\ k <= D
      BY <3>1
    <3>3. level[k] \subseteq Trees[(D - (k + 1)) + 1]
      BY <2>2, <3>2
    <3>4. LevelUnder(level[k]) \subseteq Trees[D - (k + 1)]
      BY <3>2, <3>3, LevelUnderIs
    <3> QED
      BY <1>14, <3>4
  <2> HIDE DEF P
  <2> QED
    BY <2>1, <2>2, NatInduction0
<1>16. level[D + 1] = {}
  <2>1. D \in P /\ D - D = 0
    BY <1>15
  <2>2. level[D] \subseteq Trees[0]
    BY <2>1
  <2> QED
    BY <1>14, <2>2, LevelUnderIs
<1> DEFINE E == {k \in Nat : level[(D + 1) + k] = {}}
<1>17. \A k \in Nat : k \in E
  <2>1. 0 \in E
    BY <1>16
  <2>2. ASSUME NEW k \in Nat, k \in E PROVE k + 1 \in E
    <3>1. (D + 1) + k \in Nat /\ (D + 1) + (k + 1) = ((D + 1) + k) + 1
      OBVIOUS
    <3>2. LevelUnder({}) = {}
      BY DEF LevelUnder
    <3>3. level[((D + 1) + k) + 1] = LevelUnder(level[(D + 1) + k])
      BY <1>14, <3>1
    <3>4. level[(D + 1) + k] = {}
      BY <2>2
    <3>5. level[(D + 1) + (k + 1)] = {}
      BY <3>1, <3>2, <3>3, <3>4, Zenon
    <3> QED
      BY <3>5
  <2> HIDE DEF E
  <2> QED
    BY <2>1, <2>2, NatInduction0
<1>18. \A k \in Nat : k > D => level[k] = {}
  <2> SUFFICES ASSUME NEW k \in Nat, k > D PROVE level[k] = {}
    OBVIOUS
  <2>1. k - (D + 1) \in Nat /\ (D + 1) + (k - (D + 1)) = k
    OBVIOUS
  <2> QED
    BY <1>17, <2>1
<1>19. \A k \in Nat : level[k] \subseteq Trees[D]
  <2> SUFFICES ASSUME NEW k \in Nat PROVE level[k] \subseteq Trees[D]
    OBVIOUS
  <2>1. CASE k <= D
    <3>1. D - k \in Nat /\ D - k <= D
      BY <2>1
    <3> QED
      BY <1>15, <2>1, <3>1, TreesGrow
  <2>2. CASE k > D
    BY <1>18, <2>2
  <2> QED
    BY <2>1, <2>2
<1> DEFINE up(k) == UNION {level[j] : j \in {i \in Nat : k <= i}}
           IsFrom(f) == f = [k \in Nat |-> IF level[k] = {} THEN {} ELSE level[k] \union f[k + 1]]
           u == [k \in Nat |-> up(k)]
<1>20. \A k \in Nat : up(k) = level[k] \union up(k + 1)
  <2>1. ASSUME NEW k \in Nat, NEW j \in Nat PROVE k <= j <=> (j = k \/ k + 1 <= j)
    OBVIOUS
  <2> QED
    BY <2>1
<1>21. ASSUME NEW k \in Nat, level[k] = {} PROVE up(k) = {}
  <2> DEFINE Z == {j \in Nat : level[k + j] = {}}
  <2>1. 0 \in Z
    BY <1>21
  <2>2. ASSUME NEW j \in Nat, j \in Z PROVE j + 1 \in Z
    <3>1. k + j \in Nat /\ k + (j + 1) = (k + j) + 1
      OBVIOUS
    <3>2. LevelUnder({}) = {}
      BY DEF LevelUnder
    <3>3. level[(k + j) + 1] = LevelUnder(level[k + j])
      BY <1>14, <3>1
    <3>4. level[k + j] = {}
      BY <2>2
    <3>5. level[k + (j + 1)] = {}
      BY <3>1, <3>2, <3>3, <3>4, Zenon
    <3> QED
      BY <3>5
  <2>3. \A j \in Nat : j \in Z
    <3> HIDE DEF Z
    <3> QED
      BY <2>1, <2>2, NatInduction0
  <2>4. \A i \in Nat : k <= i => i - k \in Nat /\ k + (i - k) = i
    OBVIOUS
  <2>5. \A i \in Nat : k <= i => level[i] = {}
    BY <2>3, <2>4
  <2> QED
    BY <2>5
<1>22. \A k \in Nat : u[k] = up(k) /\ u[k + 1] = up(k + 1)
  OBVIOUS
<1>23. u = [k \in Nat |-> u[k]]
  OBVIOUS
<1> HIDE DEF u, up
<1>24. IsFrom(u)
  <2>1. \A k \in Nat : u[k] = IF level[k] = {} THEN {} ELSE level[k] \union u[k + 1]
    BY <1>20, <1>21, <1>22
  <2> QED
    BY <1>23, <2>1
<1> DEFINE from == CHOOSE f : IsFrom(f)
<1>25. IsFrom(from)
  BY <1>24
<1>26. Below(items) = from[0]
  BY <1>13 DEF Below
<1>27. \A k \in Nat : from[k] = IF level[k] = {} THEN {} ELSE level[k] \union from[k + 1]
  <2> HIDE DEF from
  <2> QED
    BY <1>25
<1> HIDE DEF from, IsFrom
<1> DEFINE Y == {k \in Nat : k <= D + 1 => from[(D + 1) - k] = up((D + 1) - k)}
<1>28. \A k \in Nat : k \in Y
  <2>1. 0 \in Y
    <3>1. (D + 1) - 0 = D + 1 /\ D + 1 \in Nat
      OBVIOUS
    <3> QED
      BY <1>16, <1>21, <1>27, <3>1
  <2>2. ASSUME NEW k \in Nat, k \in Y PROVE k + 1 \in Y
    <3>1. SUFFICES ASSUME k + 1 <= D + 1 PROVE from[(D + 1) - (k + 1)] = up((D + 1) - (k + 1))
      OBVIOUS
    <3>2. (D + 1) - (k + 1) \in Nat /\ ((D + 1) - (k + 1)) + 1 = (D + 1) - k /\ k <= D + 1
      BY <3>1
    <3>3. from[((D + 1) - (k + 1)) + 1] = up(((D + 1) - (k + 1)) + 1)
      BY <2>2, <3>2
    <3> QED
      BY <1>20, <1>21, <1>27, <3>2, <3>3
  <2> HIDE DEF Y
  <2> QED
    BY <2>1, <2>2, NatInduction0
<1>29. Below(items) = up(0)
  <2>1. D + 1 \in Nat /\ D + 1 <= D + 1 /\ (D + 1) - (D + 1) = 0
    OBVIOUS
  <2>2. D + 1 \in Y
    BY <1>28, <2>1
  <2> QED
    BY <1>26, <2>1, <2>2
<1>30. Below(items) = UNION {level[j] : j \in Nat}
  <2>1. {i \in Nat : 0 <= i} = Nat
    OBVIOUS
  <2> QED
    BY <1>29, <2>1 DEF up
<1>31. Below(items) \subseteq Trees[D]
  BY <1>19, <1>30
<1>32. Range(items) \subseteq Below(items)
  BY <1>14, <1>30
<1>33. Closed(Below(items))
  <2> SUFFICES ASSUME NEW n \in Below(items) PROVE Kids(n) \subseteq Below(items)
    BY DEF Closed
  <2>1. PICK j \in Nat : n \in level[j]
    BY <1>30
  <2>2. Kids(n) \subseteq LevelUnder(level[j])
    BY <2>1, LevelUnderIs
  <2>3. level[j + 1] = LevelUnder(level[j]) /\ j + 1 \in Nat
    BY <1>14
  <2> QED
    BY <1>30, <2>2, <2>3
<1> QED
  BY <1>3, <1>31, <1>32, <1>33

-----------------------------------------------------------------------------
(* Lists.                                                                  *)

\* A function on 1..n is a sequence.
LEMMA SeqIs ==
  ASSUME NEW S, NEW n \in Nat, NEW f, f = [i \in 1..n |-> f[i]], \A i \in 1..n : f[i] \in S
  PROVE  f \in Seq(S) /\ Len(f) = n
<1>1. f \in [1..n -> S]
  OBVIOUS
<1> QED
  BY <1>1, SeqDef

\* What a sequence gives a proof: its length, its domain, its members.
LEMMA SeqMembers ==
  ASSUME NEW S, NEW s \in Seq(S)
  PROVE  /\ Len(s) \in Nat /\ DOMAIN s = 1..Len(s) /\ s = [i \in 1..Len(s) |-> s[i]]
         /\ \A i \in DOMAIN s : s[i] \in S /\ s[i] \in Range(s)
         /\ Range(s) \subseteq S
         /\ s \in Seq(Range(s))
<1>1. Len(s) \in Nat /\ DOMAIN s = 1..Len(s) /\ s = [i \in 1..Len(s) |-> s[i]]
  BY LenProperties
<1>2. \A i \in DOMAIN s : s[i] \in S /\ s[i] \in Range(s)
  BY <1>1, ElementOfSeq DEF Range
<1>3. Range(s) \subseteq S
  BY <1>2 DEF Range
<1>4. s \in Seq(Range(s))
  BY <1>1, <1>2, SeqIs
<1> QED
  BY <1>1, <1>2, <1>3, <1>4

\* One more member.
LEMMA AppendRange ==
  ASSUME NEW S, NEW t \in Seq(S), NEW e \in S
  PROVE  Range(Append(t, e)) = Range(t) \union {e}
<1> DEFINE a == Append(t, e)
           n == Len(t)
<1>1. n \in Nat /\ DOMAIN t = 1..n
  BY LenProperties
<1>2. a \in Seq(S) /\ Len(a) = n + 1 /\ (\A i \in 1..n : a[i] = t[i]) /\ a[n + 1] = e
  BY AppendProperties
<1>3. DOMAIN a = 1..(n + 1)
  BY <1>2, LenProperties
<1> HIDE DEF a, n
<1>4. 1..(n + 1) = 1..n \union {n + 1}
  BY <1>1
<1> QED
  BY <1>1, <1>2, <1>3, <1>4 DEF Range, a

-----------------------------------------------------------------------------
\* Array.filter keeps members of the list, all that it is asked to keep.
LEMMA PickedIs ==
  ASSUME NEW S, NEW s \in Seq(S), NEW keep
  PROVE  /\ Picked(s, keep) \in Seq(S)
         /\ \A e \in Range(Picked(s, keep)) : \E i \in 1..Len(s) : i \in keep /\ e = s[i]
         /\ \A i \in 1..Len(s) : i \in keep => s[i] \in Range(Picked(s, keep))
         /\ (\A i \in 1..Len(s) : i \in keep) => Picked(s, keep) = s
<1> DEFINE n == Len(s)
           T == {s[i] : i \in {j \in 1..n : j \in keep}}
           V == Seq(T)
           step == [k \in Nat |-> [t \in V |-> IF k \in keep /\ k \in 1..n THEN Append(t, s[k]) ELSE t]]
           F(f) == [k \in 0..n |-> IF k = 0 THEN <<>> ELSE IF k \in keep THEN Append(f[k - 1], s[k]) ELSE f[k - 1]]
<1>1. n \in Nat /\ \A i \in 1..n : s[i] \in S
  BY SeqMembers
<1>2. <<>> \in V
  OBVIOUS
<1>3. \A k \in 1..n : k \in keep => s[k] \in T
  OBVIOUS
<1> HIDE DEF T, n
<1>4. \A k \in 1..n : \A t \in V : k \in keep => Append(t, s[k]) \in V
  BY <1>3
<1>5. step \in [Nat -> [V -> V]]
  BY <1>4
<1>6. \A k \in 1..n : \A t \in V : step[k][t] = IF k \in keep THEN Append(t, s[k]) ELSE t
  BY <1>1
<1> HIDE DEF step, V
<1>7. PICK g : Runs(V, <<>>, step, n, g)
  BY <1>1, <1>2, <1>5, RunsExist
<1>8. g = [k \in 0..n |-> g[k]] /\ g[0] = <<>> /\ \A k \in 1..n : g[k - 1] \in V /\ g[k] = step[k][g[k - 1]]
  BY <1>1, <1>7 DEF Runs
<1>0. \A k \in 0..n : k = 0 \/ (k # 0 /\ k \in 1..n)
  BY <1>1
<1>9. \A k \in 0..n : g[k] = IF k = 0 THEN <<>> ELSE IF k \in keep THEN Append(g[k - 1], s[k]) ELSE g[k - 1]
  <2> TAKE k \in 0..n
  <2>1. CASE k = 0
    BY <1>8, <2>1
  <2>2. CASE k # 0 /\ k \in 1..n
    <3>1. g[k] = step[k][g[k - 1]] /\ g[k - 1] \in V
      BY <1>8, <2>2
    <3>2. step[k][g[k - 1]] = IF k \in keep THEN Append(g[k - 1], s[k]) ELSE g[k - 1]
      BY <1>6, <2>2, <3>1
    <3> QED
      BY <2>2, <3>1, <3>2
  <2> QED
    BY <1>0, <2>1, <2>2
<1>10. g = F(g)
  BY <1>8, <1>9, Zenon
<1> DEFINE f == CHOOSE h : h = F(h)
<1>11. f = F(f)
  BY <1>10
<1>12. Picked(s, keep) = f[n]
  BY DEF Picked, n
<1> HIDE DEF f
<1>13. f[0] = <<>> /\ \A k \in 1..n : f[k] = IF k \in keep THEN Append(f[k - 1], s[k]) ELSE f[k - 1]
  <2>1. 0 \in 0..n /\ \A k \in 1..n : k \in 0..n /\ k # 0
    BY <1>1
  <2> QED
    BY <1>11, <2>1
<1> DEFINE P == {k \in Nat : k <= n => f[k] \in V /\ \A i \in 1..k : i \in keep => s[i] \in Range(f[k])}
           Q == {k \in Nat : k <= n => f[k] \in Seq(S) /\ Len(f[k]) = k /\ \A i \in 1..k : f[k][i] = s[i]}
<1>14. 0 \in P
  BY <1>2, <1>13
<1>15. ASSUME NEW k \in Nat, k \in P PROVE k + 1 \in P
  <2>1. SUFFICES ASSUME k + 1 <= n
                 PROVE  f[k + 1] \in V /\ \A i \in 1..(k + 1) : i \in keep => s[i] \in Range(f[k + 1])
    OBVIOUS
  <2>2. k + 1 \in 1..n /\ (k + 1) - 1 = k /\ k <= n /\ \A i \in 1..(k + 1) : i \in 1..k \/ i = k + 1
    BY <1>1, <2>1
  <2>3. f[k] \in V /\ \A i \in 1..k : i \in keep => s[i] \in Range(f[k])
    BY <1>15, <2>2
  <2>4. CASE k + 1 \in keep
    <3>1. f[k + 1] = Append(f[k], s[k + 1])
      BY <1>13, <2>2, <2>4
    <3>2. f[k + 1] \in V
      BY <1>4, <2>2, <2>3, <2>4, <3>1
    <3>3. f[k] \in Seq(T) /\ s[k + 1] \in T
      BY <1>3, <2>2, <2>3, <2>4 DEF V
    <3>4. Range(Append(f[k], s[k + 1])) = Range(f[k]) \union {s[k + 1]}
      BY <3>3, AppendRange
    <3> QED
      BY <2>2, <2>3, <3>1, <3>2, <3>4
  <2>5. CASE k + 1 \notin keep
    <3>1. f[k + 1] = f[k]
      BY <1>13, <2>2, <2>5
    <3> QED
      BY <2>2, <2>3, <2>5, <3>1
  <2> QED
    BY <2>4, <2>5
<1>16. n \in P
  <2> HIDE DEF P
  <2> QED
    BY <1>1, <1>14, <1>15, NatInduction0
<1>17. f[n] \in Seq(T) /\ \A i \in 1..n : i \in keep => s[i] \in Range(f[n])
  BY <1>1, <1>16 DEF V
<1>18. T \subseteq S /\ \A e \in T : \E i \in 1..n : i \in keep /\ e = s[i]
  BY <1>1 DEF T
<1>19. f[n] \in Seq(S)
  BY <1>17, <1>18, SeqMonotonic
<1>20. \A e \in Range(f[n]) : \E i \in 1..n : i \in keep /\ e = s[i]
  <2>1. Range(f[n]) \subseteq T
    BY <1>17, SeqMembers
  <2> QED
    BY <1>18, <2>1
<1>21. ASSUME \A i \in 1..n : i \in keep PROVE f[n] = s
  <2>1. 0 \in Q
    <3>1. <<>> \in Seq(S) /\ Len(<<>>) = 0 /\ 1..0 = {}
      BY EmptySeq
    <3>2. f[0] \in Seq(S) /\ Len(f[0]) = 0
      BY <1>13, <3>1
    <3> QED
      BY <3>1, <3>2
  <2>2. ASSUME NEW k \in Nat, k \in Q PROVE k + 1 \in Q
    <3>1. SUFFICES ASSUME k + 1 <= n
                   PROVE  f[k + 1] \in Seq(S) /\ Len(f[k + 1]) = k + 1 /\ \A i \in 1..(k + 1) : f[k + 1][i] = s[i]
      OBVIOUS
    <3>2. k + 1 \in 1..n /\ (k + 1) - 1 = k /\ k <= n
      BY <1>1, <3>1
    <3>3. f[k] \in Seq(S) /\ Len(f[k]) = k /\ \A i \in 1..k : f[k][i] = s[i]
      BY <2>2, <3>2
    <3>4. f[k + 1] = Append(f[k], s[k + 1]) /\ s[k + 1] \in S
      BY <1>1, <1>13, <1>21, <3>2
    <3>5. Append(f[k], s[k + 1]) \in Seq(S) /\ Len(Append(f[k], s[k + 1])) = k + 1
          /\ (\A i \in 1..k : Append(f[k], s[k + 1])[i] = f[k][i]) /\ Append(f[k], s[k + 1])[k + 1] = s[k + 1]
      BY <3>3, <3>4, AppendProperties
    <3>6. \A i \in 1..(k + 1) : i \in 1..k \/ i = k + 1
      OBVIOUS
    <3> QED
      BY <3>3, <3>4, <3>5, <3>6
  <2>3. n \in Q
    <3> HIDE DEF Q
    <3> QED
      BY <1>1, <2>1, <2>2, NatInduction0
  <2>4. f[n] \in Seq(S) /\ Len(f[n]) = n /\ \A i \in 1..n : f[n][i] = s[i]
    BY <1>1, <2>3
  <2> QED
    BY <2>4, SeqEqual DEF n
<1> QED
  BY <1>12, <1>17, <1>19, <1>20, <1>21 DEF n

\* Finitely many numbers have a bound.
LEMMA NatBound ==
  ASSUME NEW n \in Nat, NEW e, \A i \in 1..n : e[i] \in Int
  PROVE  \E b \in Nat : \A i \in 1..n : e[i] <= b /\ -b <= e[i]
<1> DEFINE P == {k \in Nat : k <= n => \E b \in Nat : \A i \in 1..k : e[i] <= b /\ -b <= e[i]}
<1>1. 0 \in P
  OBVIOUS
<1>2. ASSUME NEW k \in Nat, k \in P PROVE k + 1 \in P
  <2>1. SUFFICES ASSUME k + 1 <= n PROVE \E b \in Nat : \A i \in 1..(k + 1) : e[i] <= b /\ -b <= e[i]
    OBVIOUS
  <2>2. k <= n /\ k + 1 \in 1..n /\ \A i \in 1..(k + 1) : (i \in 1..k \/ i = k + 1) /\ i \in 1..n
    BY <2>1
  <2>3. PICK b \in Nat : \A i \in 1..k : e[i] <= b /\ -b <= e[i]
    BY <1>2, <2>2
  <2> DEFINE x == e[k + 1]
  <2>4. x \in Int /\ \A i \in 1..(k + 1) : e[i] \in Int
    BY <2>2
  <2>5. PICK c \in Nat : x <= c /\ -c <= x
    <3> HIDE DEF x
    <3>1. CASE x >= 0
      BY <2>4, <3>1
    <3>2. CASE ~(x >= 0)
      <4>1. -x \in Nat /\ x <= -x /\ -(-x) <= x
        BY <2>4, <3>2
      <4> QED
        BY <4>1
    <3> QED
      BY <3>1, <3>2
  <2> HIDE DEF x
  <2>6. b + c \in Nat /\ b <= b + c /\ c <= b + c /\ -(b + c) <= -b /\ -(b + c) <= -c
    OBVIOUS
  <2>7. \A i \in 1..(k + 1) : e[i] <= b + c /\ -(b + c) <= e[i]
    <3> TAKE i \in 1..(k + 1)
    <3>1. CASE i \in 1..k
      BY <2>3, <2>4, <2>6, <3>1
    <3>2. CASE i = k + 1
      BY <2>4, <2>5, <2>6, <3>2 DEF x
    <3> QED
      BY <2>2, <3>1, <3>2
  <2> QED
    BY <2>6, <2>7
<1> HIDE DEF P
<1>3. n \in P
  BY <1>1, <1>2, NatInduction0
<1> QED
  BY <1>3 DEF P

\* The least member is one, and is least;
LEMMA MinIs ==
  ASSUME NEW T, T \subseteq Int, T # {}, NEW b \in Int, \A x \in T : b <= x
  PROVE  Min(T) \in T /\ \A x \in T : Min(T) <= x
<1> DEFINE D == {d \in Nat : b + d \in T}
<1>1. \A x \in T : x - b \in D
  <2> TAKE x \in T
  <2>1. x \in Int /\ b <= x
    OBVIOUS
  <2>2. x - b \in Nat /\ b + (x - b) = x
    BY <2>1
  <2> QED
    BY <2>2
<1>2. PICK m \in D : \A d \in D : m <= d
  <2>1. D \subseteq Nat /\ D # {}
    BY <1>1
  <2> HIDE DEF D
  <2> QED
    BY <2>1, LeastMember
<1>3. \A y \in T : b + m <= y
  <2> TAKE y \in T
  <2>1. y \in Int /\ m \in Nat /\ m <= y - b
    BY <1>1, <1>2
  <2> QED
    BY <2>1
<1>4. b + m \in T
  BY <1>2
<1> QED
  BY <1>3, <1>4 DEF Min

\* so with the greatest.
LEMMA MaxIs ==
  ASSUME NEW T, T \subseteq Int, T # {}, NEW b \in Int, \A x \in T : x <= b
  PROVE  Max(T) \in T /\ \A x \in T : x <= Max(T)
<1> DEFINE D == {d \in Nat : b - d \in T}
<1>1. \A x \in T : b - x \in D
  <2> TAKE x \in T
  <2>1. x \in Int /\ x <= b
    OBVIOUS
  <2>2. b - x \in Nat /\ b - (b - x) = x
    BY <2>1
  <2> QED
    BY <2>2
<1>2. PICK m \in D : \A d \in D : m <= d
  <2>1. D \subseteq Nat /\ D # {}
    BY <1>1
  <2> HIDE DEF D
  <2> QED
    BY <2>1, LeastMember
<1>3. \A y \in T : b - m >= y /\ y \in Int
  <2> TAKE y \in T
  <2>1. y \in Int /\ m \in Nat /\ m <= b - y
    BY <1>1, <1>2
  <2> QED
    BY <2>1
<1>4. b - m \in T
  BY <1>2
<1>5. Max(T) \in T /\ \A y \in T : Max(T) >= y
  BY <1>3, <1>4 DEF Max
<1> QED
  BY <1>3, <1>5

\* The least and the greatest of the values of a list.
LEMMA ListExtremes ==
  ASSUME NEW n \in Nat, NEW e, \A i \in 1..n : e[i] \in Int, NEW T, T # {}, T = {e[i] : i \in 1..n}
  PROVE  /\ Min(T) \in T /\ \A x \in T : Min(T) <= x
         /\ Max(T) \in T /\ \A x \in T : x <= Max(T)
<1>1. PICK b \in Nat : \A i \in 1..n : e[i] <= b /\ -b <= e[i]
  BY NatBound
<1>2. T \subseteq Int /\ (\A x \in T : x <= b /\ -b <= x) /\ -b \in Int /\ b \in Int
  BY <1>1
<1>3. Min(T) \in T /\ \A x \in T : Min(T) <= x
  BY <1>2, MinIs
<1>4. Max(T) \in T /\ \A x \in T : x <= Max(T)
  BY <1>2, MaxIs
<1> QED
  BY <1>3, <1>4

-----------------------------------------------------------------------------
\* The index of an id is 0 when nothing has it, and else that of a node that has.
LEMMA IndexOfIs ==
  ASSUME NEW S, NEW s \in Seq(S), NEW id
  PROVE  /\ IndexOf(s, id) \in 0..Len(s)
         /\ Has(s, id) <=> IndexOf(s, id) # 0
         /\ IndexOf(s, id) # 0 => IndexOf(s, id) \in 1..Len(s) /\ s[IndexOf(s, id)].id = id
                                  /\ s[IndexOf(s, id)] \in S
<1> DEFINE T == {i \in 1..Len(s) : s[i].id = id}
<1>1. Len(s) \in Nat /\ DOMAIN s = 1..Len(s) /\ \A i \in 1..Len(s) : s[i] \in S
  BY SeqMembers
<1>2. IndexOf(s, id) = IF T # {} THEN Min(T) ELSE 0
  BY DEF IndexOf, SelectInSeq
<1>3. Has(s, id) <=> T # {}
  BY <1>1 DEF Has, IdsOf
<1>4. T # {} => Min(T) \in T
  <2> SUFFICES ASSUME T # {} PROVE Min(T) \in T
    OBVIOUS
  <2>1. T \subseteq Int /\ 0 \in Int /\ \A x \in T : 0 <= x
    OBVIOUS
  <2> HIDE DEF T
  <2> QED
    BY <2>1, MinIs
<1>5. \A i \in T : i \in 1..Len(s) /\ i # 0 /\ s[i].id = id
  OBVIOUS
<1> HIDE DEF T
<1>6. CASE T = {}
  BY <1>1, <1>2, <1>3, <1>6
<1>7. CASE T # {}
  <2>1. IndexOf(s, id) \in T
    BY <1>2, <1>4, <1>7
  <2> QED
    BY <1>1, <1>3, <1>5, <1>7, <2>1
<1> QED
  BY <1>6, <1>7

\* Inserting, removing, sorting: what they return is a list of the same kind.
LEMMA InsertAtIs ==
  ASSUME NEW S, NEW s \in Seq(S), NEW e \in S, NEW i \in 1..(Len(s) + 1)
  PROVE  InsertAt(s, i, e) \in Seq(S) /\ Len(InsertAt(s, i, e)) = Len(s) + 1
<1>1. Len(s) \in Nat /\ \A k \in 1..Len(s) : s[k] \in S
  BY SeqMembers
<1> DEFINE a == SubSeq(s, 1, i - 1)
           b == SubSeq(s, i, Len(s))
<1>2. a \in Seq(S) /\ Len(a) = i - 1
  <2>1. \A k \in 1..(i - 1) : s[k] \in S
    BY <1>1
  <2>2. 1 \in Int /\ i - 1 \in Int /\ i \in Int
    BY <1>1
  <2>3. a \in Seq(S) /\ Len(a) = IF 1 <= i - 1 THEN (i - 1) - 1 + 1 ELSE 0
    BY <2>1, <2>2, SubSeqProperties
  <2> HIDE DEF a
  <2> QED
    BY <1>1, <2>2, <2>3
<1>3. b \in Seq(S) /\ Len(b) = (Len(s) - i) + 1
  <2>1. \A k \in i..Len(s) : s[k] \in S
    BY <1>1
  <2>2. i \in Int /\ Len(s) \in Int
    BY <1>1
  <2>3. b \in Seq(S) /\ Len(b) = IF i <= Len(s) THEN Len(s) - i + 1 ELSE 0
    BY <2>1, <2>2, SubSeqProperties
  <2> HIDE DEF b
  <2> QED
    BY <1>1, <2>2, <2>3
<1>4. <<e>> \in Seq(S) /\ Len(<<e>>) = 1
  OBVIOUS
<1> HIDE DEF a, b
<1>5. a \o <<e>> \in Seq(S) /\ Len(a \o <<e>>) = (i - 1) + 1
  BY <1>2, <1>4, ConcatProperties
<1> DEFINE c == a \o <<e>>
<1>6. c \o b \in Seq(S) /\ Len(c \o b) = Len(c) + Len(b)
  <2> HIDE DEF c
  <2>1. c \in Seq(S)
    BY <1>5 DEF c
  <2> QED
    BY <1>3, <2>1, ConcatProperties
<1>7. InsertAt(s, i, e) = c \o b
  BY DEF InsertAt, a, b
<1>8. Len(c) = i
  BY <1>5, <1>1
<1>9. i \in Int /\ Len(s) \in Int
  BY <1>1
<1> HIDE DEF c
<1> QED
  BY <1>3, <1>6, <1>7, <1>8, <1>9

LEMMA RemoveAtIs ==
  ASSUME NEW S, NEW s \in Seq(S), NEW i \in 1..Len(s)
  PROVE  RemoveAt(s, i) \in Seq(S) /\ Len(RemoveAt(s, i)) = Len(s) - 1
<1>1. Len(s) \in Nat /\ \A k \in 1..Len(s) : s[k] \in S
  BY SeqMembers
<1> DEFINE a == SubSeq(s, 1, i - 1)
           b == SubSeq(s, i + 1, Len(s))
<1>2. a \in Seq(S) /\ Len(a) = i - 1
  <2>1. \A k \in 1..(i - 1) : s[k] \in S
    BY <1>1
  <2>2. 1 \in Int /\ i - 1 \in Int /\ i \in Int
    BY <1>1
  <2>3. a \in Seq(S) /\ Len(a) = IF 1 <= i - 1 THEN (i - 1) - 1 + 1 ELSE 0
    BY <2>1, <2>2, SubSeqProperties
  <2> HIDE DEF a
  <2> QED
    BY <1>1, <2>2, <2>3
<1>3. b \in Seq(S) /\ Len(b) = Len(s) - i
  <2>1. \A k \in (i + 1)..Len(s) : s[k] \in S
    BY <1>1
  <2>2. i + 1 \in Int /\ Len(s) \in Int /\ i \in Int
    BY <1>1
  <2>3. b \in Seq(S) /\ Len(b) = IF i + 1 <= Len(s) THEN Len(s) - (i + 1) + 1 ELSE 0
    BY <2>1, <2>2, SubSeqProperties
  <2> HIDE DEF b
  <2> QED
    BY <1>1, <2>2, <2>3
<1>4. RemoveAt(s, i) = a \o b
  BY DEF RemoveAt
<1> HIDE DEF a, b
<1>5. a \o b \in Seq(S) /\ Len(a \o b) = Len(a) + Len(b)
  BY <1>2, <1>3, ConcatProperties
<1>6. i \in Int /\ Len(s) \in Int
  BY <1>1
<1> QED
  BY <1>2, <1>3, <1>4, <1>5, <1>6

-----------------------------------------------------------------------------
LEMMA InsortedIs ==
  ASSUME NEW S, NEW s \in Seq(S), NEW e \in S, NEW before
  PROVE  Insorted(s, e, before) \in Seq(S) /\ Len(Insorted(s, e, before)) = Len(s) + 1
<1> DEFINE later == {i \in DOMAIN s : <<e, s[i]>> \in before}
<1>1. Len(s) \in Nat /\ DOMAIN s = 1..Len(s)
  BY SeqMembers
<1>2. Insorted(s, e, before) = IF later = {} THEN Append(s, e) ELSE InsertAt(s, Min(later), e)
  BY DEF Insorted
<1>3. later \subseteq 1..Len(s)
  BY <1>1
<1> HIDE DEF later
<1>4. CASE later = {}
  BY <1>2, <1>4, AppendProperties
<1>5. CASE later # {}
  <2>1. later \subseteq Int /\ 0 \in Int /\ \A x \in later : 0 <= x
    BY <1>1, <1>3
  <2>2. Min(later) \in later
    BY <1>5, <2>1, MinIs
  <2> DEFINE m == Min(later)
  <2>3. m \in 1..Len(s)
    BY <1>3, <2>2
  <2> HIDE DEF m
  <2>4. m \in 1..(Len(s) + 1)
    BY <1>1, <2>3
  <2>5. InsertAt(s, m, e) \in Seq(S) /\ Len(InsertAt(s, m, e)) = Len(s) + 1
    BY <2>4, InsertAtIs
  <2> QED
    BY <1>2, <1>5, <2>5 DEF m
<1> QED
  BY <1>4, <1>5

LEMMA SortedByIs ==
  ASSUME NEW S, NEW s \in Seq(S), NEW before
  PROVE  SortedBy(s, before) \in Seq(S) /\ Len(SortedBy(s, before)) = Len(s)
<1> DEFINE n == Len(s)
           V == Seq(S)
           step == [k \in Nat |-> [t \in V |-> IF k \in 1..n THEN Insorted(t, s[k], before) ELSE t]]
           F(f) == [k \in 0..n |-> IF k = 0 THEN <<>> ELSE Insorted(f[k - 1], s[k], before)]
<1>1. n \in Nat /\ \A i \in 1..n : s[i] \in S
  BY SeqMembers
<1>2. <<>> \in V /\ Len(<<>>) = 0
  BY EmptySeq
<1> HIDE DEF n
<1>4. \A k \in 1..n : \A t \in V : Insorted(t, s[k], before) \in V /\ Len(Insorted(t, s[k], before)) = Len(t) + 1
  BY <1>1, InsortedIs
<1> HIDE DEF V
<1>5. step \in [Nat -> [V -> V]]
  BY <1>4
<1>6. \A k \in 1..n : \A t \in V : step[k][t] = Insorted(t, s[k], before)
  BY <1>1
<1> HIDE DEF step
<1>7. PICK g : Runs(V, <<>>, step, n, g)
  BY <1>1, <1>2, <1>5, RunsExist
<1>8. g = [k \in 0..n |-> g[k]] /\ g[0] = <<>> /\ \A k \in 1..n : g[k - 1] \in V /\ g[k] = step[k][g[k - 1]]
  BY <1>1, <1>7 DEF Runs
<1>0. \A k \in 0..n : k = 0 \/ (k # 0 /\ k \in 1..n)
  BY <1>1
<1>9. \A k \in 0..n : g[k] = IF k = 0 THEN <<>> ELSE Insorted(g[k - 1], s[k], before)
  <2> TAKE k \in 0..n
  <2>1. CASE k = 0
    BY <1>8, <2>1
  <2>2. CASE k # 0 /\ k \in 1..n
    <3>1. g[k] = step[k][g[k - 1]] /\ g[k - 1] \in V
      BY <1>8, <2>2
    <3>2. step[k][g[k - 1]] = Insorted(g[k - 1], s[k], before)
      BY <1>6, <2>2, <3>1
    <3> QED
      BY <2>2, <3>1, <3>2
  <2> QED
    BY <1>0, <2>1, <2>2
<1>10. g = F(g)
  BY <1>8, <1>9, Zenon
<1> DEFINE f == CHOOSE h : h = F(h)
<1>11. f = F(f)
  BY <1>10
<1>12. SortedBy(s, before) = f[n]
  BY DEF SortedBy, n
<1> HIDE DEF f
<1>13. f[0] = <<>> /\ \A k \in 1..n : f[k] = Insorted(f[k - 1], s[k], before)
  <2>1. 0 \in 0..n /\ \A k \in 1..n : k \in 0..n /\ k # 0
    BY <1>1
  <2> QED
    BY <1>11, <2>1
<1> DEFINE P == {k \in Nat : k <= n => f[k] \in V /\ Len(f[k]) = k}
<1>14. 0 \in P
  BY <1>2, <1>13
<1>15. ASSUME NEW k \in Nat, k \in P PROVE k + 1 \in P
  <2>1. SUFFICES ASSUME k + 1 <= n PROVE f[k + 1] \in V /\ Len(f[k + 1]) = k + 1
    OBVIOUS
  <2>2. k + 1 \in 1..n /\ (k + 1) - 1 = k /\ k <= n
    BY <1>1, <2>1
  <2>3. f[k] \in V /\ Len(f[k]) = k
    BY <1>15, <2>2
  <2>4. f[k + 1] = Insorted(f[k], s[k + 1], before)
    BY <1>13, <2>2
  <2> QED
    BY <1>4, <2>2, <2>3, <2>4
<1>16. n \in P
  <2> HIDE DEF P
  <2> QED
    BY <1>1, <1>14, <1>15, NatInduction0
<1> QED
  BY <1>1, <1>12, <1>16 DEF V, n

\* A list of lists, one after the other.
LEMMA FlattenSeqIs ==
  ASSUME NEW S, NEW ss \in Seq(Seq(S))
  PROVE  /\ FlattenSeq(ss) \in Seq(S)
         /\ \A e \in Range(FlattenSeq(ss)) : \E i \in 1..Len(ss) : e \in Range(ss[i])
         /\ \A i \in 1..Len(ss) : Range(ss[i]) \subseteq Range(FlattenSeq(ss))
<1> DEFINE n == Len(ss)
           V == Seq(S)
           step == [k \in Nat |-> [t \in V |-> IF k \in 1..n THEN t \o ss[k] ELSE t]]
           F(f) == [i \in 1..n |-> IF i = 1 THEN ss[i] ELSE f[i - 1] \o ss[i]]
<1>1. n \in Nat /\ \A i \in 1..n : ss[i] \in V
  BY SeqMembers
<1>2. <<>> \in V /\ \A t \in V : <<>> \o t = t
  BY EmptySeq, ConcatEmptySeq
<1>3. \A t, u \in V : /\ t \o u \in V
                      /\ \A e \in Range(t \o u) : e \in Range(t) \/ e \in Range(u)
                      /\ Range(t) \subseteq Range(t \o u) /\ Range(u) \subseteq Range(t \o u)
  <2> TAKE t, u \in V
  <2>1. t \o u \in V /\ Len(t \o u) = Len(t) + Len(u)
        /\ \A i \in 1..(Len(t) + Len(u)) : (t \o u)[i] = IF i <= Len(t) THEN t[i] ELSE u[i - Len(t)]
    BY ConcatProperties
  <2>2. Len(t) \in Nat /\ Len(u) \in Nat /\ DOMAIN t = 1..Len(t) /\ DOMAIN u = 1..Len(u)
        /\ DOMAIN (t \o u) = 1..(Len(t) + Len(u))
    BY <2>1, SeqMembers
  <2>3. ASSUME NEW e \in Range(t \o u) PROVE e \in Range(t) \/ e \in Range(u)
    <3>1. PICK i \in 1..(Len(t) + Len(u)) : e = (t \o u)[i]
      BY <2>2 DEF Range
    <3>2. CASE i <= Len(t)
      <4>1. i \in DOMAIN t /\ e = t[i]
        BY <2>1, <2>2, <3>1, <3>2
      <4> QED
        BY <4>1 DEF Range
    <3>3. CASE ~(i <= Len(t))
      <4>1. i - Len(t) \in DOMAIN u /\ e = u[i - Len(t)]
        BY <2>1, <2>2, <3>1, <3>3
      <4> QED
        BY <4>1 DEF Range
    <3> QED
      BY <3>2, <3>3
  <2>4. ASSUME NEW e \in Range(t) PROVE e \in Range(t \o u)
    <3>1. PICK i \in 1..Len(t) : e = t[i]
      BY <2>2 DEF Range
    <3>2. i \in DOMAIN (t \o u) /\ (t \o u)[i] = e
      BY <2>1, <2>2, <3>1
    <3> QED
      BY <3>2 DEF Range
  <2>5. ASSUME NEW e \in Range(u) PROVE e \in Range(t \o u)
    <3>1. PICK i \in 1..Len(u) : e = u[i]
      BY <2>2 DEF Range
    <3>2. i + Len(t) \in 1..(Len(t) + Len(u)) /\ ~(i + Len(t) <= Len(t)) /\ (i + Len(t)) - Len(t) = i
      BY <2>2
    <3>3. i + Len(t) \in DOMAIN (t \o u) /\ (t \o u)[i + Len(t)] = e
      BY <2>1, <2>2, <3>1, <3>2
    <3> QED
      BY <3>3 DEF Range
  <2> QED
    BY <2>1, <2>3, <2>4, <2>5
<1> HIDE DEF n, V
<1>4. step \in [Nat -> [V -> V]] /\ \A k \in 1..n : \A t \in V : step[k][t] = t \o ss[k]
  BY <1>1, <1>3
<1> HIDE DEF step
<1>5. PICK g : Runs(V, <<>>, step, n, g)
  BY <1>1, <1>2, <1>4, RunsExist
<1>6. g[0] = <<>> /\ \A k \in 1..n : g[k - 1] \in V /\ g[k] = g[k - 1] \o ss[k]
  <2>1. g[0] = <<>> /\ \A k \in 1..n : g[k - 1] \in V /\ g[k] = step[k][g[k - 1]]
    BY <1>1, <1>5 DEF Runs
  <2> QED
    BY <1>4, <2>1
<1> DEFINE h == [i \in 1..n |-> g[i]]
<1>7. \A i \in 1..n : h[i] = IF i = 1 THEN ss[i] ELSE h[i - 1] \o ss[i]
  <2> TAKE i \in 1..n
  <2>1. CASE i = 1
    <3>0. 1 \in 1..n /\ 1 - 1 = 0
      BY <2>1
    <3>1. g[1] = g[0] \o ss[1]
      BY <1>6, <3>0
    <3>2. g[1] = <<>> \o ss[1]
      BY <1>6, <3>1
    <3>3. g[1] = ss[1]
      BY <1>1, <1>2, <3>0, <3>2
    <3>4. h[1] = g[1]
      BY <3>0
    <3> QED
      BY <2>1, <3>3, <3>4
  <2>2. CASE i # 1
    <3>1. i - 1 \in 1..n
      BY <1>1, <2>2
    <3> QED
      BY <1>6, <2>2, <3>1
  <2> QED
    BY <2>1, <2>2
<1>8. h = [i \in 1..n |-> h[i]]
  OBVIOUS
<1> HIDE DEF h
<1>9. h = F(h)
  BY <1>7, <1>8, Zenon
<1> DEFINE f == CHOOSE x : x = F(x)
<1>10. f = F(f)
  BY <1>9
<1>11. FlattenSeq(ss) = IF n = 0 THEN ss ELSE f[n]
  BY DEF FlattenSeq, n
<1> HIDE DEF f
<1>12. \A i \in 1..n : f[i] = IF i = 1 THEN ss[i] ELSE f[i - 1] \o ss[i]
  BY <1>10
<1> DEFINE Good(t, k) == /\ t \in V
                         /\ \A e \in Range(t) : \E i \in 1..k : e \in Range(ss[i])
                         /\ \A i \in 1..k : Range(ss[i]) \subseteq Range(t)
           P == {k \in Nat : k + 1 <= n => Good(f[k + 1], k + 1)}
<1>13. 0 \in P
  <2>1. SUFFICES ASSUME 0 + 1 <= n PROVE Good(f[0 + 1], 0 + 1)
    OBVIOUS
  <2>2. 1 \in 1..n /\ 0 + 1 = 1 /\ \A i \in 1..1 : i = 1
    BY <1>1, <2>1
  <2>3. f[1] = ss[1]
    BY <1>12, <2>2
  <2> QED
    BY <1>1, <2>2, <2>3
<1>14. ASSUME NEW k \in Nat, k \in P PROVE k + 1 \in P
  <2>1. SUFFICES ASSUME (k + 1) + 1 <= n PROVE Good(f[(k + 1) + 1], (k + 1) + 1)
    OBVIOUS
  <2> DEFINE j == k + 1
  <2>2. j \in 1..n /\ j + 1 \in 1..n /\ (j + 1) - 1 = j /\ j + 1 # 1 /\ k + 1 <= n
        /\ (\A i \in 1..(j + 1) : i \in 1..j \/ i = j + 1) /\ (\A i \in 1..j : i \in 1..(j + 1)) /\ j + 1 \in 1..(j + 1)
    BY <1>1, <2>1
  <2>3. Good(f[j], j)
    BY <1>14, <2>2
  <2> HIDE DEF j
  <2>4. f[j + 1] = f[j] \o ss[j + 1]
    BY <1>12, <2>2
  <2>5. f[j] \in V /\ ss[j + 1] \in V
    BY <1>1, <2>2, <2>3
  <2>6. \A e \in Range(f[j + 1]) : \E i \in 1..(j + 1) : e \in Range(ss[i])
    BY <1>3, <2>2, <2>3, <2>4, <2>5
  <2>7. \A i \in 1..(j + 1) : Range(ss[i]) \subseteq Range(f[j + 1])
    BY <1>3, <2>2, <2>3, <2>4, <2>5
  <2>8. f[j + 1] \in V
    BY <1>3, <2>4, <2>5
  <2>9. Good(f[j + 1], j + 1)
    BY <2>6, <2>7, <2>8
  <2> QED
    BY <2>9 DEF j
<1>15. CASE n = 0
  <2>1. FlattenSeq(ss) = ss /\ ss = <<>>
    BY <1>11, <1>15, EmptySeq DEF n
  <2>2. Range(<<>>) = {} /\ 1..0 = {}
    BY DEF Range
  <2> QED
    BY <1>2, <1>15, <2>1, <2>2 DEF n, V
<1>16. CASE n # 0
  <2>1. n - 1 \in Nat /\ (n - 1) + 1 = n /\ n <= n
    BY <1>1, <1>16
  <2>2. n - 1 \in P
    <3> HIDE DEF P
    <3> QED
      BY <2>1, <1>13, <1>14, NatInduction0
  <2>3. Good(f[n], n)
    BY <2>1, <2>2
  <2> QED
    BY <1>11, <1>16, <2>3 DEF n, V
<1> QED
  BY <1>15, <1>16

\* A list taken through a function, member by member.
LEMMA ThroughIs ==
  ASSUME NEW S, NEW T, NEW kids \in Seq(S), NEW new, \A m \in Range(kids) : new[m] \in T
  PROVE  /\ Through(new, kids) \in Seq(T) /\ Len(Through(new, kids)) = Len(kids)
         /\ DOMAIN Through(new, kids) = DOMAIN kids
         /\ \A i \in DOMAIN kids : Through(new, kids)[i] = new[kids[i]]
<1> DEFINE n == Len(kids)
           f == [i \in DOMAIN kids |-> new[kids[i]]]
<1>1. n \in Nat /\ DOMAIN kids = 1..n /\ \A i \in 1..n : kids[i] \in Range(kids)
  BY SeqMembers
<1>2. f = [i \in 1..n |-> f[i]] /\ \A i \in 1..n : f[i] \in T /\ f[i] = new[kids[i]]
  BY <1>1
<1>3. Through(new, kids) = <<>> \o f
  BY DEF Through
<1> HIDE DEF f, n
<1>4. f \in Seq(T) /\ Len(f) = n
  BY <1>1, <1>2, SeqIs
<1>5. Through(new, kids) = f
  BY <1>3, <1>4, ConcatEmptySeq
<1>6. DOMAIN f = 1..n
  BY <1>4, SeqMembers
<1> QED
  BY <1>1, <1>2, <1>4, <1>5, <1>6 DEF n

LEMMA ThroughValues ==
  ASSUME NEW S, NEW kids \in Seq(S), NEW new
  PROVE  /\ DOMAIN Through(new, kids) = DOMAIN kids /\ Len(Through(new, kids)) = Len(kids)
         /\ \A i \in DOMAIN kids : Through(new, kids)[i] = new[kids[i]]
<1> DEFINE T == {new[m] : m \in Range(kids)}
<1>1. \A m \in Range(kids) : new[m] \in T
  OBVIOUS
<1> HIDE DEF T
<1>2. /\ Through(new, kids) \in Seq(T) /\ Len(Through(new, kids)) = Len(kids)
      /\ DOMAIN Through(new, kids) = DOMAIN kids
      /\ \A i \in DOMAIN kids : Through(new, kids)[i] = new[kids[i]]
  BY <1>1, ThroughIs
<1> QED
  BY <1>2

-----------------------------------------------------------------------------
(* Nodes, and trees rebuilt from the bottom up.                            *)

GridsFor(n) == (IF IsGroup(n) THEN GroupGrids ELSE TileGrids) \union {NoGrid}

\* What a node has, by its kind.
LEMMA NodeIs ==
  ASSUME NEW n \in AnyTree
  PROVE  /\ IsGroup(n) => n \in GroupNodes(AnyTree) /\ n.kids \in Seq(AnyTree) /\ Kids(n) = Range(n.kids)
         /\ ~IsGroup(n) => n \in TileNodes /\ Kids(n) = {}
         /\ n.id \in Ids /\ n.grid \in GridsFor(n) /\ Kids(n) \subseteq AnyTree
<1>1. CASE n \in TileNodes
  <2>1. ~IsGroup(n) /\ Kids(n) = {}
    BY <1>1, KidsOf
  <2>2. n.id \in Ids /\ n.grid \in TileGrids \union {NoGrid}
    BY <1>1 DEF TileNodes
  <2> QED
    BY <1>1, <2>1, <2>2 DEF GridsFor
<1>2. CASE n \in GroupNodes(AnyTree)
  <2>1. IsGroup(n) /\ Kids(n) = Range(n.kids) /\ Kids(n) \subseteq AnyTree
    BY <1>2, KidsOf
  <2>2. n.id \in Ids /\ n.grid \in GroupGrids \union {NoGrid} /\ n.kids \in Seq(AnyTree)
    BY <1>2 DEF GroupNodes
  <2> QED
    BY <1>2, <2>1, <2>2 DEF GridsFor
<1> QED
  BY <1>1, <1>2, TreeIs

\* A group with other children, and a node with another grid, are nodes.
LEMMA WithKids ==
  ASSUME NEW n \in AnyTree, IsGroup(n), NEW kids \in Seq(AnyTree)
  PROVE  /\ [n EXCEPT !.kids = kids] \in AnyTree /\ IsGroup([n EXCEPT !.kids = kids])
         /\ [n EXCEPT !.kids = kids].id = n.id /\ [n EXCEPT !.kids = kids].kids = kids
<1>1. n \in GroupNodes(AnyTree)
  BY NodeIs
<1>2. [n EXCEPT !.kids = kids] \in GroupNodes(AnyTree)
  BY <1>1 DEF GroupNodes
<1>3. [n EXCEPT !.kids = kids].id = n.id /\ [n EXCEPT !.kids = kids].kids = kids
  BY <1>1 DEF GroupNodes
<1> QED
  BY <1>2, <1>3, TreeIs, KidsOf

LEMMA WithGrid ==
  ASSUME NEW n \in AnyTree, NEW g \in GridsFor(n)
  PROVE  /\ [n EXCEPT !.grid = g] \in AnyTree /\ (IsGroup([n EXCEPT !.grid = g]) <=> IsGroup(n))
         /\ [n EXCEPT !.grid = g].id = n.id /\ [n EXCEPT !.grid = g].grid = g
<1>1. CASE ~IsGroup(n)
  <2>1. n \in TileNodes /\ g \in TileGrids \union {NoGrid}
    BY <1>1, NodeIs DEF GridsFor
  <2>2. [n EXCEPT !.grid = g] \in TileNodes
    BY <2>1 DEF TileNodes
  <2>3. [n EXCEPT !.grid = g].id = n.id /\ [n EXCEPT !.grid = g].grid = g
    BY <2>1 DEF TileNodes
  <2> QED
    BY <1>1, <2>2, <2>3, TreeIs, KidsOf
<1>2. CASE IsGroup(n)
  <2>1. n \in GroupNodes(AnyTree) /\ g \in GroupGrids \union {NoGrid}
    BY <1>2, NodeIs DEF GridsFor
  <2>2. [n EXCEPT !.grid = g] \in GroupNodes(AnyTree)
    BY <2>1 DEF GroupNodes
  <2>3. [n EXCEPT !.grid = g].id = n.id /\ [n EXCEPT !.grid = g].grid = g
    BY <2>1 DEF GroupNodes
  <2> QED
    BY <1>2, <2>2, <2>3, TreeIs, KidsOf
<1> QED
  BY <1>1, <1>2

-----------------------------------------------------------------------------
(* A tree computed from the bottom up: sel picks the children that are      *)
(* rebuilt, after says what becomes of a node given what became of them.   *)

Rebuilds(f, S, V, sel, after) ==
  /\ f = [n \in S |-> f[n]]
  /\ \A n \in S : Through(f, sel[n]) \in Seq(V) => f[n] = after[n][Through(f, sel[n])]

Selects(S, sel) == \A n \in S : sel[n] \in Seq(AnyTree) /\ Range(sel[n]) \subseteq Kids(n)

IsRebuilt(f, S, V, sel, after) ==
  \A n \in S : f[n] \in V /\ Through(f, sel[n]) \in Seq(V) /\ f[n] = after[n][Through(f, sel[n])]

\* A tree rebuilt from the bottom up has the values it is built of,
LEMMA RebuildTyped ==
  ASSUME NEW S, S \subseteq AnyTree, Closed(S), NEW V, NEW sel, Selects(S, sel),
         NEW after \in [S -> [Seq(V) -> V]], NEW f, Rebuilds(f, S, V, sel, after)
  PROVE  IsRebuilt(f, S, V, sel, after)
<1> DEFINE P == {n \in S : f[n] \in V}
<1>1. ASSUME NEW n \in S, \A m \in Kids(n) : f[m] \in V
      PROVE  /\ f[n] \in V /\ Through(f, sel[n]) \in Seq(V)
             /\ f[n] = after[n][Through(f, sel[n])]
  <2>1. sel[n] \in Seq(AnyTree) /\ \A m \in Range(sel[n]) : f[m] \in V
    BY <1>1 DEF Selects
  <2>2. Through(f, sel[n]) \in Seq(V)
    BY <2>1, ThroughIs
  <2> QED
    BY <2>2 DEF Rebuilds
<1>2. \A n \in S : Kids(n) \subseteq P => n \in P
  BY <1>1
<1>3. S \subseteq P
  <2> HIDE DEF P
  <2> QED
    BY <1>2, TreeInduction
<1>4. \A n \in S : \A m \in Kids(n) : f[m] \in V
  BY <1>3 DEF Closed
<1> QED
  BY <1>1, <1>4 DEF IsRebuilt

\* and there is one: the equations of a walk over the layout define a function.
LEMMA RebuildExists ==
  ASSUME NEW items \in Seq(AnyTree), NEW S, S = Below(items), NEW V, NEW sel, Selects(S, sel),
         NEW after \in [S -> [Seq(V) -> V]]
  PROVE  \E f \in [S -> V] : Rebuilds(f, S, V, sel, after)
<1>1. PICK D \in Nat : S \subseteq Trees[D]
  BY BelowIs
<1>2. Closed(S)
  BY BelowIs
<1>3. CASE S = {}
  <2> DEFINE f == [n \in S |-> CHOOSE v : v \in V]
  <2>1. f \in [S -> V] /\ Rebuilds(f, S, V, sel, after)
    BY <1>3 DEF Rebuilds
  <2> QED
    BY <2>1
<1>4. CASE S # {}
  <2>1. PICK m \in S : TRUE
    BY <1>4
  <2>2. after[m][<<>>] \in V
    <3>1. <<>> \in Seq(V) /\ after[m] \in [Seq(V) -> V]
      BY <2>1, EmptySeq
    <3> QED
      BY <3>1
  <2> DEFINE W == [S -> V]
             G == [n \in S |-> [h \in W |-> after[n][Through(h, sel[n])]]]
  <2>3. \A n \in S : \A h \in W :
            /\ Through(h, sel[n]) \in Seq(V) /\ DOMAIN Through(h, sel[n]) = DOMAIN sel[n]
            /\ Len(Through(h, sel[n])) = Len(sel[n])
            /\ \A i \in DOMAIN sel[n] : Through(h, sel[n])[i] = h[sel[n][i]]
    <3> TAKE n \in S
    <3> TAKE h \in W
    <3>1. sel[n] \in Seq(AnyTree) /\ \A k \in Range(sel[n]) : h[k] \in V
      BY <1>2 DEF Selects, Closed
    <3> DEFINE kids == sel[n]
    <3> HIDE DEF kids, W
    <3>2. kids \in Seq(AnyTree) /\ \A k \in Range(kids) : h[k] \in V
      BY <3>1 DEF kids
    <3>3. /\ Through(h, kids) \in Seq(V) /\ DOMAIN Through(h, kids) = DOMAIN kids
          /\ Len(Through(h, kids)) = Len(kids)
          /\ \A i \in DOMAIN kids : Through(h, kids)[i] = h[kids[i]]
      BY <3>2, ThroughIs
    <3> QED
      BY <3>3 DEF kids
  <2>4. G \in [S -> [W -> V]]
    BY <2>3
  <2>5. \A n \in S : \A h \in W : G[n][h] = after[n][Through(h, sel[n])]
    OBVIOUS
  <2> HIDE DEF G
  <2>6. Local(S, V, G)
    <3>1. SUFFICES ASSUME NEW n \in S, NEW h \in W, NEW k \in W, \A c \in Kids(n) : h[c] = k[c]
                   PROVE  G[n][h] = G[n][k]
      BY DEF Local
    <3> DEFINE s == Through(h, sel[n])
               t == Through(k, sel[n])
    <3>2. s \in Seq(V) /\ t \in Seq(V) /\ Len(s) = Len(t) /\ DOMAIN s = DOMAIN sel[n]
          /\ \A i \in DOMAIN sel[n] : s[i] = h[sel[n][i]] /\ t[i] = k[sel[n][i]]
      BY <2>3
    <3>3. \A i \in DOMAIN sel[n] : sel[n][i] \in Kids(n)
      BY SeqMembers DEF Selects
    <3>4. DOMAIN s = 1..Len(s) /\ \A i \in 1..Len(s) : s[i] = t[i]
      <4> HIDE DEF s, t
      <4>1. DOMAIN s = 1..Len(s)
        BY <3>2, SeqMembers
      <4> QED
        BY <3>1, <3>2, <3>3, <4>1
    <3>5. s = t
      <4> HIDE DEF s, t
      <4> QED
        BY <3>2, <3>4, SeqEqual
    <3> QED
      BY <2>5, <3>5
  <2>7. PICK f \in [S -> V] : Fixed(f, S, G)
    <3> HIDE DEF W
    <3>1. G \in [S -> [[S -> V] -> V]]
      BY <2>4 DEF W
    <3> QED
      BY <1>1, <1>2, <2>2, <2>6, <3>1, TreeRecursion
  <2>8. \A n \in S : f[n] = after[n][Through(f, sel[n])]
    BY <2>5, <2>7 DEF Fixed
  <2>9. f = [n \in S |-> f[n]]
    OBVIOUS
  <2>10. Rebuilds(f, S, V, sel, after)
    BY <2>8, <2>9 DEF Rebuilds
  <2> QED
    BY <2>10
<1> QED
  BY <1>3, <1>4

-----------------------------------------------------------------------------
(* The operations on the tree.                                             *)

\* What is kept of a node's children: all of them, for the functions that keep the lists.
Every(S) == [n \in S |-> IF IsGroup(n) THEN n.kids ELSE <<>>]

\* All the children of a group are among its children.
LEMMA EverySelects ==
  ASSUME NEW S, S \subseteq AnyTree
  PROVE  Selects(S, Every(S)) /\ \A n \in S : IsGroup(n) => Every(S)[n] = n.kids
<1>1. ASSUME NEW n \in S PROVE Every(S)[n] \in Seq(AnyTree) /\ Range(Every(S)[n]) \subseteq Kids(n)
  <2>1. CASE IsGroup(n)
    BY <2>1, NodeIs DEF Every
  <2>2. CASE ~IsGroup(n)
    <3>1. Every(S)[n] = <<>>
      BY <2>2 DEF Every
    <3>2. Range(<<>>) = {}
      BY DEF Range
    <3> QED
      BY <3>1, <3>2, EmptySeq
  <2> QED
    BY <2>1, <2>2
<1> QED
  BY <1>1 DEF Selects, Every

\* Every tree operation makes a layout of a layout: replacing a group,
LEMMA ReplaceGroupTyped ==
  ASSUME NEW items \in Seq(AnyTree), NEW gid, NEW next \in AnyTree
  PROVE  ReplaceGroup(items, gid, next) \in Seq(AnyTree)
<1> DEFINE S == Below(items)
           F(f) == [n \in S |-> CASE ~IsGroup(n) -> n
                                  [] IsGroup(n) /\ n.id = gid -> next
                                  [] OTHER -> [n EXCEPT !.kids = Through(f, @)]]
           after == [n \in S |-> [v \in Seq(AnyTree) |->
                        CASE ~IsGroup(n) -> n
                          [] IsGroup(n) /\ n.id = gid -> next
                          [] OTHER -> [n EXCEPT !.kids = v]]]
           sel == Every(S)
           f == CHOOSE g : g = F(g)
<1>1. S \subseteq AnyTree /\ Closed(S) /\ Range(items) \subseteq S
  BY BelowIs
<1>2. Selects(S, sel) /\ \A n \in S : IsGroup(n) => sel[n] = n.kids
  BY <1>1, EverySelects
<1>3. after \in [S -> [Seq(AnyTree) -> AnyTree]]
  BY <1>1, WithKids
<1>4. \A g : \A n \in S : Through(g, sel[n]) \in Seq(AnyTree) => F(g)[n] = after[n][Through(g, sel[n])]
  BY <1>2
<1>5. ReplaceGroup(items, gid, next) = Through(f, items)
  BY DEF ReplaceGroup
<1>6. \A g : F(g) = [n \in S |-> F(g)[n]]
  OBVIOUS
<1> HIDE DEF after, sel, F, S
<1>7. PICK g \in [S -> AnyTree] : Rebuilds(g, S, AnyTree, sel, after)
  BY <1>2, <1>3, RebuildExists DEF S
<1>8. \A n \in S : g[n] = F(g)[n]
  <2>1. IsRebuilt(g, S, AnyTree, sel, after)
    BY <1>1, <1>2, <1>3, <1>7, RebuildTyped
  <2> QED
    BY <1>4, <2>1 DEF IsRebuilt
<1>9. g = F(g)
  BY <1>6, <1>7, <1>8
<1>10. f = F(f)
  BY <1>9
<1> HIDE DEF f
<1>11. Rebuilds(f, S, AnyTree, sel, after)
  BY <1>4, <1>6, <1>10 DEF Rebuilds
<1>12. IsRebuilt(f, S, AnyTree, sel, after)
  BY <1>1, <1>2, <1>3, <1>11, RebuildTyped
<1> QED
  BY <1>1, <1>5, <1>12, ThroughIs DEF IsRebuilt

\* Only groups have children to choose from.
LEMMA SomeSelect ==
  ASSUME NEW S, S \subseteq AnyTree, NEW sel,
         \A n \in S : IF IsGroup(n) THEN sel[n] \in Seq(AnyTree) /\ Range(sel[n]) \subseteq Range(n.kids)
                      ELSE sel[n] = <<>>
  PROVE  Selects(S, sel)
<1>1. ASSUME NEW n \in S PROVE sel[n] \in Seq(AnyTree) /\ Range(sel[n]) \subseteq Kids(n)
  <2>1. CASE IsGroup(n)
    BY <2>1, NodeIs
  <2>2. CASE ~IsGroup(n)
    <3>1. Range(<<>>) = {} /\ sel[n] = <<>>
      BY <2>2 DEF Range
    <3> QED
      BY <3>1, EmptySeq
  <2> QED
    BY <2>1, <2>2
<1> QED
  BY <1>1 DEF Selects

\* The lists the tree operations keep are parts of the lists they are given.
LEMMA SubListIs ==
  ASSUME NEW S, NEW s \in Seq(S)
  PROVE  /\ \A keep : Picked(s, keep) \in Seq(S) /\ Range(Picked(s, keep)) \subseteq Range(s)
         /\ DedupeById(s) \in Seq(S) /\ Range(DedupeById(s)) \subseteq Range(s)
         /\ TilesOf(s) \in Seq(S) /\ Range(TilesOf(s)) \subseteq Range(s)
         /\ GroupsOf(s) \in Seq(S) /\ Range(GroupsOf(s)) \subseteq Range(s)
         /\ \A id : /\ WithoutId(s, id) \in Seq(S) /\ Range(WithoutId(s, id)) \subseteq Range(s)
                    /\ WithoutGroup(s, id) \in Seq(S) /\ Range(WithoutGroup(s, id)) \subseteq Range(s)
                    /\ WithoutTile(s, id) \in Seq(S) /\ Range(WithoutTile(s, id)) \subseteq Range(s)
<1>1. \A keep : Picked(s, keep) \in Seq(S) /\ Range(Picked(s, keep)) \subseteq Range(s)
  <2> TAKE keep
  <2>1. s \in Seq(S) /\ s \in Seq(Range(s))
    BY SeqMembers
  <2>2. Picked(s, keep) \in Seq(S) /\ Picked(s, keep) \in Seq(Range(s))
    BY <2>1, PickedIs
  <2> QED
    BY <2>2, SeqMembers
<1> QED
  BY <1>1 DEF DedupeById, TilesOf, GroupsOf, WithoutId, WithoutGroup, WithoutTile

\* The tiles of a list, and its groups.
LEMMA KindsOf ==
  ASSUME NEW s \in Seq(AnyTree)
  PROVE  /\ TilesOf(s) \in Seq(TileNodes)
         /\ GroupsOf(s) \in Seq(GroupNodes(AnyTree))
         /\ \A i \in 1..Len(s) : /\ IsGroup(s[i]) => s[i] \in Range(GroupsOf(s))
                                 /\ ~IsGroup(s[i]) => s[i] \in Range(TilesOf(s))
<1> DEFINE n == Len(s)
<1>1. n \in Nat /\ DOMAIN s = 1..n /\ \A i \in 1..n : s[i] \in AnyTree
  BY SeqMembers
<1> HIDE DEF n
<1> DEFINE tiles == {i \in 1..n : ~IsGroup(s[i])}
           groups == {i \in 1..n : IsGroup(s[i])}
<1>2. TilesOf(s) = Picked(s, tiles) /\ GroupsOf(s) = Picked(s, groups)
  BY <1>1 DEF TilesOf, GroupsOf
<1>3. TilesOf(s) \in Seq(AnyTree) /\ GroupsOf(s) \in Seq(AnyTree)
  BY SubListIs
<1>4. \A e \in Range(TilesOf(s)) : e \in TileNodes
  <2>1. \A e \in Range(Picked(s, tiles)) : \E i \in 1..Len(s) : i \in tiles /\ e = s[i]
    BY PickedIs
  <2> QED
    BY <1>1, <1>2, <2>1, NodeIs
<1>5. \A e \in Range(GroupsOf(s)) : e \in GroupNodes(AnyTree)
  <2>1. \A e \in Range(Picked(s, groups)) : \E i \in 1..Len(s) : i \in groups /\ e = s[i]
    BY PickedIs
  <2> QED
    BY <1>1, <1>2, <2>1, NodeIs
<1>6. TilesOf(s) \in Seq(Range(TilesOf(s))) /\ GroupsOf(s) \in Seq(Range(GroupsOf(s)))
  BY <1>3, SeqMembers
<1>7. TilesOf(s) \in Seq(TileNodes)
  BY <1>4, <1>6, SeqMonotonic
<1>8. GroupsOf(s) \in Seq(GroupNodes(AnyTree))
  BY <1>5, <1>6, SeqMonotonic
<1>9. \A i \in 1..Len(s) : i \in tiles => s[i] \in Range(Picked(s, tiles))
  BY PickedIs
<1>10. \A i \in 1..Len(s) : i \in groups => s[i] \in Range(Picked(s, groups))
  BY PickedIs
<1> QED
  BY <1>1, <1>2, <1>7, <1>8, <1>9, <1>10 DEF n

\* dropping doubles,
LEMMA DedupedKidsTyped ==
  ASSUME NEW items \in Seq(AnyTree)
  PROVE  DedupedKids(items) \in Seq(AnyTree)
<1> DEFINE S == Below(items)
           F(f) == [n \in S |-> IF IsGroup(n) THEN [n EXCEPT !.kids = Through(f, DedupeById(@))] ELSE n]
           after == [n \in S |-> [v \in Seq(AnyTree) |-> IF IsGroup(n) THEN [n EXCEPT !.kids = v] ELSE n]]
           sel == [n \in S |-> IF IsGroup(n) THEN DedupeById(n.kids) ELSE <<>>]
           f == CHOOSE g : g = F(g)
<1>1. S \subseteq AnyTree /\ Closed(S) /\ Range(items) \subseteq S
  BY BelowIs
<1>2. Selects(S, sel) /\ \A n \in S : IsGroup(n) => sel[n] = DedupeById(n.kids)
  <2>1. \A n \in S : IsGroup(n) => DedupeById(n.kids) \in Seq(AnyTree) /\ Range(DedupeById(n.kids)) \subseteq Range(n.kids)
    BY <1>1, NodeIs, SubListIs
  <2> QED
    BY <1>1, <2>1, SomeSelect
<1>2b. DedupeById(items) \in Seq(AnyTree) /\ Range(DedupeById(items)) \subseteq S
  BY <1>1, SubListIs
<1>3. after \in [S -> [Seq(AnyTree) -> AnyTree]]
  BY <1>1, WithKids
<1>4. \A g : \A n \in S : Through(g, sel[n]) \in Seq(AnyTree) => F(g)[n] = after[n][Through(g, sel[n])]
  BY <1>2
<1>5. DedupedKids(items) = Through(f, DedupeById(items))
  BY DEF DedupedKids
<1>6. \A g : F(g) = [n \in S |-> F(g)[n]]
  OBVIOUS
<1> HIDE DEF after, sel, F, S
<1>7. PICK g \in [S -> AnyTree] : Rebuilds(g, S, AnyTree, sel, after)
  BY <1>2, <1>3, RebuildExists DEF S
<1>8. \A n \in S : g[n] = F(g)[n]
  <2>1. IsRebuilt(g, S, AnyTree, sel, after)
    BY <1>1, <1>2, <1>3, <1>7, RebuildTyped
  <2> QED
    BY <1>4, <2>1 DEF IsRebuilt
<1>9. g = F(g)
  BY <1>6, <1>7, <1>8
<1>10. f = F(f)
  BY <1>9
<1> HIDE DEF f
<1>11. Rebuilds(f, S, AnyTree, sel, after)
  BY <1>4, <1>6, <1>10 DEF Rebuilds
<1>12. IsRebuilt(f, S, AnyTree, sel, after)
  BY <1>1, <1>2, <1>3, <1>11, RebuildTyped
<1> QED
  BY <1>1, <1>2b, <1>5, <1>12, ThroughIs DEF IsRebuilt

\* replacing a tile,
LEMMA ReplaceTileTyped ==
  ASSUME NEW items \in Seq(AnyTree), NEW tid, NEW next \in AnyTree
  PROVE  ReplaceTile(items, tid, next) \in Seq(AnyTree)
<1> DEFINE S == Below(items)
           F(f) == [n \in S |-> CASE IsGroup(n) -> [n EXCEPT !.kids = Through(f, @)]
                                  [] ~IsGroup(n) /\ n.id = tid -> next
                                  [] OTHER -> n]
           after == [n \in S |-> [v \in Seq(AnyTree) |-> 
                        CASE IsGroup(n) -> [n EXCEPT !.kids = v]
                          [] ~IsGroup(n) /\ n.id = tid -> next
                          [] OTHER -> n]]
           sel == Every(S)
           f == CHOOSE g : g = F(g)
<1>1. S \subseteq AnyTree /\ Closed(S) /\ Range(items) \subseteq S
  BY BelowIs
<1>2. Selects(S, sel) /\ \A n \in S : IsGroup(n) => sel[n] = n.kids
  BY <1>1, EverySelects
<1>2b. items \in Seq(AnyTree) /\ Range(items) \subseteq S
  BY <1>1, SeqMembers
<1>3. after \in [S -> [Seq(AnyTree) -> AnyTree]]
  BY <1>1, WithKids
<1>4. \A g : \A n \in S : Through(g, sel[n]) \in Seq(AnyTree) => F(g)[n] = after[n][Through(g, sel[n])]
  BY <1>2
<1>5. ReplaceTile(items, tid, next) = Through(f, items)
  BY DEF ReplaceTile
<1>6. \A g : F(g) = [n \in S |-> F(g)[n]]
  OBVIOUS
<1> HIDE DEF after, sel, F, S
<1>7. PICK g \in [S -> AnyTree] : Rebuilds(g, S, AnyTree, sel, after)
  BY <1>2, <1>3, RebuildExists DEF S
<1>8. \A n \in S : g[n] = F(g)[n]
  <2>1. IsRebuilt(g, S, AnyTree, sel, after)
    BY <1>1, <1>2, <1>3, <1>7, RebuildTyped
  <2> QED
    BY <1>4, <2>1 DEF IsRebuilt
<1>9. g = F(g)
  BY <1>6, <1>7, <1>8
<1>10. f = F(f)
  BY <1>9
<1> HIDE DEF f
<1>11. Rebuilds(f, S, AnyTree, sel, after)
  BY <1>4, <1>6, <1>10 DEF Rebuilds
<1>12. IsRebuilt(f, S, AnyTree, sel, after)
  BY <1>1, <1>2, <1>3, <1>11, RebuildTyped
<1> QED
  BY <1>1, <1>2b, <1>5, <1>12, ThroughIs DEF IsRebuilt

\* removing a group
LEMMA RemoveGroupTyped ==
  ASSUME NEW items \in Seq(AnyTree), NEW gid
  PROVE  RemoveGroup(items, gid) \in Seq(AnyTree)
<1> DEFINE S == Below(items)
           F(f) == [n \in S |-> IF IsGroup(n) THEN [n EXCEPT !.kids = Through(f, WithoutGroup(@, gid))] ELSE n]
           after == [n \in S |-> [v \in Seq(AnyTree) |-> IF IsGroup(n) THEN [n EXCEPT !.kids = v] ELSE n]]
           sel == [n \in S |-> IF IsGroup(n) THEN WithoutGroup(n.kids, gid) ELSE <<>>]
           f == CHOOSE g : g = F(g)
<1>1. S \subseteq AnyTree /\ Closed(S) /\ Range(items) \subseteq S
  BY BelowIs
<1>2. Selects(S, sel) /\ \A n \in S : IsGroup(n) => sel[n] = WithoutGroup(n.kids, gid)
  <2>1. \A n \in S : IsGroup(n) => WithoutGroup(n.kids, gid) \in Seq(AnyTree) /\ Range(WithoutGroup(n.kids, gid)) \subseteq Range(n.kids)
    BY <1>1, NodeIs, SubListIs
  <2> QED
    BY <1>1, <2>1, SomeSelect
<1>2b. WithoutGroup(items, gid) \in Seq(AnyTree) /\ Range(WithoutGroup(items, gid)) \subseteq S
  BY <1>1, SubListIs
<1>3. after \in [S -> [Seq(AnyTree) -> AnyTree]]
  BY <1>1, WithKids
<1>4. \A g : \A n \in S : Through(g, sel[n]) \in Seq(AnyTree) => F(g)[n] = after[n][Through(g, sel[n])]
  BY <1>2
<1>5. RemoveGroup(items, gid) = Through(f, WithoutGroup(items, gid))
  BY DEF RemoveGroup
<1>6. \A g : F(g) = [n \in S |-> F(g)[n]]
  OBVIOUS
<1> HIDE DEF after, sel, F, S
<1>7. PICK g \in [S -> AnyTree] : Rebuilds(g, S, AnyTree, sel, after)
  BY <1>2, <1>3, RebuildExists DEF S
<1>8. \A n \in S : g[n] = F(g)[n]
  <2>1. IsRebuilt(g, S, AnyTree, sel, after)
    BY <1>1, <1>2, <1>3, <1>7, RebuildTyped
  <2> QED
    BY <1>4, <2>1 DEF IsRebuilt
<1>9. g = F(g)
  BY <1>6, <1>7, <1>8
<1>10. f = F(f)
  BY <1>9
<1> HIDE DEF f
<1>11. Rebuilds(f, S, AnyTree, sel, after)
  BY <1>4, <1>6, <1>10 DEF Rebuilds
<1>12. IsRebuilt(f, S, AnyTree, sel, after)
  BY <1>1, <1>2, <1>3, <1>11, RebuildTyped
<1> QED
  BY <1>1, <1>2b, <1>5, <1>12, ThroughIs DEF IsRebuilt

\* or a tile,
LEMMA RemoveTileTyped ==
  ASSUME NEW items \in Seq(AnyTree), NEW tid
  PROVE  RemoveTile(items, tid) \in Seq(AnyTree)
<1> DEFINE S == Below(items)
           F(f) == [n \in S |-> IF IsGroup(n) THEN [n EXCEPT !.kids = Through(f, WithoutTile(@, tid))] ELSE n]
           after == [n \in S |-> [v \in Seq(AnyTree) |-> IF IsGroup(n) THEN [n EXCEPT !.kids = v] ELSE n]]
           sel == [n \in S |-> IF IsGroup(n) THEN WithoutTile(n.kids, tid) ELSE <<>>]
           f == CHOOSE g : g = F(g)
<1>1. S \subseteq AnyTree /\ Closed(S) /\ Range(items) \subseteq S
  BY BelowIs
<1>2. Selects(S, sel) /\ \A n \in S : IsGroup(n) => sel[n] = WithoutTile(n.kids, tid)
  <2>1. \A n \in S : IsGroup(n) => WithoutTile(n.kids, tid) \in Seq(AnyTree) /\ Range(WithoutTile(n.kids, tid)) \subseteq Range(n.kids)
    BY <1>1, NodeIs, SubListIs
  <2> QED
    BY <1>1, <2>1, SomeSelect
<1>2b. WithoutTile(items, tid) \in Seq(AnyTree) /\ Range(WithoutTile(items, tid)) \subseteq S
  BY <1>1, SubListIs
<1>3. after \in [S -> [Seq(AnyTree) -> AnyTree]]
  BY <1>1, WithKids
<1>4. \A g : \A n \in S : Through(g, sel[n]) \in Seq(AnyTree) => F(g)[n] = after[n][Through(g, sel[n])]
  BY <1>2
<1>5. RemoveTile(items, tid) = Through(f, WithoutTile(items, tid))
  BY DEF RemoveTile
<1>6. \A g : F(g) = [n \in S |-> F(g)[n]]
  OBVIOUS
<1> HIDE DEF after, sel, F, S
<1>7. PICK g \in [S -> AnyTree] : Rebuilds(g, S, AnyTree, sel, after)
  BY <1>2, <1>3, RebuildExists DEF S
<1>8. \A n \in S : g[n] = F(g)[n]
  <2>1. IsRebuilt(g, S, AnyTree, sel, after)
    BY <1>1, <1>2, <1>3, <1>7, RebuildTyped
  <2> QED
    BY <1>4, <2>1 DEF IsRebuilt
<1>9. g = F(g)
  BY <1>6, <1>7, <1>8
<1>10. f = F(f)
  BY <1>9
<1> HIDE DEF f
<1>11. Rebuilds(f, S, AnyTree, sel, after)
  BY <1>4, <1>6, <1>10 DEF Rebuilds
<1>12. IsRebuilt(f, S, AnyTree, sel, after)
  BY <1>1, <1>2, <1>3, <1>11, RebuildTyped
<1> QED
  BY <1>1, <1>2b, <1>5, <1>12, ThroughIs DEF IsRebuilt

\* and appending to a group.
LEMMA AppendToGroupTyped ==
  ASSUME NEW items \in Seq(AnyTree), NEW gid, NEW node \in AnyTree
  PROVE  AppendToGroup(items, gid, node) \in Seq(AnyTree)
<1> DEFINE S == Below(items)
           F(f) == [n \in S |-> CASE ~IsGroup(n) -> n
                                  [] IsGroup(n) /\ n.id = gid -> [n EXCEPT !.kids = Append(@, node)]
                                  [] OTHER -> [n EXCEPT !.kids = Through(f, @)]]
           after == [n \in S |-> [v \in Seq(AnyTree) |-> 
                        CASE ~IsGroup(n) -> n
                          [] IsGroup(n) /\ n.id = gid -> [n EXCEPT !.kids = Append(@, node)]
                          [] OTHER -> [n EXCEPT !.kids = v]]]
           sel == Every(S)
           f == CHOOSE g : g = F(g)
<1>1. S \subseteq AnyTree /\ Closed(S) /\ Range(items) \subseteq S
  BY BelowIs
<1>2. Selects(S, sel) /\ \A n \in S : IsGroup(n) => sel[n] = n.kids
  BY <1>1, EverySelects
<1>2b. items \in Seq(AnyTree) /\ Range(items) \subseteq S
  BY <1>1, SeqMembers
<1>3a. \A n \in S : IsGroup(n) => Append(n.kids, node) \in Seq(AnyTree)
  BY <1>1, NodeIs, AppendProperties
<1>3. after \in [S -> [Seq(AnyTree) -> AnyTree]]
  BY <1>1, <1>3a, WithKids
<1>4. \A g : \A n \in S : Through(g, sel[n]) \in Seq(AnyTree) => F(g)[n] = after[n][Through(g, sel[n])]
  BY <1>2
<1>5. AppendToGroup(items, gid, node) = Through(f, items)
  BY DEF AppendToGroup
<1>6. \A g : F(g) = [n \in S |-> F(g)[n]]
  OBVIOUS
<1> HIDE DEF after, sel, F, S
<1>7. PICK g \in [S -> AnyTree] : Rebuilds(g, S, AnyTree, sel, after)
  BY <1>2, <1>3, RebuildExists DEF S
<1>8. \A n \in S : g[n] = F(g)[n]
  <2>1. IsRebuilt(g, S, AnyTree, sel, after)
    BY <1>1, <1>2, <1>3, <1>7, RebuildTyped
  <2> QED
    BY <1>4, <2>1 DEF IsRebuilt
<1>9. g = F(g)
  BY <1>6, <1>7, <1>8
<1>10. f = F(f)
  BY <1>9
<1> HIDE DEF f
<1>11. Rebuilds(f, S, AnyTree, sel, after)
  BY <1>4, <1>6, <1>10 DEF Rebuilds
<1>12. IsRebuilt(f, S, AnyTree, sel, after)
  BY <1>1, <1>2, <1>3, <1>11, RebuildTyped
<1> QED
  BY <1>1, <1>2b, <1>5, <1>12, ThroughIs DEF IsRebuilt

\* The members of a concatenation.
LEMMA ConcatRange ==
  ASSUME NEW S, NEW t \in Seq(S), NEW u \in Seq(S)
  PROVE  t \o u \in Seq(S) /\ Range(t \o u) = Range(t) \union Range(u)
<1> DEFINE ss == <<t, u>>
           w == t \o u
<1>1. t \o u \in Seq(S) /\ Len(t \o u) = Len(t) + Len(u)
      /\ \A i \in 1..(Len(t) + Len(u)) : (t \o u)[i] = IF i <= Len(t) THEN t[i] ELSE u[i - Len(t)]
  BY ConcatProperties
<1>2. Len(t) \in Nat /\ Len(u) \in Nat /\ DOMAIN t = 1..Len(t) /\ DOMAIN u = 1..Len(u)
      /\ DOMAIN (t \o u) = 1..(Len(t) + Len(u))
  BY <1>1, SeqMembers
<1>3. ASSUME NEW e \in Range(t \o u) PROVE e \in Range(t) \/ e \in Range(u)
  <3>1. PICK i \in 1..(Len(t) + Len(u)) : e = (t \o u)[i]
    BY <1>2 DEF Range
  <3>2. CASE i <= Len(t)
    <4>1. i \in DOMAIN t /\ e = t[i]
      BY <1>1, <1>2, <3>1, <3>2
    <4> QED
      BY <4>1 DEF Range
  <3>3. CASE ~(i <= Len(t))
    <4>1. i - Len(t) \in DOMAIN u /\ e = u[i - Len(t)]
      BY <1>1, <1>2, <3>1, <3>3
    <4> QED
      BY <4>1 DEF Range
  <3> QED
    BY <3>2, <3>3
<1>4. ASSUME NEW e \in Range(t) PROVE e \in Range(t \o u)
  <3>1. PICK i \in 1..Len(t) : e = t[i]
    BY <1>2 DEF Range
  <3>2. i \in DOMAIN (t \o u) /\ (t \o u)[i] = e
    BY <1>1, <1>2, <3>1
  <3> QED
    BY <3>2 DEF Range
<1>5. ASSUME NEW e \in Range(u) PROVE e \in Range(t \o u)
  <3>1. PICK i \in 1..Len(u) : e = u[i]
    BY <1>2 DEF Range
  <3>2. i + Len(t) \in 1..(Len(t) + Len(u)) /\ ~(i + Len(t) <= Len(t)) /\ (i + Len(t)) - Len(t) = i
    BY <1>2
  <3>3. i + Len(t) \in DOMAIN (t \o u) /\ (t \o u)[i + Len(t)] = e
    BY <1>1, <1>2, <3>1, <3>2
  <3> QED
    BY <3>3 DEF Range
<1>6. \A e : e \in Range(t \o u) <=> e \in Range(t) \union Range(u)
  BY <1>3, <1>4, <1>5
<1> QED
  BY <1>1, <1>6

\* The nodes of a layout in depth-first order: they are nodes, the root's among them, and what is
\* below one of them is one of them.
LEMMA NodesTyped ==
  ASSUME NEW items \in Seq(AnyTree)
  PROVE  /\ Nodes(items) \in Seq(AnyTree) /\ Range(items) \subseteq Range(Nodes(items))
         /\ Closed(Range(Nodes(items)))
<1> DEFINE S == Below(items)
           F(f) == [n \in S |-> IF IsGroup(n) THEN <<n>> \o FlattenSeq(Through(f, n.kids)) ELSE <<n>>]
           after == [n \in S |-> [v \in Seq(Seq(AnyTree)) |-> IF IsGroup(n) THEN <<n>> \o FlattenSeq(v) ELSE <<n>>]]
           sel == Every(S)
           f == CHOOSE g : g = F(g)
<1>1. S \subseteq AnyTree /\ Closed(S) /\ Range(items) \subseteq S
  BY BelowIs
<1>2. Selects(S, sel) /\ \A n \in S : IsGroup(n) => sel[n] = n.kids
  BY <1>1, EverySelects
<1>2b. items \in Seq(AnyTree) /\ Range(items) \subseteq S
  BY <1>1, SeqMembers
<1>3a. \A n \in S : \A v \in Seq(Seq(AnyTree)) : <<n>> \in Seq(AnyTree) /\ <<n>> \o FlattenSeq(v) \in Seq(AnyTree)
  <2> TAKE n \in S
  <2> TAKE v \in Seq(Seq(AnyTree))
  <2>1. <<n>> \in Seq(AnyTree)
    BY <1>1
  <2>2. FlattenSeq(v) \in Seq(AnyTree)
    BY FlattenSeqIs
  <2> QED
    BY <2>1, <2>2, ConcatProperties
<1>3. after \in [S -> [Seq(Seq(AnyTree)) -> Seq(AnyTree)]]
  BY <1>1, <1>3a
<1>4. \A g : \A n \in S : Through(g, sel[n]) \in Seq(Seq(AnyTree)) => F(g)[n] = after[n][Through(g, sel[n])]
  BY <1>2
<1>5. Nodes(items) = FlattenSeq(Through(f, items))
  BY DEF Nodes
<1>6. \A g : F(g) = [n \in S |-> F(g)[n]]
  OBVIOUS
<1> HIDE DEF after, sel, F, S
<1>7. PICK g \in [S -> Seq(AnyTree)] : Rebuilds(g, S, Seq(AnyTree), sel, after)
  BY <1>2, <1>3, RebuildExists DEF S
<1>8. \A n \in S : g[n] = F(g)[n]
  <2>1. IsRebuilt(g, S, Seq(AnyTree), sel, after)
    BY <1>1, <1>2, <1>3, <1>7, RebuildTyped
  <2> QED
    BY <1>4, <2>1 DEF IsRebuilt
<1>9. g = F(g)
  BY <1>6, <1>7, <1>8
<1>10. f = F(f)
  BY <1>9
<1> HIDE DEF f
<1>11. Rebuilds(f, S, Seq(AnyTree), sel, after)
  BY <1>4, <1>6, <1>10 DEF Rebuilds
<1>12. IsRebuilt(f, S, Seq(AnyTree), sel, after)
  BY <1>1, <1>2, <1>3, <1>11, RebuildTyped
<1> QED
  <2> DEFINE P == {n \in S : n \in Range(f[n]) /\ \A e \in Range(f[n]) : Kids(e) \subseteq Range(f[n])}
  <2>1. \A n \in S : f[n] = (IF IsGroup(n) THEN <<n>> \o FlattenSeq(Through(f, n.kids)) ELSE <<n>>)
    BY <1>10 DEF F
  <2>2. \A n \in S : f[n] \in Seq(AnyTree)
    BY <1>12 DEF IsRebuilt
  <2>3. ASSUME NEW kids \in Seq(AnyTree), Range(kids) \subseteq S
        PROVE  LET all == FlattenSeq(Through(f, kids))
               IN  /\ all \in Seq(AnyTree)
                   /\ \A e \in Range(all) : \E k \in Range(kids) : e \in Range(f[k])
                   /\ \A k \in Range(kids) : Range(f[k]) \subseteq Range(all)
    <3> DEFINE ss == Through(f, kids)
    <3>1. ss \in Seq(Seq(AnyTree)) /\ DOMAIN ss = DOMAIN kids /\ \A i \in DOMAIN kids : ss[i] = f[kids[i]]
      <4> DEFINE V == Seq(AnyTree)
      <4>1. \A m \in Range(kids) : f[m] \in V
        BY <2>2, <2>3
      <4> HIDE DEF V, ss
      <4>2. Through(f, kids) \in Seq(V)
        BY <4>1, ThroughIs
      <4>3. DOMAIN Through(f, kids) = DOMAIN kids
        BY ThroughValues
      <4>4. \A i \in DOMAIN kids : Through(f, kids)[i] = f[kids[i]]
        BY ThroughValues
      <4> QED
        BY <4>2, <4>3, <4>4 DEF V, ss
    <3> HIDE DEF ss
    <3>2. FlattenSeq(ss) \in Seq(AnyTree)
          /\ (\A e \in Range(FlattenSeq(ss)) : \E i \in 1..Len(ss) : e \in Range(ss[i]))
          /\ \A i \in 1..Len(ss) : Range(ss[i]) \subseteq Range(FlattenSeq(ss))
      BY <3>1, FlattenSeqIs
    <3>3. DOMAIN ss = 1..Len(ss) /\ \A k \in Range(kids) : \E i \in DOMAIN kids : k = kids[i]
      BY <3>1, SeqMembers DEF Range
    <3>4. \A i \in DOMAIN kids : kids[i] \in Range(kids)
      BY SeqMembers
    <3>5. \A e \in Range(FlattenSeq(ss)) : \E k \in Range(kids) : e \in Range(f[k])
      <4>1. \A i \in 1..Len(ss) : kids[i] \in Range(kids) /\ ss[i] = f[kids[i]]
        BY <3>1, <3>3, <3>4
      <4> HIDE DEF Range
      <4> QED
        BY <3>2, <4>1
    <3>6. \A k \in Range(kids) : Range(f[k]) \subseteq Range(FlattenSeq(ss))
      BY <3>1, <3>2, <3>3
    <3> QED
      BY <3>2, <3>5, <3>6 DEF ss
  <2>4. ASSUME NEW n \in S, Kids(n) \subseteq P PROVE n \in P
    <3>1. <<n>> \in Seq(AnyTree) /\ Range(<<n>>) = {n}
      BY <1>1 DEF Range
    <3>2. CASE ~IsGroup(n)
      <4>1. Kids(n) = {} /\ f[n] = <<n>>
        BY <1>1, <2>1, <3>2, NodeIs
      <4> QED
        BY <3>1, <4>1
    <3>3. CASE IsGroup(n)
      <4> DEFINE all == FlattenSeq(Through(f, n.kids))
      <4>1. n.kids \in Seq(AnyTree) /\ Range(n.kids) = Kids(n) /\ Kids(n) \subseteq S
        BY <1>1, <3>3, NodeIs DEF Closed
      <4>2. /\ all \in Seq(AnyTree)
            /\ \A e \in Range(all) : \E k \in Kids(n) : e \in Range(f[k])
            /\ \A k \in Kids(n) : Range(f[k]) \subseteq Range(all)
        BY <2>3, <4>1
      <4>3. f[n] = <<n>> \o all
        BY <2>1, <3>3, Zenon
      <4> HIDE DEF all
      <4> DEFINE one == <<n>>
      <4>8. one \in Seq(AnyTree) /\ Range(one) = {n} /\ f[n] = one \o all
        BY <3>1, <4>3
      <4> HIDE DEF one
      <4>4. Range(f[n]) = {n} \union Range(all)
        BY <4>2, <4>8, ConcatRange
      <4>5. \A k \in Kids(n) : k \in Range(f[k]) /\ \A e \in Range(f[k]) : Kids(e) \subseteq Range(f[k])
        BY <2>4
      <4>6. \A e \in Range(all) : Kids(e) \subseteq Range(all)
        BY <4>2, <4>5
      <4>7. Kids(n) \subseteq Range(all)
        BY <4>2, <4>5
      <4> QED
        BY <4>4, <4>6, <4>7
    <3> QED
      BY <3>2, <3>3
  <2>5. S \subseteq P
    <3> HIDE DEF P
    <3> QED
      BY <1>1, <2>4, TreeInduction
  <2> DEFINE all == FlattenSeq(Through(f, items))
  <2>6. /\ all \in Seq(AnyTree)
        /\ \A e \in Range(all) : \E k \in Range(items) : e \in Range(f[k])
        /\ \A k \in Range(items) : Range(f[k]) \subseteq Range(all)
    BY <1>2b, <2>3
  <2>7. \A k \in Range(items) : k \in Range(f[k]) /\ \A e \in Range(f[k]) : Kids(e) \subseteq Range(f[k])
    BY <1>1, <2>5
  <2>8. Nodes(items) = all
    BY <1>5
  <2> HIDE DEF all
  <2>9. \A e \in Range(all) : Kids(e) \subseteq Range(all)
    BY <2>6, <2>7
  <2> QED
    BY <2>6, <2>7, <2>8, <2>9 DEF Closed

\* The same, by kind.
LEMMA NodesAre ==
  ASSUME NEW items \in Seq(AnyTree)
  PROVE  /\ Nodes(items) \in Seq(AnyTree) /\ Range(Nodes(items)) \subseteq AnyTree
         /\ Range(items) \subseteq Range(Nodes(items)) /\ Closed(Range(Nodes(items)))
         /\ GroupsIn(items) \in Seq(GroupNodes(AnyTree)) /\ Range(GroupsIn(items)) \subseteq Range(Nodes(items))
         /\ \A g \in Range(GroupsIn(items)) : g \in AnyTree /\ IsGroup(g) /\ g.kids \in Seq(AnyTree)
                                              /\ Range(g.kids) \subseteq Range(Nodes(items))
         /\ TilesOf(Nodes(items)) \in Seq(TileNodes)
         /\ \A n \in Range(Nodes(items)) : /\ IsGroup(n) => n \in Range(GroupsIn(items))
                                           /\ ~IsGroup(n) => n \in Range(TilesOf(Nodes(items)))
<1> DEFINE nodes == Nodes(items)
<1>1. nodes \in Seq(AnyTree) /\ Range(items) \subseteq Range(nodes) /\ Closed(Range(nodes))
  BY NodesTyped
<1>2. GroupsIn(items) = GroupsOf(nodes)
  BY DEF GroupsIn
<1> HIDE DEF nodes
<1>3. Range(nodes) \subseteq AnyTree /\ DOMAIN nodes = 1..Len(nodes)
  BY <1>1, SeqMembers
<1>4. /\ TilesOf(nodes) \in Seq(TileNodes) /\ GroupsOf(nodes) \in Seq(GroupNodes(AnyTree))
      /\ \A i \in 1..Len(nodes) : /\ IsGroup(nodes[i]) => nodes[i] \in Range(GroupsOf(nodes))
                                  /\ ~IsGroup(nodes[i]) => nodes[i] \in Range(TilesOf(nodes))
  BY <1>1, KindsOf
<1>5. Range(GroupsOf(nodes)) \subseteq Range(nodes)
  BY <1>1, SubListIs
<1>6. ASSUME NEW g \in Range(GroupsOf(nodes))
      PROVE  g \in AnyTree /\ IsGroup(g) /\ g.kids \in Seq(AnyTree) /\ Range(g.kids) \subseteq Range(nodes)
  <2>1. g \in GroupNodes(AnyTree)
    BY <1>4, SeqMembers
  <2>2. g \in AnyTree /\ IsGroup(g) /\ Kids(g) = Range(g.kids)
    BY <2>1, TreeIs, KidsOf
  <2>3. Kids(g) \subseteq Range(nodes)
    BY <1>1, <1>5 DEF Closed
  <2> QED
    BY <2>2, <2>3, NodeIs
<1>7. \A n \in Range(nodes) : \E i \in 1..Len(nodes) : n = nodes[i]
  BY <1>3 DEF Range
<1>8. \A n \in Range(nodes) : /\ IsGroup(n) => n \in Range(GroupsOf(nodes))
                              /\ ~IsGroup(n) => n \in Range(TilesOf(nodes))
  BY <1>4, <1>7
<1> QED
  BY <1>1, <1>2, <1>3, <1>4, <1>5, <1>6, <1>8 DEF nodes

\* Looking for a group or a tile that is there finds one, of that id.
LEMMA FoundGroup ==
  ASSUME NEW items \in Seq(AnyTree), NEW gid \in GroupIds(items)
  PROVE  /\ FindGroup(items, gid) \in AnyTree /\ IsGroup(FindGroup(items, gid)) /\ FindGroup(items, gid).id = gid
         /\ FindGroup(items, gid).kids \in Seq(AnyTree)
         /\ FindGroup(items, gid) \in Range(GroupsIn(items)) /\ FindGroup(items, gid) \in Range(Nodes(items))
<1> DEFINE groups == GroupsIn(items)
           i == IndexOf(groups, gid)
<1>1. groups \in Seq(GroupNodes(AnyTree)) /\ Range(groups) \subseteq Range(Nodes(items))
  BY NodesAre
<1>2. Has(groups, gid)
  BY DEF GroupIds, Has
<1>3. i \in 1..Len(groups) /\ groups[i].id = gid
  BY <1>1, <1>2, IndexOfIs
<1>4. groups[i] \in Range(groups)
  BY <1>1, <1>3, SeqMembers
<1>5. FindGroup(items, gid) = groups[i]
  BY DEF FindGroup
<1> QED
  BY <1>1, <1>3, <1>4, <1>5, NodesAre

LEMMA FoundTile ==
  ASSUME NEW items \in Seq(AnyTree), NEW tid \in TileIds(items)
  PROVE  FindTile(items, tid) \in TileNodes /\ FindTile(items, tid) \in AnyTree /\ FindTile(items, tid).id = tid
<1> DEFINE tiles == TilesOf(Nodes(items))
           i == IndexOf(tiles, tid)
<1>1. tiles \in Seq(TileNodes)
  BY NodesAre
<1>2. Has(tiles, tid)
  BY DEF TileIds, Has
<1>3. i \in 1..Len(tiles) /\ tiles[i].id = tid /\ tiles[i] \in TileNodes
  BY <1>1, <1>2, IndexOfIs
<1>5. FindTile(items, tid) = tiles[i]
  BY DEF FindTile
<1> QED
  BY <1>3, <1>5, TreeIs
=============================================================================
