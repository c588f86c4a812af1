----------------------------- MODULE LayoutEditorProofs -----------------------
(* What the dashboard editor keeps true for every grid, every set of plugins   *)
(* and ids, every layout the server or an old browser may hold and every       *)
(* sequence of edits, drops, hints and reloads.                                *)
(*   The argument: every operation makes a layout of a layout (the lemmas      *)
(* ...Typed, module by module), the normal form of every layout is placed and  *)
(* apart (NormalLayoutIsApart), and every write of the store writes a normal   *)
(* form -- so the invariant IInv asks of a drag or an overlay no more than     *)
(* that what it remembers is made of nodes.                                    *)
EXTENDS LayoutEditor, LayoutTreeProofs

-----------------------------------------------------------------------------
(* Sizes and placements of nodes.                                          *)

\* Cells of the spans the grid has.
LEMMA CellTyped ==
  /\ \A col, row \in Nat : \A cs \in 1..Cols :
        /\ \A rs \in Nat \ {0} : Cell(col, row, cs, rs) \in GroupGrids
        /\ \A rs \in 1..MaxRowSpan : Cell(col, row, cs, rs) \in TileGrids
  /\ TileGrids \subseteq GroupGrids /\ GroupGrids \subseteq GridRecords
  /\ \A g \in GroupGrids : g # NoGrid /\ g.col \in Nat /\ g.row \in Nat /\ g.cs \in 1..Cols /\ g.rs \in Nat \ {0}
  /\ \A g \in TileGrids : g.rs \in 1..MaxRowSpan
  /\ CellRecords = GroupGrids
BY TreeAssumption, GridAssumption DEF Cell, GroupGrids, TileGrids, GridRecords, CellRecords

\* A tile as the forms and the drops make it, before its placement is clamped.
LooseTiles ==
    [kind : {"tile"}, id : Ids, plugin : DOMAIN DefaultSpan,
     host : {"single-panel", "tab-control", "vertical-stack"}, label : BOOLEAN,
     grid : GridRecords \union {NoGrid}]
LooseNodes == LooseTiles \union GroupNodes(AnyTree)

\* Loose tiles are what the clamps of the grid take.
LEMMA LooseIs ==
  /\ TileNodes \subseteq LooseTiles
  /\ \A t \in LooseTiles : /\ IsTile(t) /\ ~IsGroup(t) /\ t.id \in Ids
                           /\ t.grid \in GridRecords \union {NoGrid}
                           /\ \A g \in GridRecords \union {NoGrid} :
                                 /\ [t EXCEPT !.grid = g] \in LooseTiles /\ [t EXCEPT !.grid = g].grid = g
                                 /\ [t EXCEPT !.grid = g].id = t.id
                           /\ \A g \in TileGrids \union {NoGrid} : [t EXCEPT !.grid = g] \in TileNodes
                           /\ t.grid \in TileGrids \union {NoGrid} => t \in TileNodes
<1>1. TileGrids \subseteq GridRecords
  BY CellTyped
<1>2. TileNodes \subseteq LooseTiles
  BY <1>1 DEF TileNodes, LooseTiles
<1>3. ASSUME NEW t \in LooseTiles
      PROVE  IsTile(t) /\ ~IsGroup(t) /\ t.id \in Ids /\ t.grid \in GridRecords \union {NoGrid}
  <2>1. t.plugin \in DOMAIN DefaultSpan /\ t.grid \in GridRecords \union {NoGrid} /\ t.kind = "tile" /\ t.id \in Ids
    BY DEF LooseTiles
  <2>2. DefaultSpan[t.plugin] \in 1..Cols
    BY <2>1, TreeAssumption
  <2>3. t = [f \in DOMAIN t |-> t[f]] /\ "grid" \in DOMAIN t
    BY DEF LooseTiles
  <2> QED
    BY <2>1, <2>2, <2>3 DEF IsTile, IsGroup
<1>4. ASSUME NEW t \in LooseTiles, NEW g \in GridRecords \union {NoGrid}
      PROVE  /\ [t EXCEPT !.grid = g] \in LooseTiles /\ [t EXCEPT !.grid = g].grid = g
             /\ [t EXCEPT !.grid = g].id = t.id
  BY DEF LooseTiles
<1>5. ASSUME NEW t \in LooseTiles, NEW g \in TileGrids \union {NoGrid} PROVE [t EXCEPT !.grid = g] \in TileNodes
  BY DEF LooseTiles, TileNodes
<1>6. ASSUME NEW t \in LooseTiles, t.grid \in TileGrids \union {NoGrid} PROVE t \in TileNodes
  BY <1>6 DEF LooseTiles, TileNodes
<1> QED
  BY <1>2, <1>3, <1>4, <1>5, <1>6

\* Clamped, a loose tile has a placement of the limits.
LEMMA ClampedTyped ==
  ASSUME NEW t \in LooseTiles
  PROVE  /\ Span(t) \in 1..Cols /\ Tall(t) \in 1..MaxRowSpan
         /\ ClampedTile(t) \in TileGrids
         /\ \A wrap : ClampedChild(t, wrap) \in TileGrids
<1>1. Cols \in Nat \ {0} /\ MaxRowSpan \in Nat \ {0} /\ StripExtent \in Nat
  BY GridAssumption
<1>2. Span(t) \in 1..Cols /\ Tall(t) \in 1..MaxRowSpan
  BY LooseIs, SpansBound
<1>3. OriginOf(t).col \in Int /\ OriginOf(t).row \in Int
  BY LooseIs DEF OriginOf, GridRecords, Cell
<1> DEFINE o == OriginOf(t)
           cs == Span(t)
           rs == Tall(t)
<1>4. ClampedTile(t) = Cell(OriginCol(o.col, cs), AtLeast(0, o.row), cs, rs)
  BY DEF ClampedTile
<1>5. \A wrap : ClampedChild(t, wrap) = IF wrap THEN ClampedTile(t)
                                        ELSE Cell(StripOriginCol(o.col, cs), AtLeast(0, o.row), cs, rs)
  BY DEF ClampedChild
<1> HIDE DEF o, cs, rs
<1>6. OriginCol(o.col, cs) \in Nat /\ StripOriginCol(o.col, cs) \in Nat /\ AtLeast(0, o.row) \in Nat
  BY <1>1, <1>2, <1>3 DEF OriginCol, StripOriginCol, AtLeast, AtMost, o, cs
<1>7. cs \in 1..Cols /\ rs \in 1..MaxRowSpan
  BY <1>2 DEF cs, rs
<1>8. ClampedTile(t) \in TileGrids
  BY <1>4, <1>6, <1>7, CellTyped
<1>9. \A wrap : ClampedChild(t, wrap) \in TileGrids
  BY <1>5, <1>6, <1>7, <1>8, CellTyped
<1> QED
  BY <1>2, <1>8, <1>9

-----------------------------------------------------------------------------
(* The sizes of groups.                                                    *)

\* A group is as wide as the columns allow, and as high as its content.
LEMMA OuterTyped ==
  ASSUME NEW g \in GroupNodes(AnyTree)
  PROVE  OuterCols(g) \in 1..Cols /\ \A inner \in Int : OuterRows(g, inner) \in Nat \ {0}
<1>1. Cols \in Nat \ {0} /\ MaxRowSpan \in Nat \ {0}
  BY GridAssumption
<1>2. Cols \in 1..Cols
  BY <1>1
<1>3. OuterCols(g) \in 1..Cols
  BY <1>2 DEF OuterCols
<1>4. ASSUME NEW inner \in Int PROVE OuterRows(g, inner) \in Nat \ {0}
  <2>1. CASE g.grid # NoGrid /\ g.grid.rs >= 1
    <3>1. g.grid \in GroupGrids
      BY <2>1 DEF GroupNodes
    <3>2. g.grid.rs \in Int
      BY <3>1, CellTyped
    <3>3. ClampTall(g.grid.rs) \in 1..MaxRowSpan
      BY <3>2, ClampsBound
    <3>4. OuterRows(g, inner) = ClampTall(g.grid.rs)
      BY <2>1 DEF OuterRows
    <3> HIDE DEF ClampTall
    <3> QED
      BY <1>1, <3>3, <3>4
  <2>2. CASE ~(g.grid # NoGrid /\ g.grid.rs >= 1)
    <3>1. OuterRows(g, inner) = AtLeast(1, inner)
      BY <2>2 DEF OuterRows
    <3> QED
      BY <3>1 DEF AtLeast
  <2> QED
    BY <2>1, <2>2
<1> QED
  BY <1>3, <1>4

\* A set of numbers as the lemma on its greatest takes it: one, and those of a family.
Spanned(T, a, m, e) == T = {a} \union {e[i] : i \in 1..m} /\ \A i \in 1..m : e[i] \in Nat

\* Its greatest member is then one of them and no less than any.
LEMMA MaxAbove ==
  ASSUME NEW a \in Nat, NEW m \in Nat, NEW e, NEW T, Spanned(T, a, m, e)
  PROVE  Max(T) \in T /\ Max(T) \in Nat /\ a <= Max(T)
<1> USE DEF Spanned
<1>0. \A i \in 1..m : e[i] \in Int
  OBVIOUS
<1>1. PICK b \in Nat : \A i \in 1..m : e[i] <= b /\ -b <= e[i]
  BY <1>0, NatBound
<1>2. a + b \in Int /\ T \subseteq Int /\ T # {}
  OBVIOUS
<1>3. \A x \in T : x <= a + b
  <2> TAKE x \in T
  <2>1. CASE x = a
    BY <2>1
  <2>2. CASE \E i \in 1..m : x = e[i]
    <3>1. PICK i \in 1..m : x = e[i]
      BY <2>2
    <3>2. x <= b /\ x \in Nat
      BY <1>1, <3>1
    <3> QED
      BY <3>2
  <2> QED
    BY <2>1, <2>2
<1>4. Max(T) \in T /\ \A x \in T : x <= Max(T)
  BY <1>2, <1>3, MaxIs
<1>5. a \in T /\ T \subseteq Nat
  OBVIOUS
<1> QED
  BY <1>4, <1>5

\* The height of a group's content: a walk over everything below it.
LEMMA RowEndTyped ==
  ASSUME NEW group \in AnyTree
  PROVE  RowEnd(group) \in Nat \ {0}
<1> DEFINE Pos == Nat \ {0}
           S == Below(<<group>>)
           F(f) == [n \in S |-> LET bottom(c) ==
                              IF ~CompleteChild(c.grid, n.wrap) THEN f[c]
                              ELSE c.grid.row + (IF IsGroup(c) THEN OuterRows(c, f[c]) ELSE c.grid.rs)
                      IN  IF IsGroup(n) THEN Max({1} \union {bottom(n.kids[i]) : i \in DOMAIN n.kids}) ELSE 1]
           low(n, i, e) ==
              LET c == n.kids[i]
              IN  IF ~CompleteChild(c.grid, n.wrap) THEN e
                  ELSE c.grid.row + (IF IsGroup(c) THEN OuterRows(c, e) ELSE c.grid.rs)
           bottoms(n, v) == {1} \union {low(n, i, IF i \in DOMAIN v THEN v[i] ELSE 1) : i \in DOMAIN n.kids}
           after == [n \in S |-> [v \in Seq(Pos) |-> IF IsGroup(n) THEN Max(bottoms(n, v)) ELSE 1]]
           sel == Every(S)
           f == CHOOSE g : g = F(g)
<1>0. <<group>> \in Seq(AnyTree) /\ Range(<<group>>) = {group}
  BY DEF Range
<1>1. S \subseteq AnyTree /\ Closed(S) /\ Range(<<group>>) \subseteq S
  BY <1>0, BelowIs
<1>2. Selects(S, sel) /\ \A n \in S : IsGroup(n) => sel[n] = n.kids
  BY <1>1, EverySelects
<1>2b. group \in S
  BY <1>0, <1>1
<1>3b. \A n \in S : IsGroup(n) => /\ n.kids \in Seq(AnyTree) /\ DOMAIN n.kids = 1..Len(n.kids)
                                  /\ Len(n.kids) \in Nat /\ \A i \in DOMAIN n.kids : n.kids[i] \in AnyTree
  BY <1>1, NodeIs, SeqMembers
<1>3a. \A n \in S : \A v \in Seq(Pos) : IsGroup(n) => Max(bottoms(n, v)) \in Nat \ {0}
  <2> SUFFICES ASSUME NEW n \in S, NEW v \in Seq(Pos), IsGroup(n) PROVE Max(bottoms(n, v)) \in Nat \ {0}
    OBVIOUS
  <2> DEFINE m == Len(n.kids)
             e == [i \in 1..m |-> low(n, i, IF i \in DOMAIN v THEN v[i] ELSE 1)]
  <2>1. \A i \in 1..m : e[i] \in Nat \ {0}
    <3> TAKE i \in 1..m
    <3> DEFINE c == n.kids[i]
               x == IF i \in DOMAIN v THEN v[i] ELSE 1
    <3>1. c \in AnyTree
      BY <1>3b
    <3>2. x \in Nat \ {0}
      BY SeqMembers
    <3>3. e[i] = low(n, i, x)
      OBVIOUS
    <3>4. low(n, i, x) = IF ~CompleteChild(c.grid, n.wrap) THEN x
                         ELSE c.grid.row + (IF IsGroup(c) THEN OuterRows(c, x) ELSE c.grid.rs)
      BY DEF low
    <3>5. CompleteChild(c.grid, n.wrap) => c.grid # NoGrid
      BY DEF CompleteChild, Complete, CompleteInStrip
    <3> HIDE DEF c, x, e, low
    <3>6. CompleteChild(c.grid, n.wrap) => c.grid \in GroupGrids
      BY <3>1, <3>5, NodeIs, CellTyped DEF GridsFor
    <3>2a. x \in Int
      BY <3>2
    <3>7. IsGroup(c) => OuterRows(c, x) \in Nat \ {0}
      <4> SUFFICES ASSUME IsGroup(c) PROVE OuterRows(c, x) \in Nat \ {0}
        OBVIOUS
      <4>1. c \in GroupNodes(AnyTree)
        BY <3>1, NodeIs
      <4> QED
        BY <3>2a, <4>1, OuterTyped
    <3>8. CASE ~CompleteChild(c.grid, n.wrap)
      BY <3>2, <3>3, <3>4, <3>8
    <3>9. CASE CompleteChild(c.grid, n.wrap)
      <4>1. c.grid.row \in Nat /\ c.grid.rs \in Nat \ {0}
        BY <3>6, <3>9, CellTyped
      <4> DEFINE y == IF IsGroup(c) THEN OuterRows(c, x) ELSE c.grid.rs
      <4>2. y \in Nat \ {0} /\ e[i] = c.grid.row + y
        BY <3>3, <3>4, <3>7, <3>9, <4>1
      <4> HIDE DEF y
      <4> QED
        BY <4>1, <4>2
    <3> QED
      BY <3>8, <3>9
  <2>2. bottoms(n, v) = {1} \union {e[i] : i \in 1..m}
    BY <1>3b
  <2>3. m \in Nat
    BY <1>3b
  <2> DEFINE T == bottoms(n, v)
  <2> HIDE DEF e, m, bottoms, low
  <2>4. Max(T) \in Nat /\ 1 <= Max(T)
    <3>1. T = {1} \union {e[i] : i \in 1..m}
      BY <2>2
    <3>2. (\A i \in 1..m : e[i] \in Nat) /\ 1 \in Nat
      BY <2>1
    <3> HIDE DEF T
    <3> DEFINE a == 1
    <3>3. a \in Nat /\ Spanned(T, a, m, e)
      BY <3>1, <3>2 DEF Spanned
    <3> HIDE DEF a
    <3>4. Max(T) \in Nat /\ a <= Max(T)
      BY <2>3, <3>3, MaxAbove
    <3> QED
      BY <3>4 DEF a
  <2> QED
    BY <2>4
<1>3. after \in [S -> [Seq(Pos) -> Pos]]
  BY <1>3a
<1>4. \A g : \A n \in S : Through(g, sel[n]) \in Seq(Pos) => F(g)[n] = after[n][Through(g, sel[n])]
  <2> TAKE g
  <2> TAKE n \in S
  <2> HAVE Through(g, sel[n]) \in Seq(Pos)
  <2> DEFINE v == Through(g, sel[n])
  <2>1. after[n][v] = IF IsGroup(n) THEN Max(bottoms(n, v)) ELSE 1
    OBVIOUS
  <2>2. CASE ~IsGroup(n)
    BY <2>1, <2>2
  <2>3. CASE IsGroup(n)
    <3>1. sel[n] = n.kids /\ n.kids \in Seq(AnyTree)
      BY <1>2, <1>3b, <2>3
    <3>2. DOMAIN v = DOMAIN n.kids /\ \A i \in DOMAIN n.kids : v[i] = g[n.kids[i]]
      BY <3>1, ThroughValues
    <3> HIDE DEF v
    <3> DEFINE bot(c) == IF ~CompleteChild(c.grid, n.wrap) THEN g[c]
                         ELSE c.grid.row + (IF IsGroup(c) THEN OuterRows(c, g[c]) ELSE c.grid.rs)
    <3>3. \A i \in DOMAIN n.kids : low(n, i, IF i \in DOMAIN v THEN v[i] ELSE 1) = bot(n.kids[i])
      BY <3>2
    <3>4. bottoms(n, v) = {1} \union {bot(n.kids[i]) : i \in DOMAIN n.kids}
      <4> HIDE DEF low, bot
      <4> QED
        BY <3>3
    <3>5. F(g)[n] = Max({1} \union {bot(n.kids[i]) : i \in DOMAIN n.kids})
      BY <2>3
    <3> HIDE DEF bot, bottoms, after, F
    <3> QED
      BY <2>1, <2>3, <3>4, <3>5 DEF v
  <2> QED
    BY <2>2, <2>3
<1>5. RowEnd(group) = f[group]
  BY DEF RowEnd
<1>6. \A g : F(g) = [n \in S |-> F(g)[n]]
  OBVIOUS
<1> HIDE DEF after, sel, F, S
<1> HIDE DEF Pos
<1>7. PICK g \in [S -> Pos] : Rebuilds(g, S, Pos, sel, after)
  BY <1>0, <1>2, <1>3, RebuildExists DEF S
<1>8. \A n \in S : g[n] = F(g)[n]
  <2>1. IsRebuilt(g, S, Pos, sel, after)
    BY <1>1, <1>2, <1>3, <1>7, RebuildTyped
  <2> QED
    BY <1>4, <2>1 DEF IsRebuilt
<1>9. g = F(g)
  BY <1>6, <1>7, <1>8
<1>10. f = F(f)
  BY <1>9
<1> HIDE DEF f
<1>11. Rebuilds(f, S, Pos, sel, after)
  BY <1>4, <1>6, <1>10 DEF Rebuilds
<1>12. IsRebuilt(f, S, Pos, sel, after)
  BY <1>1, <1>2, <1>3, <1>11, RebuildTyped
<1> QED
  BY <1>2b, <1>5, <1>12 DEF IsRebuilt, Pos

-----------------------------------------------------------------------------
(* Lists of nodes given other grids.                                       *)

\* A list mapped member by member.
LEMMA MappedIs ==
  ASSUME NEW S, NEW s \in Seq(S), NEW T, NEW f, f = [i \in DOMAIN s |-> f[i]], \A i \in DOMAIN s : f[i] \in T
  PROVE  f \in Seq(T) /\ Len(f) = Len(s) /\ DOMAIN f = DOMAIN s
<1> DEFINE n == Len(s)
<1>1. n \in Nat /\ DOMAIN s = 1..n
  BY SeqMembers
<1> HIDE DEF n
<1>2. f = [i \in 1..n |-> f[i]] /\ \A i \in 1..n : f[i] \in T
  BY <1>1
<1>3. f \in Seq(T) /\ Len(f) = n
  BY <1>1, <1>2, SeqIs
<1>4. DOMAIN f = 1..n
  BY <1>2
<1> QED
  BY <1>1, <1>3, <1>4 DEF n

\* A list of a set is one of every set that has its members.
LEMMA SeqGrows ==
  ASSUME NEW S, NEW T, S \subseteq T, NEW s \in Seq(S)
  PROVE  s \in Seq(T)
<1>1. Len(s) \in Nat /\ s = [i \in 1..Len(s) |-> s[i]] /\ DOMAIN s = 1..Len(s) /\ \A i \in DOMAIN s : s[i] \in S
  BY SeqMembers
<1>2. \A i \in 1..Len(s) : s[i] \in T
  BY <1>1
<1> QED
  BY <1>1, <1>2, SeqIs

\* A recursive function on 0..m has the values its steps give.
LEMMA RunValues ==
  ASSUME NEW V, NEW a \in V, NEW step \in [Nat -> [V -> V]], NEW m \in Nat, NEW f, f[0] = a,
         \A k \in 1..m : f[k - 1] \in V => f[k] = step[k][f[k - 1]]
  PROVE  \A k \in 0..m : f[k] \in V
<1> DEFINE P == {k \in Nat : k <= m => f[k] \in V}
<1>1. 0 \in P
  OBVIOUS
<1>2. ASSUME NEW k \in Nat, k \in P PROVE k + 1 \in P
  <2>1. SUFFICES ASSUME k + 1 <= m PROVE f[k + 1] \in V
    OBVIOUS
  <2>2. k + 1 \in 1..m /\ (k + 1) - 1 = k /\ f[k] \in V
    BY <1>2, <2>1
  <2>3. f[k + 1] = step[k + 1][f[k]]
    BY <2>2
  <2> QED
    BY <2>2, <2>3
<1>3. \A k \in Nat : k \in P
  <2> HIDE DEF P
  <2> QED
    BY <1>1, <1>2, NatInduction0
<1> QED
  BY <1>3

\* Which sets of nodes are within which.
LEMMA LooseKinds ==
  /\ AnyTree \subseteq LooseNodes
  /\ \A n \in LooseNodes : /\ IsGroup(n) => n \in GroupNodes(AnyTree) /\ n \in AnyTree
                           /\ ~IsGroup(n) => n \in LooseTiles
                           /\ n.id \in Ids
  /\ \A n \in AnyTree : ~IsGroup(n) => n \in LooseTiles /\ n \in TileNodes
  /\ \A n \in TileNodes : n \in LooseNodes /\ n \in LooseTiles /\ n \in AnyTree /\ ~IsGroup(n)
<1>1. \A n \in GroupNodes(AnyTree) : IsGroup(n) /\ n \in AnyTree
  BY KidsOf, TreeIs
<1>2. \A n \in AnyTree : ~IsGroup(n) => n \in TileNodes
  BY NodeIs
<1>3. \A n \in LooseNodes : n.id \in Ids
  BY DEF LooseNodes, LooseTiles, GroupNodes
<1>4. AnyTree \subseteq LooseNodes
  BY TreeIs, LooseIs DEF LooseNodes
<1>5. \A n \in TileNodes : n \in LooseTiles /\ ~IsGroup(n)
  BY LooseIs
<1> QED
  BY <1>1, <1>2, <1>3, <1>4, <1>5, LooseIs, TreeIs DEF LooseNodes

\* The columns and rows a node takes.
LEMMA SizesTyped ==
  ASSUME NEW n \in LooseNodes
  PROVE  /\ NodeCols(n) \in 1..Cols /\ NodeRows(n) \in Nat \ {0}
         /\ ~IsGroup(n) => NodeRows(n) \in 1..MaxRowSpan /\ NodeCols(n) = Span(n) /\ NodeRows(n) = Tall(n)
<1>1. CASE IsGroup(n)
  <2>1. n \in GroupNodes(AnyTree) /\ n \in AnyTree
    BY <1>1, LooseKinds
  <2>2. RowEnd(n) \in Nat \ {0}
    BY <2>1, RowEndTyped
  <2>2a. RowEnd(n) \in Int
    BY <2>2
  <2>3. OuterCols(n) \in 1..Cols /\ OuterRows(n, RowEnd(n)) \in Nat \ {0}
    BY <2>1, <2>2a, OuterTyped
  <2> QED
    BY <1>1, <2>3 DEF NodeCols, NodeRows
<1>2. CASE ~IsGroup(n)
  <2>1. n \in LooseTiles
    BY <1>2, LooseKinds
  <2>2. Span(n) \in 1..Cols /\ Tall(n) \in 1..MaxRowSpan
    BY <2>1, ClampedTyped
  <2>3. Tall(n) \in Nat \ {0}
    BY <2>2, GridAssumption
  <2> QED
    BY <1>2, <2>2, <2>3 DEF NodeCols, NodeRows
<1> QED
  BY <1>1, <1>2

\* The grids that make a node of the layout out of a loose one.
LEMMA GridOver ==
  ASSUME NEW n \in LooseNodes, NEW g \in GridsFor(n)
  PROVE  /\ [n EXCEPT !.grid = g] \in AnyTree /\ (IsGroup([n EXCEPT !.grid = g]) <=> IsGroup(n))
         /\ [n EXCEPT !.grid = g].id = n.id /\ [n EXCEPT !.grid = g].grid = g
<1>1. CASE IsGroup(n)
  <2>1. n \in AnyTree
    BY <1>1, LooseKinds
  <2> QED
    BY <2>1, WithGrid
<1>2. CASE ~IsGroup(n)
  <2>1. n \in LooseTiles /\ g \in TileGrids \union {NoGrid}
    BY <1>2, LooseKinds DEF GridsFor
  <2>2. [n EXCEPT !.grid = g] \in TileNodes
    BY <2>1, LooseIs
  <2>3. g \in GridRecords \union {NoGrid}
    BY <2>1, CellTyped
  <2>4. [n EXCEPT !.grid = g].id = n.id /\ [n EXCEPT !.grid = g].grid = g
    BY <2>1, <2>3, LooseIs
  <2> QED
    BY <1>2, <2>2, <2>4, LooseKinds
<1> QED
  BY <1>1, <1>2

\* A cell of a node's own size fits it.
LEMMA SizedCell ==
  ASSUME NEW n \in LooseNodes, NEW col \in Nat, NEW row \in Nat
  PROVE  Cell(col, row, NodeCols(n), NodeRows(n)) \in GridsFor(n)
BY SizesTyped, CellTyped DEF GridsFor

\* So a list of nodes given such grids is a list of nodes, in the same order.
LEMMA WithGridsTyped ==
  ASSUME NEW nodes \in Seq(LooseNodes), NEW cells, \A i \in DOMAIN nodes : cells[i] \in GridsFor(nodes[i])
  PROVE  /\ WithGrids(nodes, cells) \in Seq(AnyTree) /\ Len(WithGrids(nodes, cells)) = Len(nodes)
         /\ DOMAIN WithGrids(nodes, cells) = DOMAIN nodes
         /\ \A i \in DOMAIN nodes : /\ WithGrids(nodes, cells)[i].id = nodes[i].id
                                    /\ WithGrids(nodes, cells)[i].grid = cells[i]
                                    /\ IsGroup(WithGrids(nodes, cells)[i]) <=> IsGroup(nodes[i])
<1> DEFINE f == WithGrids(nodes, cells)
<1>1. f = [i \in DOMAIN nodes |-> f[i]] /\ \A i \in DOMAIN nodes : f[i] = [nodes[i] EXCEPT !.grid = cells[i]]
  BY DEF WithGrids
<1>2. \A i \in DOMAIN nodes : nodes[i] \in LooseNodes
  BY SeqMembers
<1> HIDE DEF f
<1>3. \A i \in DOMAIN nodes : /\ f[i] \in AnyTree /\ f[i].id = nodes[i].id /\ f[i].grid = cells[i]
                              /\ IsGroup(f[i]) <=> IsGroup(nodes[i])
  <2> TAKE i \in DOMAIN nodes
  <2>1. nodes[i] \in LooseNodes /\ cells[i] \in GridsFor(nodes[i]) /\ f[i] = [nodes[i] EXCEPT !.grid = cells[i]]
    BY <1>1, <1>2
  <2> QED
    BY <2>1, GridOver
<1>4. f \in Seq(AnyTree) /\ Len(f) = Len(nodes) /\ DOMAIN f = DOMAIN nodes
  BY <1>1, <1>3, MappedIs
<1> QED
  BY <1>3, <1>4 DEF f

\* A list of nodes none of which is a group is a list of tiles.
LEMMA TilesStay ==
  ASSUME NEW s \in Seq(AnyTree), \A i \in DOMAIN s : ~IsGroup(s[i])
  PROVE  s \in Seq(TileNodes)
<1>1. Len(s) \in Nat /\ s = [i \in 1..Len(s) |-> s[i]] /\ DOMAIN s = 1..Len(s) /\ \A i \in DOMAIN s : s[i] \in AnyTree
  BY SeqMembers
<1>2. \A i \in 1..Len(s) : s[i] \in TileNodes
  BY <1>1, NodeIs
<1> QED
  BY <1>1, <1>2, SeqIs

-----------------------------------------------------------------------------
(* Strips and rows.                                                        *)

\* The tracks of a strip are at least one.
LEMMA TracksTyped ==
  ASSUME NEW span \in Int, NEW outer \in Int
  PROVE  Tracks(span, outer) \in Nat \ {0} /\ ClampSpan(outer) \in 1..Cols
<1>1. ClampSpan(outer) \in 1..Cols /\ ClampSpan(span) \in 1..Cols
  BY ClampsBound
<1> HIDE DEF ClampSpan
<1> QED
  BY <1>1 DEF Tracks, AtLeast, AtMost

\* The packings of a group's children, in one strip
LEMMA PackStripTyped ==
  ASSUME NEW outer \in Int, NEW kids \in Seq(AnyTree)
  PROVE  PackStrip(outer, kids) \in Seq(AnyTree) /\ Len(PackStrip(outer, kids)) = Len(kids)
<1> DEFINE n == Len(kids)
           wide(k) == Tracks(NodeCols(kids[k]), outer)
           step == [k \in Nat |-> [t \in Nat |-> IF k \in 1..n THEN t + wide(k) ELSE t]]
           F(f) == [k \in 0..n |-> IF k = 0 THEN 0 ELSE f[k - 1] + wide(k)]
<1>1. n \in Nat /\ DOMAIN kids = 1..n /\ \A i \in 1..n : kids[i] \in AnyTree /\ kids[i] \in LooseNodes
  BY SeqMembers, LooseKinds
<1>2. \A i \in 1..n : wide(i) \in Nat
  <2> TAKE i \in 1..n
  <2>1. NodeCols(kids[i]) \in Int
    BY <1>1, SizesTyped
  <2> QED
    BY <2>1, TracksTyped
<1> HIDE DEF n, wide
<1>5. step \in [Nat -> [Nat -> Nat]]
  BY <1>2
<1>6. \A k \in 1..n : \A t \in Nat : step[k][t] = t + wide(k)
  BY <1>1
<1> HIDE DEF step
<1>7. PICK g : Runs(Nat, 0, step, n, g)
  BY <1>1, <1>5, RunsExist
<1>8. g = [k \in 0..n |-> g[k]] /\ g[0] = 0 /\ \A k \in 1..n : g[k - 1] \in Nat /\ g[k] = step[k][g[k - 1]]
  BY <1>1, <1>7 DEF Runs
<1>0. \A k \in 0..n : k = 0 \/ (k # 0 /\ k \in 1..n)
  BY <1>1
<1>9. \A k \in 0..n : g[k] = IF k = 0 THEN 0 ELSE g[k - 1] + wide(k)
  BY <1>0, <1>6, <1>8
<1>10. g = F(g)
  BY <1>8, <1>9, Zenon
<1> DEFINE f == CHOOSE h : h = F(h)
<1>11. f = F(f)
  BY <1>10
<1> DEFINE p == PackStrip(outer, kids)
<1>12. p = [i \in DOMAIN kids |-> [kids[i] EXCEPT !.grid = Cell(f[i - 1], 0, NodeCols(kids[i]), NodeRows(kids[i]))]]
  BY DEF PackStrip, n, wide
<1> HIDE DEF f, p
<1>13. f[0] = 0 /\ \A k \in 1..n : f[k] = f[k - 1] + wide(k)
  <2>1. 0 \in 0..n /\ \A k \in 1..n : k \in 0..n /\ k # 0
    BY <1>1
  <2> QED
    BY <1>11, <2>1
<1>14. \A k \in 0..n : f[k] \in Nat
  <2>1. \A k \in 1..n : f[k - 1] \in Nat => f[k] = step[k][f[k - 1]]
    BY <1>6, <1>13
  <2> DEFINE zero == 0
             W == Nat
  <2>2. zero \in W /\ f[0] = zero /\ step \in [Nat -> [W -> W]] /\ \A k \in 1..n : f[k - 1] \in W => f[k] = step[k][f[k - 1]]
    BY <1>5, <1>13, <2>1
  <2> HIDE DEF zero, W
  <2>3. \A k \in 0..n : f[k] \in W
    BY <1>1, <2>2, RunValues
  <2> QED
    BY <2>3 DEF W
<1>15. \A i \in DOMAIN kids : p[i] \in AnyTree
  <2> TAKE i \in DOMAIN kids
  <2>1. i - 1 \in 0..n /\ 0 \in Nat /\ kids[i] \in LooseNodes
    BY <1>1
  <2>2. f[i - 1] \in Nat
    BY <1>14, <2>1
  <2>3. Cell(f[i - 1], 0, NodeCols(kids[i]), NodeRows(kids[i])) \in GridsFor(kids[i])
    BY <2>1, <2>2, SizedCell
  <2>4. p[i] = [kids[i] EXCEPT !.grid = Cell(f[i - 1], 0, NodeCols(kids[i]), NodeRows(kids[i]))]
    BY <1>12
  <2> QED
    BY <2>1, <2>3, <2>4, GridOver
<1>16. p = [i \in DOMAIN kids |-> p[i]]
  BY <1>12
<1>17. p \in Seq(AnyTree) /\ Len(p) = Len(kids)
  BY <1>15, <1>16, MappedIs
<1> QED
  BY <1>17 DEF p

\* and in rows that wrap, place every child and move none.
LEMMA PackRowWrapTyped ==
  ASSUME NEW outer \in Int, NEW tiles \in Seq(TileNodes)
  PROVE  /\ PackRowWrap(outer, tiles) \in Seq(TileNodes) /\ Len(PackRowWrap(outer, tiles)) = Len(tiles)
         /\ \A i \in DOMAIN tiles : PackRowWrap(outer, tiles)[i].id = tiles[i].id
<1> DEFINE n == Len(tiles)
           V == [c : Nat, r : Nat]
           zero == [c |-> 0, r |-> 0]
           width(t) == Tracks(Span(t), outer)
           fit(free, t) == IF free.c + width(t) > ClampSpan(outer) THEN [c |-> 0, r |-> free.r + 1] ELSE free
           next(t, k) == [fit(t, tiles[k]) EXCEPT !.c = @ + width(tiles[k])]
           step == [k \in Nat |-> [t \in V |-> IF k \in 1..n THEN next(t, k) ELSE t]]
           F(f) == [k \in 0..n |-> IF k = 0 THEN zero ELSE next(f[k - 1], k)]
<1>1. n \in Nat /\ DOMAIN tiles = 1..n /\ \A i \in 1..n : tiles[i] \in TileNodes /\ tiles[i] \in LooseTiles
  BY SeqMembers, LooseIs
<1>2. \A i \in 1..n : width(tiles[i]) \in Nat
  <2> TAKE i \in 1..n
  <2>1. Span(tiles[i]) \in Int
    BY <1>1, ClampedTyped
  <2> QED
    BY <2>1, TracksTyped
<1> HIDE DEF n, width
<1>3. \A i \in 1..n : \A t \in V : fit(t, tiles[i]) \in V
  <2> TAKE i \in 1..n
  <2> TAKE t \in V
  <2>1. t.r + 1 \in Nat /\ 0 \in Nat
    OBVIOUS
  <2>2. [c |-> 0, r |-> t.r + 1] \in V
    BY <2>1
  <2> QED
    BY <2>2
<1>3a. \A i \in 1..n : \A t \in V : next(t, i) \in V
  <2> TAKE i \in 1..n
  <2> TAKE t \in V
  <2> DEFINE u == fit(t, tiles[i])
  <2>1. u \in V
    BY <1>3
  <2>2. next(t, i) = [u EXCEPT !.c = u.c + width(tiles[i])]
    OBVIOUS
  <2> HIDE DEF u, fit, next
  <2>3. u.c + width(tiles[i]) \in Nat
    BY <1>2, <2>1
  <2> QED
    BY <2>1, <2>2, <2>3
<1>4. zero \in V
  OBVIOUS
<1> HIDE DEF next, fit, V, zero
<1>5. step \in [Nat -> [V -> V]]
  BY <1>3a
<1>6. \A k \in 1..n : \A t \in V : step[k][t] = next(t, k)
  BY <1>1
<1> HIDE DEF step
<1>7. PICK g : Runs(V, zero, step, n, g)
  BY <1>1, <1>4, <1>5, RunsExist
<1>8. g = [k \in 0..n |-> g[k]] /\ g[0] = zero /\ \A k \in 1..n : g[k - 1] \in V /\ g[k] = step[k][g[k - 1]]
  BY <1>1, <1>7 DEF Runs
<1>0. \A k \in 0..n : k = 0 \/ (k # 0 /\ k \in 1..n)
  BY <1>1
<1>9. \A k \in 0..n : g[k] = IF k = 0 THEN zero ELSE next(g[k - 1], k)
  <2> TAKE k \in 0..n
  <2>1. CASE k = 0
    BY <1>8, <2>1
  <2>2. CASE k # 0 /\ k \in 1..n
    BY <1>6, <1>8, <2>2
  <2> QED
    BY <1>0, <2>1, <2>2
<1>10. g = F(g)
  BY <1>8, <1>9, Zenon
<1> DEFINE f == CHOOSE h : h = F(h)
<1>11. f = F(f)
  BY <1>10
<1> DEFINE p == PackRowWrap(outer, tiles)
           at(i) == fit(f[i - 1], tiles[i])
           cells == [i \in DOMAIN tiles |-> Cell(at(i).c, at(i).r, Span(tiles[i]), Tall(tiles[i]))]
<1>12. p = WithGrids(tiles, cells)
  <2>1. p = [i \in DOMAIN tiles |-> [tiles[i] EXCEPT !.grid = Cell(at(i).c, at(i).r, Span(tiles[i]), Tall(tiles[i]))]]
    BY Zenon DEF PackRowWrap, n, width, fit, next, zero
  <2> HIDE DEF p, at, f
  <2> QED
    BY <2>1 DEF WithGrids
<1> HIDE DEF f, p
<1>13. f[0] = zero /\ \A k \in 1..n : f[k] = next(f[k - 1], k)
  <2>1. 0 \in 0..n /\ \A k \in 1..n : k \in 0..n /\ k # 0
    BY <1>1
  <2> QED
    BY <1>11, <2>1
<1>14. \A k \in 0..n : f[k] \in V
  <2>1. \A k \in 1..n : f[k - 1] \in V => f[k] = step[k][f[k - 1]]
    BY <1>6, <1>13
  <2> QED
    BY <1>1, <1>4, <1>5, <1>13, <2>1, RunValues
<1>15. \A i \in DOMAIN tiles : cells[i] \in TileGrids
  <2> TAKE i \in DOMAIN tiles
  <2>1. i \in 1..n /\ i - 1 \in 0..n /\ tiles[i] \in LooseTiles
    BY <1>1
  <2>2. at(i) \in V
    BY <1>3, <1>14, <2>1
  <2>3. at(i).c \in Nat /\ at(i).r \in Nat
    BY <2>2 DEF V
  <2> HIDE DEF at
  <2>4. cells[i] = Cell(at(i).c, at(i).r, Span(tiles[i]), Tall(tiles[i]))
    OBVIOUS
  <2>5. Span(tiles[i]) \in 1..Cols /\ Tall(tiles[i]) \in 1..MaxRowSpan
    BY <2>1, ClampedTyped
  <2> QED
    BY <2>3, <2>4, <2>5, CellTyped
<1>16. tiles \in Seq(LooseNodes)
  <2>1. TileNodes \subseteq LooseNodes
    BY LooseKinds
  <2> QED
    BY <2>1, SeqGrows
<1> HIDE DEF cells
<1>17. \A i \in DOMAIN tiles : cells[i] \in GridsFor(tiles[i]) /\ ~IsGroup(tiles[i])
  <2>1. \A i \in DOMAIN tiles : ~IsGroup(tiles[i])
    BY <1>1, LooseIs
  <2> QED
    BY <1>15, <2>1 DEF GridsFor
<1>18. p \in Seq(AnyTree) /\ Len(p) = Len(tiles) /\ DOMAIN p = DOMAIN tiles
       /\ \A i \in DOMAIN tiles : p[i].id = tiles[i].id /\ (IsGroup(p[i]) <=> IsGroup(tiles[i]))
  BY <1>12, <1>16, <1>17, WithGridsTyped
<1>19. p \in Seq(TileNodes)
  BY <1>17, <1>18, TilesStay
<1> QED
  BY <1>18, <1>19 DEF p

-----------------------------------------------------------------------------
(* The children of a group, placed anew.                                   *)

\* The same nodes, placed anew.
Like(s, nodes) ==
  /\ Len(s) = Len(nodes) /\ DOMAIN s = DOMAIN nodes
  /\ \A i \in DOMAIN nodes : s[i].id = nodes[i].id /\ (IsGroup(s[i]) <=> IsGroup(nodes[i]))

\* Tiles placed anew are tiles.
LEMMA LikeTiles ==
  ASSUME NEW tiles \in Seq(TileNodes), NEW s \in Seq(AnyTree), Like(s, tiles)
  PROVE  s \in Seq(TileNodes)
<1>1. \A i \in DOMAIN tiles : ~IsGroup(tiles[i])
  BY SeqMembers, LooseIs
<1> QED
  BY <1>1, TilesStay DEF Like

\* Giving a list of nodes other grids,
LEMMA PlacedTyped ==
  ASSUME NEW nodes \in Seq(LooseNodes), NEW cells, \A i \in DOMAIN nodes : cells[i] \in GridsFor(nodes[i])
  PROVE  WithGrids(nodes, cells) \in Seq(AnyTree) /\ Like(WithGrids(nodes, cells), nodes)
BY WithGridsTyped DEF Like

\* packing it,
LEMMA PackedTyped ==
  ASSUME NEW nodes \in Seq(LooseNodes), NEW spans \in Seq(Spans), Len(spans) = Len(nodes),
         \A i \in DOMAIN nodes : ~IsGroup(nodes[i]) => spans[i].rs \in 1..MaxRowSpan
  PROVE  PackedAs(nodes, spans) \in Seq(AnyTree) /\ Like(PackedAs(nodes, spans), nodes)
<1> DEFINE cells == PackedCells(spans)
           n == Len(nodes)
<1>1. n \in Nat /\ DOMAIN nodes = 1..n
  BY SeqMembers
<1>2. cells \in Seq(CellRecords) /\ Len(cells) = n
      /\ \A i \in 1..n : cells[i].cs = spans[i].cs /\ cells[i].rs = spans[i].rs
  BY PackIsApart
<1> HIDE DEF cells
<1>3. \A i \in 1..n : cells[i] \in GroupGrids
  BY <1>2, SeqMembers, CellTyped
<1>4. \A i \in DOMAIN nodes : cells[i] \in GridsFor(nodes[i])
  <2> TAKE i \in DOMAIN nodes
  <2>1. cells[i] \in GroupGrids /\ cells[i].rs = spans[i].rs
    BY <1>1, <1>2, <1>3
  <2>2. ~IsGroup(nodes[i]) => cells[i] \in TileGrids
    BY <2>1 DEF GroupGrids, TileGrids
  <2> QED
    BY <2>1, <2>2 DEF GridsFor
<1> QED
  BY <1>4, PlacedTyped DEF PackedAs, cells

\* or keeping what is apart: the same nodes, placed anew.
LEMMA KeptTyped ==
  ASSUME NEW may, NEW nodes \in Seq(LooseNodes), NEW cells, NEW packed \in Seq(AnyTree), Like(packed, nodes),
         may => \A i \in DOMAIN nodes : cells[i] \in GridsFor(nodes[i])
  PROVE  KeepIfApart(may, nodes, cells, packed) \in Seq(AnyTree) /\ Like(KeepIfApart(may, nodes, cells, packed), nodes)
<1>1. CASE may /\ ~AnyOverlap(cells)
  <2>1. WithGrids(nodes, cells) \in Seq(AnyTree) /\ Like(WithGrids(nodes, cells), nodes)
    BY <1>1, PlacedTyped
  <2>2. KeepIfApart(may, nodes, cells, packed) = WithGrids(nodes, cells)
    BY <1>1 DEF KeepIfApart
  <2> QED
    BY <2>1, <2>2
<1>2. CASE ~(may /\ ~AnyOverlap(cells))
  BY <1>2 DEF KeepIfApart
<1> QED
  BY <1>1, <1>2

\* A list of tiles as a list of loose nodes.
LEMMA LooseTileList ==
  ASSUME NEW tiles \in Seq(TileNodes)
  PROVE  /\ tiles \in Seq(LooseNodes) /\ tiles \in Seq(AnyTree)
         /\ \A i \in DOMAIN tiles : tiles[i] \in LooseTiles /\ tiles[i] \in TileNodes /\ ~IsGroup(tiles[i])
<1>1. TileNodes \subseteq LooseNodes /\ TileNodes \subseteq AnyTree
  BY LooseKinds
<1>2. tiles \in Seq(LooseNodes) /\ tiles \in Seq(AnyTree)
  BY <1>1, SeqGrows
<1> QED
  BY <1>2, SeqMembers, LooseKinds

\* The tiles of a group, packed to the grid.
LEMMA PackTilesToGridTyped ==
  ASSUME NEW tiles \in Seq(TileNodes)
  PROVE  PackTilesToGrid(tiles) \in Seq(AnyTree) /\ Like(PackTilesToGrid(tiles), tiles)
<1> DEFINE spans == [i \in DOMAIN tiles |-> [cs |-> Span(tiles[i]), rs |-> Tall(tiles[i])]]
<1>1. \A t \in TileNodes : IsTile(t)
  BY LooseIs
<1>2. spans \in Seq(Spans) /\ Len(spans) = Len(tiles)
  BY <1>1, SpansOfTiles
<1>3. \A i \in DOMAIN tiles : ~IsGroup(tiles[i]) => spans[i].rs \in 1..MaxRowSpan
  BY LooseTileList, ClampedTyped
<1> HIDE DEF spans
<1>4. PackedAs(tiles, spans) \in Seq(AnyTree) /\ Like(PackedAs(tiles, spans), tiles)
  BY <1>2, <1>3, LooseTileList, PackedTyped
<1> QED
  BY <1>4 DEF PackTilesToGrid, spans

\* The slots of a list, by position.
LEMMA SlotsTyped ==
  ASSUME NEW nodes \in Seq(LooseNodes), NEW G, \A i \in DOMAIN nodes : nodes[i].grid \in G
  PROVE  SlotOrigins(nodes) \in Seq(G) /\ Len(SlotOrigins(nodes)) = Len(nodes)
<1> DEFINE s == GridsOf(nodes)
<1>1. s = [i \in DOMAIN nodes |-> s[i]] /\ \A i \in DOMAIN nodes : s[i] \in G
  BY DEF GridsOf
<1> HIDE DEF s
<1>2. s \in Seq(G) /\ Len(s) = Len(nodes)
  BY <1>1, MappedIs
<1> DEFINE before == {p \in Range(s) \X Range(s) : ByPosition(p[1], p[2])}
<1>3. SlotOrigins(nodes) = SortedBy(s, before)
  BY DEF SlotOrigins, s
<1> HIDE DEF before
<1> QED
  BY <1>2, <1>3, SortedByIs

\* The tiles of a group in a new order: the same tiles.
LEMMA ReorderTilesTyped ==
  ASSUME NEW prev \in Seq(TileNodes), NEW tiles \in Seq(TileNodes), NEW wrap
  PROVE  ReorderTiles(prev, tiles, wrap) \in Seq(TileNodes) /\ Like(ReorderTiles(prev, tiles, wrap), tiles)
<1> DEFINE placed(i) == CompleteChild(prev[i].grid, wrap)
           kept(i) == IF placed(i)
                      THEN [tiles[i] EXCEPT !.grid =
                               [prev[i].grid EXCEPT !.cs = Span(tiles[i]), !.rs = Tall(tiles[i])]]
                      ELSE tiles[i]
           r == ReorderTiles(prev, tiles, wrap)
<1>1. /\ \A i \in DOMAIN tiles : tiles[i] \in LooseTiles /\ ~IsGroup(tiles[i])
      /\ \A i \in DOMAIN prev : prev[i].grid \in TileGrids \union {NoGrid}
      /\ DOMAIN prev = 1..Len(prev) /\ DOMAIN tiles = 1..Len(tiles)
  <2>1. \A i \in DOMAIN prev : prev[i] \in TileNodes
    BY LooseTileList
  <2> QED
    BY <2>1, LooseTileList, SeqMembers DEF TileNodes
<1>1a. \A i \in DOMAIN prev : placed(i) => prev[i].grid \in TileGrids
  BY <1>1 DEF CompleteChild, Complete, CompleteInStrip
<1>2. CASE SameOrder(tiles, prev)
  <2>1. DOMAIN tiles = DOMAIN prev
    BY <1>1, <1>2 DEF SameOrder
  <2>2. \A i \in DOMAIN tiles : kept(i) \in LooseTiles
    <3> TAKE i \in DOMAIN tiles
    <3>1. CASE placed(i)
      <4> DEFINE g == [prev[i].grid EXCEPT !.cs = Span(tiles[i]), !.rs = Tall(tiles[i])]
      <4>1. prev[i].grid \in TileGrids /\ Span(tiles[i]) \in 1..Cols /\ Tall(tiles[i]) \in 1..MaxRowSpan
        BY <1>1, <1>1a, <2>1, <3>1, ClampedTyped
      <4>2. g \in TileGrids
        BY <4>1 DEF TileGrids
      <4> HIDE DEF g
      <4>3. g \in GridRecords
        BY <4>2, CellTyped
      <4>4. kept(i) = [tiles[i] EXCEPT !.grid = g]
        BY <3>1 DEF g
      <4> QED
        BY <1>1, <4>3, <4>4, LooseIs
    <3>2. CASE ~placed(i)
      BY <1>1, <3>2
    <3> QED
      BY <3>1, <3>2
  <2> DEFINE cells == [i \in DOMAIN tiles |-> ClampedChild(kept(i), wrap)]
  <2>3. \A i \in DOMAIN tiles : cells[i] \in GridsFor(tiles[i])
    <3> TAKE i \in DOMAIN tiles
    <3>1. ClampedChild(kept(i), wrap) \in TileGrids
      BY <2>2, ClampedTyped
    <3> QED
      BY <1>1, <3>1 DEF GridsFor
  <2>4. r = WithGrids(tiles, cells)
    BY <1>2 DEF ReorderTiles, WithGrids
  <2> HIDE DEF cells, r
  <2>5. r \in Seq(AnyTree) /\ Like(r, tiles)
    BY <2>3, <2>4, LooseTileList, PlacedTyped
  <2> QED
    BY <2>5, LikeTiles DEF r
<1>3. CASE ~SameOrder(tiles, prev)
  <2> DEFINE may == Len(tiles) = Len(prev) /\ \A i \in DOMAIN prev : placed(i)
             slots == SlotOrigins(prev)
             cells == ClampedAt(tiles, slots, wrap)
             packed == PackTilesToGrid(tiles)
  <2>1. r = KeepIfApart(may, tiles, cells, packed)
    BY <1>3 DEF ReorderTiles
  <2>2. packed \in Seq(AnyTree) /\ Like(packed, tiles)
    BY PackTilesToGridTyped
  <2>3. ASSUME may PROVE \A i \in DOMAIN tiles : cells[i] \in GridsFor(tiles[i])
    <3>1. slots \in Seq(TileGrids) /\ Len(slots) = Len(prev)
      <4>1. \A i \in DOMAIN prev : prev[i].grid \in TileGrids
        BY <1>1a, <2>3
      <4> QED
        BY <4>1, LooseTileList, SlotsTyped
    <3> HIDE DEF slots
    <3>2. \A i \in DOMAIN tiles : slots[i] \in TileGrids
      BY <1>1, <2>3, <3>1, SeqMembers
    <3> TAKE i \in DOMAIN tiles
    <3> DEFINE g == Cell(slots[i].col, slots[i].row, Span(tiles[i]), Tall(tiles[i]))
    <3>3. g \in TileGrids
      <4>1. slots[i].col \in Nat /\ slots[i].row \in Nat
        BY <3>2, CellTyped
      <4>2. Span(tiles[i]) \in 1..Cols /\ Tall(tiles[i]) \in 1..MaxRowSpan
        BY <1>1, ClampedTyped
      <4> QED
        BY <4>1, <4>2, CellTyped
    <3>4. cells[i] = ClampedChild([tiles[i] EXCEPT !.grid = g], wrap)
      BY DEF ClampedAt
    <3> HIDE DEF g, cells
    <3>5. [tiles[i] EXCEPT !.grid = g] \in LooseTiles
      BY <1>1, <3>3, CellTyped, LooseIs
    <3>6. cells[i] \in TileGrids
      BY <3>4, <3>5, ClampedTyped
    <3> QED
      BY <1>1, <3>6 DEF GridsFor
  <2> HIDE DEF may, cells, packed, r
  <2>4. r \in Seq(AnyTree) /\ Like(r, tiles)
    BY <2>1, <2>2, <2>3, LooseTileList, KeptTyped
  <2> QED
    BY <2>4, LikeTiles DEF r
<1> QED
  BY <1>2, <1>3

\* A strip in its normal form.
LEMMA NormalizeStripTyped ==
  ASSUME NEW outer \in Int, NEW tiles \in Seq(TileNodes)
  PROVE  NormalizeStrip(outer, tiles) \in Seq(AnyTree)
<1> DEFINE may == \A i \in DOMAIN tiles : CompleteInStrip(tiles[i].grid)
           cells == [i \in DOMAIN tiles |-> ClampedChild(tiles[i], FALSE)]
           packed == PackStrip(outer, tiles)
           r == NormalizeStrip(outer, tiles)
<1>1. packed \in Seq(AnyTree)
  BY LooseTileList, PackStripTyped
<1>2. \A i \in DOMAIN tiles : cells[i] \in GridsFor(tiles[i])
  <2> TAKE i \in DOMAIN tiles
  <2>1. tiles[i] \in LooseTiles /\ ~IsGroup(tiles[i])
    BY LooseTileList
  <2>2. cells[i] \in TileGrids
    BY <2>1, ClampedTyped
  <2> QED
    BY <2>1, <2>2 DEF GridsFor
<1>3. r = (IF may /\ ~AnyOverlap(cells) THEN WithGrids(tiles, cells) ELSE packed)
  BY DEF NormalizeStrip, KeepIfApart
<1> HIDE DEF cells, packed, may, r
<1>4. WithGrids(tiles, cells) \in Seq(AnyTree)
  BY <1>2, LooseTileList, PlacedTyped
<1>5. r \in Seq(AnyTree)
  BY <1>1, <1>3, <1>4
<1> QED
  BY <1>5 DEF r

\* The columns of a group.
LEMMA OuterColsInt ==
  ASSUME NEW g \in AnyTree, IsGroup(g)
  PROVE  OuterCols(g) \in 1..Cols /\ OuterCols(g) \in Int
<1>1. g \in GroupNodes(AnyTree)
  BY NodeIs
<1>2. OuterCols(g) \in 1..Cols
  BY <1>1, OuterTyped
<1> QED
  BY <1>2

\* The children of a group, packed.
LEMMA PackKidsTyped ==
  ASSUME NEW g \in AnyTree, IsGroup(g), NEW kids \in Seq(AnyTree)
  PROVE  PackKids(g, kids) \in Seq(AnyTree)
<1> DEFINE r == PackKids(g, kids)
<1>1. CASE IsHost(g)
  <2>1. r = [i \in DOMAIN kids |-> ClearPaneGrid(kids[i])]
    BY <1>1 DEF PackKids
  <2>2. \A i \in DOMAIN kids : ClearPaneGrid(kids[i]) \in AnyTree
    <3> TAKE i \in DOMAIN kids
    <3>1. kids[i] \in AnyTree
      BY SeqMembers
    <3>2. NoGrid \in GridsFor(kids[i])
      BY DEF GridsFor
    <3>3. [kids[i] EXCEPT !.grid = NoGrid] \in AnyTree
      BY <3>1, <3>2, WithGrid
    <3> QED
      BY <3>1, <3>3 DEF ClearPaneGrid
  <2> HIDE DEF r
  <2>3. r = [i \in DOMAIN kids |-> r[i]] /\ \A i \in DOMAIN kids : r[i] \in AnyTree
    BY <2>1, <2>2
  <2>4. r \in Seq(AnyTree)
    BY <2>3, MappedIs
  <2> QED
    BY <2>4 DEF r
<1>2. CASE ~IsHost(g) /\ TilesOf(kids) = kids
  <2>1. r = NormalizeStrip(OuterCols(g), kids)
    BY <1>2 DEF PackKids
  <2>2. kids \in Seq(TileNodes)
    BY <1>2, KindsOf
  <2>3. NormalizeStrip(OuterCols(g), kids) \in Seq(AnyTree)
    BY <2>2, OuterColsInt, NormalizeStripTyped
  <2> QED
    BY <2>1, <2>3
<1>3. CASE ~IsHost(g) /\ TilesOf(kids) # kids
  <2>1. r = (IF \A i \in DOMAIN kids : CompleteInStrip(kids[i].grid) THEN kids ELSE PackStrip(OuterCols(g), kids))
    BY <1>3 DEF PackKids
  <2>2. PackStrip(OuterCols(g), kids) \in Seq(AnyTree)
    BY OuterColsInt, PackStripTyped
  <2> HIDE DEF r
  <2>3. r \in Seq(AnyTree)
    BY <2>1, <2>2
  <2> QED
    BY <2>3 DEF r
<1> QED
  BY <1>1, <1>2, <1>3

\* The tiles of a group, in rows that wrap.
LEMMA RowWrapOf ==
  ASSUME NEW g \in AnyTree, IsGroup(g), NEW kids \in Seq(AnyTree)
  PROVE  PackRowWrap(OuterCols(g), TilesOf(kids)) \in Seq(AnyTree)
<1>1. TilesOf(kids) \in Seq(TileNodes)
  BY KindsOf
<1>2. PackRowWrap(OuterCols(g), TilesOf(kids)) \in Seq(TileNodes)
  BY <1>1, OuterColsInt, PackRowWrapTyped
<1> QED
  BY <1>2, LooseTileList

-----------------------------------------------------------------------------
(* The normal form of groups.                                              *)

\* The normal form of a group, from the bottom up,
LEMMA PackGroupTyped ==
  ASSUME NEW group \in AnyTree, NEW mode
  PROVE  PackGroup(group, mode) \in AnyTree
<1> DEFINE S == Below(<<group>>)
           F(f) == [n \in S |-> CASE ~IsGroup(n) \/ (n.wrap /\ mode) -> n
                           [] IsGroup(n) /\ n.wrap /\ ~mode ->
                                 [n EXCEPT !.kids = PackRowWrap(OuterCols(n), TilesOf(@))]
                           [] OTHER -> [n EXCEPT !.kids = PackKids(n, Through(f, @))]]
           after == [n \in S |-> [v \in Seq(AnyTree) |-> IF ~IsGroup(n) \/ (n.wrap /\ mode) THEN n
                                     ELSE IF n.wrap THEN [n EXCEPT !.kids = PackRowWrap(OuterCols(n), TilesOf(@))]
                                     ELSE [n EXCEPT !.kids = PackKids(n, v)]]]
           sel == Every(S)
           f == CHOOSE g : g = F(g)
<1>0. <<group>> \in Seq(AnyTree) /\ Range(<<group>>) = {group}
  BY DEF Range
<1>1. S \subseteq AnyTree /\ Closed(S) /\ Range(<<group>>) \subseteq S
  BY <1>0, BelowIs
<1>2. Selects(S, sel) /\ \A n \in S : IsGroup(n) => sel[n] = n.kids
  BY <1>1, EverySelects
<1>2b. group \in S
  BY <1>0, <1>1
<1>3a. \A n \in S : IsGroup(n) =>
            /\ \A v \in Seq(AnyTree) : [n EXCEPT !.kids = PackKids(n, v)] \in AnyTree
            /\ [n EXCEPT !.kids = PackRowWrap(OuterCols(n), TilesOf(n.kids))] \in AnyTree
  <2> TAKE n \in S
  <2> HAVE IsGroup(n)
  <2>1. n \in AnyTree /\ n.kids \in Seq(AnyTree)
    BY <1>1, NodeIs
  <2>2. \A v \in Seq(AnyTree) : PackKids(n, v) \in Seq(AnyTree)
    BY <2>1, PackKidsTyped
  <2>3. PackRowWrap(OuterCols(n), TilesOf(n.kids)) \in Seq(AnyTree)
    BY <2>1, RowWrapOf
  <2> QED
    BY <2>1, <2>2, <2>3, WithKids
<1>3b. S \subseteq AnyTree
  BY <1>1
<1>3. after \in [S -> [Seq(AnyTree) -> AnyTree]]
  BY <1>3a, <1>3b
<1>4. \A g : \A n \in S : Through(g, sel[n]) \in Seq(AnyTree) => F(g)[n] = after[n][Through(g, sel[n])]
  BY <1>2
<1>5. PackGroup(group, mode) = f[group]
  BY DEF PackGroup
<1>6. \A g : F(g) = [n \in S |-> F(g)[n]]
  OBVIOUS
<1> HIDE DEF after, sel, F, S
<1>7. PICK g \in [S -> AnyTree] : Rebuilds(g, S, AnyTree, sel, after)
  BY <1>0, <1>2, <1>3, RebuildExists DEF S
<1>8. \A n \in S : g[n] = F(g)[n]
  <2>1. IsRebuilt(g, S, AnyTree, sel, after)
    BY <1>1, <1>2, <1>3, <1>7, RebuildTyped
  <2> QED
    BY <1>4, <2>1 DEF IsRebuilt
<1>9. g = F(g)
  BY <1>6, <1>7, <1>8
<1>10. f = F(f)
  BY <1>9
<1> HIDE DEF f
<1>11. Rebuilds(f, S, AnyTree, sel, after)
  BY <1>4, <1>6, <1>10 DEF Rebuilds
<1>12. IsRebuilt(f, S, AnyTree, sel, after)
  BY <1>1, <1>2, <1>3, <1>11, RebuildTyped
<1> QED
  BY <1>2b, <1>5, <1>12 DEF IsRebuilt

\* of the groups of the root,
LEMMA PackGroupsTyped ==
  ASSUME NEW items \in Seq(LooseNodes), NEW mode
  PROVE  /\ PackGroups(items, mode) \in Seq(LooseNodes) /\ Len(PackGroups(items, mode)) = Len(items)
         /\ items \in Seq(AnyTree) => PackGroups(items, mode) \in Seq(AnyTree)
<1> DEFINE r == PackGroups(items, mode)
<1>1. r = [i \in DOMAIN items |-> r[i]]
      /\ \A i \in DOMAIN items : r[i] = IF IsGroup(items[i]) THEN PackGroup(items[i], mode) ELSE items[i]
  BY DEF PackGroups
<1> HIDE DEF r
<1>2. \A i \in DOMAIN items : items[i] \in LooseNodes
  BY SeqMembers
<1>3. \A i \in DOMAIN items : IsGroup(items[i]) => r[i] \in AnyTree
  BY <1>1, <1>2, LooseKinds, PackGroupTyped
<1>4. \A i \in DOMAIN items : r[i] \in LooseNodes
  BY <1>1, <1>2, <1>3, LooseKinds
<1>5. r \in Seq(LooseNodes) /\ Len(r) = Len(items)
  BY <1>1, <1>4, MappedIs
<1>6. ASSUME items \in Seq(AnyTree) PROVE r \in Seq(AnyTree)
  <2>1. \A i \in DOMAIN items : items[i] \in AnyTree
    BY <1>6, SeqMembers
  <2>2. \A i \in DOMAIN items : r[i] \in AnyTree
    BY <1>1, <1>3, <2>1
  <2> QED
    BY <1>1, <1>6, <2>2, MappedIs
<1> QED
  BY <1>5, <1>6 DEF r

\* and the rows that wrap as the editor leaves them.
LEMMA CommitRowWrapsTyped ==
  ASSUME NEW items \in Seq(AnyTree)
  PROVE  CommitRowWraps(items) \in Seq(AnyTree)
<1> DEFINE S == Below(items)
           F(f) == [n \in S |-> CASE ~IsGroup(n) -> n
                           [] IsGroup(n) /\ n.wrap ->
                                 [n EXCEPT !.kids = PackRowWrap(OuterCols(n), TilesOf(Through(f, @)))]
                           [] OTHER -> [n EXCEPT !.kids = Through(f, @)]]
           after == [n \in S |-> [v \in Seq(AnyTree) |-> IF ~IsGroup(n) THEN n
                                     ELSE IF n.wrap THEN [n EXCEPT !.kids = PackRowWrap(OuterCols(n), TilesOf(v))]
                                     ELSE [n EXCEPT !.kids = v]]]
           sel == Every(S)
           f == CHOOSE g : g = F(g)
<1>1. S \subseteq AnyTree /\ Closed(S) /\ Range(items) \subseteq S
  BY BelowIs
<1>2. Selects(S, sel) /\ \A n \in S : IsGroup(n) => sel[n] = n.kids
  BY <1>1, EverySelects
<1>2b. items \in Seq(AnyTree) /\ Range(items) \subseteq S
  BY <1>1, SeqMembers
<1>3a. \A n \in S : IsGroup(n) => \A v \in Seq(AnyTree) :
            /\ [n EXCEPT !.kids = v] \in AnyTree
            /\ [n EXCEPT !.kids = PackRowWrap(OuterCols(n), TilesOf(v))] \in AnyTree
  <2> TAKE n \in S
  <2> HAVE IsGroup(n)
  <2> TAKE v \in Seq(AnyTree)
  <2>1. n \in AnyTree
    BY <1>1
  <2>2. PackRowWrap(OuterCols(n), TilesOf(v)) \in Seq(AnyTree)
    BY <2>1, RowWrapOf
  <2> QED
    BY <2>1, <2>2, WithKids
<1>3b. S \subseteq AnyTree
  BY <1>1
<1>3. after \in [S -> [Seq(AnyTree) -> AnyTree]]
  BY <1>3a, <1>3b
<1>4. \A g : \A n \in S : Through(g, sel[n]) \in Seq(AnyTree) => F(g)[n] = after[n][Through(g, sel[n])]
  BY <1>2
<1>5. CommitRowWraps(items) = Through(f, items)
  BY DEF CommitRowWraps
<1>6. \A g : F(g) = [n \in S |-> F(g)[n]]
  OBVIOUS
<1> HIDE DEF after, sel, F, S
<1>7. PICK g \in [S -> AnyTree] : Rebuilds(g, S, AnyTree, sel, after)
  BY <1>2, <1>3, RebuildExists DEF S
<1>8. \A n \in S : g[n] = F(g)[n]
  <2>1. IsRebuilt(g, S, AnyTree, sel, after)
    BY <1>1, <1>2, <1>3, <1>7, RebuildTyped
  <2> QED
    BY <1>4, <2>1 DEF IsRebuilt
<1>9. g = F(g)
  BY <1>6, <1>7, <1>8
<1>10. f = F(f)
  BY <1>9
<1> HIDE DEF f
<1>11. Rebuilds(f, S, AnyTree, sel, after)
  BY <1>4, <1>6, <1>10 DEF Rebuilds
<1>12. IsRebuilt(f, S, AnyTree, sel, after)
  BY <1>1, <1>2, <1>3, <1>11, RebuildTyped
<1> QED
  BY <1>1, <1>2b, <1>5, <1>12, ThroughIs DEF IsRebuilt

-----------------------------------------------------------------------------
(* The place of a new group, and the width of a child.                     *)

\* A new group gets a place to the right of what is there, or below it.
LEMMA PlaceForNewGroupTyped ==
  ASSUME NEW parent \in AnyTree, IsGroup(parent)
  PROVE  PlaceForNewGroup(parent) \in GroupGrids
<1> DEFINE kids == parent.kids
           m == Len(kids)
           cs == AtLeast(1, OuterCols(parent) \div 2)
           placed == {i \in DOMAIN kids : CompleteInStrip(kids[i].grid)}
           across == [i \in 1..m |-> IF i \in placed THEN kids[i].grid.col + kids[i].grid.cs ELSE 0]
           down == [i \in 1..m |-> IF i \in placed THEN kids[i].grid.row + kids[i].grid.rs ELSE 0]
           Across == {0} \union {kids[i].grid.col + kids[i].grid.cs : i \in placed}
           Down == {0} \union {kids[i].grid.row + kids[i].grid.rs : i \in placed}
<1>1. kids \in Seq(AnyTree) /\ m \in Nat /\ DOMAIN kids = 1..m /\ \A i \in 1..m : kids[i] \in AnyTree
  BY NodeIs, SeqMembers
<1>2. \A i \in placed : kids[i].grid \in GroupGrids
  <2> TAKE i \in placed
  <2>1. kids[i].grid # NoGrid /\ kids[i].grid \in GridsFor(kids[i])
    BY <1>1, NodeIs DEF CompleteInStrip
  <2> QED
    BY <2>1, CellTyped DEF GridsFor
<1>3. placed \subseteq 1..m
  BY <1>1
<1> HIDE DEF kids, m, placed
<1>4. \A i \in 1..m : across[i] \in Nat /\ down[i] \in Nat
  <2> TAKE i \in 1..m
  <2>1. CASE i \in placed
    <3>1. /\ kids[i].grid.col \in Nat /\ kids[i].grid.cs \in Nat
          /\ kids[i].grid.row \in Nat /\ kids[i].grid.rs \in Nat
      BY <1>2, <2>1, CellTyped
    <3>2. across[i] = kids[i].grid.col + kids[i].grid.cs /\ down[i] = kids[i].grid.row + kids[i].grid.rs
      BY <2>1
    <3> QED
      BY <3>1, <3>2
  <2>2. CASE i \notin placed
    BY <2>2
  <2> QED
    BY <2>1, <2>2
<1>5. Across = {0} \union {across[i] : i \in 1..m} /\ Down = {0} \union {down[i] : i \in 1..m}
  <2>1. \A x : x \in Across <=> x \in {0} \union {across[i] : i \in 1..m}
    BY <1>3
  <2>2. \A x : x \in Down <=> x \in {0} \union {down[i] : i \in 1..m}
    BY <1>3
  <2> HIDE DEF Across, Down
  <2> QED
    BY <2>1, <2>2
<1> HIDE DEF Across, Down, across, down
<1> DEFINE zero == 0
<1>6. Spanned(Across, zero, m, across) /\ Spanned(Down, zero, m, down) /\ zero \in Nat
  BY <1>4, <1>5 DEF Spanned
<1> HIDE DEF zero
<1>7. Max(Across) \in Nat /\ Max(Down) \in Nat
  BY <1>1, <1>6, MaxAbove
<1>8. cs \in 1..Cols
  <2>1. OuterCols(parent) \in 1..Cols /\ Cols \in Nat \ {0}
    BY OuterColsInt, GridAssumption
  <2> HIDE DEF OuterCols
  <2> QED
    BY <2>1 DEF AtLeast
<1> HIDE DEF cs
<1>9. PlaceForNewGroup(parent) = IF Max(Across) + cs <= Cols THEN Cell(Max(Across), 0, cs, 1) ELSE Cell(0, Max(Down), cs, 1)
  BY DEF PlaceForNewGroup, Across, Down, cs, placed, kids
<1>10. 0 \in Nat /\ 1 \in Nat \ {0}
  OBVIOUS
<1>11. Cell(Max(Across), 0, cs, 1) \in GroupGrids /\ Cell(0, Max(Down), cs, 1) \in GroupGrids
  BY <1>7, <1>8, <1>10, CellTyped
<1> HIDE DEF PlaceForNewGroup
<1> QED
  BY <1>9, <1>11

\* A child resized in its group.
LEMMA ResizeInGroupTyped ==
  ASSUME NEW items \in Seq(AnyTree), NEW gid, NEW tid \in TileIds(items), NEW cs \in Int
  PROVE  ResizeInGroup(items, gid, tid, cs) \in Seq(AnyTree)
<1> DEFINE tile == FindTile(items, tid)
           sized == [tile EXCEPT !.grid.cs = ClampSpan(cs)]
           resized == IF tile.grid = NoGrid THEN items ELSE ReplaceTile(items, tid, sized)
           group == FindGroup(resized, gid)
           packed == PackStrip(OuterCols(group), group.kids)
           r == ResizeInGroup(items, gid, tid, cs)
<1>1. tile \in TileNodes
  BY FoundTile
<1>2. tile.grid # NoGrid => sized \in AnyTree
  <2> SUFFICES ASSUME tile.grid # NoGrid PROVE sized \in AnyTree
    OBVIOUS
  <2> DEFINE g == [tile.grid EXCEPT !.cs = ClampSpan(cs)]
  <2>1. tile.grid \in TileGrids /\ ClampSpan(cs) \in 1..Cols
    BY <1>1, ClampsBound DEF TileNodes
  <2> HIDE DEF tile
  <2>2. g \in TileGrids
    BY <2>1 DEF TileGrids
  <2>3. sized = [tile EXCEPT !.grid = g]
    BY <1>1, <2>1 DEF TileNodes
  <2> HIDE DEF g, sized
  <2>4. tile \in LooseTiles
    BY <1>1, LooseIs
  <2>5. sized \in TileNodes
    BY <2>2, <2>3, <2>4, LooseIs
  <2> QED
    BY <2>5, TreeIs
<1> HIDE DEF sized, tile
<1>3. resized \in Seq(AnyTree)
  BY <1>2, ReplaceTileTyped
<1>4. r = CASE gid \notin GroupIds(items) -> items
            [] gid \in GroupIds(items) /\ gid \notin GroupIds(resized) -> resized
            [] OTHER -> ReplaceGroup(resized, gid, [group EXCEPT !.kids = packed])
  BY DEF ResizeInGroup, tile, sized
<1> HIDE DEF r, resized
<1>5. gid \in GroupIds(resized) => ReplaceGroup(resized, gid, [group EXCEPT !.kids = packed]) \in Seq(AnyTree)
  <2> SUFFICES ASSUME gid \in GroupIds(resized)
               PROVE  ReplaceGroup(resized, gid, [group EXCEPT !.kids = packed]) \in Seq(AnyTree)
    OBVIOUS
  <2>1. group \in AnyTree /\ IsGroup(group) /\ group.kids \in Seq(AnyTree)
    BY <1>3, FoundGroup
  <2> HIDE DEF group
  <2>2. packed \in Seq(AnyTree)
    BY <2>1, OuterColsInt, PackStripTyped
  <2> HIDE DEF packed
  <2>3. [group EXCEPT !.kids = packed] \in AnyTree
    BY <2>1, <2>2, WithKids
  <2> QED
    BY <1>3, <2>3, ReplaceGroupTyped
<1>6. r \in Seq(AnyTree)
  <2> HIDE DEF group, packed
  <2>1. CASE gid \notin GroupIds(items)
    BY <1>4, <2>1
  <2>2. CASE gid \in GroupIds(items) /\ gid \notin GroupIds(resized)
    BY <1>3, <1>4, <2>2
  <2>3. CASE gid \in GroupIds(items) /\ gid \in GroupIds(resized)
    BY <1>4, <1>5, <2>3
  <2> QED
    BY <2>1, <2>2, <2>3
<1> QED
  BY <1>6 DEF r

-----------------------------------------------------------------------------
(* The root.                                                               *)

\* The normal form of the root: every item has a place, and no two share a cell.
Apart(items) ==
  /\ items \in Seq(AnyTree)
  /\ \A i \in DOMAIN items : items[i].grid # NoGrid
  /\ ~AnyOverlap(GridsOf(items))

\* The grid of a loose node, and of a node.
LEMMA LooseGrid ==
  ASSUME NEW n \in LooseNodes
  PROVE  n.grid \in GridRecords \union {NoGrid} /\ (n.grid \in GridsFor(n) => n \in AnyTree)
<1>1. GroupGrids \subseteq GridRecords
  BY CellTyped
<1>2. CASE IsGroup(n)
  <2>1. n \in AnyTree
    BY <1>2, LooseKinds
  <2>2. n.grid \in GroupGrids \union {NoGrid}
    BY <1>2, <2>1, NodeIs DEF GridsFor
  <2> QED
    BY <1>1, <2>1, <2>2
<1>3. CASE ~IsGroup(n)
  <2>1. n \in LooseTiles
    BY <1>3, LooseKinds
  <2> QED
    BY <1>3, <2>1, LooseIs, LooseKinds DEF GridsFor
<1> QED
  BY <1>2, <1>3

LEMMA TypedGrid ==
  ASSUME NEW n \in AnyTree
  PROVE  /\ n.grid \in GroupGrids \union {NoGrid} /\ n.grid \in GridRecords \union {NoGrid}
         /\ n \in LooseNodes
         /\ n.grid # NoGrid => n.grid.col \in Nat /\ n.grid.row \in Nat /\ n.grid.cs \in 1..Cols /\ n.grid.rs \in Nat \ {0}
BY NodeIs, CellTyped, LooseKinds DEF GridsFor

\* What the theorems on packing ask of a list.
LEMMA LooseHaveGrids ==
  ASSUME NEW nodes \in Seq(LooseNodes)
  PROVE  HaveGrids(nodes)
<1>1. \A i \in DOMAIN nodes : nodes[i] \in LooseNodes
  BY SeqMembers
<1>2. \A n \in LooseNodes : n = [f \in DOMAIN n |-> n[f]] /\ "grid" \in DOMAIN n
  BY DEF LooseNodes, LooseTiles, GroupNodes
<1> QED
  BY <1>1, <1>2 DEF HaveGrids

SizesOf(nodes) == [i \in DOMAIN nodes |-> [cs |-> NodeCols(nodes[i]), rs |-> NodeRows(nodes[i])]]

\* The spans a list of nodes is packed with.
LEMMA SizesAre ==
  ASSUME NEW nodes \in Seq(LooseNodes)
  PROVE  /\ SizesOf(nodes) \in Seq(Spans) /\ Len(SizesOf(nodes)) = Len(nodes)
         /\ \A i \in DOMAIN nodes : ~IsGroup(nodes[i]) => SizesOf(nodes)[i].rs \in 1..MaxRowSpan
<1> DEFINE s == SizesOf(nodes)
<1>1. \A i \in DOMAIN nodes : nodes[i] \in LooseNodes
  BY SeqMembers
<1>2. \A i \in DOMAIN nodes : s[i] \in Spans /\ (~IsGroup(nodes[i]) => s[i].rs \in 1..MaxRowSpan)
  <2> TAKE i \in DOMAIN nodes
  <2>1. s[i] = [cs |-> NodeCols(nodes[i]), rs |-> NodeRows(nodes[i])]
    BY DEF SizesOf
  <2>2. /\ NodeCols(nodes[i]) \in 1..Cols /\ NodeRows(nodes[i]) \in Nat \ {0}
        /\ ~IsGroup(nodes[i]) => NodeRows(nodes[i]) \in 1..MaxRowSpan
    BY <1>1, SizesTyped
  <2> HIDE DEF s
  <2> QED
    BY <2>1, <2>2 DEF Spans
<1>3. s = [i \in DOMAIN nodes |-> s[i]]
  BY DEF SizesOf
<1> HIDE DEF s
<1>4. s \in Seq(Spans) /\ Len(s) = Len(nodes)
  BY <1>2, <1>3, MappedIs
<1> QED
  BY <1>2, <1>4 DEF s

\* A packed root is placed and apart,
LEMMA PackedApart ==
  ASSUME NEW inner \in Seq(LooseNodes)
  PROVE  Apart(Packed(inner)) /\ Like(Packed(inner), inner)
<1> DEFINE spans == SizesOf(inner)
           p == Packed(inner)
           n == Len(inner)
<1>1. p = PackedAs(inner, spans)
  BY DEF Packed, SizesOf
<1>2. spans \in Seq(Spans) /\ Len(spans) = n
      /\ \A i \in DOMAIN inner : ~IsGroup(inner[i]) => spans[i].rs \in 1..MaxRowSpan
  BY SizesAre
<1> HIDE DEF spans, p
<1>3. p \in Seq(AnyTree) /\ Like(p, inner)
  BY <1>1, <1>2, PackedTyped
<1>4. GridsOf(p) = PackedCells(spans)
  BY <1>1, <1>2, LooseHaveGrids, PackedAsCells
<1>5. PackedCells(spans) \in Seq(CellRecords) /\ Len(PackedCells(spans)) = n /\ ~AnyOverlap(PackedCells(spans))
  BY <1>2, PackIsApart
<1>6. \A i \in DOMAIN p : p[i].grid # NoGrid
  <2> TAKE i \in DOMAIN p
  <2>1. p[i].grid = GridsOf(p)[i]
    BY DEF GridsOf
  <2>2. DOMAIN p = 1..n /\ DOMAIN inner = 1..n
    BY <1>3, SeqMembers DEF Like
  <2>3. PackedCells(spans)[i] \in CellRecords
    BY <1>5, <2>2, SeqMembers
  <2> QED
    BY <1>4, <2>1, <2>3, CellTyped
<1> QED
  BY <1>3, <1>4, <1>5, <1>6 DEF Apart, p

\* with its groups packed first.
LEMMA PackRootApart ==
  ASSUME NEW items \in Seq(LooseNodes)
  PROVE  Apart(PackRoot(items)) /\ PackRoot(items) \in Seq(AnyTree) /\ Len(PackRoot(items)) = Len(items)
<1>1. PackGroups(items, FALSE) \in Seq(LooseNodes) /\ Len(PackGroups(items, FALSE)) = Len(items)
  BY PackGroupsTyped
<1>2. Apart(Packed(PackGroups(items, FALSE))) /\ Like(Packed(PackGroups(items, FALSE)), PackGroups(items, FALSE))
  BY <1>1, PackedApart
<1> QED
  BY <1>1, <1>2 DEF PackRoot, Apart, Like

\* A root item clamped at its place: a row may pass the last column.
LEMMA ClampedOuterTyped ==
  ASSUME NEW n \in LooseNodes, n.grid # NoGrid
  PROVE  ClampedOuter(n) \in GridsFor(n) /\ ClampedOuter(n) # NoGrid
<1> DEFINE col == AtLeast(0, n.grid.col)
           row == AtLeast(0, n.grid.row)
           cs == NodeCols(n)
           rs == NodeRows(n)
           c == IF rs = 1 /\ col + cs > Cols THEN col ELSE OriginCol(col, cs)
<1>1. n.grid.col \in Int /\ n.grid.row \in Int /\ Cols \in Nat
  BY LooseGrid, GridAssumption DEF GridRecords
<1>2. col \in Nat /\ row \in Nat
  BY <1>1 DEF AtLeast
<1>3. cs \in 1..Cols
  BY SizesTyped
<1>4. ClampedOuter(n) = Cell(c, row, cs, rs)
  BY DEF ClampedOuter
<1> HIDE DEF col, row, cs, rs
<1>5. OriginCol(col, cs) \in Nat
  BY <1>1, <1>2, <1>3 DEF OriginCol, AtLeast, AtMost
<1>6. c \in Nat
  BY <1>2, <1>5
<1> HIDE DEF c
<1>7. Cell(c, row, cs, rs) \in GridsFor(n)
  BY <1>2, <1>6, SizedCell DEF cs, rs
<1>8. rs \in Nat \ {0}
  BY SizesTyped DEF rs
<1>9. Cell(c, row, cs, rs) \in GroupGrids
  BY <1>2, <1>3, <1>6, <1>8, CellTyped
<1> QED
  BY <1>4, <1>7, <1>9, CellTyped

\* The root after an edit, kept or packed, is in its normal form.
LEMMA PlaceInnerApart ==
  ASSUME NEW items \in Seq(AnyTree), NEW inner \in Seq(AnyTree), NEW preserve
  PROVE  Apart(PlaceInner(items, inner, preserve))
<1> DEFINE may == preserve /\ \A i \in DOMAIN inner : Preservable(inner[i])
           cells == [i \in DOMAIN inner |-> ClampedOuter(inner[i])]
           r == PlaceInner(items, inner, preserve)
           w == WithGrids(inner, cells)
<1>1. r = IF may /\ ~AnyOverlap(cells) THEN w ELSE PackRoot(items)
  BY DEF PlaceInner, KeepIfApart
<1>2. CASE may /\ ~AnyOverlap(cells)
  <2>1. \A i \in DOMAIN inner : inner[i] \in LooseNodes /\ inner[i].grid # NoGrid
    BY <1>2, SeqMembers, LooseKinds DEF Preservable, OneRow
  <2>2. \A i \in DOMAIN inner : cells[i] \in GridsFor(inner[i]) /\ cells[i] # NoGrid
    <3> TAKE i \in DOMAIN inner
    <3>1. ClampedOuter(inner[i]) \in GridsFor(inner[i]) /\ ClampedOuter(inner[i]) # NoGrid
      BY <2>1, ClampedOuterTyped
    <3> QED
      BY <3>1
  <2>3. cells = [i \in DOMAIN inner |-> cells[i]]
    OBVIOUS
  <2>4. inner \in Seq(LooseNodes)
    BY LooseKinds, SeqGrows
  <2>5. r = w /\ ~AnyOverlap(cells)
    BY <1>1, <1>2
  <2> HIDE DEF cells, r, may
  <2>6. w \in Seq(AnyTree) /\ DOMAIN w = DOMAIN inner /\ \A i \in DOMAIN inner : w[i].grid = cells[i]
    BY <2>2, <2>4, WithGridsTyped
  <2>7. GridsOf(w) = cells
    BY <2>3, <2>4, LooseHaveGrids, GridsAreCells
  <2>8. Apart(w)
    BY <2>2, <2>5, <2>6, <2>7 DEF Apart
  <2> QED
    BY <2>5, <2>8 DEF r
<1>3. CASE ~(may /\ ~AnyOverlap(cells))
  <2>1. items \in Seq(LooseNodes)
    BY LooseKinds, SeqGrows
  <2>2. r = PackRoot(items)
    BY <1>1, <1>3
  <2> QED
    BY <2>1, <2>2, PackRootApart
<1> QED
  BY <1>2, <1>3

\* The placement of a layout, kept or packed anew, leaves every root item with a place and no two on
\* one another (layoutWithGrid), whatever is in the groups and however high they grow.
THEOREM PlacementIsApart ==
  ASSUME NEW items \in Seq(AnyTree), NEW preserve, NEW mode
  PROVE  Apart(PlaceItems(items, preserve, mode))
<1>1. items \in Seq(LooseNodes)
  BY LooseKinds, SeqGrows
<1>2. PackGroups(items, mode) \in Seq(AnyTree)
  BY <1>1, PackGroupsTyped
<1> QED
  BY <1>2, PlaceInnerApart DEF PlaceItems

-----------------------------------------------------------------------------
(* A new order on the root.                                                *)

\* An item where another was, at a place that fits it.
LEMMA InPlaceTyped ==
  ASSUME NEW r \in AnyTree, NEW p \in AnyTree, IsGroup(r) <=> IsGroup(p)
  PROVE  InPlace(r, p) \in GridsFor(r)
<1>0. Cols \in Nat \ {0}
  BY GridAssumption
<1>1. r \in LooseNodes /\ p \in LooseNodes /\ r.grid \in GridsFor(r)
  BY TypedGrid, NodeIs
<1>2. CASE Preservable(r)
  <2>1. r.grid # NoGrid
    BY <1>2 DEF Preservable, OneRow
  <2>2. ClampedOuter(r) \in GridsFor(r)
    BY <1>1, <2>1, ClampedOuterTyped
  <2> QED
    BY <1>2, <2>2 DEF InPlace
<1>3. CASE ~Preservable(r) /\ IsGroup(r)
  <2> DEFINE one == Cell(OriginCol(r.grid.col, OuterCols(r)), r.grid.row, OuterCols(r), NodeRows(r))
             two == Cell(p.grid.col, p.grid.row, OuterCols(r), NodeRows(r))
  <2>1. InPlace(r, p) = IF ~Complete(p.grid) THEN r.grid ELSE IF Complete(r.grid) THEN one ELSE two
    BY <1>3 DEF InPlace
  <2>2. OuterCols(r) = NodeCols(r) /\ NodeCols(r) \in 1..Cols
    BY <1>1, <1>3, SizesTyped DEF NodeCols
  <2> HIDE DEF OuterCols
  <2>3. Complete(r.grid) => one \in GridsFor(r)
    <3> SUFFICES ASSUME Complete(r.grid) PROVE one \in GridsFor(r)
      OBVIOUS
    <3>1. r.grid.col \in Nat /\ r.grid.row \in Nat
      BY TypedGrid DEF Complete
    <3>2. OriginCol(r.grid.col, OuterCols(r)) \in Nat
      BY <1>0, <2>2, <3>1 DEF OriginCol, AtLeast, AtMost
    <3> QED
      BY <1>1, <2>2, <3>1, <3>2, SizedCell
  <2>4. Complete(p.grid) => two \in GridsFor(r)
    <3> SUFFICES ASSUME Complete(p.grid) PROVE two \in GridsFor(r)
      OBVIOUS
    <3>1. p.grid.col \in Nat /\ p.grid.row \in Nat
      BY TypedGrid DEF Complete
    <3> QED
      BY <1>1, <2>2, <3>1, SizedCell
  <2> HIDE DEF one, two
  <2> QED
    BY <1>1, <2>1, <2>3, <2>4
<1>4. CASE ~Preservable(r) /\ ~IsGroup(r) /\ Complete(p.grid)
  <2> DEFINE from == IF Complete(r.grid) THEN r ELSE p
             g == [p.grid EXCEPT !.cs = Span(from), !.rs = Tall(from)]
  <2>1. InPlace(r, p) = ClampedTile([r EXCEPT !.grid = g])
    BY <1>4 DEF InPlace
  <2>2. r \in LooseTiles /\ p \in LooseTiles
    BY <1>4, LooseKinds
  <2>3. Span(from) \in 1..Cols /\ Tall(from) \in 1..MaxRowSpan
    BY <2>2, ClampedTyped
  <2>4. p.grid \in GroupGrids
    BY <1>4, TypedGrid DEF Complete
  <2>5. p.grid \in GridRecords
    BY <2>4, CellTyped
  <2> HIDE DEF from
  <2>5a. Span(from) \in Int /\ Tall(from) \in Int
    BY <2>3
  <2>6. g \in GridRecords
    BY <2>5, <2>5a DEF GridRecords
  <2> HIDE DEF g
  <2>7. [r EXCEPT !.grid = g] \in LooseTiles
    BY <2>2, <2>6, LooseIs
  <2>8. InPlace(r, p) \in TileGrids
    BY <2>1, <2>7, ClampedTyped
  <2> QED
    BY <1>4, <2>8 DEF GridsFor
<1>5. CASE ~Preservable(r) /\ ~IsGroup(r) /\ ~Complete(p.grid)
  <2>1. InPlace(r, p) = ClampedTile(r)
    BY <1>5 DEF InPlace
  <2>2. ClampedTile(r) \in TileGrids
    BY <1>5, LooseKinds, ClampedTyped
  <2> QED
    BY <1>5, <2>1, <2>2 DEF GridsFor
<1> QED
  BY <1>2, <1>3, <1>4, <1>5

\* The root in another order.
LEMMA ReorderRootTyped ==
  ASSUME NEW prev \in Seq(AnyTree), NEW items \in Seq(AnyTree)
  PROVE  ReorderRoot(prev, items) \in Seq(AnyTree)
<1> DEFINE r == ReorderRoot(prev, items)
<1>1. /\ \A i \in DOMAIN items : items[i] \in AnyTree /\ items[i] \in LooseNodes
      /\ \A i \in DOMAIN prev : prev[i] \in AnyTree
      /\ DOMAIN prev = 1..Len(prev) /\ DOMAIN items = 1..Len(items)
      /\ items \in Seq(LooseNodes) /\ prev \in Seq(LooseNodes)
  <2>1. items \in Seq(LooseNodes) /\ prev \in Seq(LooseNodes)
    BY LooseKinds, SeqGrows
  <2> QED
    BY <2>1, SeqMembers
<1>2. CASE SameOrder(items, prev)
  <2> DEFINE t(i) == IF items[i].kind = prev[i].kind
                     THEN [items[i] EXCEPT !.grid = InPlace(items[i], prev[i])] ELSE items[i]
  <2>1. r = [i \in DOMAIN items |-> t(i)]
    BY <1>2 DEF ReorderRoot
  <2>2. DOMAIN items = DOMAIN prev
    BY <1>1, <1>2 DEF SameOrder
  <2>3. \A i \in DOMAIN items : t(i) \in AnyTree
    <3> TAKE i \in DOMAIN items
    <3>1. CASE items[i].kind = prev[i].kind
      <4>1. items[i] \in AnyTree /\ prev[i] \in AnyTree /\ (IsGroup(items[i]) <=> IsGroup(prev[i]))
        BY <1>1, <2>2, <3>1 DEF IsGroup
      <4>2. InPlace(items[i], prev[i]) \in GridsFor(items[i])
        BY <4>1, InPlaceTyped
      <4> QED
        BY <3>1, <4>1, <4>2, WithGrid
    <3>2. CASE items[i].kind # prev[i].kind
      BY <1>1, <3>2
    <3> QED
      BY <3>1, <3>2
  <2> HIDE DEF t, r
  <2>4. r = [i \in DOMAIN items |-> r[i]] /\ \A i \in DOMAIN items : r[i] \in AnyTree
    BY <2>1, <2>3
  <2>5. r \in Seq(AnyTree)
    BY <2>4, MappedIs
  <2> QED
    BY <2>5 DEF r
<1>3. CASE ~SameOrder(items, prev)
  <2> DEFINE may == Len(items) = Len(prev) /\ \A i \in DOMAIN prev : Complete(prev[i].grid)
             slots == SlotOrigins(prev)
             cells == Slotted(items, slots)
             packed == PackRoot(items)
             w == WithGrids(items, cells)
  <2>1. r = IF may /\ ~AnyOverlap(cells) THEN w ELSE packed
    BY <1>3 DEF ReorderRoot, KeepIfApart
  <2>2. packed \in Seq(AnyTree)
    BY <1>1, PackRootApart
  <2>3. ASSUME may PROVE w \in Seq(AnyTree)
    <3>1. \A i \in DOMAIN prev : prev[i].grid \in GroupGrids
      BY <1>1, <2>3, TypedGrid DEF Complete
    <3>2. slots \in Seq(GroupGrids) /\ Len(slots) = Len(prev)
      BY <1>1, <3>1, SlotsTyped
    <3> HIDE DEF slots
    <3>3. \A i \in DOMAIN items : slots[i] \in GroupGrids
      BY <1>1, <2>3, <3>2, SeqMembers
    <3>4. \A i \in DOMAIN items : cells[i] \in GridsFor(items[i])
      <4> TAKE i \in DOMAIN items
      <4> DEFINE g == Cell(slots[i].col, slots[i].row, NodeCols(items[i]), NodeRows(items[i]))
                 n == [items[i] EXCEPT !.grid = g]
      <4>1. cells[i] = ClampedOuter(n)
        BY DEF Slotted
      <4>2. slots[i].col \in Nat /\ slots[i].row \in Nat /\ items[i] \in AnyTree /\ items[i] \in LooseNodes
        BY <1>1, <3>3, CellTyped
      <4>3. g \in GridsFor(items[i])
        BY <4>2, SizedCell
      <4>4. g # NoGrid
        <5>1. NodeCols(items[i]) \in 1..Cols /\ NodeRows(items[i]) \in Nat \ {0}
          BY <4>2, SizesTyped
        <5> QED
          BY <4>2, <5>1, CellTyped
      <4> HIDE DEF g, cells
      <4>5. n \in AnyTree /\ (IsGroup(n) <=> IsGroup(items[i])) /\ n.grid = g
        BY <4>2, <4>3, WithGrid
      <4> HIDE DEF n
      <4>6. ClampedOuter(n) \in GridsFor(n)
        BY <4>4, <4>5, LooseKinds, ClampedOuterTyped
      <4> QED
        BY <4>1, <4>5, <4>6 DEF GridsFor
    <3> HIDE DEF cells
    <3> QED
      BY <1>1, <3>4, PlacedTyped
  <2> HIDE DEF may, cells, packed, w, r
  <2>4. r \in Seq(AnyTree)
    BY <2>1, <2>2, <2>3
  <2> QED
    BY <2>4 DEF r
<1> QED
  BY <1>2, <1>3

-----------------------------------------------------------------------------
(* Moves on the root.                                                      *)

NodeSet(W) == W = AnyTree \/ W = LooseNodes

\* Nodes that are placed, and nodes on the way to their place.
LEMMA NodeSets ==
  ASSUME NEW W, NodeSet(W)
  PROVE  W \subseteq LooseNodes
BY LooseKinds DEF NodeSet

\* A grid that fits any node fits a node of either set.
LEMMA GridInto ==
  ASSUME NEW W, NodeSet(W), NEW n \in W, NEW g,
         IF IsGroup(n) THEN g \in GroupGrids ELSE g \in GridRecords /\ (g.rs \in 1..MaxRowSpan \/ W = LooseNodes),
         ~IsGroup(n) => g \in GroupGrids \/ W = LooseNodes
  PROVE  [n EXCEPT !.grid = g] \in W
<1>1. n \in LooseNodes
  BY NodeSets
<1>2. CASE IsGroup(n)
  <2>1. n \in AnyTree /\ g \in GridsFor(n)
    BY <1>1, <1>2, LooseKinds DEF GridsFor
  <2>2. [n EXCEPT !.grid = g] \in AnyTree
    BY <2>1, WithGrid
  <2> QED
    BY <2>2, LooseKinds DEF NodeSet
<1>3. CASE ~IsGroup(n) /\ W = LooseNodes
  <2>1. n \in LooseTiles /\ g \in GridRecords
    BY <1>1, <1>3, LooseKinds
  <2>2. [n EXCEPT !.grid = g] \in LooseTiles
    BY <2>1, LooseIs
  <2> QED
    BY <1>3, <2>2 DEF LooseNodes
<1>4. CASE ~IsGroup(n) /\ W # LooseNodes
  <2>1. W = AnyTree /\ n \in AnyTree
    BY <1>4 DEF NodeSet
  <2>2. g \in GroupGrids /\ g.rs \in 1..MaxRowSpan
    BY <1>4
  <2>3. g \in TileGrids
    BY <2>2 DEF GroupGrids, TileGrids
  <2>4. g \in GridsFor(n)
    BY <1>4, <2>3 DEF GridsFor
  <2> QED
    BY <2>1, <2>4, WithGrid
<1> QED
  BY <1>2, <1>3, <1>4

\* A node moved to a column of a row.
LEMMA ReflowedTyped ==
  ASSUME NEW W, NodeSet(W), NEW n \in W, NEW col \in Int, NEW cs \in Int, NEW row,
         row \in Nat \/ (W = LooseNodes /\ row \in Int /\ ~IsGroup(n))
  PROVE  ReflowedAt(n, col, cs, row) \in W /\ ReflowedAt(n, col, cs, row).id = n.id
<1> DEFINE c == AtLeast(0, col)
           w == ClampSpan(cs)
           rs == IF n.grid = NoGrid THEN 1 ELSE n.grid.rs
           g == Cell(c, row, w, rs)
<1>0. MaxRowSpan \in Nat \ {0} /\ Cols \in Nat \ {0}
  BY GridAssumption
<1>1. ReflowedAt(n, col, cs, row) = [n EXCEPT !.grid = g]
  BY DEF ReflowedAt
<1>2. c \in Nat /\ w \in 1..Cols
  BY ClampsBound DEF AtLeast
<1>3. n \in LooseNodes
  BY NodeSets
<1>4. IsGroup(n) => rs \in Nat \ {0}
  <2> SUFFICES ASSUME IsGroup(n) PROVE rs \in Nat \ {0}
    OBVIOUS
  <2>1. n \in AnyTree
    BY <1>3, LooseKinds
  <2> QED
    BY <2>1, TypedGrid
<1>5. ~IsGroup(n) => rs \in Int
  <2> SUFFICES ASSUME ~IsGroup(n), n.grid # NoGrid PROVE n.grid.rs \in Int
    OBVIOUS
  <2> QED
    BY <1>3, LooseGrid DEF GridRecords
<1>6. ~IsGroup(n) /\ W # LooseNodes => rs \in 1..MaxRowSpan
  <2> SUFFICES ASSUME ~IsGroup(n), W # LooseNodes PROVE rs \in 1..MaxRowSpan
    OBVIOUS
  <2>1. n \in TileNodes
    BY NodeIs DEF NodeSet
  <2>2. n.grid # NoGrid => n.grid.rs \in 1..MaxRowSpan
    BY <2>1, CellTyped DEF TileNodes
  <2> QED
    BY <1>0, <2>2
<1> HIDE DEF c, w, rs
<1>7. IsGroup(n) => g \in GroupGrids
  <2> SUFFICES ASSUME IsGroup(n) PROVE g \in GroupGrids
    OBVIOUS
  <2>1. row \in Nat /\ rs \in Nat \ {0}
    BY <1>4
  <2> QED
    BY <1>2, <2>1, CellTyped
<1>8. ~IsGroup(n) => g \in GridRecords /\ g.rs = rs
  <2> SUFFICES ASSUME ~IsGroup(n) PROVE g \in GridRecords /\ g.rs = rs
    OBVIOUS
  <2>1. c \in Int /\ row \in Int /\ w \in Int /\ rs \in Int
    BY <1>2, <1>5
  <2> QED
    BY <2>1 DEF Cell, GridRecords
<1>9. ~IsGroup(n) /\ W # LooseNodes => g \in GroupGrids /\ g.rs \in 1..MaxRowSpan
  <2> SUFFICES ASSUME ~IsGroup(n), W # LooseNodes PROVE g \in GroupGrids /\ g.rs \in 1..MaxRowSpan
    OBVIOUS
  <2>1. row \in Nat /\ rs \in 1..MaxRowSpan
    BY <1>6
  <2>2. g \in TileGrids
    BY <1>2, <2>1, CellTyped
  <2> QED
    BY <2>2, CellTyped
<1> HIDE DEF g
<1>10. [n EXCEPT !.grid = g] \in W
  BY <1>7, <1>8, <1>9, GridInto
<1>11. [n EXCEPT !.grid = g].id = n.id
  BY <1>3 DEF LooseNodes, LooseTiles, GroupNodes
<1> QED
  BY <1>1, <1>10, <1>11

\* The items of a row, one after the other.
LEMMA ReflowTyped ==
  ASSUME NEW W, NodeSet(W), NEW items \in Seq(W), NEW order \in Seq(1..Len(items)), NEW row \in Nat
  PROVE  Reflow(items, order, row) \in Seq(W)
<1> DEFINE n == Len(order)
           V == [col : Int, items : {s \in Seq(W) : Len(s) = Len(items)}]
           zero == [col |-> 0, items |-> items]
           step == [k \in Nat |-> [t \in V |-> IF k \in 1..n THEN ReflowNext(t, order[k], row) ELSE t]]
           F(f) == [k \in 0..n |-> IF k = 0 THEN zero ELSE ReflowNext(f[k - 1], order[k], row)]
<1>1. n \in Nat /\ (\A k \in 1..n : order[k] \in 1..Len(items)) /\ Len(items) \in Nat
  BY SeqMembers
<1> HIDE DEF n
<1>2. \A k \in 1..n : \A t \in V : ReflowNext(t, order[k], row) \in V
  <2> TAKE k \in 1..n
  <2> TAKE t \in V
  <2> DEFINE i == order[k]
             s == t.items
             e == ReflowedAt(s[i], t.col, NodeCols(s[i]), row)
             u == [s EXCEPT ![i] = e]
  <2>1. s \in Seq(W) /\ Len(s) = Len(items) /\ t.col \in Int /\ DOMAIN s = 1..Len(items) /\ i \in DOMAIN s
    BY <1>1, SeqMembers
  <2>2. s[i] \in W /\ s[i] \in LooseNodes
    BY <2>1, SeqMembers, NodeSets
  <2>3. NodeCols(s[i]) \in Int
    BY <2>2, SizesTyped
  <2>4. ReflowNext(t, i, row) = [col |-> t.col + NodeCols(s[i]), items |-> u]
    BY DEF ReflowNext
  <2> HIDE DEF s, i
  <2>5. e \in W
    BY <2>1, <2>2, <2>3, ReflowedTyped
  <2> HIDE DEF e
  <2>6. u \in Seq(W) /\ Len(u) = Len(items)
    BY <2>1, <2>5, ExceptSeq
  <2> HIDE DEF u
  <2>7. t.col + NodeCols(s[i]) \in Int
    BY <2>1, <2>3
  <2> QED
    BY <2>4, <2>6, <2>7 DEF i
<1>4. zero \in V
  OBVIOUS
<1> HIDE DEF V, zero
<1>5. step \in [Nat -> [V -> V]]
  BY <1>2
<1>6. \A k \in 1..n : \A t \in V : step[k][t] = ReflowNext(t, order[k], row)
  BY <1>1
<1> HIDE DEF step
<1>7. PICK g : Runs(V, zero, step, n, g)
  BY <1>1, <1>4, <1>5, RunsExist
<1>8. g = [k \in 0..n |-> g[k]] /\ g[0] = zero /\ \A k \in 1..n : g[k - 1] \in V /\ g[k] = step[k][g[k - 1]]
  BY <1>1, <1>7 DEF Runs
<1>0. \A k \in 0..n : k = 0 \/ (k # 0 /\ k \in 1..n)
  BY <1>1
<1>9. \A k \in 0..n : g[k] = IF k = 0 THEN zero ELSE ReflowNext(g[k - 1], order[k], row)
  <2> TAKE k \in 0..n
  <2>1. CASE k = 0
    BY <1>8, <2>1
  <2>2. CASE k # 0 /\ k \in 1..n
    BY <1>6, <1>8, <2>2
  <2> QED
    BY <1>0, <2>1, <2>2
<1>10. g = F(g)
  BY <1>8, <1>9, Zenon
<1> DEFINE f == CHOOSE h : h = F(h)
<1>11. f = F(f)
  BY <1>10
<1>12. Reflow(items, order, row) = f[n].items
  BY DEF Reflow, n, zero
<1> HIDE DEF f
<1>13. f[0] = zero /\ \A k \in 1..n : f[k] = ReflowNext(f[k - 1], order[k], row)
  <2>1. 0 \in 0..n /\ \A k \in 1..n : k \in 0..n /\ k # 0
    BY <1>1
  <2> QED
    BY <1>11, <2>1
<1>14. \A k \in 0..n : f[k] \in V
  <2>1. \A k \in 1..n : f[k - 1] \in V => f[k] = step[k][f[k - 1]]
    BY <1>6, <1>13
  <2> QED
    BY <1>1, <1>4, <1>5, <1>13, <2>1, RunValues
<1>15. f[n] \in V
  BY <1>1, <1>14
<1> QED
  BY <1>12, <1>15 DEF V

\* The items of a row are items.
LEMMA RowMatesTyped ==
  ASSUME NEW W, NEW items \in Seq(W), NEW row
  PROVE  RowMates(items, row) \in Seq(1..Len(items))
<1> DEFINE s == [i \in DOMAIN items |-> i]
<1>1. DOMAIN items = 1..Len(items)
  BY SeqMembers
<1>2. s = [i \in DOMAIN items |-> s[i]] /\ \A i \in DOMAIN items : s[i] \in 1..Len(items)
  BY <1>1
<1> HIDE DEF s
<1>3. s \in Seq(1..Len(items))
  BY <1>2, MappedIs
<1>4. RowMates(items, row) = Picked(s, {i \in DOMAIN items : OneRow(items[i]) /\ items[i].grid.row = row})
  BY DEF RowMates, s
<1> DEFINE S == 1..Len(items)
           keep == {i \in DOMAIN items : OneRow(items[i]) /\ items[i].grid.row = row}
<1> HIDE DEF S, keep
<1>5. s \in Seq(S)
  BY <1>3 DEF S
<1>6. Picked(s, keep) \in Seq(S)
  BY <1>5, PickedIs
<1> QED
  BY <1>4, <1>6 DEF S, keep

\* A row closed up, in the order of the columns or of the list.
LEMMA ReflowRowsTyped ==
  ASSUME NEW W, NodeSet(W), NEW items \in Seq(W), NEW row \in Nat
  PROVE  ReflowRow(items, row) \in Seq(W) /\ ReflowRowInListOrder(items, row) \in Seq(W)
<1> DEFINE mates == RowMates(items, row)
           S == 1..Len(items)
           before == {p \in Range(mates) \X Range(mates) : items[p[1]].grid.col < items[p[2]].grid.col}
           sorted == SortedBy(mates, before)
<1>1. mates \in Seq(S)
  BY RowMatesTyped
<1>2. ReflowRow(items, row) = Reflow(items, sorted, row) /\ ReflowRowInListOrder(items, row) = Reflow(items, mates, row)
  BY DEF ReflowRow, ReflowRowInListOrder
<1> HIDE DEF mates, before, S
<1>3. sorted \in Seq(S)
  BY <1>1, SortedByIs
<1> HIDE DEF sorted
<1>4. mates \in Seq(1..Len(items)) /\ sorted \in Seq(1..Len(items))
  BY <1>1, <1>3 DEF S
<1> QED
  BY <1>2, <1>4, ReflowTyped

\* An item moved to another row.
LEMMA RelocateTyped ==
  ASSUME NEW items \in Seq(AnyTree), NEW id, NEW row \in Nat
  PROVE  RelocateToRow(items, id, row) \in Seq(AnyTree)
<1> DEFINE r == RelocateToRow(items, id, row)
<1>1. r = [i \in DOMAIN items |-> r[i]] /\ \A i \in DOMAIN items : r[i] =
        CASE items[i].id = id /\ OneRow(items[i]) ->
                ReflowedAt(items[i], items[i].grid.col, NodeCols(items[i]), row)
          [] items[i].id = id /\ items[i].grid # NoGrid /\ ~OneRow(items[i]) ->
                [items[i] EXCEPT !.grid.row = row]
          [] OTHER -> items[i]
  BY DEF RelocateToRow
<1> HIDE DEF r
<1>2. ASSUME NEW i \in DOMAIN items PROVE r[i] \in AnyTree
  <2> DEFINE n == items[i]
  <2>1. n \in AnyTree /\ n \in LooseNodes
    BY SeqMembers, LooseKinds
  <2>2. CASE n.id = id /\ OneRow(n)
    <3>1. r[i] = ReflowedAt(n, n.grid.col, NodeCols(n), row)
      BY <1>1, <2>2
    <3>2. n.grid.col \in Int /\ NodeCols(n) \in Int
      BY <2>1, <2>2, TypedGrid, SizesTyped DEF OneRow
    <3>3. NodeSet(AnyTree)
      BY DEF NodeSet
    <3> HIDE DEF n
    <3> QED
      BY <2>1, <3>1, <3>2, <3>3, ReflowedTyped
  <2>3. CASE n.id = id /\ n.grid # NoGrid /\ ~OneRow(n)
    <3> DEFINE g == [n.grid EXCEPT !.row = row]
    <3>1. r[i] = [n EXCEPT !.grid.row = row]
      BY <1>1, <2>3
    <3>2. n.grid \in GridsFor(n)
      BY <2>1, NodeIs
    <3>3. g \in GridsFor(n)
      <4>1. CASE IsGroup(n)
        <5>1. n.grid \in GroupGrids
          BY <2>3, <3>2, <4>1 DEF GridsFor
        <5>2. g \in GroupGrids
          BY <5>1 DEF GroupGrids
        <5> QED
          BY <4>1, <5>2 DEF GridsFor
      <4>2. CASE ~IsGroup(n)
        <5>1. n.grid \in TileGrids
          BY <2>3, <3>2, <4>2 DEF GridsFor
        <5>2. g \in TileGrids
          BY <5>1 DEF TileGrids
        <5> QED
          BY <4>2, <5>2 DEF GridsFor
      <4> QED
        BY <4>1, <4>2
    <3>4. r[i] = [n EXCEPT !.grid = g]
      BY <3>1
    <3> HIDE DEF n, g
    <3> QED
      BY <2>1, <3>3, <3>4, WithGrid
  <2>4. CASE ~(n.id = id /\ OneRow(n)) /\ ~(n.id = id /\ n.grid # NoGrid /\ ~OneRow(n))
    <3>1. r[i] = n
      BY <1>1, <2>4
    <3> QED
      BY <2>1, <3>1
  <2> QED
    BY <2>2, <2>3, <2>4
<1>3. r \in Seq(AnyTree)
  BY <1>1, <1>2, MappedIs
<1> QED
  BY <1>3 DEF r

\* The root item of an id that is there.
LEMMA FoundItem ==
  ASSUME NEW items \in Seq(AnyTree), NEW id, Has(items, id)
  PROVE  /\ items[IndexOf(items, id)] \in AnyTree /\ items[IndexOf(items, id)] \in LooseNodes
         /\ items[IndexOf(items, id)].id = id /\ IndexOf(items, id) \in DOMAIN items
<1>1. IndexOf(items, id) # 0 /\ DOMAIN items = 1..Len(items)
  BY IndexOfIs, SeqMembers
<1> QED
  BY <1>1, IndexOfIs, LooseKinds

\* Two items exchange places, whole ones
LEMMA SwapSlotsTyped ==
  ASSUME NEW items \in Seq(AnyTree), NEW a, NEW b
  PROVE  SwapSlots(items, a, b) \in Seq(LooseNodes)
<1> DEFINE x == items[IndexOf(items, a)].grid
           y == items[IndexOf(items, b)].grid
           r == SwapSlots(items, a, b)
<1>1. items \in Seq(LooseNodes)
  BY LooseKinds, SeqGrows
<1>2. CASE ~Has(items, a) \/ ~Has(items, b) \/ NoGrid \in {x, y}
  <2>1. r = items
    BY <1>2 DEF SwapSlots
  <2> QED
    BY <1>1, <2>1
<1>3. CASE Has(items, a) /\ Has(items, b) /\ NoGrid \notin {x, y}
  <2>1. x \in GroupGrids /\ y \in GroupGrids
    BY <1>3, FoundItem, TypedGrid
  <2>2. r = [i \in DOMAIN items |-> r[i]] /\ \A i \in DOMAIN items : r[i] =
                 CASE items[i].id = a -> [items[i] EXCEPT !.grid = y]
                   [] items[i].id = b -> [items[i] EXCEPT !.grid = x]
                   [] OTHER -> items[i]
    BY <1>3 DEF SwapSlots
  <2> HIDE DEF x, y, r
  <2>3. ASSUME NEW i \in DOMAIN items PROVE r[i] \in LooseNodes
    <3> DEFINE n == items[i]
    <3>1. n \in LooseNodes
      BY <1>1, SeqMembers
    <3>2. \A g \in GroupGrids : [n EXCEPT !.grid = g] \in LooseNodes
      <4> TAKE g \in GroupGrids
      <4> DEFINE W == LooseNodes
      <4>1. NodeSet(W) /\ g \in GridRecords /\ W = LooseNodes /\ n \in W
        BY <3>1, CellTyped DEF NodeSet
      <4> HIDE DEF W, n
      <4>2. [n EXCEPT !.grid = g] \in W
        BY <4>1, GridInto
      <4> QED
        BY <4>2 DEF W
    <3>3. r[i] = [n EXCEPT !.grid = y] \/ r[i] = [n EXCEPT !.grid = x] \/ r[i] = n
      BY <2>2
    <3> HIDE DEF n
    <3> QED
      BY <2>1, <3>1, <3>2, <3>3
  <2>4. r \in Seq(LooseNodes)
    BY <2>2, <2>3, MappedIs
  <2> QED
    BY <2>4 DEF r
<1> QED
  BY <1>2, <1>3

\* or of one row each.
LEMMA SwapTilesTyped ==
  ASSUME NEW items \in Seq(AnyTree), NEW a, NEW b
  PROVE  SwapTiles(items, a, b) \in Seq(AnyTree)
<1> DEFINE x == items[IndexOf(items, a)]
           y == items[IndexOf(items, b)]
           at(n, g) == ReflowedAt(n, g.col, NodeCols(n), g.row)
           r == SwapTiles(items, a, b)
<1>2. CASE ~Has(items, a) \/ ~Has(items, b) \/ ~OneRow(x) \/ ~OneRow(y)
  <2>1. r = items
    BY <1>2 DEF SwapTiles
  <2> QED
    BY <2>1
<1>3. CASE Has(items, a) /\ Has(items, b) /\ OneRow(x) /\ OneRow(y)
  <2>1. x.grid \in GroupGrids /\ y.grid \in GroupGrids
    BY <1>3, FoundItem, TypedGrid DEF OneRow
  <2>2. r = [i \in DOMAIN items |-> r[i]] /\ \A i \in DOMAIN items : r[i] =
                 CASE items[i].id = a -> at(items[i], y.grid)
                   [] items[i].id = b -> at(items[i], x.grid)
                   [] OTHER -> items[i]
    BY <1>3 DEF SwapTiles
  <2> HIDE DEF x, y, r, at
  <2>3. ASSUME NEW i \in DOMAIN items PROVE r[i] \in AnyTree
    <3> DEFINE n == items[i]
    <3>1. n \in AnyTree
      BY SeqMembers
    <3>2. \A g \in GroupGrids : at(n, g) \in AnyTree
      <4> TAKE g \in GroupGrids
      <4>0. n \in LooseNodes
        BY <3>1, LooseKinds
      <4>0a. NodeCols(n) \in 1..Cols
        BY <4>0, SizesTyped
      <4>0b. g.col \in Nat /\ g.row \in Nat
        BY CellTyped
      <4>1. g.col \in Int /\ g.row \in Nat /\ NodeCols(n) \in Int
        BY <4>0a, <4>0b
      <4>2. NodeSet(AnyTree)
        BY DEF NodeSet
      <4> HIDE DEF n
      <4>3. ReflowedAt(n, g.col, NodeCols(n), g.row) \in AnyTree
        BY <3>1, <4>1, <4>2, ReflowedTyped
      <4> QED
        BY <4>3 DEF at
    <3>3. r[i] = at(n, y.grid) \/ r[i] = at(n, x.grid) \/ r[i] = n
      BY <2>2
    <3> HIDE DEF n
    <3> QED
      BY <2>1, <3>1, <3>2, <3>3
  <2>4. r \in Seq(AnyTree)
    BY <2>2, <2>3, MappedIs
  <2> QED
    BY <2>4 DEF r
<1> QED
  BY <1>2, <1>3

\* One member of a list replaced, or none.
LEMMA ExceptTyped ==
  ASSUME NEW S, NEW s \in Seq(S), NEW k, NEW e, k \in DOMAIN s => e \in S
  PROVE  [s EXCEPT ![k] = e] \in Seq(S)
<1> DEFINE t == [s EXCEPT ![k] = e]
<1>1. s = [i \in 1..Len(s) |-> s[i]] /\ Len(s) \in Nat /\ DOMAIN s = 1..Len(s) /\ \A i \in DOMAIN s : s[i] \in S
  BY SeqMembers
<1>2. t = [i \in DOMAIN s |-> IF i = k THEN e ELSE s[i]]
  OBVIOUS
<1> HIDE DEF t
<1>3. t = [i \in DOMAIN s |-> t[i]] /\ \A i \in DOMAIN s : t[i] \in S
  BY <1>1, <1>2
<1>4. t \in Seq(S)
  BY <1>3, MappedIs
<1> QED
  BY <1>4 DEF t

\* A drop in the gap after an item.
LEMMA DropAfterTyped ==
  ASSUME NEW prev \in Seq(AnyTree), NEW items \in Seq(AnyTree), NEW dragged, NEW anchor
  PROVE  DropAfter(prev, items, dragged, anchor) \in Seq(AnyTree)
<1> DEFINE a == prev[IndexOf(prev, anchor)]
           d == prev[IndexOf(prev, dragged)]
           stored == [i \in DOMAIN items |->
                         IF Has(prev, items[i].id) THEN prev[IndexOf(prev, items[i].id)] ELSE items[i]]
           k == IndexOf(stored, dragged)
           e == ReflowedAt(stored[k], a.grid.col + NodeCols(a), NodeCols(stored[k]), a.grid.row)
           at == [stored EXCEPT ![k] = e]
           row == ReflowRow(at, a.grid.row)
           quiet == \/ ~Has(prev, anchor) \/ ~Has(prev, dragged) \/ ~Has(items, dragged)
                    \/ ~OneRow(a) \/ ~OneRow(d)
<1>0. NodeSet(AnyTree)
  BY DEF NodeSet
<1>1. DropAfter(prev, items, dragged, anchor) =
        IF quiet THEN ReorderRoot(prev, items)
        ELSE IF d.grid.row # a.grid.row THEN ReflowRow(row, d.grid.row) ELSE row
  BY DEF DropAfter
<1>2. CASE quiet
  <2>1. ReorderRoot(prev, items) \in Seq(AnyTree)
    BY ReorderRootTyped
  <2> HIDE DEF quiet
  <2> QED
    BY <1>1, <1>2, <2>1
<1>3. CASE ~quiet
  <2>1. a \in AnyTree /\ d \in AnyTree /\ a \in LooseNodes /\ OneRow(a) /\ OneRow(d)
    BY <1>3, FoundItem
  <2> HIDE DEF quiet, a, d
  <2>2. a.grid.col \in Nat /\ a.grid.row \in Nat /\ d.grid.row \in Nat /\ NodeCols(a) \in Int
    <3>1. a.grid # NoGrid /\ d.grid # NoGrid
      BY <2>1 DEF OneRow
    <3>2. a.grid.col \in Nat /\ a.grid.row \in Nat /\ d.grid.row \in Nat
      BY <2>1, <3>1, TypedGrid
    <3>3. NodeCols(a) \in 1..Cols
      BY <2>1, SizesTyped
    <3> QED
      BY <3>2, <3>3, GridAssumption
  <2>3. stored = [i \in DOMAIN items |-> stored[i]] /\ \A i \in DOMAIN items : stored[i] \in AnyTree
    <3>1. \A i \in DOMAIN items : stored[i] \in AnyTree
      <4> TAKE i \in DOMAIN items
      <4>1. items[i] \in AnyTree
        BY SeqMembers
      <4>2. Has(prev, items[i].id) => prev[IndexOf(prev, items[i].id)] \in AnyTree
        BY FoundItem
      <4> QED
        BY <4>1, <4>2
    <3> QED
      BY <3>1
  <2> HIDE DEF stored
  <2>4. stored \in Seq(AnyTree)
    BY <2>3, MappedIs
  <2>5. k \in DOMAIN stored => e \in AnyTree
    <3> SUFFICES ASSUME k \in DOMAIN stored PROVE e \in AnyTree
      OBVIOUS
    <3>1. stored[k] \in AnyTree
      BY <2>4, SeqMembers
    <3>2. NodeCols(stored[k]) \in Int /\ a.grid.col + NodeCols(a) \in Int
      BY <2>2, <3>1, LooseKinds, SizesTyped
    <3> QED
      BY <1>0, <2>2, <3>1, <3>2, ReflowedTyped
  <2>6. at = [stored EXCEPT ![k] = e]
    OBVIOUS
  <2> HIDE DEF k, e
  <2>7. at \in Seq(AnyTree)
    BY <2>4, <2>5, ExceptTyped
  <2> HIDE DEF at
  <2>8. row \in Seq(AnyTree)
    BY <1>0, <2>2, <2>7, ReflowRowsTyped
  <2> HIDE DEF row
  <2>9. ReflowRow(row, d.grid.row) \in Seq(AnyTree)
    BY <1>0, <2>2, <2>8, ReflowRowsTyped
  <2> QED
    BY <1>1, <1>3, <2>8, <2>9
<1> QED
  BY <1>2, <1>3

\* An item resized, and its row closed up.
LEMMA ResizeRootTyped ==
  ASSUME NEW items \in Seq(AnyTree), NEW id, NEW cs \in Int
  PROVE  ResizeRoot(items, id, cs) \in Seq(AnyTree)
<1> DEFINE i == IndexOf(items, id)
           g == items[i].grid
           e == ReflowedAt(items[i], g.col, cs, g.row)
           at == [items EXCEPT ![i] = e]
<1>0. NodeSet(AnyTree)
  BY DEF NodeSet
<1>1. ResizeRoot(items, id, cs) = IF i = 0 \/ ~OneRow(items[i]) THEN items ELSE ReflowRow(at, g.row)
  BY DEF ResizeRoot
<1>2. CASE i = 0 \/ ~OneRow(items[i])
  BY <1>1, <1>2
<1>3. CASE ~(i = 0 \/ ~OneRow(items[i]))
  <2>1. items[i] \in AnyTree
    BY <1>3, IndexOfIs
  <2>2. g.col \in Int /\ g.row \in Nat
    BY <1>3, <2>1, TypedGrid DEF OneRow
  <2> HIDE DEF g, i
  <2>3. e \in AnyTree
    BY <1>0, <2>1, <2>2, ReflowedTyped
  <2>4. at \in Seq(AnyTree)
    BY <2>3, ExceptTyped
  <2> HIDE DEF at
  <2>5. ReflowRow(at, g.row) \in Seq(AnyTree)
    BY <1>0, <2>2, <2>4, ReflowRowsTyped
  <2> QED
    BY <1>1, <1>3, <2>5
<1> QED
  BY <1>2, <1>3

-----------------------------------------------------------------------------
(* Tab and stack hosts.                                                    *)

\* New groups, tiles and panes are nodes.
LEMMA GroupMade ==
  ASSUME NEW id \in Ids, NEW host \in {"panel", "tab-control", "vertical-stack"}, NEW kids \in Seq(AnyTree)
  PROVE  Group(id, host, kids) \in GroupNodes(AnyTree)
BY DEF Group, GroupNodes

LEMMA TileMade ==
  ASSUME NEW id \in Ids, NEW plugin \in DOMAIN DefaultSpan
  PROVE  Tile(id, plugin) \in TileNodes /\ Tile(id, plugin) \in AnyTree
<1>1. Tile(id, plugin) \in TileNodes
  BY DEF Tile, TileNodes
<1> QED
  BY <1>1, TreeIs

LEMMA OneListed ==
  ASSUME NEW S, NEW e \in S
  PROVE  <<e>> \in Seq(S)
OBVIOUS

LEMMA PaneTyped ==
  ASSUME NEW id \in Ids
  PROVE  Pane(id) \in GroupNodes(AnyTree) /\ Pane(id) \in AnyTree /\ Pane(id).id = id
<1>1. <<>> \in Seq(AnyTree)
  BY EmptySeq
<1>2. Group(id, "panel", <<>>) \in GroupNodes(AnyTree) /\ Group(id, "panel", <<>>).id = id
  BY <1>1, GroupMade DEF Group
<1>3. Pane(id) \in GroupNodes(AnyTree) /\ Pane(id).id = id
  BY <1>2 DEF Pane, GroupNodes
<1> QED
  BY <1>3, TreeIs

\* New tab and stack hosts.
LEMMA MakeHostsTyped ==
  ASSUME NEW id \in Ids, NEW pane \in Ids
  PROVE  MakeTabControlGroup(id, pane) \in AnyTree /\ MakeVerticalStackGroup(id, pane) \in AnyTree
<1> DEFINE kids == <<Pane(pane)>>
           g == Group(id, "tab-control", kids)
<1>1. kids \in Seq(AnyTree)
  BY PaneTyped, OneListed
<1> HIDE DEF kids
<1>2. g \in GroupNodes(AnyTree) /\ Group(id, "vertical-stack", kids) \in GroupNodes(AnyTree)
  BY <1>1, GroupMade
<1> HIDE DEF g
<1>3. [g EXCEPT !.active = pane] \in GroupNodes(AnyTree)
  BY <1>2 DEF GroupNodes
<1> QED
  BY <1>2, <1>3, TreeIs DEF MakeTabControlGroup, MakeVerticalStackGroup, g, kids

\* The tab to show is a child's id or none.
LEMMA ResolvedTyped ==
  ASSUME NEW kids \in Seq(AnyTree), NEW active \in Ids \union {NoId}
  PROVE  ResolvedActive(kids, active) \in Ids \union {NoId}
<1>1. kids # <<>> => kids[1] \in AnyTree
  BY ElementOfSeq, EmptySeq
<1>2. kids # <<>> => kids[1].id \in Ids
  BY <1>1, NodeIs
<1> QED
  BY <1>2 DEF ResolvedActive

\* A tile that becomes a pane.
LEMMA WrapTileTyped ==
  ASSUME NEW t \in TileNodes, NEW kids \in Seq(AnyTree)
  PROVE  /\ WrapTileInPane(t) \in GroupNodes(AnyTree) /\ WrapTileInPane(t) \in AnyTree
         /\ WrapTileInPane(t).id = t.id
         /\ [WrapTileInPane(t) EXCEPT !.kids = kids] \in AnyTree
<1> DEFINE one == <<t>>
<1>1. t \in AnyTree /\ t.id \in Ids /\ t.label \in BOOLEAN
  BY TreeIs DEF TileNodes
<1>2. one \in Seq(AnyTree)
  BY <1>1, OneListed
<1>3. Pane(t.id) \in GroupNodes(AnyTree) /\ Pane(t.id).id = t.id
  BY <1>1, PaneTyped
<1>4. WrapTileInPane(t) = [Pane(t.id) EXCEPT !.label = t.label, !.kids = one]
  BY DEF WrapTileInPane
<1> HIDE DEF one
<1>5. WrapTileInPane(t) \in GroupNodes(AnyTree) /\ WrapTileInPane(t).id = t.id
  BY <1>1, <1>2, <1>3, <1>4 DEF GroupNodes
<1>6. WrapTileInPane(t) \in AnyTree /\ IsGroup(WrapTileInPane(t))
  BY <1>5, TreeIs, KidsOf
<1> QED
  BY <1>5, <1>6, WithKids

\* Any child as a pane.
LEMMA AsPaneTyped ==
  ASSUME NEW n \in AnyTree
  PROVE  AsPane(n) \in AnyTree
<1>1. ~IsGroup(n) => WrapTileInPane(n) \in AnyTree
  <2>1. ~IsGroup(n) => n \in TileNodes
    BY NodeIs
  <2>2. <<>> \in Seq(AnyTree)
    BY EmptySeq
  <2> QED
    BY <2>1, <2>2, WrapTileTyped
<1>2. [n EXCEPT !.grid = NoGrid] \in AnyTree
  <2>1. NoGrid \in GridsFor(n)
    BY DEF GridsFor
  <2> QED
    BY <2>1, WithGrid
<1> QED
  BY <1>1, <1>2 DEF AsPane

\* The panes of a host.
LEMMA NormalizePanesTyped ==
  ASSUME NEW g \in AnyTree, IsGroup(g)
  PROVE  NormalizePanes(g) \in AnyTree /\ IsGroup(NormalizePanes(g)) /\ Len(NormalizePanes(g).kids) = Len(g.kids)
<1> DEFINE kids == [i \in DOMAIN g.kids |-> AsPane(g.kids[i])]
           active == IF g.host = "tab-control" THEN ResolvedActive(kids, g.active) ELSE g.active
<1>1. g \in GroupNodes(AnyTree) /\ g.kids \in Seq(AnyTree)
  BY NodeIs
<1>2. kids = [i \in DOMAIN g.kids |-> kids[i]] /\ \A i \in DOMAIN g.kids : kids[i] \in AnyTree
  <2>1. \A i \in DOMAIN g.kids : g.kids[i] \in AnyTree
    BY <1>1, SeqMembers
  <2>2. \A i \in DOMAIN g.kids : AsPane(g.kids[i]) \in AnyTree
    BY <2>1, AsPaneTyped
  <2> QED
    BY <2>2
<1> HIDE DEF kids
<1>3. kids \in Seq(AnyTree) /\ Len(kids) = Len(g.kids)
  BY <1>1, <1>2, MappedIs
<1>4. g.active \in Ids \union {NoId}
  BY <1>1 DEF GroupNodes
<1>5. active \in Ids \union {NoId}
  BY <1>3, <1>4, ResolvedTyped
<1>6. NormalizePanes(g) = IF kids = g.kids THEN g ELSE [g EXCEPT !.kids = kids, !.active = active]
  BY DEF NormalizePanes, kids
<1> HIDE DEF active
<1>7. [g EXCEPT !.kids = kids, !.active = active] \in GroupNodes(AnyTree)
      /\ [g EXCEPT !.kids = kids, !.active = active].kids = kids
  BY <1>1, <1>3, <1>5 DEF GroupNodes
<1> QED
  BY <1>3, <1>6, <1>7, TreeIs, KidsOf

-----------------------------------------------------------------------------
(* The operations of tabs and sections.                                    *)

\* Whatever is done to tabs or sections leaves a node.
LEMMA HostOpsTyped ==
  ASSUME NEW g \in AnyTree, IsGroup(g), NEW id \in Ids
  PROVE  /\ AddTab(g, id) \in AnyTree /\ AddSection(g, id) \in AnyTree
         /\ RemoveTab(g, id) \in AnyTree /\ RemoveSection(g, id) \in AnyTree
         /\ SetActiveTab(g, id) \in AnyTree /\ ToggleSection(g, id) \in AnyTree
<1> DEFINE more == Append(g.kids, Pane(id))
           less == WithoutId(g.kids, id)
           active == ResolvedActive(less, g.active)
<1>1. g \in GroupNodes(AnyTree) /\ g.kids \in Seq(AnyTree)
  BY NodeIs
<1>2. g.active \in Ids \union {NoId} /\ g.collapsed \in SUBSET Ids
  BY <1>1 DEF GroupNodes
<1>3. more \in Seq(AnyTree)
  BY <1>1, PaneTyped, AppendProperties
<1>4. less \in Seq(AnyTree)
  BY <1>1, SubListIs
<1>5. active \in Ids \union {NoId}
  BY <1>2, <1>4, ResolvedTyped
<1>6. AddTab(g, id) = [g EXCEPT !.kids = more, !.active = id]
  BY DEF AddTab
<1>7. AddSection(g, id) = [g EXCEPT !.kids = more]
  BY DEF AddSection
<1>8. RemoveTab(g, id) = [g EXCEPT !.kids = less, !.active = active]
  BY DEF RemoveTab
<1>9. RemoveSection(g, id) = [g EXCEPT !.kids = less, !.collapsed = g.collapsed \ {id}]
  BY DEF RemoveSection
<1> HIDE DEF more, less, active
<1>10. AddTab(g, id) \in GroupNodes(AnyTree) /\ AddSection(g, id) \in GroupNodes(AnyTree)
  BY <1>1, <1>3, <1>6, <1>7 DEF GroupNodes
<1>11. RemoveTab(g, id) \in GroupNodes(AnyTree)
  BY <1>1, <1>4, <1>5, <1>8 DEF GroupNodes
<1>12. g.collapsed \ {id} \in SUBSET Ids /\ g.collapsed \union {id} \in SUBSET Ids
  BY <1>2
<1>13. RemoveSection(g, id) \in GroupNodes(AnyTree)
  BY <1>1, <1>4, <1>9, <1>12 DEF GroupNodes
<1>14. SetActiveTab(g, id) \in GroupNodes(AnyTree)
  BY <1>1 DEF SetActiveTab, GroupNodes
<1>15. ToggleSection(g, id) \in GroupNodes(AnyTree)
  <2> DEFINE c == IF id \in g.collapsed THEN g.collapsed \ {id} ELSE g.collapsed \union {id}
  <2>1. ToggleSection(g, id) = [g EXCEPT !.collapsed = c]
    BY DEF ToggleSection
  <2>2. c \in SUBSET Ids
    BY <1>12
  <2> HIDE DEF c
  <2> QED
    BY <1>1, <2>1, <2>2 DEF GroupNodes
<1> QED
  BY <1>10, <1>11, <1>13, <1>14, <1>15, TreeIs

\* A member moved before or after another.
LEMMA ReorderByTargetTyped ==
  ASSUME NEW S, NEW list \in Seq(S), NEW dragged, NEW target, NEW pos
  PROVE  ReorderByTarget(list, dragged, target, pos) \in Seq(S)
<1> DEFINE from == IndexOf(list, dragged)
           to == IndexOf(list, target)
           shifted == (IF pos = "after" THEN to + 1 ELSE to) - (IF from < to THEN 1 ELSE 0)
           left == RemoveAt(list, from)
           quiet == dragged = target \/ from = 0 \/ to = 0
<1>1. ReorderByTarget(list, dragged, target, pos) = IF quiet THEN list ELSE InsertAt(left, shifted, list[from])
  BY DEF ReorderByTarget
<1>2. CASE quiet
  BY <1>1, <1>2
<1>3. CASE ~quiet
  <2>1. from \in 1..Len(list) /\ to \in 1..Len(list) /\ list[from].id = dragged /\ list[to].id = target
        /\ list[from] \in S
    BY <1>3, IndexOfIs
  <2>2. from # to
    BY <1>3, <2>1
  <2>3. Len(list) \in Nat
    BY SeqMembers
  <2>4. left \in Seq(S) /\ Len(left) = Len(list) - 1
    BY <2>1, RemoveAtIs
  <2> HIDE DEF from, to
  <2>5. shifted \in 1..Len(list)
    BY <2>1, <2>2, <2>3
  <2> HIDE DEF shifted, left, quiet
  <2>6. Len(left) + 1 = Len(list)
    BY <2>3, <2>4
  <2>7. shifted \in 1..(Len(left) + 1)
    BY <2>5, <2>6
  <2>8. InsertAt(left, shifted, list[from]) \in Seq(S)
    BY <2>1, <2>4, <2>7, InsertAtIs
  <2> QED
    BY <1>1, <1>3, <2>8
<1> QED
  BY <1>2, <1>3

\* Tabs in another order.
LEMMA ReorderTabsTyped ==
  ASSUME NEW g \in AnyTree, IsGroup(g), NEW id, NEW target, NEW pos
  PROVE  LET order == ReorderByTarget(g.kids, id, target, pos)
         IN  ReorderTabs(g, [i \in DOMAIN order |-> order[i].id]) \in AnyTree
<1> DEFINE kids == g.kids
           order == ReorderByTarget(kids, id, target, pos)
           ids == [i \in DOMAIN order |-> order[i].id]
           new == [i \in DOMAIN ids |-> kids[IndexOf(kids, ids[i])]]
<1>1. kids \in Seq(AnyTree) /\ kids \in Seq(Range(kids))
  BY NodeIs, SeqMembers
<1>2. order \in Seq(Range(kids))
  BY <1>1, ReorderByTargetTyped
<1> HIDE DEF order
<1>3. \A i \in DOMAIN order : order[i] \in Range(kids)
  BY <1>2, SeqMembers
<1>4. \A i \in DOMAIN order : Has(kids, order[i].id)
  BY <1>3 DEF Has, IdsOf, Range
<1>5. DOMAIN ids = DOMAIN order /\ \A i \in DOMAIN order : ids[i] = order[i].id
  OBVIOUS
<1> HIDE DEF ids
<1>6. \A i \in DOMAIN order : new[i] \in AnyTree
  <2> TAKE i \in DOMAIN order
  <2>1. Has(kids, ids[i])
    BY <1>4, <1>5
  <2>2. kids[IndexOf(kids, ids[i])] \in AnyTree
    BY <1>1, <2>1, FoundItem
  <2> QED
    BY <1>5, <2>2
<1>7. new = [i \in DOMAIN order |-> new[i]]
  BY <1>5
<1>8. ReorderTabs(g, ids) = [g EXCEPT !.kids = new]
  BY DEF ReorderTabs
<1> HIDE DEF new
<1>9. new \in Seq(AnyTree)
  BY <1>2, <1>6, <1>7, MappedIs
<1>10. ReorderTabs(g, ids) \in AnyTree
  BY <1>8, <1>9, WithKids
<1> QED
  BY <1>10 DEF ids, order

\* Panes get a label,
LEMMA LabelledTyped ==
  ASSUME NEW kids \in Seq(AnyTree)
  PROVE  Labelled(kids) \in Seq(AnyTree)
<1> DEFINE r == Labelled(kids)
<1>1. r = [i \in DOMAIN kids |-> r[i]] /\ \A i \in DOMAIN kids : r[i] =
            IF ~IsGroup(kids[i]) /\ kids[i].host = "tab-control"
            THEN [kids[i] EXCEPT !.label = TRUE, !.host = "single-panel"]
            ELSE [kids[i] EXCEPT !.label = TRUE]
  BY DEF Labelled
<1> HIDE DEF r
<1>2. ASSUME NEW i \in DOMAIN kids PROVE r[i] \in AnyTree
  <2> DEFINE n == kids[i]
  <2>1. n \in AnyTree
    BY SeqMembers
  <2>2. r[i] = IF ~IsGroup(n) /\ n.host = "tab-control"
               THEN [n EXCEPT !.label = TRUE, !.host = "single-panel"] ELSE [n EXCEPT !.label = TRUE]
    BY <1>1
  <2> HIDE DEF n
  <2>3. CASE IsGroup(n)
    <3>1. n \in GroupNodes(AnyTree)
      BY <2>1, <2>3, NodeIs
    <3>2. [n EXCEPT !.label = TRUE] \in GroupNodes(AnyTree)
      BY <3>1 DEF GroupNodes
    <3> QED
      BY <2>2, <2>3, <3>2, TreeIs
  <2>4. CASE ~IsGroup(n)
    <3>1. n \in TileNodes
      BY <2>1, <2>4, NodeIs
    <3>2. [n EXCEPT !.label = TRUE] \in TileNodes /\ [n EXCEPT !.label = TRUE, !.host = "single-panel"] \in TileNodes
      BY <3>1 DEF TileNodes
    <3> QED
      BY <2>2, <3>2, TreeIs
  <2> QED
    BY <2>3, <2>4
<1>3a. r = [i \in DOMAIN kids |-> r[i]]
  BY <1>1
<1>3b. \A i \in DOMAIN kids : r[i] \in AnyTree
  BY <1>2
<1>3. r \in Seq(AnyTree)
  BY <1>3a, <1>3b, MappedIs
<1> QED
  BY <1>3 DEF r

\* when a container becomes a host.
LEMMA ConvertedTyped ==
  ASSUME NEW g \in AnyTree, IsGroup(g), NEW host
  PROVE  Converted(g, host) \in AnyTree
<1> DEFINE kids == Labelled(g.kids)
           active == ResolvedActive(g.kids, g.active)
           tabs == [g EXCEPT !.host = "tab-control", !.wrap = FALSE, !.kids = kids, !.active = active, !.collapsed = {}]
           stack == [g EXCEPT !.host = "vertical-stack", !.wrap = FALSE, !.kids = kids, !.active = NoId, !.collapsed = {}]
           panel == [g EXCEPT !.host = "panel", !.active = NoId, !.collapsed = {}]
<1>1. g \in GroupNodes(AnyTree) /\ g.kids \in Seq(AnyTree)
  BY NodeIs
<1>2. kids \in Seq(AnyTree)
  BY <1>1, LabelledTyped
<1>3. g.active \in Ids \union {NoId}
  BY <1>1 DEF GroupNodes
<1>4. active \in Ids \union {NoId}
  BY <1>1, <1>3, ResolvedTyped
<1>5. Converted(g, host) = CASE host = "tab-control" -> tabs [] host = "vertical-stack" -> stack [] OTHER -> panel
  BY DEF Converted
<1> HIDE DEF kids, active
<1>6. tabs \in GroupNodes(AnyTree)
  BY <1>1, <1>2, <1>4 DEF GroupNodes
<1>7. stack \in GroupNodes(AnyTree)
  BY <1>1, <1>2 DEF GroupNodes
<1>8. panel \in GroupNodes(AnyTree)
  BY <1>1 DEF GroupNodes
<1> HIDE DEF tabs, stack, panel
<1>9. Converted(g, host) \in GroupNodes(AnyTree)
  <2>1. CASE host = "tab-control"
    BY <1>5, <1>6, <2>1
  <2>2. CASE host = "vertical-stack"
    BY <1>5, <1>7, <2>2
  <2>3. CASE host # "tab-control" /\ host # "vertical-stack"
    BY <1>5, <1>8, <2>3
  <2> QED
    BY <2>1, <2>2, <2>3
<1> QED
  BY <1>9, TreeIs

-----------------------------------------------------------------------------
(* The upgrade, and the normal form of a layout.                           *)

\* A tile of the days before tab hosts becomes a host with one pane.
LEMMA WrapLegacyTabTyped ==
  ASSUME NEW t \in TileNodes
  PROVE  WrapLegacyTab(t) \in AnyTree
<1> DEFINE u == [t EXCEPT !.host = "single-panel", !.label = TRUE]
           pane == WrapTileInPane(u)
           kids == <<pane>>
           id == WrapperId[t.id]
           g == Group(id, "tab-control", kids)
<1>1. u \in TileNodes
  BY DEF TileNodes
<1>2. t.id \in Ids /\ t.grid \in TileGrids \union {NoGrid}
  BY DEF TileNodes
<1>3. id \in Ids
  BY <1>2, UpgradeAssumption
<1> HIDE DEF u, id
<1>4. <<>> \in Seq(AnyTree)
  BY EmptySeq
<1>5. pane \in AnyTree
  BY <1>1, <1>4, WrapTileTyped
<1> HIDE DEF pane
<1>6. kids \in Seq(AnyTree) /\ pane.id \in Ids
  BY <1>5, OneListed, NodeIs
<1> HIDE DEF kids
<1>7. g \in GroupNodes(AnyTree)
  BY <1>3, <1>6, GroupMade
<1> HIDE DEF g
<1>8. t.grid \in GroupGrids \union {NoGrid}
  BY <1>2, CellTyped
<1>9. [g EXCEPT !.active = pane.id, !.grid = t.grid] \in GroupNodes(AnyTree)
  BY <1>6, <1>7, <1>8 DEF GroupNodes
<1> QED
  BY <1>9, TreeIs DEF WrapLegacyTab, g, kids, pane, u, id

\* A pane, given what became of the child it is made of.
PaneOf(k, e) ==
  CASE ~IsGroup(k) -> [WrapTileInPane(k) EXCEPT !.kids = <<e>>]
    [] IsHost(k) -> e
    [] OTHER -> [e EXCEPT !.grid = NoGrid]

\* A pane of what became of the child is a node.
LEMMA PaneOfTyped ==
  ASSUME NEW k \in AnyTree, NEW e \in AnyTree
  PROVE  PaneOf(k, e) \in AnyTree
<1> DEFINE one == <<e>>
<1>1. one \in Seq(AnyTree)
  BY OneListed
<1> HIDE DEF one
<1>2. ~IsGroup(k) => [WrapTileInPane(k) EXCEPT !.kids = one] \in AnyTree
  BY <1>1, NodeIs, WrapTileTyped
<1>3. [e EXCEPT !.grid = NoGrid] \in AnyTree
  <2>1. NoGrid \in GridsFor(e)
    BY DEF GridsFor
  <2> QED
    BY <2>1, WithGrid
<1> QED
  BY <1>2, <1>3 DEF PaneOf, one

\* The upgrade of the hosts, over the whole layout.
LEMMA MigratedTabsTyped ==
  ASSUME NEW items \in Seq(AnyTree)
  PROVE  MigratedTabs(items) \in Seq(AnyTree)
<1> DEFINE S == Below(items)
           F(f) == [n \in S |-> CASE IsHost(n) -> [NormalizePanes(n) EXCEPT
                                                !.kids = <<>> \o [i \in DOMAIN n.kids |-> MigratedPane(f, n.kids[i])]]
                           [] IsGroup(n) /\ ~IsHost(n) -> [n EXCEPT !.kids = Through(f, @)]
                           [] OTHER -> IF n.host = "tab-control" THEN WrapLegacyTab(n) ELSE n]
           panes(n, v) ==
              <<>> \o [i \in DOMAIN n.kids |-> PaneOf(n.kids[i], IF i \in DOMAIN v THEN v[i] ELSE n.kids[i])]
           after == [n \in S |-> [v \in Seq(AnyTree) |-> IF IsHost(n) THEN [NormalizePanes(n) EXCEPT !.kids = panes(n, v)]
                                     ELSE IF IsGroup(n) THEN [n EXCEPT !.kids = v]
                                     ELSE IF n.host = "tab-control" THEN WrapLegacyTab(n) ELSE n]]
           sel == Every(S)
           f == CHOOSE g : g = F(g)
<1>1. S \subseteq AnyTree /\ Closed(S) /\ Range(items) \subseteq S
  BY BelowIs
<1>2. Selects(S, sel) /\ \A n \in S : IsGroup(n) => sel[n] = n.kids
  BY <1>1, EverySelects
<1>2b. items \in Seq(AnyTree) /\ Range(items) \subseteq S
  BY <1>1, SeqMembers
<1>3b. S \subseteq AnyTree /\ \A n \in S : IsHost(n) => IsGroup(n)
  BY <1>1 DEF IsHost
<1>3c. \A n \in S : IsGroup(n) => \A v \in Seq(AnyTree) : panes(n, v) \in Seq(AnyTree)
  <2> TAKE n \in S
  <2> HAVE IsGroup(n)
  <2> TAKE v \in Seq(AnyTree)
  <2> DEFINE p == [i \in DOMAIN n.kids |-> PaneOf(n.kids[i], IF i \in DOMAIN v THEN v[i] ELSE n.kids[i])]
  <2>1. n.kids \in Seq(AnyTree)
    BY <1>3b, NodeIs
  <2>2. ASSUME NEW i \in DOMAIN n.kids PROVE p[i] \in AnyTree
    <3>1. n.kids[i] \in AnyTree /\ (i \in DOMAIN v => v[i] \in AnyTree)
      BY <2>1, SeqMembers
    <3>2. (IF i \in DOMAIN v THEN v[i] ELSE n.kids[i]) \in AnyTree
      BY <3>1
    <3> QED
      BY <3>1, <3>2, PaneOfTyped
  <2>3. p = [i \in DOMAIN n.kids |-> p[i]]
    OBVIOUS
  <2>4. panes(n, v) = <<>> \o p
    OBVIOUS
  <2> HIDE DEF p, panes
  <2>5. p \in Seq(AnyTree)
    BY <2>1, <2>2, <2>3, MappedIs
  <2> QED
    BY <2>4, <2>5, ConcatEmptySeq
<1>3a. \A n \in S : \A v \in Seq(AnyTree) :
            /\ IsHost(n) => [NormalizePanes(n) EXCEPT !.kids = panes(n, v)] \in AnyTree
            /\ IsGroup(n) => [n EXCEPT !.kids = v] \in AnyTree
            /\ ~IsGroup(n) => WrapLegacyTab(n) \in AnyTree
  <2> HIDE DEF panes
  <2> TAKE n \in S
  <2> TAKE v \in Seq(AnyTree)
  <2>1. n \in AnyTree
    BY <1>3b
  <2>2. IsGroup(n) => panes(n, v) \in Seq(AnyTree) /\ NormalizePanes(n) \in AnyTree /\ IsGroup(NormalizePanes(n))
    BY <1>3c, <2>1, NormalizePanesTyped
  <2>3. IsHost(n) => [NormalizePanes(n) EXCEPT !.kids = panes(n, v)] \in AnyTree
    BY <1>3b, <2>2, WithKids
  <2>4. IsGroup(n) => [n EXCEPT !.kids = v] \in AnyTree
    BY <2>1, WithKids
  <2>5. ~IsGroup(n) => WrapLegacyTab(n) \in AnyTree
    BY <2>1, NodeIs, WrapLegacyTabTyped
  <2> QED
    BY <2>3, <2>4, <2>5
<1>3. after \in [S -> [Seq(AnyTree) -> AnyTree]]
  <2> HIDE DEF panes
  <2> QED
    BY <1>3a, <1>3b
<1>4. \A g : \A n \in S : Through(g, sel[n]) \in Seq(AnyTree) => F(g)[n] = after[n][Through(g, sel[n])]
  <2> TAKE g
  <2> TAKE n \in S
  <2> HAVE Through(g, sel[n]) \in Seq(AnyTree)
  <2> DEFINE v == Through(g, sel[n])
  <2>1. after[n][v] = IF IsHost(n) THEN [NormalizePanes(n) EXCEPT !.kids = panes(n, v)]
                      ELSE IF IsGroup(n) THEN [n EXCEPT !.kids = v]
                      ELSE IF n.host = "tab-control" THEN WrapLegacyTab(n) ELSE n
    OBVIOUS
  <2>2. CASE ~IsHost(n)
    <3> HIDE DEF panes
    <3> QED
      BY <1>2, <2>1, <2>2
  <2>3. CASE IsHost(n)
    <3>0. IsGroup(n) /\ n \in AnyTree
      BY <1>3b, <2>3
    <3>1. sel[n] = n.kids /\ n.kids \in Seq(AnyTree)
      BY <1>2, <3>0, NodeIs
    <3>2. DOMAIN v = DOMAIN n.kids /\ \A i \in DOMAIN n.kids : v[i] = g[n.kids[i]]
      BY <3>1, ThroughValues
    <3> HIDE DEF v
    <3>3. \A i \in DOMAIN n.kids : MigratedPane(g, n.kids[i]) = PaneOf(n.kids[i], IF i \in DOMAIN v THEN v[i] ELSE n.kids[i])
      BY <3>2 DEF MigratedPane, PaneOf
    <3> DEFINE new == [i \in DOMAIN n.kids |-> MigratedPane(g, n.kids[i])]
               made == [i \in DOMAIN n.kids |-> PaneOf(n.kids[i], IF i \in DOMAIN v THEN v[i] ELSE n.kids[i])]
    <3>4. new = made
      BY <3>3
    <3>5. panes(n, v) = <<>> \o made
      OBVIOUS
    <3>6. F(g)[n] = [NormalizePanes(n) EXCEPT !.kids = <<>> \o new]
      BY <2>3
    <3> HIDE DEF new, made, panes, after, F
    <3> QED
      BY <2>1, <2>3, <3>4, <3>5, <3>6 DEF v
  <2> QED
    BY <2>2, <2>3
<1>5. MigratedTabs(items) = Through(f, items)
  BY DEF MigratedTabs
<1>6. \A g : F(g) = [n \in S |-> F(g)[n]]
  OBVIOUS
<1> HIDE DEF after, sel, F, S
<1>7. PICK g \in [S -> AnyTree] : Rebuilds(g, S, AnyTree, sel, after)
  BY <1>2, <1>3, RebuildExists DEF S
<1>8. \A n \in S : g[n] = F(g)[n]
  <2>1. IsRebuilt(g, S, AnyTree, sel, after)
    BY <1>1, <1>2, <1>3, <1>7, RebuildTyped
  <2> QED
    BY <1>4, <2>1 DEF IsRebuilt
<1>9. g = F(g)
  BY <1>6, <1>7, <1>8
<1>10. f = F(f)
  BY <1>9
<1> HIDE DEF f
<1>11. Rebuilds(f, S, AnyTree, sel, after)
  BY <1>4, <1>6, <1>10 DEF Rebuilds
<1>12. IsRebuilt(f, S, AnyTree, sel, after)
  BY <1>1, <1>2, <1>3, <1>11, RebuildTyped
<1> QED
  BY <1>1, <1>2b, <1>5, <1>12, ThroughIs DEF IsRebuilt

\* The layout without the plugins that are gone.
LEMMA StripLegacyTyped ==
  ASSUME NEW items \in Seq(AnyTree)
  PROVE  StripLegacy(items) \in Seq(AnyTree)
<1> DEFINE S == Below(items)
           F(f) == [n \in S |-> IF IsGroup(n) THEN [n EXCEPT !.kids = WorthKeeping(Through(f, @), FALSE)] ELSE n]
           after == [n \in S |-> [v \in Seq(AnyTree) |-> IF IsGroup(n) THEN [n EXCEPT !.kids = WorthKeeping(v, FALSE)] ELSE n]]
           sel == Every(S)
           f == CHOOSE g : g = F(g)
<1>1. S \subseteq AnyTree /\ Closed(S) /\ Range(items) \subseteq S
  BY BelowIs
<1>2. Selects(S, sel) /\ \A n \in S : IsGroup(n) => sel[n] = n.kids
  BY <1>1, EverySelects
<1>2b. items \in Seq(AnyTree) /\ Range(items) \subseteq S
  BY <1>1, SeqMembers
<1>3b. S \subseteq AnyTree
  BY <1>1
<1>3c. \A v \in Seq(AnyTree) : \A root : WorthKeeping(v, root) \in Seq(AnyTree)
  BY SubListIs DEF WorthKeeping
<1>3a. \A n \in S : \A v \in Seq(AnyTree) : IsGroup(n) => [n EXCEPT !.kids = WorthKeeping(v, FALSE)] \in AnyTree
  BY <1>3b, <1>3c, WithKids
<1>3. after \in [S -> [Seq(AnyTree) -> AnyTree]]
  BY <1>3a, <1>3b
<1>4. \A g : \A n \in S : Through(g, sel[n]) \in Seq(AnyTree) => F(g)[n] = after[n][Through(g, sel[n])]
  BY <1>2
<1>5. StripLegacy(items) = WorthKeeping(Through(f, items), TRUE)
  BY DEF StripLegacy
<1>6. \A g : F(g) = [n \in S |-> F(g)[n]]
  OBVIOUS
<1> HIDE DEF after, sel, F, S
<1>7. PICK g \in [S -> AnyTree] : Rebuilds(g, S, AnyTree, sel, after)
  BY <1>2, <1>3, RebuildExists DEF S
<1>8. \A n \in S : g[n] = F(g)[n]
  <2>1. IsRebuilt(g, S, AnyTree, sel, after)
    BY <1>1, <1>2, <1>3, <1>7, RebuildTyped
  <2> QED
    BY <1>4, <2>1 DEF IsRebuilt
<1>9. g = F(g)
  BY <1>6, <1>7, <1>8
<1>10. f = F(f)
  BY <1>9
<1> HIDE DEF f
<1>11. Rebuilds(f, S, AnyTree, sel, after)
  BY <1>4, <1>6, <1>10 DEF Rebuilds
<1>12. IsRebuilt(f, S, AnyTree, sel, after)
  BY <1>1, <1>2, <1>3, <1>11, RebuildTyped
<1> QED
  <2>1. \A m \in Range(items) : f[m] \in AnyTree
    BY <1>2b, <1>12 DEF IsRebuilt
  <2>2. Through(f, items) \in Seq(AnyTree)
    BY <2>1, ThroughIs
  <2> QED
    BY <1>3c, <1>5, <2>2

\* The upgrade makes a layout of a layout.
LEMMA FinalizeTyped ==
  ASSUME NEW items \in Seq(AnyTree)
  PROVE  FinalizeLayoutV3(items) \in Seq(AnyTree)
<1>1. DedupedKids(items) \in Seq(AnyTree)
  BY DedupedKidsTyped
<1> QED
  BY <1>1, MigratedTabsTyped DEF FinalizeLayoutV3

\* The normal form of every layout -- whatever the server, a version 1 browser or an edit made of it --
\* is a layout, every root item of which is placed and no two of which overlap (normalizeLayoutStrict).
THEOREM NormalLayoutIsApart ==
  ASSUME NEW items \in Seq(AnyTree), NEW preserve, NEW mode
  PROVE  Apart(NormalLayout(items, preserve, mode))
BY FinalizeTyped, PlacementIsApart DEF NormalLayout

\* The default tiles that are missing, appended.
LEMMA MergeDefaultsTyped ==
  ASSUME NEW items \in Seq(AnyTree), NEW newId, newId \in [Range(DefaultPlugins) -> Ids]
  PROVE  MergeDefaults(items, newId) \in Seq(AnyTree)
<1> DEFINE present == {t.plugin : t \in Range(TilesOf(Nodes(items)))}
           keep == {i \in DOMAIN DefaultPlugins : DefaultPlugins[i] \notin present}
           missing == Picked(DefaultPlugins, keep)
           added == [i \in DOMAIN missing |-> Tile(newId[missing[i]], missing[i])]
           S == Range(DefaultPlugins)
<1>1. DefaultPlugins \in Seq(S) /\ S \subseteq DOMAIN DefaultSpan
  BY UpgradeAssumption, SeqMembers
<1>2. MergeDefaults(items, newId) = items \o added
  BY DEF MergeDefaults
<1> HIDE DEF keep, S
<1>3. missing \in Seq(S)
  BY <1>1, PickedIs
<1>3a. newId \in [S -> Ids]
  BY DEF S
<1> HIDE DEF missing
<1>4. \A i \in DOMAIN missing : added[i] \in AnyTree
  <2> TAKE i \in DOMAIN missing
  <2>1. missing[i] \in S
    BY <1>3, SeqMembers
  <2>2. newId[missing[i]] \in Ids /\ missing[i] \in DOMAIN DefaultSpan
    BY <1>1, <1>3a, <2>1
  <2> QED
    BY <2>2, TileMade
<1>5. added = [i \in DOMAIN missing |-> added[i]]
  OBVIOUS
<1> HIDE DEF added
<1>6. added \in Seq(AnyTree)
  BY <1>3, <1>4, <1>5, MappedIs
<1> QED
  BY <1>2, <1>6, ConcatProperties

\* So is what hydration makes of a layout the browser stored: upgraded, without the plugins that are
\* gone and with the default tiles that were missing (hydrateInitial.ts, layoutUpgrade.ts).
THEOREM HydratedIsApart ==
  ASSUME NEW items \in Seq(AnyTree)
  PROVE  Apart(Hydrated(items, MergedId))
<1>1. StripLegacy(FinalizeLayoutV3(items)) \in Seq(AnyTree)
  BY FinalizeTyped, StripLegacyTyped
<1>2. MergeDefaults(StripLegacy(FinalizeLayoutV3(items)), MergedId) \in Seq(AnyTree)
  BY <1>1, EditorAssumption, MergeDefaultsTyped
<1> QED
  BY <1>2, NormalLayoutIsApart DEF Hydrated

-----------------------------------------------------------------------------
(* Layouts of version 1.                                                   *)

\* The tiles of a row panel that has places.
PanelTiles == {t \in LegacyTiles : t.grid # NoGrid}

\* A tile of a row panel that has a place, has a complete one.
LEMMA PanelTileIs ==
  ASSUME NEW t \in PanelTiles
  PROVE  /\ t \in TileNodes /\ t \in AnyTree /\ t \in LooseNodes /\ t.grid \in TileGrids
         /\ t.grid.col \in Nat /\ t.grid.row \in Nat /\ t.grid.cs \in Nat \ {0} /\ t.grid.rs \in Nat \ {0}
         /\ t.grid.col + t.grid.cs <= Cols
<1>1. t \in TileNodes /\ t.grid # NoGrid /\ Complete(t.grid)
  BY DEF PanelTiles, LegacyTiles
<1>2. t.grid \in TileGrids
  BY <1>1 DEF TileNodes
<1>3. t.grid.col \in Nat /\ t.grid.row \in Nat /\ t.grid.cs \in 1..Cols /\ t.grid.rs \in Nat \ {0}
  BY <1>2, CellTyped
<1>4. t.grid.cs \in Nat \ {0}
  BY <1>3, GridAssumption
<1>5. t.grid.col + t.grid.cs <= Cols
  BY <1>1 DEF Complete
<1> QED
  BY <1>1, <1>2, <1>3, <1>4, <1>5, LooseKinds

\* The group a row panel becomes: its tiles from the panel's corner, and the rectangle they take.
LEMMA PanelGroupTyped ==
  ASSUME NEW panel \in DOMAIN PanelId, NEW tiles \in Seq(PanelTiles), Len(tiles) # 0
  PROVE  PanelGroup(panel, tiles) \in AnyTree
<1> DEFINE n == Len(tiles)
           left == [i \in 1..n |-> tiles[i].grid.col]
           top == [i \in 1..n |-> tiles[i].grid.row]
           right == [i \in 1..n |-> tiles[i].grid.col + tiles[i].grid.cs]
           bottom == [i \in 1..n |-> tiles[i].grid.row + tiles[i].grid.rs]
           grids == Range(GridsOf(tiles))
           Left == {g.col : g \in grids}
           Top == {g.row : g \in grids}
           Right == {g.col + g.cs : g \in grids}
           Bottom == {g.row + g.rs : g \in grids}
           col == Min(Left)
           row == Min(Top)
           inside == [i \in DOMAIN tiles |-> [tiles[i] EXCEPT !.grid.col = @ - col, !.grid.row = @ - row]]
           base == Group(PanelId[panel], "panel", inside)
           place == Cell(col, row, Max(Right) - col, Max(Bottom) - row)
<1>0. n \in Nat /\ DOMAIN tiles = 1..n /\ (\A i \in 1..n : tiles[i] \in PanelTiles) /\ 1 \in 1..n
  BY SeqMembers
<1>1. grids = {tiles[i].grid : i \in 1..n}
  BY <1>0 DEF GridsOf, Range
<1>2. /\ PanelGroup(panel, tiles) = [base EXCEPT !.grid = place]
  BY DEF PanelGroup
<1>3. /\ Left = {left[i] : i \in 1..n} /\ Top = {top[i] : i \in 1..n}
      /\ Right = {right[i] : i \in 1..n} /\ Bottom = {bottom[i] : i \in 1..n}
  <2> HIDE DEF grids, n
  <2>1. \A x : x \in Left <=> x \in {left[i] : i \in 1..n}
    BY <1>1
  <2>2. \A x : x \in Top <=> x \in {top[i] : i \in 1..n}
    BY <1>1
  <2>3. \A x : x \in Right <=> x \in {right[i] : i \in 1..n}
    BY <1>1
  <2>4. \A x : x \in Bottom <=> x \in {bottom[i] : i \in 1..n}
    BY <1>1
  <2> HIDE DEF Left, Top, Right, Bottom, left, top, right, bottom
  <2> QED
    BY <2>1, <2>2, <2>3, <2>4
<1> HIDE DEF n, grids
<1>4. \A i \in 1..n : /\ left[i] \in Nat /\ top[i] \in Nat /\ right[i] \in Nat /\ bottom[i] \in Nat
                      /\ left[i] < right[i] /\ top[i] < bottom[i] /\ right[i] <= Cols
  <2> TAKE i \in 1..n
  <2> DEFINE g == tiles[i].grid
  <2>1. g.col \in Nat /\ g.row \in Nat /\ g.cs \in Nat \ {0} /\ g.rs \in Nat \ {0} /\ g.col + g.cs <= Cols
    BY <1>0, PanelTileIs
  <2>2. left[i] = g.col /\ top[i] = g.row /\ right[i] = g.col + g.cs /\ bottom[i] = g.row + g.rs
    OBVIOUS
  <2>3. Cols \in Nat
    BY GridAssumption
  <2> HIDE DEF g, left, top, right, bottom
  <2> QED
    BY <2>1, <2>2, <2>3
<1> HIDE DEF left, top, right, bottom, Left, Top, Right, Bottom
<1>5. Left # {} /\ Top # {} /\ Right # {} /\ Bottom # {}
  BY <1>0, <1>3
<1>6. n \in Nat
  BY <1>0
<1>7. Min(Left) \in Left /\ \A x \in Left : Min(Left) <= x
  <2>1. Left # {} /\ Left = {left[i] : i \in 1..n} /\ \A i \in 1..n : left[i] \in Int
    BY <1>3, <1>4, <1>5
  <2> QED
    BY ONLY <1>6, <2>1, ListExtremes
<1>8. Min(Top) \in Top /\ \A x \in Top : Min(Top) <= x
  <2>1. Top # {} /\ Top = {top[i] : i \in 1..n} /\ \A i \in 1..n : top[i] \in Int
    BY <1>3, <1>4, <1>5
  <2> QED
    BY ONLY <1>6, <2>1, ListExtremes
<1>9. Max(Right) \in Right /\ \A x \in Right : x <= Max(Right)
  <2>1. Right # {} /\ Right = {right[i] : i \in 1..n} /\ \A i \in 1..n : right[i] \in Int
    BY <1>3, <1>4, <1>5
  <2> QED
    BY ONLY <1>6, <2>1, ListExtremes
<1>10. Max(Bottom) \in Bottom /\ \A x \in Bottom : x <= Max(Bottom)
  <2>1. Bottom # {} /\ Bottom = {bottom[i] : i \in 1..n} /\ \A i \in 1..n : bottom[i] \in Int
    BY <1>3, <1>4, <1>5
  <2> QED
    BY ONLY <1>6, <2>1, ListExtremes
<1>11. col \in Nat /\ row \in Nat /\ \A i \in 1..n : col <= left[i] /\ row <= top[i]
  BY <1>3, <1>4, <1>7, <1>8
<1>12. /\ Max(Right) \in Nat /\ Max(Right) <= Cols /\ right[1] <= Max(Right)
       /\ Max(Bottom) \in Nat /\ bottom[1] <= Max(Bottom)
  BY <1>0, <1>3, <1>4, <1>9, <1>10
<1> DEFINE r == Max(Right)
           b == Max(Bottom)
<1>13. col \in Nat /\ row \in Nat /\ r \in Nat /\ b \in Nat /\ col <= left[1] /\ left[1] < right[1] /\ right[1] <= r /\ r <= Cols
       /\ row <= top[1] /\ top[1] < bottom[1] /\ bottom[1] <= b
       /\ left[1] \in Nat /\ right[1] \in Nat /\ top[1] \in Nat /\ bottom[1] \in Nat /\ Cols \in Nat
  BY <1>0, <1>4, <1>11, <1>12, GridAssumption
<1>14. place = Cell(col, row, r - col, b - row)
  OBVIOUS
<1> HIDE DEF col, row, r, b, place
<1>15. r - col \in 1..Cols /\ b - row \in Nat \ {0}
  BY <1>13
<1>16. place \in GroupGrids
  BY <1>13, <1>14, <1>15, CellTyped
<1>17. ASSUME NEW i \in DOMAIN tiles PROVE inside[i] \in AnyTree
  <2> DEFINE t == tiles[i]
             g == [t.grid EXCEPT !.col = t.grid.col - col, !.row = t.grid.row - row]
  <2>1. t \in TileNodes /\ t \in LooseNodes /\ t.grid \in TileGrids /\ t.grid.col \in Nat /\ t.grid.row \in Nat
    BY <1>0, PanelTileIs
  <2>2. t.grid.col = left[i] /\ t.grid.row = top[i]
    BY <1>0 DEF left, top
  <2>3. t.grid.col - col \in Nat /\ t.grid.row - row \in Nat
    BY <1>0, <1>11, <2>1, <2>2
  <2>4. inside[i] = [t EXCEPT !.grid.col = t.grid.col - col, !.grid.row = t.grid.row - row]
    OBVIOUS
  <2> HIDE DEF t
  <2>5. g \in TileGrids
    BY <2>1, <2>3 DEF TileGrids
  <2>6. [t EXCEPT !.grid.col = t.grid.col - col, !.grid.row = t.grid.row - row] = [t EXCEPT !.grid = g]
    BY <2>1 DEF TileNodes, TileGrids
  <2> HIDE DEF g, inside
  <2>7. g \in GridsFor(t)
    BY <2>1, <2>5, LooseKinds DEF GridsFor
  <2> QED
    BY <2>1, <2>4, <2>6, <2>7, GridOver
<1>18. inside = [i \in DOMAIN tiles |-> inside[i]]
  OBVIOUS
<1> HIDE DEF inside
<1>19. inside \in Seq(AnyTree)
  BY <1>17, <1>18, MappedIs
<1>20. PanelId[panel] \in Ids
  BY UpgradeAssumption
<1>21. base \in GroupNodes(AnyTree)
  BY <1>19, <1>20, GroupMade
<1> HIDE DEF base
<1>22. [base EXCEPT !.grid = place] \in GroupNodes(AnyTree)
  BY <1>16, <1>21 DEF GroupNodes
<1> QED
  BY <1>2, <1>22, TreeIs

\* A version 1 layout migrates to a layout: every row panel becomes a group with a placement inside the
\* columns, and its tiles keep their places relative to it (migrateV1ToV2).
THEOREM MigrationIsLayout ==
  ASSUME NEW rows \in LegacyRows
  PROVE  MigrateV1(rows) \in Seq(AnyTree)
<1> DEFINE R == [tile : LegacyTiles, panel : DOMAIN PanelId \union {NoId}]
           order(nodes) == {p \in Range(nodes) \X Range(nodes) : ByPosition(OriginOf(p[1]), OriginOf(p[2]))}
           inOrder(nodes) == SortedBy(nodes, order(nodes))
           ownOf(p) == Picked(rows, {i \in DOMAIN rows : rows[i].panel = p})
           tilesOf(p) == LET own == ownOf(p) IN [i \in DOMAIN own |-> own[i].tile]
           firstOf == {i \in DOMAIN rows : /\ rows[i].panel # NoId /\ rows[i].tile.grid # NoGrid
                                           /\ \A j \in 1..(i - 1) : rows[j].panel # rows[i].panel}
           panelOf == [i \in DOMAIN rows |-> rows[i].panel]
           panels == Picked(panelOf, firstOf)
           made == [i \in DOMAIN panels |-> PanelGroup(panels[i], inOrder(tilesOf(panels[i])))]
           all == tilesOf(NoId) \o made
<1>1. rows \in Seq(R) /\ SoundRows(rows)
  BY EditorAssumption
<1>2. MigrateV1(rows) = inOrder(all)
  BY DEF MigrateV1
<1>3. \A nodes : \A T : nodes \in Seq(T) => inOrder(nodes) \in Seq(T) /\ Len(inOrder(nodes)) = Len(nodes)
  <2> HIDE DEF order
  <2> QED
    BY SortedByIs
<1> HIDE DEF R, inOrder
<1>4. Len(rows) \in Nat /\ DOMAIN rows = 1..Len(rows) /\ \A i \in DOMAIN rows : rows[i] \in R
  BY <1>1, SeqMembers
<1>5. \A x \in R : x.tile \in LegacyTiles /\ x.tile \in AnyTree /\ x.panel \in DOMAIN PanelId \union {NoId}
  <2>1. \A t \in LegacyTiles : t \in AnyTree
    BY TreeIs DEF LegacyTiles
  <2> QED
    BY <2>1 DEF R
<1>6. ASSUME NEW p, NEW T, \A i \in DOMAIN rows : rows[i].panel = p => rows[i].tile \in T
      PROVE  tilesOf(p) \in Seq(T) /\ Len(tilesOf(p)) = Len(ownOf(p))
  <2> DEFINE keep == {i \in DOMAIN rows : rows[i].panel = p}
             own == Picked(rows, keep)
             ts == [i \in DOMAIN own |-> own[i].tile]
  <2>1. own \in Seq(R) /\ \A e \in Range(own) : \E i \in 1..Len(rows) : i \in keep /\ e = rows[i]
    <3> HIDE DEF keep
    <3> QED
      BY <1>1, PickedIs
  <2>2. \A i \in DOMAIN own : own[i] \in Range(own)
    BY <2>1, SeqMembers
  <2> HIDE DEF own
  <2>3. \A i \in DOMAIN own : ts[i] \in T
    <3> TAKE i \in DOMAIN own
    <3>1. PICK j \in 1..Len(rows) : j \in keep /\ own[i] = rows[j]
      BY <2>1, <2>2
    <3>2. ts[i] = rows[j].tile /\ j \in DOMAIN rows /\ rows[j].panel = p
      BY <3>1
    <3> QED
      BY <1>6, <3>2
  <2>4. ts = [i \in DOMAIN own |-> ts[i]]
    OBVIOUS
  <2>5. tilesOf(p) = ts /\ ownOf(p) = own
    BY DEF own
  <2> HIDE DEF ts
  <2>6. ts \in Seq(T) /\ Len(ts) = Len(own)
    BY <2>1, <2>3, <2>4, MappedIs
  <2> QED
    BY <2>5, <2>6
<1>7. \A p : \A i \in DOMAIN rows : rows[i].panel = p => Len(ownOf(p)) # 0
  <2> TAKE p
  <2> TAKE i \in DOMAIN rows
  <2> HAVE rows[i].panel = p
  <2> DEFINE keep == {j \in DOMAIN rows : rows[j].panel = p}
             own == Picked(rows, keep)
  <2>0. i \in keep /\ i \in 1..Len(rows)
    BY <1>4
  <2> HIDE DEF keep
  <2>1. own \in Seq(R) /\ rows[i] \in Range(own)
    BY <1>1, <2>0, PickedIs
  <2> HIDE DEF own
  <2>2. DOMAIN own = 1..Len(own) /\ Len(own) \in Nat
    BY <2>1, SeqMembers
  <2>3. PICK j \in DOMAIN own : rows[i] = own[j]
    BY <2>1 DEF Range
  <2>4. Len(own) # 0
    BY <2>2, <2>3
  <2> QED
    BY <2>4 DEF own, keep
<1> HIDE DEF tilesOf, ownOf
<1>8. tilesOf(NoId) \in Seq(AnyTree)
  <2>1. \A i \in DOMAIN rows : rows[i].tile \in AnyTree
    BY <1>4, <1>5
  <2> QED
    BY <1>6, <2>1
<1> DEFINE Q == {rows[i].panel : i \in firstOf}
<1>9. panels \in Seq(Q)
  <2> DEFINE P == {rows[i].panel : i \in DOMAIN rows}
  <2>1. panelOf = [i \in DOMAIN rows |-> panelOf[i]] /\ \A i \in DOMAIN rows : panelOf[i] \in P
    OBVIOUS
  <2>2. \A i \in DOMAIN rows : panelOf[i] = rows[i].panel
    OBVIOUS
  <2>2a. firstOf \subseteq DOMAIN rows
    OBVIOUS
  <2> HIDE DEF panelOf, firstOf, P
  <2>3. panelOf \in Seq(P) /\ Len(panelOf) = Len(rows)
    BY <1>1, <2>1, MappedIs
  <2>4. panels \in Seq(P) /\ \A e \in Range(panels) : \E i \in 1..Len(panelOf) : i \in firstOf /\ e = panelOf[i]
    BY <2>3, PickedIs
  <2> HIDE DEF panels
  <2>5. \A e \in Range(panels) : e \in Q
    BY <2>2, <2>2a, <2>4
  <2>6. panels \in Seq(Range(panels))
    BY <2>4, SeqMembers
  <2> HIDE DEF Q
  <2>7. Range(panels) \subseteq Q
    BY <2>5
  <2> QED
    BY <2>6, <2>7, SeqGrows
<1> HIDE DEF panels
<1>10. ASSUME NEW k \in DOMAIN panels PROVE made[k] \in AnyTree
  <2> DEFINE p == panels[k]
             ts == tilesOf(p)
  <2>1. p \in Q
    <3> HIDE DEF Q
    <3> QED
      BY <1>9, SeqMembers
  <2>2. PICK i \in firstOf : p = rows[i].panel
    BY <2>1
  <2>3. i \in DOMAIN rows /\ rows[i].panel # NoId /\ rows[i].tile.grid # NoGrid
    BY <2>2
  <2>4. p \in DOMAIN PanelId
    BY <1>4, <1>5, <2>2, <2>3
  <2> HIDE DEF p, firstOf
  <2>5. \A j \in DOMAIN rows : rows[j].panel = p => rows[j].tile \in PanelTiles
    <3> TAKE j \in DOMAIN rows
    <3> HAVE rows[j].panel = p
    <3>1. rows[j].tile.grid # NoGrid
      BY <1>1, <2>2, <2>3 DEF SoundRows
    <3>2. rows[j].tile \in LegacyTiles
      BY <1>4, <1>5
    <3> QED
      BY <3>1, <3>2 DEF PanelTiles
  <2>6. ts \in Seq(PanelTiles) /\ Len(ts) # 0
    BY <1>6, <1>7, <2>2, <2>3, <2>5
  <2>7. inOrder(ts) \in Seq(PanelTiles) /\ Len(inOrder(ts)) # 0
    <3> HIDE DEF ts
    <3> QED
      BY <1>3, <2>6
  <2>8. made[k] = PanelGroup(p, inOrder(ts))
    BY DEF p
  <2> HIDE DEF made, ts
  <2> QED
    BY <2>4, <2>7, <2>8, PanelGroupTyped
<1>11. made = [k \in DOMAIN panels |-> made[k]]
  OBVIOUS
<1> HIDE DEF made, Q
<1>12. made \in Seq(AnyTree)
  BY <1>9, <1>10, <1>11, MappedIs
<1>13. all \in Seq(AnyTree)
  BY <1>8, <1>12, ConcatProperties
<1> HIDE DEF all
<1> QED
  BY <1>2, <1>3, <1>13

-----------------------------------------------------------------------------
(* What a drop does.                                                       *)

\* Every node of the layout is one of those the walks are defined on.
LEMMA NodesBelow ==
  ASSUME NEW items \in Seq(AnyTree)
  PROVE  Range(Nodes(items)) \subseteq Below(items)
<1> DEFINE S == Below(items)
           F(f) == [n \in S |-> IF IsGroup(n) THEN <<n>> \o FlattenSeq(Through(f, n.kids)) ELSE <<n>>]
           after == [n \in S |-> [v \in Seq(Seq(S)) |-> IF IsGroup(n) THEN <<n>> \o FlattenSeq(v) ELSE <<n>>]]
           sel == Every(S)
           f == CHOOSE g : g = F(g)
<1>1. S \subseteq AnyTree /\ Closed(S) /\ Range(items) \subseteq S
  BY BelowIs
<1>2. Selects(S, sel) /\ \A n \in S : IsGroup(n) => sel[n] = n.kids
  BY <1>1, EverySelects
<1>2b. items \in Seq(AnyTree) /\ Range(items) \subseteq S
  BY <1>1, SeqMembers
<1>3a. \A n \in S : \A v \in Seq(Seq(S)) : <<n>> \in Seq(S) /\ <<n>> \o FlattenSeq(v) \in Seq(S)
  <2> HIDE DEF S
  <2> TAKE n \in S
  <2> TAKE v \in Seq(Seq(S))
  <2>1. <<n>> \in Seq(S)
    BY OneListed
  <2>2. FlattenSeq(v) \in Seq(S)
    BY FlattenSeqIs
  <2> QED
    BY <2>1, <2>2, ConcatProperties
<1>3. after \in [S -> [Seq(Seq(S)) -> Seq(S)]]
  BY <1>1, <1>3a
<1>4. \A g : \A n \in S : Through(g, sel[n]) \in Seq(Seq(S)) => F(g)[n] = after[n][Through(g, sel[n])]
  BY <1>2
<1>5. Nodes(items) = FlattenSeq(Through(f, items))
  BY DEF Nodes
<1>6. \A g : F(g) = [n \in S |-> F(g)[n]]
  OBVIOUS
<1> HIDE DEF after, sel, F, S
<1>7. PICK g \in [S -> Seq(S)] : Rebuilds(g, S, Seq(S), sel, after)
  BY <1>2, <1>3, RebuildExists DEF S
<1>8. \A n \in S : g[n] = F(g)[n]
  <2>1. IsRebuilt(g, S, Seq(S), sel, after)
    BY <1>1, <1>2, <1>3, <1>7, RebuildTyped
  <2> QED
    BY <1>4, <2>1 DEF IsRebuilt
<1>9. g = F(g)
  BY <1>6, <1>7, <1>8
<1>10. f = F(f)
  BY <1>9
<1> HIDE DEF f
<1>11. Rebuilds(f, S, Seq(S), sel, after)
  BY <1>4, <1>6, <1>10 DEF Rebuilds
<1>12. IsRebuilt(f, S, Seq(S), sel, after)
  BY <1>1, <1>2, <1>3, <1>11, RebuildTyped
<1> QED
  <2>1. \A m \in Range(items) : f[m] \in Seq(S)
    BY <1>2b, <1>12 DEF IsRebuilt
  <2> DEFINE V == Seq(S)
  <2>2. Through(f, items) \in Seq(V)
    <3>1. \A m \in Range(items) : f[m] \in V
      BY <2>1
    <3> HIDE DEF V
    <3> QED
      BY <3>1, ThroughIs
  <2>3. FlattenSeq(Through(f, items)) \in Seq(S)
    BY <2>2, FlattenSeqIs
  <2> QED
    BY <1>5, <2>3, SeqMembers DEF S

\* The mirror lists of a layout's groups.
MirrorSets(items) == [GroupIds(items) -> Seq(AnyTree)]

\* They are lists of nodes,
LEMMA MirrorsTyped ==
  ASSUME NEW items \in Seq(AnyTree)
  PROVE  Mirrors(items) \in MirrorSets(items)
<1> DEFINE groups == GroupsIn(items)
           at(g) == {i \in DOMAIN groups : groups[i].id = g}
           m == [g \in GroupIds(items) |-> DedupeById(groups[Max(at(g))].kids)]
<1>1. groups \in Seq(GroupNodes(AnyTree)) /\ \A g \in Range(groups) : g.kids \in Seq(AnyTree)
  BY NodesAre
<1>2. Mirrors(items) = m
  BY DEF Mirrors, GroupIds
<1> HIDE DEF groups
<1>3. DOMAIN groups = 1..Len(groups) /\ Len(groups) \in Nat /\ \A i \in DOMAIN groups : groups[i] \in Range(groups)
  BY <1>1, SeqMembers
<1>4. ASSUME NEW g \in GroupIds(items) PROVE DedupeById(groups[Max(at(g))].kids) \in Seq(AnyTree)
  <2>1. at(g) # {}
    BY DEF GroupIds, IdsOf, groups
  <2>2. at(g) \subseteq Int /\ \A i \in at(g) : i <= Len(groups)
    BY <1>3
  <2>3. at(g) \subseteq DOMAIN groups
    OBVIOUS
  <2> HIDE DEF at
  <2>4. Max(at(g)) \in at(g)
    BY <1>3, <2>1, <2>2, MaxIs
  <2>5. groups[Max(at(g))].kids \in Seq(AnyTree)
    BY <1>1, <1>3, <2>3, <2>4
  <2> QED
    BY <2>5, SubListIs
<1> HIDE DEF at
<1>5. m \in MirrorSets(items)
  BY <1>4 DEF MirrorSets
<1> QED
  BY <1>2, <1>5

\* and so is the one of any id, and what becomes of them.
LEMMA ListOfTyped ==
  ASSUME NEW items, NEW m \in MirrorSets(items), NEW gid
  PROVE  /\ ListOf(m, gid) \in Seq(AnyTree)
         /\ \A list \in Seq(AnyTree) : [m EXCEPT ![gid] = list] \in MirrorSets(items)
<1> DEFINE D == GroupIds(items)
           V == Seq(AnyTree)
<1>1. m \in [D -> V]
  BY DEF MirrorSets
<1>2. <<>> \in V
  BY EmptySeq
<1> HIDE DEF D, V
<1>3. ListOf(m, gid) \in V
  BY <1>1, <1>2 DEF ListOf
<1>4. \A list \in V : [m EXCEPT ![gid] = list] \in [D -> V]
  BY <1>1
<1> QED
  BY <1>3, <1>4 DEF D, V, MirrorSets

\* A finalized child of each kind stays of that kind or not, but is a node.
LEMMA FinalizeKidsTyped ==
  ASSUME NEW prev \in AnyTree, IsGroup(prev), NEW list \in Seq(AnyTree), NEW final,
         \A k \in Range(prev.kids) : final[k] \in AnyTree
  PROVE  FinalizeKids(final, prev, list) \in Seq(AnyTree)
<1> DEFINE held == [n \in Range(list) |->
                    LET p == IndexOf(prev.kids, n.id) IN IF p = 0 THEN n ELSE final[prev.kids[p]]]
           synced == Through(held, list)
           tiles == IF prev.wrap THEN PackRowWrap(OuterCols(prev), TilesOf(synced))
                    ELSE ReorderTiles(TilesOf(prev.kids), TilesOf(synced), FALSE)
           out == [i \in DOMAIN synced |->
                      IF IsGroup(synced[i]) THEN synced[i] ELSE tiles[IndexOf(tiles, synced[i].id)]]
<1>1. prev.kids \in Seq(AnyTree)
  BY NodeIs
<1>2. \A n \in Range(list) : held[n] \in AnyTree
  <2> TAKE n \in Range(list)
  <2> DEFINE p == IndexOf(prev.kids, n.id)
  <2>1. n \in AnyTree
    BY SeqMembers
  <2>2. p # 0 => p \in 1..Len(prev.kids)
    BY <1>1, IndexOfIs
  <2>3. p # 0 => prev.kids[p] \in Range(prev.kids)
    BY <1>1, <2>2, SeqMembers
  <2>4. p # 0 => final[prev.kids[p]] \in AnyTree
    BY <2>3
  <2>5. held[n] = IF p = 0 THEN n ELSE final[prev.kids[p]]
    OBVIOUS
  <2> HIDE DEF p, held
  <2> QED
    BY <2>1, <2>4, <2>5
<1>3. FinalizeKids(final, prev, list) = out
  BY DEF FinalizeKids
<1> HIDE DEF held
<1>4. synced \in Seq(AnyTree)
  BY <1>2, ThroughIs
<1> HIDE DEF synced
<1>5. TilesOf(synced) \in Seq(TileNodes) /\ TilesOf(prev.kids) \in Seq(TileNodes)
  BY <1>1, <1>4, KindsOf
<1>6. tiles \in Seq(TileNodes) /\ DOMAIN tiles = DOMAIN TilesOf(synced)
      /\ \A i \in DOMAIN TilesOf(synced) : tiles[i].id = TilesOf(synced)[i].id
  <2> DEFINE own == TilesOf(synced)
             one == PackRowWrap(OuterCols(prev), own)
             other == ReorderTiles(TilesOf(prev.kids), own, FALSE)
  <2>1. own \in Seq(TileNodes) /\ OuterCols(prev) \in Int
    BY <1>5, OuterColsInt
  <2> HIDE DEF own
  <2>2. one \in Seq(TileNodes) /\ Len(one) = Len(own) /\ \A i \in DOMAIN own : one[i].id = own[i].id
    BY <2>1, PackRowWrapTyped
  <2>3. other \in Seq(TileNodes) /\ Like(other, own)
    BY <1>5, <2>1, ReorderTilesTyped
  <2>4. DOMAIN one = DOMAIN own
    <3> HIDE DEF one
    <3> QED
      BY <2>1, <2>2, LenProperties
  <2>5. DOMAIN other = DOMAIN own /\ \A i \in DOMAIN own : other[i].id = own[i].id
    BY <2>3 DEF Like
  <2>6. tiles = IF prev.wrap THEN one ELSE other
    BY DEF own
  <2> HIDE DEF one, other, tiles
  <2> QED
    BY <2>2, <2>3, <2>4, <2>5, <2>6 DEF own
<1> HIDE DEF tiles
<1>7. DOMAIN synced = 1..Len(synced) /\ \A i \in DOMAIN synced : synced[i] \in AnyTree
  BY <1>4, SeqMembers
<1>8. ASSUME NEW i \in DOMAIN synced PROVE out[i] \in AnyTree
  <2>1. CASE IsGroup(synced[i])
    BY <1>7, <2>1
  <2>2. CASE ~IsGroup(synced[i])
    <3> DEFINE id == synced[i].id
               p == IndexOf(tiles, id)
    <3>1. synced[i] \in Range(TilesOf(synced))
      BY <1>4, <1>7, <2>2, KindsOf
    <3>2. PICK j \in DOMAIN TilesOf(synced) : TilesOf(synced)[j] = synced[i]
      BY <3>1 DEF Range
    <3>3. j \in DOMAIN tiles /\ tiles[j].id = id
      BY <1>6, <3>2
    <3>4. Has(tiles, id)
      BY <3>3 DEF Has, IdsOf
    <3>5. p # 0 /\ tiles[p] \in TileNodes
      BY <1>6, <3>4, IndexOfIs
    <3> QED
      BY <2>2, <3>5, TreeIs
  <2> QED
    BY <2>1, <2>2
<1>9. out = [i \in DOMAIN synced |-> out[i]]
  OBVIOUS
<1> HIDE DEF out
<1> QED
  BY <1>3, <1>4, <1>8, <1>9, MappedIs

\* The finalized children look at those of the group only.
LEMMA FinalizeKidsLocal ==
  ASSUME NEW prev \in AnyTree, IsGroup(prev), NEW list \in Seq(AnyTree), NEW f, NEW g,
         \A k \in Range(prev.kids) : f[k] = g[k]
  PROVE  FinalizeKids(f, prev, list) = FinalizeKids(g, prev, list)
<1> DEFINE held(e) == [n \in Range(list) |->
                        LET p == IndexOf(prev.kids, n.id) IN IF p = 0 THEN n ELSE e[prev.kids[p]]]
<1>1. prev.kids \in Seq(AnyTree)
  BY NodeIs
<1>2. ASSUME NEW n \in Range(list) PROVE held(f)[n] = held(g)[n]
  <2> DEFINE p == IndexOf(prev.kids, n.id)
  <2>1. p # 0 => p \in 1..Len(prev.kids)
    BY <1>1, IndexOfIs
  <2>2. p # 0 => prev.kids[p] \in Range(prev.kids)
    BY <1>1, <2>1, SeqMembers
  <2>3. p # 0 => f[prev.kids[p]] = g[prev.kids[p]]
    BY <2>2
  <2>4. \A e : held(e)[n] = IF p = 0 THEN n ELSE e[prev.kids[p]]
    OBVIOUS
  <2> HIDE DEF p, held
  <2> QED
    BY <2>3, <2>4
<1>3. held(f) = [n \in Range(list) |-> held(f)[n]] /\ held(g) = [n \in Range(list) |-> held(g)[n]]
  OBVIOUS
<1> HIDE DEF held
<1>4. held(f) = held(g)
  BY <1>2, <1>3
<1> DEFINE of(h) == LET synced == Through(h, list)
                        tiles == IF prev.wrap THEN PackRowWrap(OuterCols(prev), TilesOf(synced))
                                 ELSE ReorderTiles(TilesOf(prev.kids), TilesOf(synced), FALSE)
                    IN  [i \in DOMAIN synced |->
                            IF IsGroup(synced[i]) THEN synced[i] ELSE tiles[IndexOf(tiles, synced[i].id)]]
<1>5. FinalizeKids(f, prev, list) = of(held(f)) /\ FinalizeKids(g, prev, list) = of(held(g))
  BY DEF FinalizeKids, held
<1> HIDE DEF of
<1> QED
  BY <1>4, <1>5

\* The layout of a drop is one, whatever the mirrors remember and the layout has become.
LEMMA LayoutFromMirrorsTyped ==
  ASSUME NEW items \in Seq(AnyTree), NEW root \in Seq(AnyTree),
         NEW snap, NEW mirrors \in MirrorSets(snap)
  PROVE  LayoutFromMirrors(items, root, mirrors) \in Seq(AnyTree)
<1> DEFINE S == Below(items)
           F(f) == [n \in S |-> IF IsGroup(n) THEN [n EXCEPT !.kids = FinalizeKids(f, n, IF n.id \in DOMAIN mirrors THEN mirrors[n.id] ELSE @)] ELSE n]
           place(n, k) == CHOOSE p \in DOMAIN n.kids : n.kids[p] = k
           known(n, v) == [k \in Range(n.kids) |-> IF place(n, k) \in DOMAIN v THEN v[place(n, k)] ELSE k]
           listed(n) == IF n.id \in DOMAIN mirrors THEN mirrors[n.id] ELSE n.kids
           after == [n \in S |-> [v \in Seq(AnyTree) |-> IF IsGroup(n) THEN [n EXCEPT !.kids = FinalizeKids(known(n, v), n, listed(n))] ELSE n]]
           sel == Every(S)
           f == CHOOSE g : g = F(g)
           groups == [n \in Range(root) |->
                         IF IsGroup(n) /\ n.id \in GroupIds(items) THEN f[FindGroup(items, n.id)] ELSE n]
<1>1. S \subseteq AnyTree /\ Closed(S) /\ Range(items) \subseteq S
  BY BelowIs
<1>2. Selects(S, sel) /\ \A n \in S : IsGroup(n) => sel[n] = n.kids
  BY <1>1, EverySelects
<1>2b. items \in Seq(AnyTree) /\ Range(items) \subseteq S
  BY <1>1, SeqMembers
<1>2c. \A n \in S : IsGroup(n) => n \in AnyTree /\ n.kids \in Seq(AnyTree) /\ listed(n) \in Seq(AnyTree)
  <2> TAKE n \in S
  <2> HAVE IsGroup(n)
  <2>1. n \in AnyTree /\ n.kids \in Seq(AnyTree)
    BY <1>1, NodeIs
  <2> DEFINE D == GroupIds(snap)
             V == Seq(AnyTree)
  <2>2. mirrors \in [D -> V]
    BY DEF MirrorSets
  <2> HIDE DEF D, V
  <2>3. n.id \in DOMAIN mirrors => mirrors[n.id] \in V
    BY <2>2
  <2> QED
    BY <2>1, <2>3 DEF V
<1>2d. \A n \in S : IsGroup(n) => \A k \in Range(n.kids) : place(n, k) \in DOMAIN n.kids /\ n.kids[place(n, k)] = k
  BY DEF Range
<1>2e. \A n \in S : IsGroup(n) => \A v \in Seq(AnyTree) : \A k \in Range(n.kids) : known(n, v)[k] \in AnyTree
  <2> TAKE n \in S
  <2> HAVE IsGroup(n)
  <2> TAKE v \in Seq(AnyTree)
  <2> TAKE k \in Range(n.kids)
  <2> DEFINE p == place(n, k)
  <2>1. k \in AnyTree
    BY <1>2c, SeqMembers
  <2>2. p \in DOMAIN v => v[p] \in AnyTree
    BY SeqMembers
  <2>3. known(n, v)[k] = IF p \in DOMAIN v THEN v[p] ELSE k
    OBVIOUS
  <2> HIDE DEF p, known
  <2> QED
    BY <2>1, <2>2, <2>3
<1>3a. \A n \in S : IsGroup(n) => \A v \in Seq(AnyTree) : [n EXCEPT !.kids = FinalizeKids(known(n, v), n, listed(n))] \in AnyTree
  <2> HIDE DEF known, listed
  <2> TAKE n \in S
  <2> HAVE IsGroup(n)
  <2> TAKE v \in Seq(AnyTree)
  <2>1. FinalizeKids(known(n, v), n, listed(n)) \in Seq(AnyTree)
    BY <1>2c, <1>2e, FinalizeKidsTyped
  <2> QED
    BY <1>2c, <2>1, WithKids
<1>3. after \in [S -> [Seq(AnyTree) -> AnyTree]]
  <2> HIDE DEF known, listed
  <2> QED
    BY <1>1, <1>3a
<1>4. \A g : \A n \in S : Through(g, sel[n]) \in Seq(AnyTree) => F(g)[n] = after[n][Through(g, sel[n])]
  <2> TAKE g
  <2> TAKE n \in S
  <2> HAVE Through(g, sel[n]) \in Seq(AnyTree)
  <2> DEFINE v == Through(g, sel[n])
  <2>1. after[n][v] = IF IsGroup(n) THEN [n EXCEPT !.kids = FinalizeKids(known(n, v), n, listed(n))] ELSE n
    OBVIOUS
  <2>2. F(g)[n] = IF IsGroup(n) THEN [n EXCEPT !.kids = FinalizeKids(g, n, listed(n))] ELSE n
    OBVIOUS
  <2>3. ASSUME IsGroup(n) PROVE FinalizeKids(known(n, v), n, listed(n)) = FinalizeKids(g, n, listed(n))
    <3>1. sel[n] = n.kids /\ n \in AnyTree /\ n.kids \in Seq(AnyTree) /\ listed(n) \in Seq(AnyTree)
      BY <1>2, <1>2c, <2>3
    <3>2. DOMAIN v = DOMAIN n.kids /\ \A i \in DOMAIN n.kids : v[i] = g[n.kids[i]]
      BY <3>1, ThroughValues
    <3> HIDE DEF v
    <3>3. \A k \in Range(n.kids) : known(n, v)[k] = g[k]
      <4> TAKE k \in Range(n.kids)
      <4>1. place(n, k) \in DOMAIN n.kids /\ n.kids[place(n, k)] = k
        BY <1>2d, <2>3
      <4>2. known(n, v)[k] = IF place(n, k) \in DOMAIN v THEN v[place(n, k)] ELSE k
        OBVIOUS
      <4> HIDE DEF place, known
      <4> QED
        BY <3>2, <4>1, <4>2
    <3> HIDE DEF known, listed
    <3> QED
      BY <2>3, <3>1, <3>3, FinalizeKidsLocal
  <2> HIDE DEF after, F, known, listed
  <2> QED
    BY <2>1, <2>2, <2>3 DEF v
<1>5. LayoutFromMirrors(items, root, mirrors) = Through(groups, root)
  BY DEF LayoutFromMirrors
<1>6. \A g : F(g) = [n \in S |-> F(g)[n]]
  OBVIOUS
<1> HIDE DEF after, sel, F, S, known, place, listed
<1>7. PICK g \in [S -> AnyTree] : Rebuilds(g, S, AnyTree, sel, after)
  BY <1>2, <1>3, RebuildExists DEF S
<1>8. \A n \in S : g[n] = F(g)[n]
  <2>1. IsRebuilt(g, S, AnyTree, sel, after)
    BY <1>1, <1>2, <1>3, <1>7, RebuildTyped
  <2> QED
    BY <1>4, <2>1 DEF IsRebuilt
<1>9. g = F(g)
  BY <1>6, <1>7, <1>8
<1>10. f = F(f)
  BY <1>9
<1> HIDE DEF f
<1>11. Rebuilds(f, S, AnyTree, sel, after)
  BY <1>4, <1>6, <1>10 DEF Rebuilds
<1>12. IsRebuilt(f, S, AnyTree, sel, after)
  BY <1>1, <1>2, <1>3, <1>11, RebuildTyped
<1> QED
  <2>1. \A m \in S : f[m] \in AnyTree
    BY <1>12 DEF IsRebuilt
  <2>2. \A n \in Range(root) : groups[n] \in AnyTree
    <3> TAKE n \in Range(root)
    <3> DEFINE found == FindGroup(items, n.id)
    <3>1. n \in AnyTree
      BY SeqMembers
    <3>2. n.id \in GroupIds(items) => found \in Range(Nodes(items))
      BY FoundGroup
    <3>3. n.id \in GroupIds(items) => f[found] \in AnyTree
      BY <2>1, <3>2, NodesBelow DEF S
    <3>4. groups[n] = IF IsGroup(n) /\ n.id \in GroupIds(items) THEN f[found] ELSE n
      OBVIOUS
    <3> HIDE DEF found, groups
    <3> QED
      BY <3>1, <3>3, <3>4
  <2> HIDE DEF groups
  <2> QED
    BY <1>5, <2>2, ThroughIs

\* The lists of a drop.
LEMMA ListDropsTyped ==
  ASSUME NEW S, NEW list \in Seq(S)
  PROVE  /\ \A a, b : SwapInList(list, a, b) \in Seq(S)
         /\ \A node \in S : \A target, pos : InsertRelativeTo(list, node, target, pos) \in Seq(S)
         /\ \A node \in S : \A slot, pos, band : InsertAtSlot(list, node, slot, pos, band) \in Seq(S)
<1>1. ASSUME NEW a, NEW b PROVE SwapInList(list, a, b) \in Seq(S)
  <2> DEFINE i == IndexOf(list, a)
             j == IndexOf(list, b)
             one == [list EXCEPT ![i] = list[j]]
             two == [one EXCEPT ![j] = list[i]]
  <2>1. i \in 0..Len(list) /\ j \in 0..Len(list)
    BY IndexOfIs
  <2>2. DOMAIN list = 1..Len(list) /\ Len(list) \in Nat
    BY SeqMembers
  <2>3. SwapInList(list, a, b) = IF 0 \in {i, j} THEN list ELSE two
    BY DEF SwapInList
  <2> HIDE DEF i, j
  <2>4. CASE 0 \in {i, j}
    BY <2>3, <2>4, Zenon
  <2>5. CASE 0 \notin {i, j}
    <3>0. i \in DOMAIN list /\ j \in DOMAIN list
      BY <2>1, <2>2, <2>5
    <3>1. list[i] \in S /\ list[j] \in S
      BY <3>0, SeqMembers
    <3>2. one \in Seq(S)
      BY <3>1, ExceptTyped
    <3> HIDE DEF one
    <3>3. two \in Seq(S)
      BY <3>1, <3>2, ExceptTyped
    <3> HIDE DEF two
    <3> QED
      BY <2>3, <2>5, <3>3, Zenon
  <2> QED
    BY <2>4, <2>5
<1>2. ASSUME NEW node \in S, NEW target, NEW pos PROVE InsertRelativeTo(list, node, target, pos) \in Seq(S)
  <2> DEFINE at == IndexOf(list, target)
             spot == IF pos = "after" THEN at + 1 ELSE at
             put == IF at = 0 THEN Append(list, node) ELSE InsertAt(list, spot, node)
  <2>1. at \in 0..Len(list) /\ Len(list) \in Nat
    BY IndexOfIs, SeqMembers
  <2>2. InsertRelativeTo(list, node, target, pos) = DedupeById(put)
    BY DEF InsertRelativeTo
  <2> HIDE DEF at
  <2>3. at # 0 => spot \in 1..(Len(list) + 1)
    BY <2>1
  <2> HIDE DEF spot
  <2>4. Append(list, node) \in Seq(S)
    BY AppendProperties
  <2>5. at # 0 => InsertAt(list, spot, node) \in Seq(S)
    BY <2>3, InsertAtIs
  <2>6. put \in Seq(S)
    BY <2>4, <2>5
  <2> HIDE DEF put
  <2> QED
    BY <2>2, <2>6, SubListIs
<1>3. ASSUME NEW node \in S, NEW slot, NEW pos, NEW band PROVE InsertAtSlot(list, node, slot, pos, band) \in Seq(S)
  <2>1. Append(list, node) \in Seq(S)
    BY AppendProperties
  <2>2. DedupeById(Append(list, node)) \in Seq(S)
    BY <2>1, SubListIs
  <2> QED
    BY <1>2, <2>2 DEF InsertAtSlot
<1> QED
  BY <1>1, <1>2, <1>3

RootGrids == GroupGrids \union {NoGrid}

\* The grid of a root item, if it is one.
LEMMA RootGridTyped ==
  ASSUME NEW items \in Seq(AnyTree), NEW id
  PROVE  RootGrid(items, id) \in RootGrids /\ \A g \in RootGrids : g # NoGrid => g.row \in Nat
<1>1. Has(items, id) => items[IndexOf(items, id)].grid \in RootGrids
  BY FoundItem, TypedGrid DEF RootGrids
<1> QED
  BY <1>1 DEF RootGrid, RootGrids, GroupGrids

\* Both rows of a move closed up.
LEMMA ReflowBothTyped ==
  ASSUME NEW W, NodeSet(W), NEW items \in Seq(W), NEW target \in RootGrids, NEW dragged \in RootGrids
  PROVE  ReflowBoth(items, target, dragged) \in Seq(W)
<1> DEFINE there == IF Single(target) THEN ReflowRowInListOrder(items, target.row) ELSE items
<1>1. (Single(target) => target.row \in Nat) /\ (Single(dragged) => dragged.row \in Nat)
  BY DEF Single, RootGrids, GroupGrids
<1>2. there \in Seq(W)
  BY <1>1, ReflowRowsTyped
<1>3. ReflowBoth(items, target, dragged) = IF Single(dragged) /\ dragged.row # target.row
                                           THEN ReflowRowInListOrder(there, dragged.row) ELSE there
  BY DEF ReflowBoth
<1> HIDE DEF there
<1>4. Single(dragged) => ReflowRowInListOrder(there, dragged.row) \in Seq(W)
  BY <1>1, <1>2, ReflowRowsTyped
<1> QED
  BY <1>2, <1>3, <1>4

\* A drop on a root item,
LEMMA TileSlotDropTyped ==
  ASSUME NEW items \in Seq(AnyTree), NEW merged \in Seq(AnyTree), NEW id, NEW target, NEW band
  PROVE  TileSlotDrop(items, merged, id, target, band) \in Seq(AnyTree)
<1> DEFINE d == RootGrid(items, id)
           t == RootGrid(items, target)
           moved == RelocateToRow(merged, id, t.row)
           tiles == IF band = "center" THEN SwapTiles(merged, id, target) ELSE moved
           slots == IF band = "center" THEN SwapSlots(merged, id, target) ELSE moved
<1>1. d \in RootGrids /\ t \in RootGrids /\ \A g \in RootGrids : g # NoGrid => g.row \in Nat
  BY RootGridTyped
<1>2. TileSlotDrop(items, merged, id, target, band) =
        CASE NoGrid \in {d, t} -> PackRoot(merged)
          [] Single(d) /\ Single(t) -> ReflowBoth(tiles, t, d)
          [] OTHER -> PackRoot(ReflowBoth(slots, t, d))
  BY DEF TileSlotDrop
<1> HIDE DEF d, t
<1>3. merged \in Seq(LooseNodes)
  BY LooseKinds, SeqGrows
<1>4. t # NoGrid => moved \in Seq(AnyTree)
  BY <1>1, RelocateTyped
<1> HIDE DEF moved
<1>5. t # NoGrid => moved \in Seq(LooseNodes)
  BY <1>4, LooseKinds, SeqGrows
<1>6. t # NoGrid => tiles \in Seq(AnyTree)
  BY <1>4, SwapTilesTyped
<1>7. t # NoGrid => slots \in Seq(LooseNodes)
  BY <1>5, SwapSlotsTyped
<1> HIDE DEF tiles, slots
<1>8. NodeSet(AnyTree) /\ NodeSet(LooseNodes)
  BY DEF NodeSet
<1>9. t # NoGrid => ReflowBoth(tiles, t, d) \in Seq(AnyTree)
  BY <1>1, <1>6, <1>8, ReflowBothTyped
<1>10. t # NoGrid => ReflowBoth(slots, t, d) \in Seq(LooseNodes)
  BY <1>1, <1>7, <1>8, ReflowBothTyped
<1>11. t # NoGrid => PackRoot(ReflowBoth(slots, t, d)) \in Seq(AnyTree)
  BY <1>10, PackRootApart
<1>12. PackRoot(merged) \in Seq(AnyTree)
  BY <1>3, PackRootApart
<1>13. CASE NoGrid \in {d, t}
  <2>1. ~(Single(d) /\ Single(t))
    BY <1>13 DEF Single
  <2>2. TileSlotDrop(items, merged, id, target, band) = PackRoot(merged)
    BY <1>2, <1>13, <2>1
  <2> QED
    BY <1>12, <2>2
<1>14. CASE NoGrid \notin {d, t}
  <2>1. t # NoGrid
    BY <1>14
  <2>2. TileSlotDrop(items, merged, id, target, band) =
          IF Single(d) /\ Single(t) THEN ReflowBoth(tiles, t, d) ELSE PackRoot(ReflowBoth(slots, t, d))
    BY <1>2, <1>14, Zenon
  <2> QED
    BY <1>9, <1>11, <2>1, <2>2, Zenon
<1> QED
  BY <1>13, <1>14

\* in a gap, at the end of a row or of the root,
LEMMA RootListDropTyped ==
  ASSUME NEW items \in Seq(AnyTree), NEW merged \in Seq(AnyTree), NEW id, NEW slot, NEW band
  PROVE  RootListDrop(items, merged, id, slot, band) \in Seq(AnyTree)
<1> DEFINE t == RootGrid(items, slot.id)
           d == RootGrid(items, id)
<1>1. t \in RootGrids /\ d \in RootGrids
  BY RootGridTyped
<1>2. RootListDrop(items, merged, id, slot, band) =
      CASE slot.kind = "rowEnd" /\ Single(t) -> DropAfter(items, merged, id, slot.id)
        [] slot.kind = "gap" /\ Single(t) -> ReflowBoth(merged, t, d)
        [] slot.kind = "slot" -> TileSlotDrop(items, merged, id, slot.id, band)
        [] OTHER -> PackRoot(merged)
  BY DEF RootListDrop
<1> HIDE DEF t, d
<1>3. merged \in Seq(LooseNodes) /\ NodeSet(AnyTree)
  BY LooseKinds, SeqGrows DEF NodeSet
<1>4. PackRoot(merged) \in Seq(AnyTree)
  BY <1>3, PackRootApart
<1>5. ReflowBoth(merged, t, d) \in Seq(AnyTree)
  BY <1>1, <1>3, ReflowBothTyped
<1> QED
  BY <1>2, <1>4, <1>5, DropAfterTyped, TileSlotDropTyped

\* of a root item on any of these or into a group,
LEMMA RootCellDropTyped ==
  ASSUME NEW items \in Seq(AnyTree), NEW snap \in Seq(AnyTree), NEW cell, Has(snap, cell.id),
         NEW slot, NEW pos, NEW band
  PROVE  RootCellDrop(items, snap, cell, slot, pos, band) \in Seq(AnyTree)
<1> DEFINE lists == Mirrors(snap)
           node == snap[IndexOf(snap, cell.id)]
           side == IF slot.kind = "slot" THEN band ELSE "after"
           moved == IF slot.kind = "end" THEN Append(WithoutId(snap, node.id), node)
                   ELSE ReorderByTarget(snap, node.id, slot.id, side)
           order == IF slot.kind = "slot" /\ band = "center" THEN SwapInList(snap, cell.id, slot.id) ELSE moved
           into == InsertAtSlot(ListOf(lists, slot.gid), node, slot, pos, band)
           by == [lists EXCEPT ![slot.gid] = into]
           rest == DedupeById(WithoutId(snap, cell.id))
<1>1. node \in AnyTree
  BY FoundItem
<1>2. lists \in MirrorSets(snap)
  BY MirrorsTyped
<1>3. RootCellDrop(items, snap, cell, slot, pos, band) =
        IF slot.on = "root" THEN RootListDrop(items, LayoutFromMirrors(items, order, lists), cell.id, slot, band)
        ELSE ReorderRoot(items, LayoutFromMirrors(items, rest, by))
  BY DEF RootCellDrop, ReorderRootDrag
<1>4. WithoutId(snap, cell.id) \in Seq(AnyTree) /\ WithoutId(snap, node.id) \in Seq(AnyTree)
  BY SubListIs
<1>5. rest \in Seq(AnyTree)
  BY <1>4, SubListIs
<1> HIDE DEF lists, node, side, rest
<1>6. moved \in Seq(AnyTree)
  <2>1. Append(WithoutId(snap, node.id), node) \in Seq(AnyTree)
    BY <1>1, <1>4, AppendProperties
  <2>2. ReorderByTarget(snap, node.id, slot.id, side) \in Seq(AnyTree)
    BY ReorderByTargetTyped
  <2> QED
    BY <2>1, <2>2
<1> HIDE DEF moved
<1>7. order \in Seq(AnyTree)
  <2>1. SwapInList(snap, cell.id, slot.id) \in Seq(AnyTree)
    BY ListDropsTyped
  <2> QED
    BY <1>6, <2>1
<1>8. ListOf(lists, slot.gid) \in Seq(AnyTree)
  BY <1>2, ListOfTyped
<1>9. into \in Seq(AnyTree)
  BY <1>1, <1>8, ListDropsTyped
<1> HIDE DEF order, into
<1>10. by \in MirrorSets(snap)
  BY <1>2, <1>9, ListOfTyped
<1> HIDE DEF by
<1>11. LayoutFromMirrors(items, order, lists) \in Seq(AnyTree) /\ LayoutFromMirrors(items, rest, by) \in Seq(AnyTree)
  BY <1>2, <1>5, <1>7, <1>10, LayoutFromMirrorsTyped
<1>12. RootListDrop(items, LayoutFromMirrors(items, order, lists), cell.id, slot, band) \in Seq(AnyTree)
  BY <1>11, RootListDropTyped
<1>13. ReorderRoot(items, LayoutFromMirrors(items, rest, by)) \in Seq(AnyTree)
  BY <1>11, ReorderRootTyped
<1> QED
  BY <1>3, <1>12, <1>13

\* and of a child of a group to wherever it goes.
LEMMA GroupCellDropTyped ==
  ASSUME NEW items \in Seq(AnyTree), NEW snap \in Seq(AnyTree), NEW cell, NEW slot, NEW pos, NEW band,
         Has(ListOf(Mirrors(snap), cell.from), cell.id)
            \/ (slot.on = "group" /\ slot.gid = cell.from /\ slot.kind = "slot")
  PROVE  GroupCellDrop(items, snap, cell, slot, pos, band) \in Seq(AnyTree)
<1> DEFINE lists == Mirrors(snap)
           own == ListOf(lists, cell.from)
           node == own[IndexOf(own, cell.id)]
           left == WithoutId(own, cell.id)
           beside == IF band = "center" THEN "before" ELSE band
           atRoot == InsertAtSlot(snap, node, slot, "before", beside)
           root == IF slot.kind = "slot" /\ band = "center" THEN SwapInList(atRoot, cell.id, slot.id) ELSE atRoot
           swapped == SwapInList(own, cell.id, slot.id)
           side == IF band = "center" THEN pos ELSE band
           moved == ReorderByTarget(own, cell.id, slot.id, side)
           reordered == IF band = "center" /\ cell.id # slot.id THEN swapped ELSE moved
           inserted == InsertAtSlot(left, node, slot, pos, band)
           same == IF slot.kind = "slot" THEN reordered ELSE inserted
           into == InsertAtSlot(ListOf(lists, slot.gid), node, slot, pos, band)
           removed == [lists EXCEPT ![cell.from] = left]
           within == [lists EXCEPT ![cell.from] = DedupeById(same)]
           across == [lists EXCEPT ![cell.from] = left, ![slot.gid] = into]
<1>1. lists \in MirrorSets(snap)
  BY MirrorsTyped
<1> HIDE DEF lists
<1>2. own \in Seq(AnyTree) /\ ListOf(lists, slot.gid) \in Seq(AnyTree)
  BY <1>1, ListOfTyped
<1>3. left \in Seq(AnyTree)
  BY <1>2, SubListIs
<1>4. GroupCellDrop(items, snap, cell, slot, pos, band) =
        CASE slot.on = "root" /\ slot.kind = "slot" ->
                TileSlotDrop(items, LayoutFromMirrors(items, root, removed), cell.id, slot.id, band)
          [] slot.on = "root" /\ slot.kind # "slot" -> PackRoot(LayoutFromMirrors(items, root, removed))
          [] slot.on = "group" /\ slot.gid = cell.from -> ReorderRoot(items, LayoutFromMirrors(items, snap, within))
          [] OTHER -> ReorderRoot(items, LayoutFromMirrors(items, snap, across))
  BY DEF GroupCellDrop, ReorderInGroup, lists
<1>5. Has(own, cell.id) \/ (slot.on = "group" /\ slot.gid = cell.from /\ slot.kind = "slot")
  BY DEF lists
<1> HIDE DEF own, side, left
<1>6. reordered \in Seq(AnyTree)
  <2>1. swapped \in Seq(AnyTree)
    BY <1>2, ListDropsTyped
  <2>2. moved \in Seq(AnyTree)
    BY <1>2, ReorderByTargetTyped
  <2> HIDE DEF swapped, moved
  <2> QED
    BY <2>1, <2>2
<1>7. Has(own, cell.id) => node \in AnyTree
  BY <1>2, FoundItem
<1> HIDE DEF reordered, node, beside
<1>8. Has(own, cell.id) => inserted \in Seq(AnyTree) /\ into \in Seq(AnyTree) /\ atRoot \in Seq(AnyTree)
  BY <1>2, <1>3, <1>7, ListDropsTyped
<1> HIDE DEF inserted, into, atRoot
<1>9. Has(own, cell.id) => root \in Seq(AnyTree)
  <2>1. Has(own, cell.id) => SwapInList(atRoot, cell.id, slot.id) \in Seq(AnyTree)
    BY <1>8, ListDropsTyped
  <2> QED
    BY <1>8, <2>1
<1>10. Has(own, cell.id) \/ slot.kind = "slot" => same \in Seq(AnyTree)
  BY <1>6, <1>8
<1> HIDE DEF root, same
<1>11. same \in Seq(AnyTree)
  BY <1>5, <1>10
<1>12. DedupeById(same) \in Seq(AnyTree)
  BY <1>11, SubListIs
<1>13. removed \in MirrorSets(snap)
  BY <1>1, <1>3, ListOfTyped
<1>14. within \in MirrorSets(snap)
  BY <1>1, <1>12, ListOfTyped
<1> HIDE DEF within
<1>15. across = [removed EXCEPT ![slot.gid] = into]
  OBVIOUS
<1> HIDE DEF removed, across
<1>16. Has(own, cell.id) => across \in MirrorSets(snap)
  BY <1>8, <1>13, <1>15, ListOfTyped
<1> DEFINE out == LayoutFromMirrors(items, root, removed)
           inside == LayoutFromMirrors(items, snap, within)
           other == LayoutFromMirrors(items, snap, across)
<1>17. inside \in Seq(AnyTree)
  BY <1>14, LayoutFromMirrorsTyped
<1>18. Has(own, cell.id) => out \in Seq(AnyTree) /\ other \in Seq(AnyTree)
  BY <1>9, <1>13, <1>16, LayoutFromMirrorsTyped
<1> HIDE DEF out, inside, other
<1>19. ReorderRoot(items, inside) \in Seq(AnyTree) /\ (Has(own, cell.id) => ReorderRoot(items, other) \in Seq(AnyTree))
  BY <1>17, <1>18, ReorderRootTyped
<1>20. Has(own, cell.id) => TileSlotDrop(items, out, cell.id, slot.id, band) \in Seq(AnyTree)
  BY <1>18, TileSlotDropTyped
<1>21. Has(own, cell.id) => PackRoot(out) \in Seq(AnyTree)
  <2>1. Has(own, cell.id) => out \in Seq(LooseNodes)
    BY <1>18, LooseKinds, SeqGrows
  <2> QED
    BY <2>1, PackRootApart
<1>22. GroupCellDrop(items, snap, cell, slot, pos, band) =
        CASE slot.on = "root" /\ slot.kind = "slot" -> TileSlotDrop(items, out, cell.id, slot.id, band)
          [] slot.on = "root" /\ slot.kind # "slot" -> PackRoot(out)
          [] slot.on = "group" /\ slot.gid = cell.from -> ReorderRoot(items, inside)
          [] OTHER -> ReorderRoot(items, other)
  BY <1>4 DEF out, inside, other
<1> QED
  BY <1>5, <1>19, <1>20, <1>21, <1>22

\* A drop makes a layout of the layout of the moment, for every slot and every aim, although it edits
\* mirrors taken when the drag began: nodes the layout has meanwhile lost come back as they were, and
\* none is left half placed (applyDashboardDrop, buildRootLayoutFromDnd).
THEOREM DropMakesALayout ==
  ASSUME NEW items \in Seq(AnyTree), NEW snap \in Seq(AnyTree), NEW cell,
         cell.from = NoId => Has(snap, cell.id),
         NEW slot, NEW pos, NEW band, ~NoDrop(snap, cell, slot)
  PROVE  CellDrop(items, snap, cell, slot, pos, band) \in Seq(AnyTree)
<1>1. cell.from # NoId => Has(ListOf(Mirrors(snap), cell.from), cell.id)
                            \/ (slot.on = "group" /\ slot.gid = cell.from /\ slot.kind = "slot")
  BY DEF NoDrop, Missed
<1>2. cell.from # NoId => GroupCellDrop(items, snap, cell, slot, pos, band) \in Seq(AnyTree)
  BY <1>1, GroupCellDropTyped
<1>3. cell.from = NoId => RootCellDrop(items, snap, cell, slot, pos, band) \in Seq(AnyTree)
  BY RootCellDropTyped
<1> QED
  BY <1>2, <1>3 DEF CellDrop

-----------------------------------------------------------------------------
(* The invariant of the editor.                                            *)

Drags(d) ==
  \/ d = NoDrag
  \/ d.items \in Seq(AnyTree) /\ d.payload \in Palette \union Cells(d.items)

\* The layout in the store is placed and apart.
StoreOK ==
  /\ Apart(doc)
  /\ writes \in 0..MaxWrites
  /\ cause \in {"init", "edit", "delete", "server", "reload"}

\* What a drag or an overlay remembers is of a layout, and is the editor's.
ModeOK ==
  /\ editing \in BOOLEAN
  /\ Drags(drag)
  /\ overlay # NoOverlay => overlay \in AnyTree
  /\ ~editing => drag = NoDrag /\ overlay = NoOverlay
  /\ drag # NoDrag => overlay = NoOverlay

IInv == StoreOK /\ ModeOK

\* The layout is one.
LEMMA DocTyped ==
  ASSUME Apart(doc)
  PROVE  doc \in Seq(AnyTree) /\ <<>> \in Seq(AnyTree)
BY EmptySeq DEF Apart

\* Whoever writes a layout that is placed and apart,
LEMMA WriteKeeps ==
  ASSUME StoreOK, NEW items, Apart(items), NEW by \in {"edit", "delete", "server", "reload"}, Write(items, by)
  PROVE  StoreOK'
<1>1. Apart(doc')
  BY DEF Write
<1>2. writes' \in 0..MaxWrites
  BY EditorAssumption DEF Write, StoreOK
<1>3. cause' \in {"init", "edit", "delete", "server", "reload"}
  BY DEF Write
<1> QED
  BY <1>1, <1>2, <1>3 DEF StoreOK

\* every commit of the editor among them, since it writes the normal form,
LEMMA CommitKeeps ==
  ASSUME StoreOK, NEW items \in Seq(AnyTree), NEW preserve,
         Commit(items, preserve) \/ CommitAs(items, preserve, FALSE) \/ Removal(items)
  PROVE  StoreOK'
<1>1. \A p, e : Apart(NormalLayout(items, p, e))
  BY NormalLayoutIsApart
<1>2. CASE Commit(items, preserve)
  <2>1. Write(NormalLayout(items, preserve, editing), "edit")
    BY <1>2 DEF Commit, CommitAs
  <2> QED
    BY <1>1, <2>1, WriteKeeps
<1>3. CASE CommitAs(items, preserve, FALSE)
  <2>1. Write(NormalLayout(items, preserve, FALSE), "edit")
    BY <1>3 DEF CommitAs
  <2> QED
    BY <1>1, <2>1, WriteKeeps
<1>4. CASE Removal(items)
  <2>1. Write(NormalLayout(items, TRUE, editing), "delete")
    BY <1>4 DEF Removal
  <2> QED
    BY <1>1, <2>1, WriteKeeps
<1> QED
  BY <1>2, <1>3, <1>4

\* and an operation that is refused,
LEMMA RefusedKeeps ==
  ASSUME StoreOK, Refused
  PROVE  StoreOK'
BY DEF StoreOK, Refused, Apart

\* keep the invariant.
LEMMA ModeKeeps ==
  ASSUME ModeOK, UNCHANGED <<editing, drag, overlay>>
  PROVE  ModeOK'
BY DEF ModeOK

-----------------------------------------------------------------------------
(* The palette.                                                            *)

\* The new ids are ids.
LEMMA FreshTyped ==
  ASSUME CanName
  PROVE  FreshIds[1] \in Ids /\ FreshIds[2] \in Ids
<1> DEFINE held == Held
           keep == {i \in DOMAIN IdPool : IdPool[i] \notin held}
           fresh == Picked(IdPool, keep)
<1>1. FreshIds = fresh
  BY DEF FreshIds
<1>2. IdPool \in Seq(Ids)
  BY EditorAssumption
<1> HIDE DEF keep
<1>3. fresh \in Seq(Ids)
  BY <1>2, PickedIs
<1> HIDE DEF fresh
<1>4. Len(fresh) >= 2 /\ Len(fresh) \in Nat
  BY <1>1, <1>3, LenProperties DEF CanName
<1>5. 1 \in DOMAIN fresh /\ 2 \in DOMAIN fresh
  BY <1>3, <1>4, SeqMembers
<1>6. fresh[1] \in Ids /\ fresh[2] \in Ids
  BY <1>3, <1>5, SeqMembers
<1> QED
  BY <1>1, <1>6

\* What the palette makes is a node.
LEMMA NewNodeTyped ==
  ASSUME CanName, NEW p \in Palette
  PROVE  NewNode(p) \in AnyTree /\ (p.what = "panel" => IsGroup(NewNode(p)))
<1> DEFINE i == FreshIds[1]
           j == FreshIds[2]
<1>1. i \in Ids /\ j \in Ids
  BY FreshTyped
<1>2. NewNode(p) = CASE p.what = "tile" -> Tile(i, p.plugin)
                     [] p.what = "panel" -> Group(i, "panel", <<>>)
                     [] p.what = "tabs" -> MakeTabControlGroup(i, j)
                     [] OTHER -> MakeVerticalStackGroup(i, j)
  BY DEF NewNode
<1> HIDE DEF i, j
<1>3. <<>> \in Seq(AnyTree)
  BY EmptySeq
<1>4. Group(i, "panel", <<>>) \in GroupNodes(AnyTree)
  <2> DEFINE none == <<>>
  <2>1. none \in Seq(AnyTree)
    BY <1>3
  <2> HIDE DEF none
  <2>2. Group(i, "panel", none) \in GroupNodes(AnyTree)
    BY <1>1, <2>1, GroupMade
  <2> QED
    BY <2>2 DEF none
<1>5. Group(i, "panel", <<>>) \in AnyTree /\ IsGroup(Group(i, "panel", <<>>))
  BY <1>4, TreeIs, KidsOf
<1>6. MakeTabControlGroup(i, j) \in AnyTree /\ MakeVerticalStackGroup(i, j) \in AnyTree
  BY <1>1, MakeHostsTyped
<1>7. p.what = "tile" => p.plugin \in DOMAIN DefaultSpan
  BY EditorAssumption DEF Palette
<1>8. p.what = "tile" => Tile(i, p.plugin) \in AnyTree
  BY <1>1, <1>7, TileMade
<1> QED
  BY <1>2, <1>5, <1>6, <1>8

\* It may be added to the root,
LEMMA AddAtRootKeeps ==
  ASSUME StoreOK, NEW p \in Palette, NEW at \in Nat \ {0}, AddAtRoot(p, at)
  PROVE  StoreOK'
<1> DEFINE to == AtMost(Len(doc) + 1, at)
           next == InsertAt(doc, to, NewNode(p))
<1>1. doc \in Seq(AnyTree) /\ CanName
  BY DocTyped DEF StoreOK, AddAtRoot
<1>2. Len(doc) \in Nat
  BY <1>1, LenProperties
<1>3. to \in 1..(Len(doc) + 1)
  BY <1>2 DEF AtMost
<1>4. NewNode(p) \in AnyTree
  BY <1>1, NewNodeTyped
<1> HIDE DEF to
<1>5. next \in Seq(AnyTree)
  BY <1>1, <1>3, <1>4, InsertAtIs
<1>6. Commit(next, FALSE)
  BY DEF AddAtRoot, to
<1> HIDE DEF next
<1> QED
  BY <1>5, <1>6, CommitKeeps

\* to a group,
LEMMA AddIntoKeeps ==
  ASSUME StoreOK, NEW p \in Palette, NEW gid, AddInto(p, gid)
  PROVE  StoreOK'
<1> DEFINE known == gid \in GroupIds(doc)
           placed == [NewNode(p) EXCEPT !.grid = PlaceForNewGroup(FindGroup(doc, gid))]
           node == IF p.what = "panel" /\ known THEN placed ELSE NewNode(p)
           next == AppendToGroup(doc, gid, node)
<1>1. doc \in Seq(AnyTree) /\ CanName
  BY DocTyped DEF StoreOK, AddInto
<1>2. NewNode(p) \in AnyTree /\ (p.what = "panel" => IsGroup(NewNode(p)))
  BY <1>1, NewNodeTyped
<1>3. known => FindGroup(doc, gid) \in AnyTree /\ IsGroup(FindGroup(doc, gid))
  BY <1>1, FoundGroup
<1>4. known => PlaceForNewGroup(FindGroup(doc, gid)) \in GroupGrids
  BY <1>3, PlaceForNewGroupTyped
<1>5. p.what = "panel" /\ known => PlaceForNewGroup(FindGroup(doc, gid)) \in GridsFor(NewNode(p))
  BY <1>2, <1>4 DEF GridsFor
<1>6. p.what = "panel" /\ known => placed \in AnyTree
  BY <1>2, <1>5, WithGrid
<1> HIDE DEF placed
<1>7. node \in AnyTree
  BY <1>2, <1>6
<1>8. Commit(next, FALSE) \/ Refused
  BY DEF AddInto, placed
<1> HIDE DEF node
<1>9. next \in Seq(AnyTree)
  BY <1>1, <1>7, AppendToGroupTyped
<1> HIDE DEF next
<1> QED
  BY <1>8, <1>9, CommitKeeps, RefusedKeeps

\* or as a pane.
LEMMA AddPaneKeeps ==
  ASSUME StoreOK, NEW gid, AddPane(gid)
  PROVE  StoreOK'
<1> DEFINE g == FindGroup(doc, gid)
           new == IF g.host = "tab-control" THEN AddTab(g, FreshIds[1]) ELSE AddSection(g, FreshIds[1])
           next == ReplaceGroup(doc, gid, new)
<1>1. doc \in Seq(AnyTree) /\ CanName
  BY DocTyped DEF StoreOK, AddPane
<1>2. FreshIds[1] \in Ids
  BY <1>1, FreshTyped
<1>3. (gid \in GroupIds(doc) /\ Commit(next, TRUE)) \/ Refused
  BY DEF AddPane
<1>4. gid \in GroupIds(doc) => g \in AnyTree /\ IsGroup(g)
  BY <1>1, FoundGroup
<1> HIDE DEF g
<1>5. gid \in GroupIds(doc) => AddTab(g, FreshIds[1]) \in AnyTree /\ AddSection(g, FreshIds[1]) \in AnyTree
  BY <1>2, <1>4, HostOpsTyped
<1>6. gid \in GroupIds(doc) => new \in AnyTree
  BY <1>5
<1> HIDE DEF new
<1>7. gid \in GroupIds(doc) => next \in Seq(AnyTree)
  BY <1>1, <1>6, ReplaceGroupTyped
<1> HIDE DEF next
<1> QED
  BY <1>3, <1>7, CommitKeeps, RefusedKeeps

-----------------------------------------------------------------------------
(* The hosts on screen, and what is done to them.                          *)

HostSets == SUBSET {g \in AnyTree : IsGroup(g)}

\* The hosts within a host, along the panes it shows,
LEMMA OwnTyped ==
  ASSUME NEW items \in Seq(AnyTree)
  PROVE  LET f == CHOOSE g : g = [n \in Below(items) |->
                              IF IsHost(n) THEN {n} \union UNION Range(Through(g, PanesShown(n))) ELSE {}]
         IN  \A n \in Below(items) : f[n] \in HostSets
<1> DEFINE S == Below(items)
           F(f) == [n \in S |-> IF IsHost(n) THEN {n} \union UNION Range(Through(f, PanesShown(n))) ELSE {}]
           after == [n \in S |-> [v \in Seq(HostSets) |-> IF IsHost(n) THEN {n} \union UNION Range(v) ELSE {}]]
           sel == [n \in S |-> IF IsGroup(n) THEN PanesShown(n) ELSE <<>>]
           f == CHOOSE g : g = F(g)
<1>1. S \subseteq AnyTree /\ Closed(S) /\ Range(items) \subseteq S
  BY BelowIs
<1>2. Selects(S, sel) /\ \A n \in S : IsGroup(n) => sel[n] = PanesShown(n)
  <2>1. ASSUME NEW n \in S, IsGroup(n) PROVE PanesShown(n) \in Seq(AnyTree) /\ Range(PanesShown(n)) \subseteq Range(n.kids)
    <3>1. n.kids \in Seq(AnyTree)
      BY <1>1, <2>1, NodeIs
    <3> QED
      BY <3>1, SubListIs DEF PanesShown
  <2>2. \A n \in S : sel[n] = IF IsGroup(n) THEN PanesShown(n) ELSE <<>>
    OBVIOUS
  <2> HIDE DEF sel, S
  <2>3. \A n \in S : IF IsGroup(n) THEN sel[n] \in Seq(AnyTree) /\ Range(sel[n]) \subseteq Range(n.kids)
                      ELSE sel[n] = <<>>
    BY <2>1, <2>2
  <2> QED
    BY <1>1, <2>2, <2>3, SomeSelect
<1>2b. items \in Seq(AnyTree) /\ Range(items) \subseteq S
  BY <1>1, SeqMembers
<1>3a. \A n \in S : \A v \in Seq(HostSets) :
          (IF IsHost(n) THEN {n} \union UNION Range(v) ELSE {}) \in HostSets
  <2> TAKE n \in S
  <2> TAKE v \in Seq(HostSets)
  <2>1. Range(v) \subseteq HostSets
    BY SeqMembers
  <2>2. UNION Range(v) \in HostSets
    BY <2>1 DEF HostSets
  <2>3. IsHost(n) => {n} \in HostSets
    BY <1>1 DEF HostSets, IsHost
  <2> QED
    BY <2>2, <2>3 DEF HostSets
<1>3. after \in [S -> [Seq(HostSets) -> HostSets]]
  BY <1>1, <1>3a
<1>4. \A g : \A n \in S : Through(g, sel[n]) \in Seq(HostSets) => F(g)[n] = after[n][Through(g, sel[n])]
  <2> TAKE g
  <2> TAKE n \in S
  <2> HAVE Through(g, sel[n]) \in Seq(HostSets)
  <2>1. IsHost(n) => sel[n] = PanesShown(n)
    BY <1>2 DEF IsHost
  <2> DEFINE v == Through(g, sel[n])
  <2>2. after[n][v] = IF IsHost(n) THEN {n} \union UNION Range(v) ELSE {}
    OBVIOUS
  <2>3. F(g)[n] = IF IsHost(n) THEN {n} \union UNION Range(Through(g, PanesShown(n))) ELSE {}
    OBVIOUS
  <2> HIDE DEF after, F, sel
  <2> QED
    BY <2>1, <2>2, <2>3
<1>6. \A g : F(g) = [n \in S |-> F(g)[n]]
  OBVIOUS
<1> HIDE DEF after, sel, F, S
<1>7. PICK g \in [S -> HostSets] : Rebuilds(g, S, HostSets, sel, after)
  BY <1>2, <1>3, RebuildExists DEF S
<1>8. \A n \in S : g[n] = F(g)[n]
  <2>1. IsRebuilt(g, S, HostSets, sel, after)
    BY <1>1, <1>2, <1>3, <1>7, RebuildTyped
  <2> QED
    BY <1>4, <2>1 DEF IsRebuilt
<1>9. g = F(g)
  BY <1>6, <1>7, <1>8
<1>10. f = F(f)
  BY <1>9
<1> HIDE DEF f
<1>11. Rebuilds(f, S, HostSets, sel, after)
  BY <1>4, <1>6, <1>10 DEF Rebuilds
<1>12. IsRebuilt(f, S, HostSets, sel, after)
  BY <1>1, <1>2, <1>3, <1>11, RebuildTyped
<1> QED
  <2>1. \A n \in S : f[n] \in HostSets
    BY <1>12 DEF IsRebuilt
  <2> QED
    BY <2>1 DEF f, F, S

\* and those of plain containers,
LEMMA ShownTyped ==
  ASSUME NEW items \in Seq(AnyTree), NEW own, \A n \in Below(items) : own[n] \in HostSets
  PROVE  LET f == CHOOSE g : g = [n \in Below(items) |->
                              IF IsGroup(n) /\ ~IsHost(n) /\ ~n.wrap THEN UNION Range(Through(g, n.kids)) ELSE own[n]]
         IN  \A n \in Below(items) : f[n] \in HostSets
<1> DEFINE S == Below(items)
           F(f) == [n \in S |-> IF IsGroup(n) /\ ~IsHost(n) /\ ~n.wrap THEN UNION Range(Through(f, n.kids)) ELSE own[n]]
           after == [n \in S |-> [v \in Seq(HostSets) |-> IF IsGroup(n) /\ ~IsHost(n) /\ ~n.wrap THEN UNION Range(v) ELSE own[n]]]
           sel == Every(S)
           f == CHOOSE g : g = F(g)
<1>1. S \subseteq AnyTree /\ Closed(S) /\ Range(items) \subseteq S
  BY BelowIs
<1>2. Selects(S, sel) /\ \A n \in S : IsGroup(n) => sel[n] = n.kids
  BY <1>1, EverySelects
<1>2b. items \in Seq(AnyTree) /\ Range(items) \subseteq S
  BY <1>1, SeqMembers
<1>3a. \A n \in S : \A v \in Seq(HostSets) :
          (IF IsGroup(n) /\ ~IsHost(n) /\ ~n.wrap THEN UNION Range(v) ELSE own[n]) \in HostSets
  <2> TAKE n \in S
  <2> TAKE v \in Seq(HostSets)
  <2>1. Range(v) \subseteq HostSets
    BY SeqMembers
  <2>2. UNION Range(v) \in HostSets
    BY <2>1 DEF HostSets
  <2> QED
    BY <2>2
<1>3. after \in [S -> [Seq(HostSets) -> HostSets]]
  BY <1>1, <1>3a
<1>4. \A g : \A n \in S : Through(g, sel[n]) \in Seq(HostSets) => F(g)[n] = after[n][Through(g, sel[n])]
  BY <1>2
<1>6. \A g : F(g) = [n \in S |-> F(g)[n]]
  OBVIOUS
<1> HIDE DEF after, sel, F, S
<1>7. PICK g \in [S -> HostSets] : Rebuilds(g, S, HostSets, sel, after)
  BY <1>2, <1>3, RebuildExists DEF S
<1>8. \A n \in S : g[n] = F(g)[n]
  <2>1. IsRebuilt(g, S, HostSets, sel, after)
    BY <1>1, <1>2, <1>3, <1>7, RebuildTyped
  <2> QED
    BY <1>4, <2>1 DEF IsRebuilt
<1>9. g = F(g)
  BY <1>6, <1>7, <1>8
<1>10. f = F(f)
  BY <1>9
<1> HIDE DEF f
<1>11. Rebuilds(f, S, HostSets, sel, after)
  BY <1>4, <1>6, <1>10 DEF Rebuilds
<1>12. IsRebuilt(f, S, HostSets, sel, after)
  BY <1>1, <1>2, <1>3, <1>11, RebuildTyped
<1> QED
  <2>1. \A n \in S : f[n] \in HostSets
    BY <1>12 DEF IsRebuilt
  <2> QED
    BY <2>1 DEF f, F, S

\* are groups of the layout's kind.
LEMMA HostsTyped ==
  ASSUME doc \in Seq(AnyTree)
  PROVE  \A g \in Hosts : g \in AnyTree /\ IsGroup(g)
<1> DEFINE own == CHOOSE g : g = [n \in Below(doc) |->
                     IF IsHost(n) THEN {n} \union UNION Range(Through(g, PanesShown(n))) ELSE {}]
           all == CHOOSE g : g = [n \in Below(doc) |->
                     IF IsGroup(n) /\ ~IsHost(n) /\ ~n.wrap THEN UNION Range(Through(g, n.kids)) ELSE own[n]]
           drawn == IF editing THEN own ELSE all
<1>1. Hosts = UNION Range(Through(drawn, doc))
  BY DEF Hosts
<1>2. \A n \in Below(doc) : own[n] \in HostSets
  BY OwnTyped
<1> HIDE DEF own
<1>3. \A n \in Below(doc) : all[n] \in HostSets
  BY <1>2, ShownTyped
<1> HIDE DEF all
<1>4. \A n \in Below(doc) : drawn[n] \in HostSets
  BY <1>2, <1>3
<1> HIDE DEF drawn
<1>5. \A m \in Range(doc) : drawn[m] \in HostSets
  BY <1>4, BelowIs
<1>6. Through(drawn, doc) \in Seq(HostSets)
  BY <1>5, ThroughIs
<1>7. Range(Through(drawn, doc)) \subseteq HostSets
  BY <1>6, SeqMembers
<1> QED
  BY <1>1, <1>7 DEF HostSets

\* The new form of a host, or of any group, in its place.
LEMMA RehostKeeps ==
  ASSUME StoreOK, NEW g \in AnyTree, Rehost(g)
  PROVE  StoreOK'
<1>1. doc \in Seq(AnyTree)
  BY DocTyped DEF StoreOK
<1>2. ReplaceGroup(doc, g.id, g) \in Seq(AnyTree)
  BY <1>1, ReplaceGroupTyped
<1> QED
  BY <1>2, CommitKeeps DEF Rehost

\* A pane removed.
LEMMA RemovePaneKeeps ==
  ASSUME StoreOK, NEW g \in AnyTree, IsGroup(g), NEW id \in Ids, RemovePane(g, id)
  PROVE  StoreOK'
<1> DEFINE new == IF g.host = "tab-control" THEN RemoveTab(g, id) ELSE RemoveSection(g, id)
           next == ReplaceGroup(doc, g.id, new)
<1>1. doc \in Seq(AnyTree)
  BY DocTyped DEF StoreOK
<1>2. RemoveTab(g, id) \in AnyTree /\ RemoveSection(g, id) \in AnyTree
  BY HostOpsTyped
<1>3. new \in AnyTree
  BY <1>2
<1>4. Removal(next)
  BY DEF RemovePane
<1> HIDE DEF new
<1>5. next \in Seq(AnyTree)
  BY <1>1, <1>3, ReplaceGroupTyped
<1> HIDE DEF next
<1> QED
  BY <1>4, <1>5, CommitKeeps

\* Everything a tab strip or a stack of sections does.
LEMMA PanesKeep ==
  ASSUME StoreOK, NEW g \in Hosts, TabStrip(g) \/ Sections(g)
  PROVE  StoreOK' /\ UNCHANGED <<editing, drag, overlay>>
<1>1. g \in AnyTree /\ IsGroup(g) /\ \A id \in IdsOf(g.kids) : id \in Ids
  <2>1. doc \in Seq(AnyTree)
    BY DocTyped DEF StoreOK
  <2>2. g \in AnyTree /\ IsGroup(g)
    BY <2>1, HostsTyped
  <2>3. g.kids \in Seq(AnyTree)
    BY <2>2, NodeIs
  <2>4. \A i \in DOMAIN g.kids : g.kids[i] \in AnyTree
    BY <2>3, SeqMembers
  <2>5. \A i \in DOMAIN g.kids : g.kids[i].id \in Ids
    BY <2>4, NodeIs
  <2> QED
    BY <2>2, <2>5 DEF IdsOf
<1>2. CASE NewPane(g)
  BY <1>2, AddPaneKeeps DEF NewPane
<1>3. ASSUME NEW id \in IdsOf(g.kids), RemovePane(g, id)
      PROVE  StoreOK' /\ UNCHANGED <<editing, drag, overlay>>
  BY <1>1, <1>3, RemovePaneKeeps DEF RemovePane
<1>4. ASSUME NEW id \in IdsOf(g.kids), SelectTab(g, id) \/ Toggle(g, id)
      PROVE  StoreOK' /\ UNCHANGED <<editing, drag, overlay>>
  <2>1. SetActiveTab(g, id) \in AnyTree /\ ToggleSection(g, id) \in AnyTree
    BY <1>1, HostOpsTyped
  <2>2. Rehost(SetActiveTab(g, id)) \/ Rehost(ToggleSection(g, id))
    BY <1>4 DEF SelectTab, Toggle
  <2>3. StoreOK'
    BY <2>1, <2>2, RehostKeeps
  <2> QED
    BY <2>2, <2>3 DEF Rehost
<1>5. ASSUME NEW id, NEW target, NEW pos, ReorderPanes(g, id, target, pos)
      PROVE  StoreOK' /\ UNCHANGED <<editing, drag, overlay>>
  <2> DEFINE order == ReorderByTarget(g.kids, id, target, pos)
             new == ReorderTabs(g, [i \in DOMAIN order |-> order[i].id])
  <2>1. new \in AnyTree
    BY <1>1, ReorderTabsTyped
  <2>2. Rehost(new)
    BY <1>5 DEF ReorderPanes
  <2> HIDE DEF new
  <2>3. StoreOK'
    BY <2>1, <2>2, RehostKeeps
  <2> QED
    BY <2>2, <2>3 DEF Rehost
<1> QED
  BY <1>2, <1>3, <1>4, <1>5 DEF TabStrip, Sections

-----------------------------------------------------------------------------
(* The resize handles.                                                     *)

\* Both handles: of a root item and of a child.
LEMMA ResizeKeeps ==
  ASSUME StoreOK, ResizeStep
  PROVE  StoreOK' /\ UNCHANGED <<editing, drag, overlay>>
<1>1. doc \in Seq(AnyTree)
  BY DocTyped DEF StoreOK
<1>2. PICK cs \in Widths : \/ \E id \in IdsOf(doc) : ResizeItem(id, cs)
                           \/ \E g \in Range(GroupsIn(doc)) : \E t \in IdsOf(TilesOf(g.kids)) : ResizeChild(g.id, t, cs)
  BY DEF ResizeStep
<1>3. cs \in Int
  BY EditorAssumption
<1>4. ASSUME NEW id, ResizeItem(id, cs)
      PROVE  StoreOK' /\ UNCHANGED <<editing, drag, overlay>>
  <2>1. ResizeRoot(doc, id, cs) \in Seq(AnyTree)
    BY <1>1, <1>3, ResizeRootTyped
  <2> QED
    BY <1>4, <2>1, CommitKeeps DEF ResizeItem
<1>5. ASSUME NEW g \in Range(GroupsIn(doc)), NEW t \in IdsOf(TilesOf(g.kids)), ResizeChild(g.id, t, cs)
      PROVE  StoreOK' /\ UNCHANGED <<editing, drag, overlay>>
  <2>1. g.kids \in Seq(AnyTree) /\ Range(g.kids) \subseteq Range(Nodes(doc))
    BY <1>1, NodesAre
  <2>2. TilesOf(g.kids) \in Seq(TileNodes) /\ Range(TilesOf(g.kids)) \subseteq Range(g.kids)
    BY <2>1, KindsOf, SubListIs
  <2>3. PICK i \in DOMAIN TilesOf(g.kids) : t = TilesOf(g.kids)[i].id
    BY DEF IdsOf
  <2> DEFINE n == TilesOf(g.kids)[i]
  <2>4. n \in TileNodes /\ n \in Range(TilesOf(g.kids))
    BY <2>2, SeqMembers
  <2>5. n \in Range(Nodes(doc)) /\ ~IsGroup(n)
    BY <2>1, <2>2, <2>4, LooseKinds
  <2>6. n \in Range(TilesOf(Nodes(doc)))
    BY <1>1, <2>5, NodesAre
  <2>7. t \in TileIds(doc)
    BY <2>3, <2>6 DEF TileIds, IdsOf, Range
  <2>8. ResizeInGroup(doc, g.id, t, cs) \in Seq(AnyTree)
    BY <1>1, <1>3, <2>7, ResizeInGroupTyped
  <2> QED
    BY <1>5, <2>8, CommitKeeps DEF ResizeChild
<1> QED
  BY <1>2, <1>4, <1>5

-----------------------------------------------------------------------------
(* The settings overlays.                                                  *)

\* The spans asked for are clamped.
LEMMA SpansAsked ==
  /\ \A n \in Int : ClampSpan(n) \in 1..Cols /\ ClampTall(n) \in 1..MaxRowSpan
  /\ \A col \in Nat : \A w \in 1..Cols : AtMost(Cols - w, col) \in Nat
BY GridAssumption DEF ClampSpan, ClampTall, AtMost, AtLeast

\* A container's settings saved, over whatever the layout has become,
LEMMA SaveGroupKeeps ==
  ASSUME StoreOK, overlay \in AnyTree, NEW host, NEW wrap \in BOOLEAN, NEW cs \in Int, NEW rs \in Int,
         NEW corner, SaveGroup(host, wrap, cs, rs, corner)
  PROVE  StoreOK'
<1> DEFINE base == IF overlay.grid = NoGrid THEN Cell(0, 0, Cols, 1) ELSE overlay.grid
           g == Typed(base, corner)
           w == ClampSpan(cs)
           tall == ClampTall(rs)
           col == AtMost(Cols - w, g.col)
           cell == Cell(col, g.row, w, tall)
           draft == [overlay EXCEPT !.wrap = wrap, !.grid = cell]
           replaced == ReplaceGroup(doc, overlay.id, Converted(draft, host))
           next == CommitRowWraps(ReorderRoot(doc, replaced))
<1>1. doc \in Seq(AnyTree)
  BY DocTyped DEF StoreOK
<1>2. IsGroup(overlay) /\ Commit(next, TRUE)
  BY DEF SaveGroup
<1>3. overlay \in GroupNodes(AnyTree)
  BY <1>2, NodeIs
<1>4. base \in GroupGrids
  <2>1. overlay.grid \in GroupGrids \union {NoGrid}
    BY <1>3 DEF GroupNodes
  <2>2. Cell(0, 0, Cols, 1) \in GroupGrids
    BY GridAssumption, CellTyped
  <2> QED
    BY <2>1, <2>2
<1> HIDE DEF base
<1>5. g.col \in Nat /\ g.row \in Nat
  BY <1>4 DEF Typed, GroupGrids
<1>6. w \in 1..Cols /\ tall \in 1..MaxRowSpan
  BY SpansAsked
<1> HIDE DEF g, w, tall
<1>7. col \in Nat /\ tall \in Nat \ {0}
  BY <1>5, <1>6, SpansAsked, GridAssumption
<1> HIDE DEF col
<1>8. cell \in GroupGrids
  BY <1>5, <1>6, <1>7, CellTyped
<1> HIDE DEF cell
<1>9. draft \in GroupNodes(AnyTree)
  BY <1>3, <1>8 DEF GroupNodes
<1>10. draft \in AnyTree /\ IsGroup(draft)
  BY <1>9, TreeIs, KidsOf
<1> HIDE DEF draft
<1>11. Converted(draft, host) \in AnyTree
  BY <1>10, ConvertedTyped
<1>12. replaced \in Seq(AnyTree)
  BY <1>1, <1>11, ReplaceGroupTyped
<1> HIDE DEF replaced
<1>13. ReorderRoot(doc, replaced) \in Seq(AnyTree)
  BY <1>1, <1>12, ReorderRootTyped
<1>14. next \in Seq(AnyTree)
  BY <1>13, CommitRowWrapsTyped
<1> HIDE DEF next
<1> QED
  BY <1>2, <1>14, CommitKeeps

\* a tile's,
LEMMA SaveTileKeeps ==
  ASSUME StoreOK, overlay \in AnyTree, NEW parent, NEW cs \in Int, NEW rs \in Int,
         NEW corner, SaveTile(parent, cs, rs, corner)
  PROVE  StoreOK'
<1> DEFINE wrap == parent = NoId \/ FindGroup(doc, parent).wrap
           o == OriginOf(overlay)
           shown == Cell(o.col, o.row, cs, rs)
           g == Typed(shown, corner)
           sized == [overlay EXCEPT !.grid = g]
           cell == ClampedChild(sized, wrap)
           saved == [sized EXCEPT !.grid = cell]
           replaced == ReplaceTile(doc, overlay.id, saved)
           moved == MoveTileToParent(doc, saved, parent)
           next == IF ParentOf(doc, overlay.id) = parent THEN replaced ELSE moved
<1>1. doc \in Seq(AnyTree)
  BY DocTyped DEF StoreOK
<1>2. ~IsGroup(overlay) /\ Commit(next, TRUE)
  BY DEF SaveTile
<1>3. overlay \in TileNodes
  BY <1>2, NodeIs
<1>4. o.col \in Int /\ o.row \in Int
  <2>1. overlay.grid \in TileGrids \union {NoGrid}
    BY <1>3 DEF TileNodes
  <2> QED
    BY <2>1 DEF OriginOf, TileGrids, Cell
<1> HIDE DEF o
<1>5. g \in GridRecords
  <2>1. shown \in GridRecords
    BY <1>4 DEF Cell, GridRecords
  <2> HIDE DEF shown
  <2>2. \A z \in Int : [shown EXCEPT !.col = z, !.row = z] \in GridRecords
    BY <2>1 DEF GridRecords
  <2>3. 0 \in Int
    OBVIOUS
  <2> QED
    BY <2>1, <2>2, <2>3 DEF Typed
<1> HIDE DEF g
<1>6. sized \in LooseTiles
  BY <1>3, <1>5 DEF TileNodes, LooseTiles
<1>7. sized = [overlay EXCEPT !.grid = g]
  OBVIOUS
<1> HIDE DEF sized, wrap
<1>8. cell \in TileGrids
  BY <1>6, ClampedTyped
<1> HIDE DEF cell
<1>9. saved \in TileNodes
  BY <1>6, <1>8 DEF LooseTiles, TileNodes
<1>10. saved \in AnyTree
  BY <1>9, TreeIs
<1> HIDE DEF saved
<1>11. replaced \in Seq(AnyTree)
  BY <1>1, <1>10, ReplaceTileTyped
<1>12. moved \in Seq(AnyTree)
  <2>1. RemoveTile(doc, saved.id) \in Seq(AnyTree)
    BY <1>1, RemoveTileTyped
  <2>2. Append(RemoveTile(doc, saved.id), saved) \in Seq(AnyTree)
    BY <1>10, <2>1, AppendProperties
  <2>3. AppendToGroup(RemoveTile(doc, saved.id), parent, saved) \in Seq(AnyTree)
    BY <1>10, <2>1, AppendToGroupTyped
  <2> QED
    BY <2>2, <2>3 DEF MoveTileToParent
<1> HIDE DEF replaced, moved
<1>13. next \in Seq(AnyTree)
  BY <1>11, <1>12
<1> HIDE DEF next
<1> QED
  BY <1>2, <1>13, CommitKeeps

\* and a deletion.
LEMMA DeleteKeeps ==
  ASSUME StoreOK, Delete
  PROVE  StoreOK'
<1>1. doc \in Seq(AnyTree)
  BY DocTyped DEF StoreOK
<1> DEFINE onRoot == IF IsGroup(overlay) THEN Has(GroupsOf(doc), overlay.id)
                     ELSE ParentOf(doc, overlay.id) = NoId
           without == CASE onRoot -> WithoutId(doc, overlay.id)
                        [] ~onRoot /\ IsGroup(overlay) -> RemoveGroup(doc, overlay.id)
                        [] OTHER -> RemoveTile(doc, overlay.id)
<1>2. Removal(without)
  BY DEF Delete
<1>3. WithoutId(doc, overlay.id) \in Seq(AnyTree)
  BY <1>1, SubListIs
<1>4. RemoveGroup(doc, overlay.id) \in Seq(AnyTree) /\ RemoveTile(doc, overlay.id) \in Seq(AnyTree)
  BY <1>1, RemoveGroupTyped, RemoveTileTyped
<1> HIDE DEF onRoot
<1>5. without \in Seq(AnyTree)
  BY <1>3, <1>4
<1> HIDE DEF without
<1> QED
  BY <1>2, <1>5, CommitKeeps

\* Everything an overlay does.
LEMMA OverlayKeeps ==
  ASSUME IInv, OverlayStep
  PROVE  IInv'
<1>1. doc \in Seq(AnyTree) /\ StoreOK /\ ModeOK
  BY DocTyped DEF StoreOK, IInv
<1>2. ASSUME overlay # NoOverlay, StoreOK', overlay' = NoOverlay, UNCHANGED <<editing, drag>>
      PROVE  IInv'
  BY <1>1, <1>2 DEF IInv, ModeOK
<1>3. ASSUME NEW n \in Range(Nodes(doc)), OpenOverlay(n) PROVE IInv'
  <2>1. n \in AnyTree
    BY <1>1, NodesAre
  <2>2. StoreOK'
    BY <1>1, <1>3 DEF OpenOverlay, StoreOK, Apart
  <2>3. ModeOK'
    BY <1>1, <1>3, <2>1 DEF OpenOverlay, ModeOK, Idle, Undisturbed, Drags
  <2> QED
    BY <2>2, <2>3 DEF IInv
<1>4. CASE GroupForm
  <2>0. PICK host \in {"panel", "tab-control", "vertical-stack"}, cs \in Widths, rs \in Heights :
            \E wrap \in BOOLEAN, corner \in BOOLEAN : SaveGroup(host, wrap, cs, rs, corner)
    BY <1>4 DEF GroupForm
  <2>1. PICK wrap \in BOOLEAN, corner \in BOOLEAN : SaveGroup(host, wrap, cs, rs, corner)
    BY <2>0
  <2>2. overlay # NoOverlay /\ overlay' = NoOverlay /\ UNCHANGED <<editing, drag>>
    BY <2>1 DEF SaveGroup
  <2>3. overlay \in AnyTree /\ cs \in Int /\ rs \in Int
    BY <1>1, <2>2, EditorAssumption DEF ModeOK
  <2>4. StoreOK'
    BY <1>1, <2>1, <2>3, SaveGroupKeeps
  <2> QED
    BY <1>2, <2>2, <2>4
<1>5. CASE TileForm
  <2>1. PICK parent \in {NoId} \union GroupIds(doc), cs \in Widths, rs \in Heights, corner \in BOOLEAN :
            SaveTile(parent, cs, rs, corner)
    BY <1>5 DEF TileForm
  <2>2. overlay # NoOverlay /\ overlay' = NoOverlay /\ UNCHANGED <<editing, drag>>
    BY <2>1 DEF SaveTile
  <2>3. overlay \in AnyTree /\ cs \in Int /\ rs \in Int
    BY <1>1, <2>2, EditorAssumption DEF ModeOK
  <2>4. StoreOK'
    BY <1>1, <2>1, <2>3, SaveTileKeeps
  <2> QED
    BY <1>2, <2>2, <2>4
<1>6. CASE Delete
  <2>1. overlay # NoOverlay /\ overlay' = NoOverlay /\ UNCHANGED <<editing, drag>>
    BY <1>6 DEF Delete
  <2>2. StoreOK'
    BY <1>1, <1>6, DeleteKeeps
  <2> QED
    BY <1>2, <2>1, <2>2
<1>7. CASE CloseOverlay
  <2>1. StoreOK'
    BY <1>1, <1>7 DEF CloseOverlay, StoreOK, Apart
  <2> QED
    BY <1>2, <1>7, <2>1 DEF CloseOverlay
<1> QED
  BY <1>3, <1>4, <1>5, <1>6, <1>7 DEF OverlayStep

-----------------------------------------------------------------------------
(* Drag and drop.                                                          *)

\* A palette drop has a place in the root.
LEMMA RootInsertIndexTyped ==
  ASSUME NEW snap \in Seq(AnyTree), NEW slot, NEW pos
  PROVE  RootInsertIndex(snap, slot, pos) \in Nat \ {0}
<1> DEFINE at == IndexOf(snap, slot.id)
<1>1. at \in 0..Len(snap) /\ Len(snap) \in Nat
  BY IndexOfIs, LenProperties
<1>2. RootInsertIndex(snap, slot, pos) =
        CASE slot.kind = "end" \/ at = 0 -> Len(snap) + 1
          [] slot.kind = "slot" /\ at # 0 /\ pos = "before" -> at
          [] OTHER -> at + 1
  BY DEF RootInsertIndex
<1> HIDE DEF at
<1> QED
  BY <1>1, <1>2

\* A drop from the palette,
LEMMA DropPaletteKeeps ==
  ASSUME StoreOK, drag.items \in Seq(AnyTree), drag.payload \in Palette, NEW slot, NEW pos, DropPalette(slot, pos)
  PROVE  StoreOK'
<1> DEFINE add == PaletteDrop(doc, drag.items, drag.payload.what, slot, pos)
<1>1. RootInsertIndex(drag.items, slot, pos) \in Nat \ {0}
  BY RootInsertIndexTyped
<1>2. add.op = "root" => add.at \in Nat \ {0}
  BY <1>1 DEF PaletteDrop
<1>3. \/ add.op = "root" /\ AddAtRoot(drag.payload, add.at)
      \/ AddInto(drag.payload, add.gid)
      \/ AddPane(add.gid)
  BY DEF DropPalette
<1> HIDE DEF add
<1> QED
  BY <1>2, <1>3, AddAtRootKeeps, AddIntoKeeps, AddPaneKeeps

\* What is dragged from the layout was there when the drag began.
LEMMA CellIs ==
  ASSUME NEW items \in Seq(AnyTree), NEW cell \in Cells(items)
  PROVE  cell.k = "cell" /\ (cell.from = NoId => Has(items, cell.id))
<1>1. CASE cell \in {[k |-> "cell", id |-> items[i].id, from |-> NoId] : i \in DOMAIN items}
  BY <1>1 DEF Has, IdsOf
<1>2. CASE cell \in UNION {{[k |-> "cell", id |-> i, from |-> g.id] : i \in IdsOf(g.kids)} :
                             g \in {h \in Range(GroupsIn(items)) : ~IsHost(h)}}
  <2>1. PICK g \in Range(GroupsIn(items)) : \E i \in IdsOf(g.kids) : cell = [k |-> "cell", id |-> i, from |-> g.id]
    BY <1>2
  <2>2. g \in AnyTree
    BY NodesAre
  <2>3. g.id \in Ids
    BY <2>2, NodeIs
  <2> QED
    BY <2>1, <2>3, TreeAssumption
<1> QED
  BY <1>1, <1>2 DEF Cells

\* and a drop of either kind.
LEMMA DropKeeps ==
  ASSUME StoreOK, Drags(drag), NEW slot, NEW aim, Drop(slot, aim)
  PROVE  StoreOK'
<1>1. doc \in Seq(AnyTree)
  BY DocTyped DEF StoreOK
<1>2. drag.items \in Seq(AnyTree) /\ drag.payload \in Palette \union Cells(drag.items)
  BY DEF Drop, Drags
<1>3. CASE drag.payload.k = "palette"
  <2>1. drag.payload \in Palette
    BY <1>2, <1>3, CellIs
  <2>2. DropPalette(slot, aim.pos)
    BY <1>3 DEF Drop
  <2> QED
    BY <1>2, <2>1, <2>2, DropPaletteKeeps
<1>4. CASE drag.payload.k # "palette"
  <2> DEFINE next == CellDrop(doc, drag.items, drag.payload, slot, aim.pos, aim.band)
             none == NoDrop(drag.items, drag.payload, slot)
  <2>1. drag.payload \in Cells(drag.items)
    BY <1>2, <1>4 DEF Palette
  <2>2. drag.payload.k = "cell" /\ (drag.payload.from = NoId => Has(drag.items, drag.payload.id))
    BY <1>2, <2>1, CellIs
  <2>3. Refused \/ (~none /\ Commit(next, TRUE))
    BY <1>4, <2>2 DEF Drop
  <2>4. ~none => next \in Seq(AnyTree)
    BY <1>1, <1>2, <2>2, DropMakesALayout
  <2> HIDE DEF none, next
  <2> QED
    BY <2>3, <2>4, CommitKeeps, RefusedKeeps
<1> QED
  BY <1>3, <1>4

\* Everything a drag does.
LEMMA DragKeeps ==
  ASSUME IInv, DragStep
  PROVE  IInv'
<1>1. doc \in Seq(AnyTree) /\ StoreOK /\ ModeOK
  BY DocTyped DEF StoreOK, IInv
<1>2. ASSUME NEW payload \in Palette \union Cells(doc), StartDrag(payload) PROVE IInv'
  <2>1. StoreOK'
    BY <1>1, <1>2 DEF StartDrag, StoreOK, Apart
  <2>2. Drags(drag')
    BY <1>1, <1>2 DEF StartDrag, Drags
  <2>3. ModeOK'
    BY <1>1, <1>2, <2>2 DEF StartDrag, ModeOK, Idle, Undisturbed
  <2> QED
    BY <2>1, <2>3 DEF IInv
<1>3. ASSUME drag # NoDrag, drag' = NoDrag, StoreOK', UNCHANGED <<editing, overlay>> PROVE IInv'
  BY <1>1, <1>3 DEF IInv, ModeOK, Drags
<1>4. ASSUME NEW slot, NEW aim, Drop(slot, aim) PROVE IInv'
  <2>1. StoreOK'
    BY <1>1, <1>4, DropKeeps DEF ModeOK
  <2> QED
    BY <1>3, <1>4, <2>1 DEF Drop
<1>5. CASE CancelDrag
  <2>1. StoreOK'
    BY <1>1, <1>5 DEF CancelDrag, StoreOK, Apart
  <2> QED
    BY <1>3, <1>5, <2>1 DEF CancelDrag
<1> QED
  BY <1>2, <1>4, <1>5 DEF DragStep

-----------------------------------------------------------------------------
(* What else writes the layout.                                            *)

\* A gauge's wish is clamped.
LEMMA GridHintKeeps ==
  ASSUME StoreOK, NEW t \in Range(TilesOf(Nodes(doc))), NEW cs \in Int, NEW rs \in Int, GridHint(t, cs, rs)
  PROVE  StoreOK'
<1> DEFINE o == OriginOf(t)
           want == IF t.plugin \notin OnlyExpand /\ cs = 1 THEN 1 ELSE ClampSpan(AtLeast(cs, Span(t)))
           tall == ClampTall(AtLeast(rs, Tall(t)))
           cell == Cell(o.col, o.row, want, tall)
           wider == [t EXCEPT !.grid = cell]
           next == ReplaceTile(doc, t.id, wider)
<1>1. doc \in Seq(AnyTree)
  BY DocTyped DEF StoreOK
<1>2. t \in TileNodes
  BY <1>1, NodesAre, SeqMembers
<1>3. Commit(next, TRUE)
  BY DEF GridHint
<1>4. o.col \in Nat /\ o.row \in Nat
  <2>1. t.grid \in TileGrids \union {NoGrid}
    BY <1>2 DEF TileNodes
  <2> QED
    BY <2>1 DEF OriginOf, TileGrids, Cell
<1>5. Span(t) \in 1..Cols /\ Tall(t) \in 1..MaxRowSpan
  BY <1>2, LooseKinds, ClampedTyped
<1>6. AtLeast(cs, Span(t)) \in Int /\ AtLeast(rs, Tall(t)) \in Int
  <2>1. Span(t) \in Int /\ Tall(t) \in Int
    BY <1>5, GridAssumption
  <2> QED
    BY <2>1 DEF AtLeast
<1>7. want \in 1..Cols /\ tall \in 1..MaxRowSpan
  BY <1>6, SpansAsked, GridAssumption
<1> HIDE DEF o, want, tall
<1>8. cell \in TileGrids
  BY <1>4, <1>7, CellTyped
<1> HIDE DEF cell
<1>9. wider \in TileNodes
  BY <1>2, <1>8 DEF TileNodes
<1>10. wider \in AnyTree
  BY <1>9, TreeIs
<1> HIDE DEF wider
<1>11. next \in Seq(AnyTree)
  BY <1>1, <1>10, ReplaceTileTyped
<1> HIDE DEF next
<1> QED
  BY <1>3, <1>11, CommitKeeps

\* What comes from outside is a layout: the server's, the built-in one, and what becomes of
\* a layout of version 1.
LEMMA SourcesTyped ==
  /\ \A wire \in WireLayouts : wire \in Seq(AnyTree)
  /\ BuiltIn \in Seq(AnyTree)
  /\ \A rows \in LegacyRows : MigrateV1(rows) \in Seq(AnyTree)
<1>1. Trees[MaxDepth] \subseteq AnyTree
  BY TreeAssumption DEF AnyTree
<1>2. \A s \in Seq(Trees[MaxDepth]) : s \in Seq(AnyTree)
  BY <1>1, SeqGrows
<1>3. \A wire \in WireLayouts : wire \in Seq(AnyTree)
  BY <1>2, EditorAssumption
<1>4. BuiltIn \in Seq(AnyTree)
  BY <1>2, EditorAssumption
<1> QED
  BY <1>3, <1>4, MigrationIsLayout

\* The server's answer,
LEMMA ServerKeeps ==
  ASSUME StoreOK, NEW wire \in WireLayouts, ServerLayout(wire)
  PROVE  StoreOK'
<1>1. wire \in Seq(AnyTree)
  BY SourcesTyped
<1>2. Apart(NormalLayout(wire, FALSE, editing))
  BY <1>1, NormalLayoutIsApart
<1> QED
  BY <1>2, WriteKeeps DEF ServerLayout

\* a reload,
LEMMA ReloadKeeps ==
  ASSUME StoreOK, Reload
  PROVE  StoreOK'
<1> DEFINE next == IF UiAccepts(doc) THEN Hydrated(doc, MergedId) ELSE NormalLayout(BuiltIn, FALSE, FALSE)
<1>1. doc \in Seq(AnyTree)
  BY DocTyped DEF StoreOK
<1>2. Apart(Hydrated(doc, MergedId))
  BY <1>1, HydratedIsApart
<1>3. Apart(NormalLayout(BuiltIn, FALSE, FALSE))
  BY SourcesTyped, NormalLayoutIsApart
<1>4. Apart(next)
  BY <1>2, <1>3
<1>5. Write(next, "reload")
  BY DEF Reload
<1> HIDE DEF next
<1> QED
  BY <1>4, <1>5, WriteKeeps

\* and leaving the editor.
LEMMA LeaveKeeps ==
  ASSUME StoreOK, LeaveEditor
  PROVE  StoreOK'
<1>1. doc \in Seq(AnyTree)
  BY DocTyped DEF StoreOK
<1>2. CommitRowWraps(doc) \in Seq(AnyTree)
  BY <1>1, CommitRowWrapsTyped
<1> QED
  BY <1>2, CommitKeeps DEF LeaveEditor

-----------------------------------------------------------------------------
(* The editor.                                                             *)

\* The invariant holds when the page comes up,
LEMMA InitIInv == Init => IInv
<1> SUFFICES ASSUME Init PROVE IInv
  OBVIOUS
<1>1. PICK first \in WireLayouts \union {MigrateV1(rows) : rows \in LegacyRows} : doc = NormalLayout(first, FALSE, FALSE)
  BY DEF Init
<1>2. first \in Seq(AnyTree)
  BY SourcesTyped
<1>3. Apart(doc)
  BY <1>1, <1>2, NormalLayoutIsApart
<1>3a. writes = 0 /\ cause = "init"
  BY DEF Init
<1>3b. writes \in 0..MaxWrites
  BY <1>3a, EditorAssumption
<1>4. StoreOK
  BY <1>3, <1>3a, <1>3b DEF StoreOK
<1>5. ModeOK
  BY DEF Init, ModeOK, Drags
<1> QED
  BY <1>4, <1>5 DEF IInv

\* and every step keeps it.
LEMMA NextIInv == IInv /\ [Next]_vars => IInv'
<1> SUFFICES ASSUME IInv, [Next]_vars PROVE IInv'
  OBVIOUS
<1>1. StoreOK /\ ModeOK
  BY DEF IInv
<1>2. ASSUME StoreOK', UNCHANGED <<editing, drag, overlay>> PROVE IInv'
  BY <1>1, <1>2, ModeKeeps DEF IInv
<1>3. ASSUME NEW p \in Palette, PaletteClick(p) PROVE IInv'
  <2>1. Len(doc) + 1 \in Nat \ {0}
    BY <1>1, DocTyped, LenProperties DEF StoreOK
  <2>2. StoreOK'
    BY <1>1, <1>3, <2>1, AddAtRootKeeps DEF PaletteClick
  <2> QED
    BY <1>2, <1>3, <2>2 DEF PaletteClick
<1>4. ASSUME NEW g \in Hosts, TabStrip(g) \/ Sections(g) PROVE IInv'
  BY <1>1, <1>2, <1>4, PanesKeep
<1>5. CASE ResizeStep
  BY <1>1, <1>2, <1>5, ResizeKeeps
<1>6. CASE OverlayStep
  BY <1>6, OverlayKeeps
<1>7. CASE DragStep
  BY <1>7, DragKeeps
<1>8. ASSUME NEW t \in Range(TilesOf(Nodes(doc))), NEW cs \in Widths, NEW rs \in Heights, GridHint(t, cs, rs) PROVE IInv'
  <2>1. cs \in Int /\ rs \in Int
    BY EditorAssumption
  <2>2. StoreOK'
    BY <1>1, <1>8, <2>1, GridHintKeeps
  <2> QED
    BY <1>2, <1>8, <2>2 DEF GridHint
<1>9. ASSUME NEW wire \in WireLayouts, ServerLayout(wire) PROVE IInv'
  <2>1. StoreOK'
    BY <1>1, <1>9, ServerKeeps
  <2> QED
    BY <1>2, <1>9, <2>1 DEF ServerLayout
<1>10. CASE Reload
  <2>1. StoreOK'
    BY <1>1, <1>10, ReloadKeeps
  <2>2. ModeOK'
    BY <1>10 DEF Reload, ModeOK, Drags
  <2> QED
    BY <2>1, <2>2 DEF IInv
<1>11. CASE OpenEditor
  <2>1. StoreOK'
    BY <1>1, <1>11 DEF OpenEditor, StoreOK, Apart
  <2>2. ModeOK'
    BY <1>1, <1>11 DEF OpenEditor, ModeOK
  <2> QED
    BY <2>1, <2>2 DEF IInv
<1>12. CASE LeaveEditor
  <2>1. StoreOK'
    BY <1>1, <1>12, LeaveKeeps
  <2>2. ModeOK'
    BY <1>1, <1>12 DEF LeaveEditor, ModeOK, Idle, Undisturbed
  <2> QED
    BY <2>1, <2>2 DEF IInv
<1>13. CASE UNCHANGED vars
  BY <1>1, <1>13 DEF vars, IInv, StoreOK, ModeOK, Apart
<1> QED
  BY <1>3, <1>4, <1>5, <1>6, <1>7, <1>8, <1>9, <1>10, <1>11, <1>12, <1>13 DEF Next

\* The inductive invariant: the layout in the store is a tree of nodes with its root placed and apart,
\* and what a drag or an overlay remembers is one too, however stale (DashboardHost.svelte).
THEOREM EditorInvariant == Spec => []IInv
BY InitIInv, NextIInv, PTL DEF Spec

\* Every node of the layout in the store stays a tile or a group with a placement inside the limits of a
\* span, and a drag or an overlay exists in the open editor only and never both at once.
THEOREM EditorTypes == Spec => []TypeOK
<1>1. IInv => TypeOK
  <2> SUFFICES ASSUME IInv PROVE TypeOK
    OBVIOUS
  <2>1. doc \in Seq(AnyTree)
    BY DocTyped DEF IInv, StoreOK
  <2>2. ASSUME NEW n \in Range(Nodes(doc))
        PROVE  IF IsGroup(n) THEN n \in GroupNodes(Range(n.kids)) ELSE n \in TileNodes
    <3>1. n \in AnyTree
      BY <2>1, NodesAre
    <3>2. CASE ~IsGroup(n)
      BY <3>1, <3>2, NodeIs
    <3>3. CASE IsGroup(n)
      <4> DEFINE R == Range(n.kids)
                 V == Seq(AnyTree)
                 K == Seq(R)
      <4>1. n \in GroupNodes(AnyTree) /\ n.kids \in V
        BY <3>1, <3>3, NodeIs
      <4>2. n.kids \in K
        BY <4>1, SeqMembers
      <4>3. n \in [kind : {"group"}, id : Ids, host : {"panel", "tab-control", "vertical-stack"},
                   wrap : BOOLEAN, label : BOOLEAN, active : Ids \union {NoId}, collapsed : SUBSET Ids,
                   grid : GroupGrids \union {NoGrid}, kids : V]
        BY <4>1 DEF GroupNodes
      <4> HIDE DEF V, K, R
      <4>4. n \in [kind : {"group"}, id : Ids, host : {"panel", "tab-control", "vertical-stack"},
                   wrap : BOOLEAN, label : BOOLEAN, active : Ids \union {NoId}, collapsed : SUBSET Ids,
                   grid : GroupGrids \union {NoGrid}, kids : K]
        BY <4>2, <4>3
      <4>5. n \in GroupNodes(R)
        BY <4>4 DEF GroupNodes, K
      <4> QED
        BY <3>3, <4>5 DEF R
    <3> QED
      BY <3>2, <3>3
  <2> QED
    BY <2>2 DEF IInv, StoreOK, ModeOK, Drags, TypeOK
<1> QED
  BY <1>1, EditorInvariant, PTL

\* Whatever sequence of edits, drops, hints, server answers and reloads led here, every root item has a
\* place and no two of them share a cell: for every grid, every plugin, every layout the server sends.
THEOREM EditorRootApart == Spec => []RootApart
<1>1. IInv => RootApart
  BY DEF IInv, StoreOK, Apart, RootApart
<1> QED
  BY <1>1, EditorInvariant, PTL

\* A placement the UI calls complete is one the API validates.
LEMMA PlacementsAgree ==
  ASSUME NEW g \in GroupGrids
  PROVE  /\ Complete(g) => ValidGridCell(g)
         /\ \A wrap : CompleteChild(g, wrap) => ValidGroupChildGrid(g, wrap)
<1>1. g.col \in Nat /\ g.row \in Nat /\ g.cs \in 1..Cols /\ Cols \in Nat /\ StripExtent \in Nat
  BY GridAssumption, CellTyped
<1>2. Complete(g) => ValidGridCell(g)
  BY <1>1 DEF Complete, ValidGridCell
<1>3. CompleteInStrip(g) => /\ g.cs \in 1..Cols /\ g.col >= 0 /\ g.col + g.cs <= StripExtent
                            /\ g.row >= 0 /\ g.rs \in 1..MaxRowSpan
  BY DEF CompleteInStrip
<1> QED
  BY <1>2, <1>3 DEF CompleteChild, ValidGroupChildGrid

\* The UI never caches a layout whose save the API refuses for its form: what the browser's validation
\* accepts of the layout in the store, the service's validation accepts too (layoutZod.ts, layout_validate.py).
THEOREM EditorCachedIsAccepted == Spec => []CachedIsAccepted
<1>1. IInv => CachedIsAccepted
  <2> SUFFICES ASSUME IInv, UiAccepts(doc) PROVE ApiAccepts(doc)
    BY DEF CachedIsAccepted
  <2>1. doc \in Seq(AnyTree)
    BY DocTyped DEF IInv, StoreOK
  <2>2. \A n \in AnyTree : n.grid # NoGrid => n.grid \in GroupGrids
    BY TypedGrid
  <2>3. \A i \in DOMAIN doc : doc[i].grid = NoGrid \/ ValidGridCell(doc[i].grid)
    <3>1. \A i \in DOMAIN doc : doc[i] \in AnyTree
      BY <2>1, SeqMembers
    <3> QED
      BY <2>2, <3>1, PlacementsAgree DEF UiAccepts
  <2>4. ASSUME NEW g \in Range(GroupsIn(doc)) PROVE ApiAcceptsGroup(g)
    <3>1. g \in AnyTree /\ g.kids \in Seq(AnyTree) /\ UiAcceptsGroup(g)
      BY <2>1, NodesAre DEF UiAccepts
    <3>2. \A i \in DOMAIN g.kids : g.kids[i] \in AnyTree
      BY <3>1, SeqMembers
    <3>3. g.grid = NoGrid \/ ValidGridCell(g.grid)
      BY <2>2, <3>1, PlacementsAgree DEF UiAcceptsGroup
    <3>4. ASSUME NEW i \in DOMAIN g.kids
          PROVE  /\ g.kids[i].grid = NoGrid \/ ValidGroupChildGrid(g.kids[i].grid, g.wrap)
                 /\ IsGroup(g.kids[i]) => ~g.wrap
      BY <2>2, <3>1, <3>2, PlacementsAgree DEF UiAcceptsGroup
    <3> QED
      BY <3>3, <3>4 DEF ApiAcceptsGroup
  <2> QED
    BY <2>3, <2>4 DEF UiAccepts, ApiAccepts
<1> QED
  BY <1>1, EditorInvariant, PTL
=============================================================================
