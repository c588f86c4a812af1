------------------------------ MODULE GridCells ------------------------------
(***************************************************************************)
(* The cell arithmetic of the dashboard grid (placement/tile.ts): what a   *)
(* complete placement is, how a placement is clamped, when two overlap,    *)
(* and the packings of a list of tiles.  A grid is a record of a column, a *)
(* row and two spans, or NoGrid.  Nothing here is recursive, so that the   *)
(* module can be proved about.                                             *)
(***************************************************************************)
EXTENDS Lists

CONSTANTS
    Cols,          \* GRID_COLUMNS
    MaxRowSpan,    \* GRID_ROW_SPAN_MAX
    StripExtent,   \* GROUP_CHILD_INNER_STRIP_MAX_EXTENT
    DefaultSpan,   \* plugin -> columns (tileColSpanForPlugin)
    NoGrid         \* the missing grid

ASSUME GridAssumption ==
    /\ Cols \in Nat \ {0}
    /\ MaxRowSpan \in Nat \ {0}
    /\ StripExtent \in Nat
    /\ StripExtent >= Cols

AtLeast(low, n) == IF n < low THEN low ELSE n
AtMost(high, n) == IF n > high THEN high ELSE n

Cell(col, row, cs, rs) == [col |-> col, row |-> row, cs |-> cs, rs |-> rs]

ClampSpan(n) == AtMost(Cols, AtLeast(1, n))
ClampTall(n) == AtMost(MaxRowSpan, AtLeast(1, n))
OriginCol(col, cs) == AtLeast(0, AtMost(Cols - cs, col))
StripOriginCol(col, cs) == AtLeast(0, AtMost(AtLeast(0, StripExtent - cs), col))

\* The spans a tile takes: its grid's when it has one, else its plugin's.
Span(t) == IF t.grid # NoGrid THEN ClampSpan(t.grid.cs) ELSE DefaultSpan[t.plugin]
Tall(t) == IF t.grid # NoGrid THEN ClampTall(t.grid.rs) ELSE 1

\* The placements the root grid (and a wrapping group) takes as they are.
Complete(g) ==
    /\ g # NoGrid
    /\ g.col >= 0 /\ g.cs \in 1..Cols /\ g.col + g.cs <= Cols
    /\ g.row >= 0 /\ g.rs \in 1..MaxRowSpan

\* A group that does not wrap is one long strip: its rows pass the last column.
CompleteInStrip(g) ==
    /\ g # NoGrid
    /\ g.col >= 0 /\ g.cs \in 1..Cols /\ g.col + g.cs <= StripExtent
    /\ g.row >= 0 /\ g.rs \in 1..MaxRowSpan

CompleteChild(g, wrap) == IF wrap THEN Complete(g) ELSE CompleteInStrip(g)

OriginOf(t) == IF t.grid # NoGrid THEN t.grid ELSE Cell(0, 0, 1, 1)

ClampedTile(t) ==
    Cell(OriginCol(OriginOf(t).col, Span(t)), AtLeast(0, OriginOf(t).row), Span(t), Tall(t))

ClampedChild(t, wrap) ==
    IF wrap THEN ClampedTile(t)
    ELSE Cell(StripOriginCol(OriginOf(t).col, Span(t)), AtLeast(0, OriginOf(t).row),
              Span(t), Tall(t))

Overlap(a, b) ==
    /\ a.col < b.col + b.cs /\ b.col < a.col + a.cs
    /\ a.row < b.row + b.rs /\ b.row < a.row + a.rs

AnyOverlap(cells) ==
    \E i, j \in DOMAIN cells : i < j /\ Overlap(cells[i], cells[j])

-----------------------------------------------------------------------------
(* The pack: a cursor that goes right and wraps, and the first free row of *)
(* every column, so that a tall cell pushes down what comes under it.      *)

Highest(bottom, c, cs) ==
    CHOOSE r \in {bottom[j] : j \in c..(c + cs - 1)} :
        \A j \in c..(c + cs - 1) : bottom[j] <= r

PlaceNext(packing, s) ==
    LET c == IF packing.c + s.cs > Cols THEN 0 ELSE packing.c
        row == Highest(packing.bottom, c, s.cs)
    IN  [c |-> IF c + s.cs >= Cols THEN 0 ELSE c + s.cs,
         bottom |-> [j \in DOMAIN packing.bottom |->
                        IF j \in c..(c + s.cs - 1) THEN row + s.rs ELSE packing.bottom[j]],
         cells |-> Append(packing.cells, Cell(c, row, s.cs, s.rs))]

PackStart == [c |-> 0, bottom |-> [j \in 0..(Cols - 1) |-> 0], cells |-> <<>>]

PackedCells(spans) ==
    LET after[k \in 0..Len(spans)] ==
            IF k = 0 THEN PackStart ELSE PlaceNext(after[k - 1], spans[k])
    IN  after[Len(spans)].cells

GridsOf(nodes) == [i \in DOMAIN nodes |-> nodes[i].grid]
WithGrids(nodes, cells) == [i \in DOMAIN nodes |-> [nodes[i] EXCEPT !.grid = cells[i]]]
PackedAs(nodes, spans) == WithGrids(nodes, PackedCells(spans))

PackTilesToGrid(tiles) ==
    PackedAs(tiles, [i \in DOMAIN tiles |-> [cs |-> Span(tiles[i]), rs |-> Tall(tiles[i])]])

\* The order the slots of a placed list are handed out in: by row, then column.
ByPosition(a, b) == a.row < b.row \/ (a.row = b.row /\ a.col < b.col)

SlotOrigins(nodes) ==
    LET grids == Range(GridsOf(nodes))
    IN  SortedBy(GridsOf(nodes), {p \in grids \X grids : ByPosition(p[1], p[2])})

SameOrder(a, b) == Len(a) = Len(b) /\ \A i \in DOMAIN a : a[i].id = b[i].id

\* Cells that may be kept and are apart become the placements.
KeepIfApart(may, nodes, cells, packed) ==
    IF may /\ ~AnyOverlap(cells) THEN WithGrids(nodes, cells) ELSE packed

ClampedAt(tiles, slots, wrap) ==
    [i \in DOMAIN tiles |->
        ClampedChild([tiles[i] EXCEPT !.grid = Cell(slots[i].col, slots[i].row,
                                                    Span(tiles[i]), Tall(tiles[i]))], wrap)]

\* Reorder inside one group: the i-th tile takes the i-th slot of the previous
\* list; spans stay with the tiles, and what then overlaps is packed anew.
ReorderTiles(prev, tiles, wrap) ==
    LET placed(i) == CompleteChild(prev[i].grid, wrap)
        kept(i) == IF placed(i)
                   THEN [tiles[i] EXCEPT !.grid =
                            [prev[i].grid EXCEPT !.cs = Span(tiles[i]), !.rs = Tall(tiles[i])]]
                   ELSE tiles[i]
    IN  IF SameOrder(tiles, prev)
        THEN [i \in DOMAIN tiles |-> [tiles[i] EXCEPT !.grid = ClampedChild(kept(i), wrap)]]
        ELSE KeepIfApart(Len(tiles) = Len(prev) /\ \A i \in DOMAIN prev : placed(i),
                         tiles, ClampedAt(tiles, SlotOrigins(prev), wrap), PackTilesToGrid(tiles))
=============================================================================
