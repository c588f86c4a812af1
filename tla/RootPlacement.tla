---------------------------- MODULE RootPlacement ----------------------------
(***************************************************************************)
(* Placement on the root grid (placement/root.ts), and the normal form     *)
(* every layout passes through before it is stored (layoutWithGrid).  A    *)
(* row of single-height items may pass the last column: the editor's grid  *)
(* then scrolls.                                                           *)
(***************************************************************************)
EXTENDS GroupPlacement

OneRow(n) == n.grid # NoGrid /\ n.grid.rs = 1

\* Kept as it is by an edit that preserves placements.
Preservable(n) ==
    /\ OneRow(n)
    /\ \/ n.grid.col + NodeCols(n) <= Cols /\ Complete(n.grid)
       \/ n.grid.col + NodeCols(n) > Cols /\ n.grid.col >= 0 /\ n.grid.row >= 0

\* (deviant: columns counted from one, as the style sheet does)
ClampedOuterFromOne(n) ==
    Cell(AtLeast(1, n.grid.col), AtLeast(0, n.grid.row), NodeCols(n), NodeRows(n))

ClampedOuter(n) ==
    LET at(col, cs, rs) == Cell(IF rs = 1 /\ col + cs > Cols THEN col ELSE OriginCol(col, cs),
                                AtLeast(0, n.grid.row), cs, rs)
    IN  at(AtLeast(0, n.grid.col), NodeCols(n), NodeRows(n))

Packed(inner) ==
    PackedAs(inner, [i \in DOMAIN inner |-> [cs |-> NodeCols(inner[i]), rs |-> NodeRows(inner[i])]])
PackRoot(items) == Packed(PackGroups(items, FALSE))

Slotted(items, slots) ==
    [i \in DOMAIN items |->
        ClampedOuter([items[i] EXCEPT !.grid = Cell(slots[i].col, slots[i].row,
                                                    NodeCols(items[i]), NodeRows(items[i]))])]

\* The item r where the item p was: its own placement when that will do, else p's.
InPlace(r, p) ==
    CASE Preservable(r) -> ClampedOuter(r)
      [] ~Preservable(r) /\ IsGroup(r) ->
            IF ~Complete(p.grid) THEN r.grid
            ELSE IF Complete(r.grid)
            THEN Cell(OriginCol(r.grid.col, OuterCols(r)), r.grid.row, OuterCols(r), NodeRows(r))
            ELSE Cell(p.grid.col, p.grid.row, OuterCols(r), NodeRows(r))
      [] ~Preservable(r) /\ ~IsGroup(r) /\ Complete(p.grid) ->
            LET spans(from) == [p.grid EXCEPT !.cs = Span(from), !.rs = Tall(from)]
            IN  ClampedTile([r EXCEPT !.grid = spans(IF Complete(r.grid) THEN r ELSE p)])
      [] OTHER -> ClampedTile(r)

\* A new order on the root: the i-th item takes the i-th slot of the old order.
ReorderRoot(prev, items) ==
    IF SameOrder(items, prev)
    THEN [i \in DOMAIN items |->
             IF items[i].kind = prev[i].kind
             THEN [items[i] EXCEPT !.grid = InPlace(items[i], prev[i])] ELSE items[i]]
    ELSE KeepIfApart(Len(items) = Len(prev) /\ \A i \in DOMAIN prev : Complete(prev[i].grid),
                     items, Slotted(items, SlotOrigins(prev)), PackRoot(items))

\* The same order with the stored grids: nothing is packed.
MergeRootGrids(prev, items) ==
    [i \in DOMAIN items |->
        LET p == IndexOf(prev, items[i].id)
        IN  IF p # 0 /\ prev[p].kind = items[i].kind /\ prev[p].grid # NoGrid
            THEN [items[i] EXCEPT !.grid = prev[p].grid] ELSE items[i]]

ReflowedAt(n, col, cs, row) ==
    [n EXCEPT !.grid = Cell(AtLeast(0, col), row, ClampSpan(cs), IF @ = NoGrid THEN 1 ELSE @.rs)]

ReflowNext(flow, i, row) ==
    [col |-> flow.col + NodeCols(flow.items[i]),
     items |-> [flow.items EXCEPT ![i] = ReflowedAt(@, flow.col, NodeCols(@), row)]]

\* Left to right without gaps, past the last column if need be.
Reflow(items, order, row) ==
    LET flow[k \in 0..Len(order)] ==
            IF k = 0 THEN [col |-> 0, items |-> items] ELSE ReflowNext(flow[k - 1], order[k], row)
    IN  flow[Len(order)].items

RowMates(items, row) ==
    Picked([i \in DOMAIN items |-> i],
           {i \in DOMAIN items : OneRow(items[i]) /\ items[i].grid.row = row})

ReflowRow(items, row) ==
    LET mates == RowMates(items, row)
    IN  Reflow(items, SortedBy(mates, {p \in Range(mates) \X Range(mates) :
                                           items[p[1]].grid.col < items[p[2]].grid.col}), row)

ReflowRowInListOrder(items, row) == Reflow(items, RowMates(items, row), row)

RelocateToRow(items, id, row) ==
    [i \in DOMAIN items |->
        CASE items[i].id = id /\ OneRow(items[i]) ->
                ReflowedAt(items[i], items[i].grid.col, NodeCols(items[i]), row)
          [] items[i].id = id /\ items[i].grid # NoGrid /\ ~OneRow(items[i]) ->
                [items[i] EXCEPT !.grid.row = row]
          [] OTHER -> items[i]]

\* Two items change places; single-height ones keep their own width.
SwapSlots(items, a, b) ==
    LET x == items[IndexOf(items, a)].grid
        y == items[IndexOf(items, b)].grid
    IN  IF ~Has(items, a) \/ ~Has(items, b) \/ NoGrid \in {x, y} THEN items
        ELSE [i \in DOMAIN items |->
                 CASE items[i].id = a -> [items[i] EXCEPT !.grid = y]
                   [] items[i].id = b -> [items[i] EXCEPT !.grid = x]
                   [] OTHER -> items[i]]

\* (deviant: the width changes place too)
SwapTilesWithWidths(items, a, b) ==
    LET x == items[IndexOf(items, a)].grid
        y == items[IndexOf(items, b)].grid
    IN  IF NoGrid \in {x, y} THEN items
        ELSE [items EXCEPT ![IndexOf(items, a)] = ReflowedAt(@, y.col, y.cs, y.row),
                           ![IndexOf(items, b)] = ReflowedAt(@, x.col, x.cs, x.row)]

SwapTiles(items, a, b) ==
    LET x == items[IndexOf(items, a)]
        y == items[IndexOf(items, b)]
        at(n, g) == ReflowedAt(n, g.col, NodeCols(n), g.row)
    IN  IF ~Has(items, a) \/ ~Has(items, b) \/ ~OneRow(x) \/ ~OneRow(y) THEN items
        ELSE [i \in DOMAIN items |->
                 CASE items[i].id = a -> at(items[i], y.grid)
                   [] items[i].id = b -> at(items[i], x.grid)
                   [] OTHER -> items[i]]

\* A drop in the gap to the right of another item: onto its row, after it.
DropAfter(prev, items, dragged, anchor) ==
    LET a == prev[IndexOf(prev, anchor)]
        d == prev[IndexOf(prev, dragged)]
        stored == [i \in DOMAIN items |->
                      IF Has(prev, items[i].id) THEN prev[IndexOf(prev, items[i].id)] ELSE items[i]]
        at == [stored EXCEPT ![IndexOf(stored, dragged)] =
                  ReflowedAt(@, a.grid.col + NodeCols(a), NodeCols(@), a.grid.row)]
        row == ReflowRow(at, a.grid.row)
    IN  IF \/ ~Has(prev, anchor) \/ ~Has(prev, dragged) \/ ~Has(items, dragged)
           \/ ~OneRow(a) \/ ~OneRow(d)
        THEN ReorderRoot(prev, items)
        ELSE IF d.grid.row # a.grid.row THEN ReflowRow(row, d.grid.row) ELSE row

ResizeRoot(items, id, cs) ==
    LET i == IndexOf(items, id)
        g == items[i].grid
    IN  IF i = 0 \/ ~OneRow(items[i]) THEN items
        ELSE ReflowRow([items EXCEPT ![i] = ReflowedAt(@, g.col, cs, g.row)], g.row)

\* (deviant: placements that overlap are kept too)
PlaceInnerOverlapping(items, inner, preserve) ==
    IF preserve /\ \A i \in DOMAIN inner : Preservable(inner[i])
    THEN [i \in DOMAIN inner |-> [inner[i] EXCEPT !.grid = ClampedOuter(inner[i])]]
    ELSE PackRoot(items)

PlaceInner(items, inner, preserve) ==
    KeepIfApart(preserve /\ \A i \in DOMAIN inner : Preservable(inner[i]),
                inner, [i \in DOMAIN inner |-> ClampedOuter(inner[i])], PackRoot(items))

\* The normal form of a layout (after the upgrade, see LayoutUpgrade): placements
\* that are all complete and apart are kept on request, else the root is packed.
PlaceItems(items, preserve, editing) == PlaceInner(items, PackGroups(items, editing), preserve)
=============================================================================
