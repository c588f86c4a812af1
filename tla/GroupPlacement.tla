--------------------------- MODULE GroupPlacement ----------------------------
(***************************************************************************)
(* Placement inside a group (placement/group.ts).  A group that does not   *)
(* wrap is one strip, packed left to right on row 0; a group that wraps is *)
(* packed in rows as wide as the group; the panes of a tab or stack host   *)
(* have no placement of their own.                                         *)
(***************************************************************************)
EXTENDS LayoutTree

\* A labelled pane of a host: a strip grid left on it must not narrow it.
IsSection(g) == g.label /\ ~IsHost(g) /\ ~g.wrap

OuterCols(g) ==
    IF ~IsSection(g) /\ g.grid # NoGrid /\ g.grid.cs \in 1..Cols THEN g.grid.cs ELSE Cols

OuterRows(g, inner) ==
    IF g.grid # NoGrid /\ g.grid.rs >= 1 THEN ClampTall(g.grid.rs) ELSE AtLeast(1, inner)

\* The first row below everything placed in a group; at least 1.
RowEnd(group) ==
    LET end[n \in Below(<<group>>)] ==
            LET bottom(c) ==
                    IF ~CompleteChild(c.grid, n.wrap) THEN end[c]
                    ELSE c.grid.row + (IF IsGroup(c) THEN OuterRows(c, end[c]) ELSE c.grid.rs)
            IN  IF IsGroup(n) THEN Max({1} \union {bottom(n.kids[i]) : i \in DOMAIN n.kids}) ELSE 1
    IN  end[group]

NodeCols(n) == IF IsGroup(n) THEN OuterCols(n) ELSE Span(n)
NodeRows(n) == IF IsGroup(n) THEN OuterRows(n, RowEnd(n)) ELSE Tall(n)

\* A node takes at most the tracks of the group it is in.
Tracks(span, outer) == AtLeast(1, AtMost(ClampSpan(outer), ClampSpan(span)))

PackStrip(outer, kids) ==
    LET upTo[k \in 0..Len(kids)] ==
            IF k = 0 THEN 0 ELSE upTo[k - 1] + Tracks(NodeCols(kids[k]), outer)
    IN  [i \in DOMAIN kids |->
            [kids[i] EXCEPT !.grid = Cell(upTo[i - 1], 0, NodeCols(kids[i]), NodeRows(kids[i]))]]

\* Row by row; a new row is one row further down whatever the heights were.
PackRowWrap(outer, tiles) ==
    LET width(t) == Tracks(Span(t), outer)
        fit(free, t) == IF free.c + width(t) > ClampSpan(outer) THEN [c |-> 0, r |-> free.r + 1] ELSE free
        after[k \in 0..Len(tiles)] ==
            IF k = 0 THEN [c |-> 0, r |-> 0]
            ELSE [fit(after[k - 1], tiles[k]) EXCEPT !.c = @ + width(tiles[k])]
        at(i) == fit(after[i - 1], tiles[i])
    IN  [i \in DOMAIN tiles |->
            [tiles[i] EXCEPT !.grid = Cell(at(i).c, at(i).r, Span(tiles[i]), Tall(tiles[i]))]]

\* Tiles that all have a place keep it, clamped, unless two then overlap.
NormalizeStrip(outer, tiles) ==
    KeepIfApart(\A i \in DOMAIN tiles : CompleteInStrip(tiles[i].grid),
                tiles, [i \in DOMAIN tiles |-> ClampedChild(tiles[i], FALSE)], PackStrip(outer, tiles))

ClearPaneGrid(n) == IF IsGroup(n) /\ ~IsHost(n) THEN [n EXCEPT !.grid = NoGrid] ELSE n

PackKids(g, kids) ==
    CASE IsHost(g) -> [i \in DOMAIN kids |-> ClearPaneGrid(kids[i])]
      [] ~IsHost(g) /\ TilesOf(kids) = kids -> NormalizeStrip(OuterCols(g), kids)
      [] OTHER -> IF \A i \in DOMAIN kids : CompleteInStrip(kids[i].grid) THEN kids
                  ELSE PackStrip(OuterCols(g), kids)

\* One group and everything in it.  Outside the editor a group that wraps keeps
\* its tiles only: groups nested in it are dropped.
PackGroup(group, editing) ==
    LET packed[n \in Below(<<group>>)] ==
            CASE ~IsGroup(n) \/ (n.wrap /\ editing) -> n
              [] IsGroup(n) /\ n.wrap /\ ~editing ->
                    [n EXCEPT !.kids = PackRowWrap(OuterCols(n), TilesOf(@))]
              [] OTHER -> [n EXCEPT !.kids = PackKids(n, Through(packed, @))]
    IN  packed[group]

PackGroups(items, editing) ==
    [i \in DOMAIN items |-> IF IsGroup(items[i]) THEN PackGroup(items[i], editing) ELSE items[i]]

\* Leaving the editor, and saving a group's settings: the wrapping groups, inside out.
CommitRowWraps(items) ==
    LET new[n \in Below(items)] ==
            CASE ~IsGroup(n) -> n
              [] IsGroup(n) /\ n.wrap ->
                    [n EXCEPT !.kids = PackRowWrap(OuterCols(n), TilesOf(Through(new, @)))]
              [] OTHER -> [n EXCEPT !.kids = Through(new, @)]
    IN  Through(new, items)

\* Half of the parent, after its children while that fits the root's columns.
PlaceForNewGroup(parent) ==
    LET cs == AtLeast(1, OuterCols(parent) \div 2)
        placed == {i \in DOMAIN parent.kids : CompleteInStrip(parent.kids[i].grid)}
        col == Max({0} \union {parent.kids[i].grid.col + parent.kids[i].grid.cs : i \in placed})
        row == Max({0} \union {parent.kids[i].grid.row + parent.kids[i].grid.rs : i \in placed})
    IN  IF col + cs <= Cols THEN Cell(col, 0, cs, 1) ELSE Cell(0, row, cs, 1)

ResizeInGroup(items, gid, tid, cs) ==
    LET tile == FindTile(items, tid)
        resized == IF tile.grid = NoGrid THEN items
                   ELSE ReplaceTile(items, tid, [tile EXCEPT !.grid.cs = ClampSpan(cs)])
        group == FindGroup(resized, gid)
    IN  CASE gid \notin GroupIds(items) -> items
          [] gid \in GroupIds(items) /\ gid \notin GroupIds(resized) -> resized
          [] OTHER -> ReplaceGroup(resized, gid, [group EXCEPT !.kids = PackStrip(OuterCols(group), @)])
=============================================================================
