------------------------------ MODULE DropApply ------------------------------
(***************************************************************************)
(* What a drop does (dashboardSveltedndApply.ts, groupDndFinalize.ts).     *)
(* The editor drags over mirror lists of the root and of every group,      *)
(* taken when the drag starts; a drop edits the mirrors and merges them    *)
(* into the layout of that moment.                                         *)
(*   A slot is [on, kind, gid, id]: on the root or in group gid, at the    *)
(* node id ("slot", "rowEnd", "gap") or at the end ("end").  A dragged     *)
(* cell is [id, from], from a group or from the root (NoId).               *)
(***************************************************************************)
EXTENDS LayoutUpgrade

\* The last group of an id is the one that is mirrored.
Mirrors(items) ==
    LET groups == GroupsIn(items)
    IN  [g \in IdsOf(groups) |-> DedupeById(groups[Max({i \in DOMAIN groups : groups[i].id = g})].kids)]
ListOf(mirrors, gid) == IF gid \in DOMAIN mirrors THEN mirrors[gid] ELSE <<>>

\* A group's children out of its mirror: what the layout has under that id, in the
\* mirror's order; what it does not have, as the mirror remembers it.
FinalizeKids(final, prev, list) ==
    LET held == [n \in Range(list) |->
                    LET p == IndexOf(prev.kids, n.id) IN IF p = 0 THEN n ELSE final[prev.kids[p]]]
        synced == Through(held, list)
        tiles == IF prev.wrap THEN PackRowWrap(OuterCols(prev), TilesOf(synced))
                 ELSE ReorderTiles(TilesOf(prev.kids), TilesOf(synced), FALSE)
    IN  [i \in DOMAIN synced |->
            IF IsGroup(synced[i]) THEN synced[i] ELSE tiles[IndexOf(tiles, synced[i].id)]]

LayoutFromMirrors(items, root, mirrors) ==
    LET final[g \in Below(items)] ==
            IF IsGroup(g)
            THEN [g EXCEPT !.kids = FinalizeKids(final, g, IF g.id \in DOMAIN mirrors THEN mirrors[g.id] ELSE @)]
            ELSE g
        groups == [n \in Range(root) |->
                      IF IsGroup(n) /\ n.id \in GroupIds(items) THEN final[FindGroup(items, n.id)] ELSE n]
    IN  Through(groups, root)

SwapInList(list, a, b) ==
    LET i == IndexOf(list, a)
        j == IndexOf(list, b)
    IN  IF 0 \in {i, j} THEN list ELSE [list EXCEPT ![i] = list[j], ![j] = list[i]]

InsertRelativeTo(list, node, target, pos) ==
    LET at == IndexOf(list, target)
    IN  DedupeById(IF at = 0 THEN Append(list, node)
                   ELSE InsertAt(list, IF pos = "after" THEN at + 1 ELSE at, node))

\* Into a list, at a slot: a drop on the middle of a child inserts beside it.
InsertAtSlot(list, node, slot, pos, band) ==
    CASE slot.kind = "end" -> DedupeById(Append(list, node))
      [] slot.kind \in {"gap", "rowEnd"} -> InsertRelativeTo(list, node, slot.id, "after")
      [] OTHER -> InsertRelativeTo(list, node, slot.id, IF band = "center" THEN pos ELSE band)

RootGrid(items, id) == IF Has(items, id) THEN items[IndexOf(items, id)].grid ELSE NoGrid
Single(g) == g # NoGrid /\ g.rs = 1

\* The row of the target, then the row the dragged item came from.
ReflowBoth(items, target, dragged) ==
    LET there == IF Single(target) THEN ReflowRowInListOrder(items, target.row) ELSE items
    IN  IF Single(dragged) /\ dragged.row # target.row
        THEN ReflowRowInListOrder(there, dragged.row) ELSE there

\* Onto a root item: before or after it, on its row, or in its place.
TileSlotDrop(items, merged, id, target, band) ==
    LET d == RootGrid(items, id)
        t == RootGrid(items, target)
        moved == RelocateToRow(merged, id, t.row)
    IN  CASE NoGrid \in {d, t} -> PackRoot(merged)
          [] Single(d) /\ Single(t) ->
                ReflowBoth(IF band = "center" THEN SwapTiles(merged, id, target) ELSE moved, t, d)
          [] OTHER ->
                PackRoot(ReflowBoth(IF band = "center" THEN SwapSlots(merged, id, target)
                                    ELSE moved, t, d))

RootListDrop(items, merged, id, slot, band) ==
    LET t == RootGrid(items, slot.id)
    IN  CASE slot.kind = "rowEnd" /\ Single(t) -> DropAfter(items, merged, id, slot.id)
          [] slot.kind = "gap" /\ Single(t) -> ReflowBoth(merged, t, RootGrid(items, id))
          [] slot.kind = "slot" -> TileSlotDrop(items, merged, id, slot.id, band)
          [] OTHER -> PackRoot(merged)

\* On its own slot, or on the shell it comes from: nothing.
Ignored(cell, slot) ==
    slot.on = "root" /\ slot.kind # "end" /\ slot.id = IF cell.from = NoId THEN cell.id ELSE cell.from

\* Its mirror is of another group of that id: nothing to move, but a reorder commits all the same.
Missed(snap, cell, slot) ==
    /\ cell.from # NoId /\ ~Has(ListOf(Mirrors(snap), cell.from), cell.id)
    /\ ~(slot.on = "group" /\ slot.gid = cell.from /\ slot.kind = "slot")

\* Into the root group it is: not a drop.
Invalid(cell, slot) == cell.from = NoId /\ slot.on = "group" /\ slot.gid = cell.id

NoDrop(snap, cell, slot) == Ignored(cell, slot) \/ Invalid(cell, slot) \/ Missed(snap, cell, slot)

ReorderRootDrag(snap, node, slot, pos) ==
    IF slot.kind = "end" THEN Append(WithoutId(snap, node.id), node)
    ELSE ReorderByTarget(snap, node.id, slot.id, pos)

RootCellDrop(items, snap, cell, slot, pos, band) ==
    LET node == snap[IndexOf(snap, cell.id)]
        order == IF slot.kind = "slot" /\ band = "center" THEN SwapInList(snap, cell.id, slot.id)
                 ELSE ReorderRootDrag(snap, node, slot, IF slot.kind = "slot" THEN band ELSE "after")
        into == InsertAtSlot(ListOf(Mirrors(snap), slot.gid), node, slot, pos, band)
    IN  IF slot.on = "root"
        THEN RootListDrop(items, LayoutFromMirrors(items, order, Mirrors(snap)), cell.id, slot, band)
        ELSE ReorderRoot(items, LayoutFromMirrors(items, DedupeById(WithoutId(snap, cell.id)),
                                                  [Mirrors(snap) EXCEPT ![slot.gid] = into]))

\* Within one group: the middle of a child exchanges places with it.
ReorderInGroup(own, id, target, pos, band) ==
    IF band = "center" /\ id # target THEN SwapInList(own, id, target)
    ELSE ReorderByTarget(own, id, target, IF band = "center" THEN pos ELSE band)

GroupCellDrop(items, snap, cell, slot, pos, band) ==
    LET lists == Mirrors(snap)
        own == ListOf(lists, cell.from)
        node == own[IndexOf(own, cell.id)]
        left == WithoutId(own, cell.id)
        atRoot == InsertAtSlot(snap, node, slot, "before", IF band = "center" THEN "before" ELSE band)
        root == IF slot.kind = "slot" /\ band = "center" THEN SwapInList(atRoot, cell.id, slot.id)
                ELSE atRoot
        same == IF slot.kind = "slot" THEN ReorderInGroup(own, cell.id, slot.id, pos, band)
                ELSE InsertAtSlot(left, node, slot, pos, band)
        across == [lists EXCEPT ![cell.from] = left,
                                ![slot.gid] = InsertAtSlot(ListOf(lists, slot.gid), node, slot, pos, band)]
        merged(by) == LayoutFromMirrors(items, snap, by)
    IN  CASE slot.on = "root" /\ slot.kind = "slot" ->
                TileSlotDrop(items, LayoutFromMirrors(items, root, [lists EXCEPT ![cell.from] = left]),
                             cell.id, slot.id, band)
          [] slot.on = "root" /\ slot.kind # "slot" ->
                PackRoot(LayoutFromMirrors(items, root, [lists EXCEPT ![cell.from] = left]))
          [] slot.on = "group" /\ slot.gid = cell.from ->
                ReorderRoot(items, merged([lists EXCEPT ![cell.from] = DedupeById(same)]))
          [] OTHER -> ReorderRoot(items, merged(across))

\* The layout after the drop of a cell: items is the layout now, snap the mirrors' source.
CellDrop(items, snap, cell, slot, pos, band) ==
    IF cell.from = NoId THEN RootCellDrop(items, snap, cell, slot, pos, band)
    ELSE GroupCellDrop(items, snap, cell, slot, pos, band)

RootInsertIndex(snap, slot, pos) ==
    LET at == IndexOf(snap, slot.id)
    IN  CASE slot.kind = "end" \/ at = 0 -> Len(snap) + 1
          [] slot.kind = "slot" /\ at # 0 /\ pos = "before" -> at
          [] OTHER -> at + 1

\* A drop from the palette becomes one of the editor's add operations: at an index of the
\* root, into a group, or as a new pane of a tab or stack host.  (The shell of a root group
\* is a target of container drags only, so a palette drop never names it.)
PaletteDrop(items, snap, what, slot, pos) ==
    LET host == slot.gid \in GroupIds(items) /\ IsHost(FindGroup(items, slot.gid))
    IN  CASE slot.on = "root" ->
                [op |-> "root", gid |-> NoId, at |-> RootInsertIndex(snap, slot, pos)]
          [] slot.on = "group" /\ what = "tile" /\ host ->
                [op |-> "pane", gid |-> slot.gid, at |-> 0]
          [] OTHER -> [op |-> "into", gid |-> slot.gid, at |-> 0]
=============================================================================
