---------------------------- MODULE LayoutEditor -----------------------------
(***************************************************************************)
(* The dashboard editor: the palette, the tab and stack hosts, the resize  *)
(* handles, the settings overlays, drag and drop, the size hints of the    *)
(* gauges, and what else writes the layout meanwhile (the server's answer, *)
(* a reload).  Every edit commits a whole layout through its normal form.  *)
(*   A drag works on mirrors taken when it starts and an overlay on the    *)
(* node it was opened for: both keep what they remember while the layout   *)
(* moves on.                                                               *)
(***************************************************************************)
EXTENDS DropApply

CONSTANTS
    Plugins,        \* the plugins the palette offers
    OnlyExpand,     \* of these, the ones a size hint never narrows
    Widths, Heights,    \* the spans a person or a gauge asks for
    WireLayouts,    \* layouts the server sends
    LegacyRows,     \* version 1 layouts a browser may still store
    BuiltIn,        \* DEFAULT_DASHBOARD_LAYOUT
    MergedId,       \* plugin -> id of the tile hydration adds for it
    IdPool,         \* new ids, in the order they are handed out
    NoDrag, NoOverlay,
    MaxWrites       \* bound: writes of the layout; nothing opens when none is left

\* What a browser of version 1 stores: a tile has a complete placement or none, and so have
\* the tiles of one row panel (or migrateV1ToV2 throws, and BuiltIn is what is loaded).
LegacyTiles == {t \in TileNodes : t.grid = NoGrid \/ Complete(t.grid)}
SoundRows(rows) ==
    \A i, j \in DOMAIN rows :
        rows[i].panel # NoId /\ rows[i].panel = rows[j].panel =>
            (rows[i].tile.grid = NoGrid <=> rows[j].tile.grid = NoGrid)

ASSUME EditorAssumption ==
    /\ WireLayouts \subseteq Seq(Trees[MaxDepth]) /\ BuiltIn \in Seq(Trees[MaxDepth])
    /\ \A rows \in LegacyRows :
          rows \in Seq([tile : LegacyTiles, panel : DOMAIN PanelId \union {NoId}]) /\ SoundRows(rows)
    /\ Plugins \subseteq DOMAIN DefaultSpan
    /\ Widths \subseteq Int /\ Heights \subseteq Int
    /\ MergedId \in [Range(DefaultPlugins) -> Ids]
    /\ IdPool \in Seq(Ids)
    /\ MaxWrites \in Nat

VARIABLES
    doc,        \* the layout in the store
    editing,    \* editorOpen
    drag,       \* NoDrag, or the payload and the layout its mirrors were taken from
    overlay,    \* NoOverlay, or the node whose settings are open
    writes,     \* of the layout so far
    cause       \* who wrote doc last

vars == <<doc, editing, drag, overlay, writes, cause>>

Positions == {"before", "after"}
Palette == [k : {"palette"}, what : {"tile"}, plugin : Plugins]
               \union [k : {"palette"}, what : {"panel", "tabs", "stack"}, plugin : {"none"}]
Cells(items) ==
    {[k |-> "cell", id |-> items[i].id, from |-> NoId] : i \in DOMAIN items}
        \union UNION {{[k |-> "cell", id |-> i, from |-> g.id] : i \in IdsOf(g.kids)} :
                          g \in {h \in Range(GroupsIn(items)) : ~IsHost(h)}}

Init ==
    /\ \E first \in WireLayouts \union {MigrateV1(rows) : rows \in LegacyRows} :
          doc = NormalLayout(first, FALSE, FALSE)
    /\ editing = FALSE /\ drag = NoDrag /\ overlay = NoOverlay
    /\ writes = 0 /\ cause = "init"

Write(items, by) ==
    /\ writes < MaxWrites
    /\ writes' = writes + 1
    /\ doc' = items
    /\ cause' = by

\* applyStructure, in the editor's mode or the one given.
CommitAs(items, preserve, mode) == Write(NormalLayout(items, preserve, mode), "edit")
Commit(items, preserve) == CommitAs(items, preserve, editing)
Removal(items) == Write(NormalLayout(items, TRUE, editing), "delete")
Refused == UNCHANGED <<doc, writes, cause>>

-----------------------------------------------------------------------------
(* The palette.                                                            *)

Held == AllIds(doc) \union (IF drag = NoDrag THEN {} ELSE AllIds(drag.items))
                    \union (IF overlay = NoOverlay THEN {} ELSE AllIds(<<overlay>>))
FreshIds == LET held == Held IN Picked(IdPool, {i \in DOMAIN IdPool : IdPool[i] \notin held})
CanName == Len(FreshIds) >= 2       \* bound: IdPool

NewNode(p) ==
    CASE p.what = "tile" -> Tile(FreshIds[1], p.plugin)
      [] p.what = "panel" -> Group(FreshIds[1], "panel", <<>>)
      [] p.what = "tabs" -> MakeTabControlGroup(FreshIds[1], FreshIds[2])
      [] OTHER -> MakeVerticalStackGroup(FreshIds[1], FreshIds[2])

AddAtRoot(p, at) == CanName /\ Commit(InsertAt(doc, AtMost(Len(doc) + 1, at), NewNode(p)), FALSE)

\* A tile goes where the group is, if it is; a container asks first.
AddInto(p, gid) ==
    LET known == gid \in GroupIds(doc)
        node == IF p.what = "panel" /\ known
                THEN [NewNode(p) EXCEPT !.grid = PlaceForNewGroup(FindGroup(doc, gid))]
                ELSE NewNode(p)
        next == AppendToGroup(doc, gid, node)
    IN  /\ CanName
        /\ IF p.what = "tile" \/ (known /\ ~FindGroup(doc, gid).wrap /\ Depth(next) <= MaxDepth)
           THEN Commit(next, FALSE) ELSE Refused

AddPane(gid) ==
    LET g == FindGroup(doc, gid)
    IN  /\ CanName
        /\ IF gid \in GroupIds(doc) /\ IsHost(g) /\ CanAddPane(g)
           THEN Commit(ReplaceGroup(doc, gid, IF g.host = "tab-control" THEN AddTab(g, FreshIds[1])
                                              ELSE AddSection(g, FreshIds[1])), TRUE)
           ELSE Refused

Undisturbed == drag = NoDrag /\ overlay = NoOverlay
Idle == editing /\ Undisturbed

PaletteClick(p) == Idle /\ AddAtRoot(p, Len(doc) + 1) /\ UNCHANGED <<editing, drag, overlay>>

-----------------------------------------------------------------------------
(* Tab and stack hosts, and the resize handles.                            *)

\* The panes a host draws: the tab that is shown, the sections that are open.
PanesShown(g) ==
    Picked(g.kids, {i \in DOMAIN g.kids : IF g.host = "tab-control" THEN g.kids[i].id = ActiveTabChild(g)
                                          ELSE g.kids[i].id \notin g.collapsed})

\* The hosts drawn with their tabs or sections.  In the editor, a host in a plain container
\* is a nested box without them; anywhere, one below a pane's own level keeps its selection
\* to itself.
Hosts ==
    LET own[n \in Below(doc)] ==
            IF IsHost(n) THEN {n} \union UNION Range(Through(own, PanesShown(n))) ELSE {}
        all[n \in Below(doc)] ==
            IF IsGroup(n) /\ ~IsHost(n) /\ ~n.wrap THEN UNION Range(Through(all, n.kids)) ELSE own[n]
    IN  UNION Range(Through(IF editing THEN own ELSE all, doc))
Rehost(g) == Commit(ReplaceGroup(doc, g.id, g), TRUE) /\ UNCHANGED <<editing, drag, overlay>>

NewPane(g) == Idle /\ CanAddPane(g) /\ AddPane(g.id) /\ UNCHANGED <<editing, drag, overlay>>

RemovePane(g, id) ==
    /\ Idle /\ CanRemovePane(g, id)
    /\ Removal(ReplaceGroup(doc, g.id, IF g.host = "tab-control" THEN RemoveTab(g, id)
                                       ELSE RemoveSection(g, id)))
    /\ UNCHANGED <<editing, drag, overlay>>

\* Outside the editor too: showing another tab is an edit of the layout.
SelectTab(g, id) ==
    Undisturbed /\ ActiveTabChild(g) # id /\ Rehost(SetActiveTab(g, id))
Toggle(g, id) == Undisturbed /\ Rehost(ToggleSection(g, id))

ReorderPanes(g, id, target, pos) ==
    LET order == ReorderByTarget(g.kids, id, target, pos)
    IN  Idle /\ id # target /\ Rehost(ReorderTabs(g, [i \in DOMAIN order |-> order[i].id]))

ResizeItem(id, cs) ==
    /\ Idle /\ Has(doc, id) /\ OneRow(doc[IndexOf(doc, id)])
    /\ Commit(ResizeRoot(doc, id, cs), TRUE) /\ UNCHANGED <<editing, drag, overlay>>

ResizeChild(gid, tid, cs) ==
    /\ Idle /\ OneRow(FindTile(doc, tid))
    /\ Commit(ResizeInGroup(doc, gid, tid, cs), TRUE) /\ UNCHANGED <<editing, drag, overlay>>

-----------------------------------------------------------------------------
(* The settings overlays.                                                  *)

OpenOverlay(n) ==
    Idle /\ writes < MaxWrites /\ overlay' = n /\ UNCHANGED <<doc, editing, drag, writes, cause>>

CloseOverlay ==
    overlay # NoOverlay /\ overlay' = NoOverlay /\ UNCHANGED <<doc, editing, drag, writes, cause>>

\* The placement a form shows, or the upper left corner typed over its origin.
Typed(grid, corner) == IF corner THEN [grid EXCEPT !.col = 0, !.row = 0] ELSE grid

\* What is saved is the node of the moment the overlay opened, children included.
SaveGroup(host, wrap, cs, rs, corner) ==
    LET g == Typed(IF overlay.grid = NoGrid THEN Cell(0, 0, Cols, 1) ELSE overlay.grid, corner)
        w == ClampSpan(cs)
        draft == [overlay EXCEPT !.wrap = wrap,
                                 !.grid = Cell(AtMost(Cols - w, g.col), g.row, w, ClampTall(rs))]
        replaced == ReplaceGroup(doc, overlay.id, Converted(draft, host))
    IN  /\ overlay # NoOverlay /\ IsGroup(overlay)
        /\ host \in {"panel", overlay.host} \/ CanHost(overlay)
        /\ Commit(CommitRowWraps(ReorderRoot(doc, replaced)), TRUE)
        /\ overlay' = NoOverlay /\ UNCHANGED <<editing, drag>>

SaveTile(parent, cs, rs, corner) ==
    LET wrap == parent = NoId \/ FindGroup(doc, parent).wrap
        shown == Cell(OriginOf(overlay).col, OriginOf(overlay).row, cs, rs)
        sized == [overlay EXCEPT !.grid = Typed(shown, corner)]
        saved == [sized EXCEPT !.grid = ClampedChild(sized, wrap)]
    IN  /\ overlay # NoOverlay /\ ~IsGroup(overlay)
        /\ Commit(IF ParentOf(doc, overlay.id) = parent THEN ReplaceTile(doc, overlay.id, saved)
                  ELSE MoveTileToParent(doc, saved, parent), TRUE)
        /\ overlay' = NoOverlay /\ UNCHANGED <<editing, drag>>

Delete ==
    LET onRoot == IF IsGroup(overlay) THEN Has(GroupsOf(doc), overlay.id)
                  ELSE ParentOf(doc, overlay.id) = NoId
        without == CASE onRoot -> WithoutId(doc, overlay.id)
                     [] ~onRoot /\ IsGroup(overlay) -> RemoveGroup(doc, overlay.id)
                     [] OTHER -> RemoveTile(doc, overlay.id)
    IN  /\ overlay # NoOverlay
        /\ Removal(without)
        /\ overlay' = NoOverlay /\ UNCHANGED <<editing, drag>>

-----------------------------------------------------------------------------
(* Drag and drop.                                                          *)

StartDrag(payload) ==
    /\ Idle /\ writes < MaxWrites
    /\ drag' = [payload |-> payload, items |-> doc]
    /\ UNCHANGED <<doc, editing, overlay, writes, cause>>

CancelDrag == drag # NoDrag /\ drag' = NoDrag /\ UNCHANGED <<doc, editing, overlay, writes, cause>>

RootSlot(kind, id) == [on |-> "root", kind |-> kind, gid |-> NoId, id |-> id]
GroupSlot(gid, kind, id) == [on |-> "group", kind |-> kind, gid |-> gid, id |-> id]
End(n) == n.grid.col + NodeCols(n)

Beside(a, b) == NoGrid \notin {a.grid, b.grid} /\ a.grid.row = b.grid.row

\* A gap of the row follows the item.
GapAfter(shown, i) ==
    \E j \in DOMAIN shown :
        /\ Beside(shown[i], shown[j]) /\ OneRow(shown[i]) /\ OneRow(shown[j])
        /\ shown[j].grid.col > End(shown[i])
        /\ \A k \in DOMAIN shown : Beside(shown[i], shown[k]) /\ OneRow(shown[k]) =>
              shown[k].grid.col \notin (shown[i].grid.col + 1)..End(shown[i])

\* While something is dragged the grid is wider than any row: every row has an end.
LastOfRow(shown, i) ==
    /\ shown[i].grid # NoGrid
    /\ \A j \in DOMAIN shown : Beside(shown[i], shown[j]) => End(shown[j]) <= End(shown[i])

\* A container is a target of containers on the move, a tile of what is not a host.
Hit(payload, snap, item) ==
    IF IsGroup(item)
    THEN payload.k = "cell" /\ payload.from = NoId /\ IsGroup(snap[IndexOf(snap, payload.id)])
    ELSE payload.k = "cell" \/ payload.what \in {"tile", "panel"}

\* The targets on screen: the root is drawn from the mirrors with the layout's grids.
RootSlots(payload, snap) ==
    LET shown == MergeRootGrids(doc, snap)
        named(kind, offered(_)) == {RootSlot(kind, shown[i].id) : i \in {j \in DOMAIN shown : offered(j)}}
    IN  {RootSlot("end", NoId)}
            \union named("slot", LAMBDA i : Hit(payload, snap, shown[i]))
            \union named("gap", LAMBDA i : GapAfter(shown, i))
            \union named("rowEnd", LAMBDA i : LastOfRow(shown, i))

\* A container on the move finds the surfaces inside it, not those of other containers; a
\* palette drop ends up in the group wherever in it it lands; panes take palette drops only.
GroupSlots(payload, snap) ==
    LET moving == IF payload.k = "cell" /\ payload.from = NoId
                  THEN snap[IndexOf(snap, payload.id)] ELSE Tile(NoId, "none")
        open == CASE payload.k = "palette" -> Range(GroupsIn(snap))
                  [] IsGroup(moving) -> {g \in Range(GroupsIn(moving.kids)) : ~IsHost(g)}
                  [] OTHER -> {g \in Range(GroupsIn(snap)) : ~IsHost(g)}
    IN  UNION {{GroupSlot(g.id, "end", NoId)}
                  \union (IF payload.k = "palette" THEN {} ELSE
                             {GroupSlot(g.id, "slot", i) : i \in IdsOf(g.kids)}
                                 \union {GroupSlot(g.id, "gap", i) : i \in IdsOf(Front(g.kids))})
               : g \in open}

\* Where the pointer is matters over a tile only: before, after, or on its middle band.
Aims(slot) ==
    IF slot.kind = "slot"
    THEN {[pos |-> p, band |-> p] : p \in Positions} \union {[pos |-> p, band |-> "center"] : p \in Positions}
    ELSE {[pos |-> "after", band |-> "center"]}

DropPalette(slot, pos) ==
    LET add == PaletteDrop(doc, drag.items, drag.payload.what, slot, pos)
    IN  CASE add.op = "root" -> AddAtRoot(drag.payload, add.at)
          [] add.op = "into" -> AddInto(drag.payload, add.gid)
          [] OTHER -> AddPane(add.gid)

Drop(slot, aim) ==
    /\ drag # NoDrag
    /\ CASE drag.payload.k = "palette" -> DropPalette(slot, aim.pos)
         [] drag.payload.k = "cell" /\ NoDrop(drag.items, drag.payload, slot) -> Refused
         [] OTHER -> Commit(CellDrop(doc, drag.items, drag.payload, slot, aim.pos, aim.band), TRUE)
    /\ drag' = NoDrag
    /\ UNCHANGED <<editing, overlay>>

-----------------------------------------------------------------------------
(* What else writes the layout.                                            *)

\* (deviant: the gauge's wish is not clamped)
GridHintUnclamped(t, cs, rs) ==
    /\ Commit(ReplaceTile(doc, t.id, [t EXCEPT !.grid = Cell(OriginOf(t).col, OriginOf(t).row,
                                                             AtLeast(cs, Span(t)), rs)]), TRUE)
    /\ UNCHANGED <<editing, drag, overlay>>

\* A gauge that needs room widens its tile, whatever the editor is doing.
GridHint(t, cs, rs) ==
    LET want == IF t.plugin \notin OnlyExpand /\ cs = 1 THEN 1 ELSE ClampSpan(AtLeast(cs, Span(t)))
        tall == ClampTall(AtLeast(rs, Tall(t)))
    IN  /\ <<want, tall>> # <<Span(t), Tall(t)>>
        /\ Commit(ReplaceTile(doc, t.id, [t EXCEPT !.grid = Cell(OriginOf(t).col, OriginOf(t).row,
                                                                 want, tall)]), TRUE)
        /\ UNCHANGED <<editing, drag, overlay>>

ServerLayout(wire) ==
    /\ Write(NormalLayout(wire, FALSE, editing), "server")
    /\ UNCHANGED <<editing, drag, overlay>>

\* The page comes back from the browser's copy, or from the built-in layout when the copy
\* does not parse.
Reload ==
    /\ Write(IF UiAccepts(doc) THEN Hydrated(doc, MergedId) ELSE NormalLayout(BuiltIn, FALSE, FALSE),
             "reload")
    /\ editing' = FALSE /\ drag' = NoDrag /\ overlay' = NoOverlay

OpenEditor == ~editing /\ editing' = TRUE /\ UNCHANGED <<doc, drag, overlay, writes, cause>>

LeaveEditor ==
    /\ Idle
    /\ CommitAs(CommitRowWraps(doc), TRUE, FALSE)
    /\ editing' = FALSE
    /\ UNCHANGED <<drag, overlay>>

-----------------------------------------------------------------------------
\* What a tab strip offers, and what a stack of sections does.
TabStrip(g) ==
    /\ g.host = "tab-control"
    /\ \/ NewPane(g)
       \/ \E id \in IdsOf(g.kids) :
             \/ RemovePane(g, id)
             \/ SelectTab(g, id)
             \/ \E target \in IdsOf(g.kids), pos \in Positions : ReorderPanes(g, id, target, pos)

Sections(g) ==
    /\ g.host = "vertical-stack"
    /\ NewPane(g) \/ \E id \in IdsOf(g.kids) : RemovePane(g, id) \/ Toggle(g, id)

ResizeStep ==
    \E cs \in Widths :
        \/ \E id \in IdsOf(doc) : ResizeItem(id, cs)
        \/ \E g \in Range(GroupsIn(doc)) : \E t \in IdsOf(TilesOf(g.kids)) : ResizeChild(g.id, t, cs)

GroupForm ==
    \E host \in {"panel", "tab-control", "vertical-stack"}, cs \in Widths, rs \in Heights :
        \E wrap \in (IF host = "panel" THEN BOOLEAN ELSE {FALSE}), corner \in BOOLEAN :
            SaveGroup(host, wrap, cs, rs, corner)

TileForm ==
    \E parent \in {NoId} \union GroupIds(doc), cs \in Widths, rs \in Heights, corner \in BOOLEAN :
        SaveTile(parent, cs, rs, corner)

OverlayStep ==
    \/ \E n \in Range(Nodes(doc)) : OpenOverlay(n)
    \/ GroupForm \/ TileForm \/ Delete \/ CloseOverlay

DragStep ==
    \/ \E payload \in Palette \union Cells(doc) : StartDrag(payload)
    \/ /\ drag # NoDrag
       /\ \E slot \in RootSlots(drag.payload, drag.items) \union GroupSlots(drag.payload, drag.items) :
             \E aim \in Aims(slot) : Drop(slot, aim)
    \/ CancelDrag

Next ==
    \/ \E p \in Palette : PaletteClick(p)
    \/ \E g \in Hosts : TabStrip(g) \/ Sections(g)
    \/ ResizeStep
    \/ OverlayStep
    \/ DragStep
    \/ \E t \in Range(TilesOf(Nodes(doc))), cs \in Widths, rs \in Heights : GridHint(t, cs, rs)
    \/ \E wire \in WireLayouts : ServerLayout(wire)
    \/ Reload
    \/ OpenEditor
    \/ LeaveEditor

Spec == Init /\ [][Next]_vars

-----------------------------------------------------------------------------
(* Properties.                                                             *)

Subtree(n) == AllIds(<<n>>)
NestedInWrap(items) == \E g \in Range(GroupsIn(items)) : g.wrap /\ TilesOf(g.kids) # g.kids
Orderly(items) == ~HasDuplicateIds(items) /\ ~NestedInWrap(items)
SoundHosts(items) == \A g \in Range(GroupsIn(items)) : IsHost(g) => HostRules(g)
Wrote(by) == writes' # writes /\ cause' = by
Dropped == drag # NoDrag /\ drag' = NoDrag
Answered == overlay # NoOverlay /\ overlay' = NoOverlay
Dragged == drag.items[IndexOf(drag.items, drag.payload.id)]
MovedNode == IF drag.payload.from = NoId THEN Dragged
             ELSE LET own == FindGroup(doc, drag.payload.from).kids
                  IN  own[IndexOf(own, drag.payload.id)]
OverlayNow == IF ~IsGroup(overlay) THEN AllIds(doc) \cap {overlay.id}   \* what the layout has of it by now
              ELSE IF overlay.id \in GroupIds(doc) THEN Subtree(FindGroup(doc, overlay.id)) ELSE {}

\* Every node of the layout is a tile or a group, and every placement inside the limits of
\* a span (but for the height of a group); a drag or an overlay is the editor's.
TypeOK ==
    /\ \A n \in Range(Nodes(doc)) : IF IsGroup(n) THEN n \in GroupNodes(Range(n.kids)) ELSE n \in TileNodes
    /\ editing \in BOOLEAN
    /\ drag # NoDrag => drag.payload \in Palette \union Cells(drag.items)
    /\ ~editing => drag = NoDrag /\ overlay = NoOverlay
    /\ NoDrag # drag => overlay = NoOverlay
    /\ writes \in 0..MaxWrites
    /\ cause \in {"init", "edit", "delete", "server", "reload"}

\* Whatever sequence of edits, drops and hints led here, the root items are all placed and
\* no two of them share a cell.
RootApart ==
    /\ \A i \in DOMAIN doc : doc[i].grid # NoGrid
    /\ ~AnyOverlap(GridsOf(doc))

\* A commit that changes nothing moves nothing: the layout in the store is its own normal
\* form, so that one edit never rearranges what it did not touch.
RecommitMovesNothing == NormalLayout(doc, TRUE, editing) = doc

\* An edit loses nothing: but a drop the container it moves (into itself, or into one that
\* wraps), and saving a container's settings containers in it (when it is to wrap).  A form
\* may have been open while the layout changed: saved late, it undoes nothing outside its node.
EditsLoseNothing ==
    [][LET lost == AllIds(doc) \ AllIds(doc')
       IN  Wrote("edit") /\ Orderly(doc) =>
             CASE Dropped -> (drag.items = doc =>
                                IF drag.payload.k = "cell" /\ IsGroup(MovedNode)
                                THEN lost \in {{}, Subtree(MovedNode)} ELSE lost = {})
               [] Answered -> IF IsGroup(overlay) THEN lost \subseteq OverlayNow ELSE lost = {}
               [] OTHER -> lost = {}]_vars

\* A deletion takes what it names, whole, and nothing else: a pane, or the node of the form
\* as the layout has it by now, though the form holds the node of when it was opened.
DeletionsAreExact ==
    [][LET lost == AllIds(doc) \ AllIds(doc')
           panes == UNION {Range(g.kids) : g \in Hosts}
       IN  Wrote("delete") /\ Orderly(doc) =>
             IF Answered THEN lost = OverlayNow ELSE \E p \in panes : lost = Subtree(p)]_vars

\* No operation on tabs and sections, and nothing else outside a drag or an overlay, leaves
\* a host without panes, with too many, or showing a pane it does not have.
HostsStaySound ==
    [][drag = NoDrag /\ overlay = NoOverlay /\ SoundHosts(doc) => SoundHosts(doc')]_vars

\* A drop moves nodes and resizes none, while every root item is one row high.  (Two items
\* of which one is higher exchange their whole placements, sizes included.)
MovingKeepsSizes ==
    [][Wrote("edit") /\ Dropped /\ drag.payload.k = "cell" /\ drag.items = doc /\ Orderly(doc)
         /\ (\A i \in DOMAIN doc : OneRow(doc[i])) =>
         \A n \in Range(Nodes(doc)), m \in Range(Nodes(doc')) :
             n.id = m.id => NodeCols(m) = NodeCols(n) /\ (~IsGroup(n) => Tall(m) = Tall(n))]_vars

\* A layout the browser takes back is one the service takes: the UI never caches a layout
\* whose save is refused for its form.
CachedIsAccepted == UiAccepts(doc) => ApiAccepts(doc)

\* A reload of a layout the browser takes keeps every tile, and in the container it was in.
ReloadKeepsTiles ==
    [][Wrote("reload") /\ UiAccepts(doc) =>
         \A t \in TileIds(doc) : t \in TileIds(doc') /\ ParentOf(doc', t) = ParentOf(doc, t)]_vars

\* "Falsified if tab groups [...] break v3 depth/id rules" (ADR-0054): every id is one node's.
IdsUnique == ~HasDuplicateIds(doc)
=============================================================================
