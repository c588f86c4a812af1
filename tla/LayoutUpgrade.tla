---------------------------- MODULE LayoutUpgrade ----------------------------
(***************************************************************************)
(* Upgrades of a layout document (migrations/layoutUpgrade.ts), what        *)
(* hydration does to a stored one (stripLegacyPerfSummary.ts,              *)
(* hydrateInitial.ts), and the rules a stored or sent layout is accepted   *)
(* by: the UI's (layoutZod.ts) and the service's (layout_validate.py).     *)
(***************************************************************************)
EXTENDS RootPlacement, HostGroups

CONSTANTS
    WrapperId,       \* tabGroupWrapperId: tile id -> id of the group made for it
    PanelId,         \* the id of the group made for a v1 row panel
    LegacyPlugin,    \* the plugin removed on load
    DefaultPlugins   \* the plugins of the built-in layout, in order

ASSUME UpgradeAssumption ==
    /\ WrapperId \in [Ids -> Ids]
    /\ NoId \notin DOMAIN PanelId /\ PanelId \in [DOMAIN PanelId -> Ids]
    /\ DefaultPlugins \in Seq(DOMAIN DefaultSpan)

\* A tile of the placeholder era that stood for tabs becomes a tab group of one pane.
WrapLegacyTab(t) ==
    LET pane == WrapTileInPane([t EXCEPT !.host = "single-panel", !.label = TRUE])
    IN  [Group(WrapperId[t.id], "tab-control", <<pane>>) EXCEPT !.active = pane.id, !.grid = t.grid]

\* A child of a host, as a pane, with what becomes of everything in it.
MigratedPane(new, n) ==
    CASE ~IsGroup(n) -> [WrapTileInPane(n) EXCEPT !.kids = <<new[n]>>]
      [] IsHost(n) -> new[n]
      [] OTHER -> [new[n] EXCEPT !.grid = NoGrid]

MigratedTabs(items) ==
    LET new[n \in Below(items)] ==
            CASE IsHost(n) -> [NormalizePanes(n) EXCEPT
                                  !.kids = <<>> \o [i \in DOMAIN n.kids |-> MigratedPane(new, n.kids[i])]]
              [] IsGroup(n) /\ ~IsHost(n) -> [n EXCEPT !.kids = Through(new, @)]
              [] OTHER -> IF n.host = "tab-control" THEN WrapLegacyTab(n) ELSE n
    IN  Through(new, items)

\* Repeated ids are dropped among siblings only.
FinalizeLayoutV3(items) ==
    MigratedTabs(IF HasDuplicateIds(items) THEN DedupedKids(items) ELSE items)

\* normalizeLayoutStrict: every layout that is stored has passed through here.
NormalLayout(items, preserve, editing) == PlaceItems(FinalizeLayoutV3(items), preserve, editing)

\* Where the tiles' corner is becomes the group's place, and their origin.
PanelGroup(panel, tiles) ==
    LET grids == Range(GridsOf(tiles))
        col == Min({g.col : g \in grids})
        row == Min({g.row : g \in grids})
        inside == [i \in DOMAIN tiles |-> [tiles[i] EXCEPT !.grid.col = @ - col, !.grid.row = @ - row]]
    IN  [Group(PanelId[panel], "panel", inside)
         EXCEPT !.grid = Cell(col, row, Max({g.col + g.cs : g \in grids}) - col,
                              Max({g.row + g.rs : g \in grids}) - row)]

\* Version 1: a flat list, some tiles naming a row panel.  A panel becomes a group with
\* its tiles moved to the group's own coordinates; a panel without any grid is lost.
MigrateV1(rows) ==
    LET inOrder(nodes) ==
            SortedBy(nodes, {p \in Range(nodes) \X Range(nodes) : ByPosition(OriginOf(p[1]), OriginOf(p[2]))})
        tilesOf(p) == LET own == Picked(rows, {i \in DOMAIN rows : rows[i].panel = p})
                      IN  [i \in DOMAIN own |-> own[i].tile]
        firstOf == {i \in DOMAIN rows : /\ rows[i].panel # NoId /\ rows[i].tile.grid # NoGrid
                                        /\ \A j \in 1..(i - 1) : rows[j].panel # rows[i].panel}
        panels == Picked([i \in DOMAIN rows |-> rows[i].panel], firstOf)
    IN  inOrder(tilesOf(NoId)
                   \o [i \in DOMAIN panels |-> PanelGroup(panels[i], inOrder(tilesOf(panels[i])))])

Worth(n, root) == IF IsGroup(n) THEN n.kids # <<>> \/ (n.label /\ ~root) ELSE n.plugin # LegacyPlugin
WorthKeeping(nodes, root) == Picked(nodes, {i \in DOMAIN nodes : Worth(nodes[i], root)})

\* (deviant: a group stays only for tiles of its own)
StripLegacyHollow(items) ==
    LET own(nodes) == Picked(nodes, {i \in DOMAIN nodes : IF IsGroup(nodes[i])
                                        THEN TilesOf(nodes[i].kids) # <<>> \/ nodes[i].label
                                        ELSE nodes[i].plugin # LegacyPlugin})
        new[n \in Below(items)] ==
            IF IsGroup(n) THEN [n EXCEPT !.kids = own(Through(new, @))] ELSE n
    IN  own(Through(new, items))

\* The old summary tiles go, and with them every empty group that is no pane:
\* on the root an empty group goes even when it had no such tile.
StripLegacy(items) ==
    LET new[n \in Below(items)] ==
            IF IsGroup(n) THEN [n EXCEPT !.kids = WorthKeeping(Through(new, @), FALSE)] ELSE n
    IN  WorthKeeping(Through(new, items), TRUE)

\* Every plugin of the built-in layout that is nowhere is added to the root.
MergeDefaults(items, newId) ==
    LET present == {t.plugin : t \in Range(TilesOf(Nodes(items)))}
        missing == Picked(DefaultPlugins, {i \in DOMAIN DefaultPlugins : DefaultPlugins[i] \notin present})
    IN  items \o [i \in DOMAIN missing |-> Tile(newId[missing[i]], missing[i])]

\* First paint from the stored layout: the root is packed, whatever was placed by hand.
Hydrated(items, newId) ==
    NormalLayout(MergeDefaults(StripLegacy(FinalizeLayoutV3(items)), newId), FALSE, FALSE)

-----------------------------------------------------------------------------
(* The two validators of a version 3 document.                             *)

HostRules(g) ==
    /\ ~g.wrap
    /\ Len(g.kids) \in 1..MaxPanes
    /\ Cardinality(IdsOf(g.kids)) = Len(g.kids)
    /\ g.host = "tab-control" => g.active = NoId \/ Has(g.kids, g.active)
    /\ g.host = "vertical-stack" => g.collapsed \subseteq IdsOf(g.kids)

UiAcceptsGroup(g) ==
    /\ IsHost(g) => HostRules(g)
    /\ g.grid = NoGrid \/ Complete(g.grid)
    /\ \A i \in DOMAIN g.kids :
          /\ IsGroup(g.kids[i]) => ~g.wrap
          /\ g.kids[i].grid = NoGrid \/ CompleteChild(g.kids[i].grid, g.wrap)

UiAccepts(items) ==
    /\ \A i \in DOMAIN items : items[i].grid = NoGrid \/ Complete(items[i].grid)
    /\ \A g \in Range(GroupsIn(items)) : UiAcceptsGroup(g)
    /\ Depth(items) <= MaxDepth
    /\ ~HasDuplicateIds(items)

ValidGridCell(g) ==
    /\ g.col \in 0..(Cols - 1) /\ g.cs \in 1..Cols /\ g.col + g.cs <= Cols
    /\ g.row >= 0 /\ g.rs \in 1..MaxRowSpan

\* (deviant: strips end at the grid's last column)
ValidGroupChildGridNarrow(g, wrap) == ValidGridCell(g)

ValidGroupChildGrid(g, wrap) ==
    IF wrap THEN ValidGridCell(g)
    ELSE /\ g.cs \in 1..Cols /\ g.col >= 0 /\ g.col + g.cs <= StripExtent
         /\ g.row >= 0 /\ g.rs \in 1..MaxRowSpan

ApiAcceptsGroup(g) ==
    /\ g.grid = NoGrid \/ ValidGridCell(g.grid)
    /\ \A i \in DOMAIN g.kids :
          /\ g.kids[i].grid = NoGrid \/ ValidGroupChildGrid(g.kids[i].grid, g.wrap)
          /\ IsGroup(g.kids[i]) => ~g.wrap

ApiAccepts(items) ==
    /\ \A i \in DOMAIN items : items[i].grid = NoGrid \/ ValidGridCell(items[i].grid)
    /\ \A g \in Range(GroupsIn(items)) : ApiAcceptsGroup(g)
    /\ ~HasDuplicateIds(items)
    /\ Depth(items) <= MaxDepth
=============================================================================
