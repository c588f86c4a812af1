----------------------------- MODULE HostGroups ------------------------------
(***************************************************************************)
(* Tab and stack containers: tabGroupOps.ts, verticalStackGroupOps.ts,     *)
(* hostGroupFactory.ts, and the conversions GroupSettingsOverlay makes     *)
(* when a container changes its type.  Their children are panes: groups    *)
(* with a label.  An operation whose guard fails throws in the code and    *)
(* the host leaves the layout alone.                                       *)
(***************************************************************************)
EXTENDS LayoutTree

Pane(id) == [Group(id, "panel", <<>>) EXCEPT !.label = TRUE]

MakeTabControlGroup(id, pane) == [Group(id, "tab-control", <<Pane(pane)>>) EXCEPT !.active = pane]
MakeVerticalStackGroup(id, pane) == Group(id, "vertical-stack", <<Pane(pane)>>)

\* The child a tab host shows: the active one, or the first when it is stale.
ActiveTabChild(g) == IF Has(g.kids, g.active) THEN g.active ELSE g.kids[1].id

ResolvedActive(kids, active) ==
    IF kids = <<>> THEN NoId ELSE IF Has(kids, active) THEN active ELSE kids[1].id

\* A tile that is a tab becomes a pane that holds it -- under the tile's own id.
WrapTileInPane(t) == [Pane(t.id) EXCEPT !.label = t.label, !.kids = <<t>>]

AsPane(n) ==
    CASE ~IsGroup(n) -> WrapTileInPane(n)
      [] IsHost(n) -> n
      [] OTHER -> [n EXCEPT !.grid = NoGrid]

NormalizePanes(g) ==
    LET kids == [i \in DOMAIN g.kids |-> AsPane(g.kids[i])]
    IN  IF kids = g.kids THEN g
        ELSE [g EXCEPT !.kids = kids,
                       !.active = IF g.host = "tab-control" THEN ResolvedActive(kids, @) ELSE @]

CanAddPane(g) == Len(g.kids) < MaxPanes
CanRemoveAnyPane(g, id) == Has(g.kids, id)      \* (deviant: the last one too)
CanRemovePane(g, id) == Len(g.kids) > 1 /\ Has(g.kids, id)

AddTab(g, id) == [g EXCEPT !.kids = Append(@, Pane(id)), !.active = id]
AddSection(g, id) == [g EXCEPT !.kids = Append(@, Pane(id))]

RemoveTab(g, id) ==
    LET kids == WithoutId(g.kids, id)
    IN  [g EXCEPT !.kids = kids, !.active = ResolvedActive(kids, @)]
RemoveSection(g, id) ==
    [g EXCEPT !.kids = WithoutId(@, id), !.collapsed = @ \ {id}]

SetActiveTab(g, id) == [g EXCEPT !.active = id]
ToggleSection(g, id) ==
    [g EXCEPT !.collapsed = IF id \in @ THEN @ \ {id} ELSE @ \union {id}]

\* The strip's order is given as ids; only their number is compared.
ReorderTabs(g, ids) ==
    [g EXCEPT !.kids = [i \in DOMAIN ids |-> g.kids[IndexOf(g.kids, ids[i])]]]

\* Before or after the target, in a list the dragged node is already part of.
ReorderByTarget(list, dragged, target, pos) ==
    LET from == IndexOf(list, dragged)
        to == IndexOf(list, target)
        shifted == (IF pos = "after" THEN to + 1 ELSE to) - (IF from < to THEN 1 ELSE 0)
    IN  IF dragged = target \/ from = 0 \/ to = 0 THEN list
        ELSE InsertAt(RemoveAt(list, from), shifted, list[from])

-----------------------------------------------------------------------------
(* The container's settings: its type is one of panel, tabs and stack.     *)

Labelled(kids) ==
    [i \in DOMAIN kids |->
        IF ~IsGroup(kids[i]) /\ kids[i].host = "tab-control"
        THEN [kids[i] EXCEPT !.label = TRUE, !.host = "single-panel"]
        ELSE [kids[i] EXCEPT !.label = TRUE]]

CanHost(g) == Len(g.kids) \in 1..MaxPanes

Converted(g, host) ==
    CASE host = "tab-control" ->
            [g EXCEPT !.host = host, !.wrap = FALSE, !.kids = Labelled(@),
                      !.active = ResolvedActive(g.kids, @), !.collapsed = {}]
      [] host = "vertical-stack" ->
            [g EXCEPT !.host = host, !.wrap = FALSE, !.kids = Labelled(@),
                      !.active = NoId, !.collapsed = {}]
      [] OTHER -> [g EXCEPT !.host = "panel", !.active = NoId, !.collapsed = {}]
=============================================================================
