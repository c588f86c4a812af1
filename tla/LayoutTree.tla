----------------------------- MODULE LayoutTree ------------------------------
(***************************************************************************)
(* The layout document as a tree (types.ts) and the operations on it       *)
(* (layoutTree.ts, layoutDedupe.ts and the graph walks of                  *)
(* layoutUpgrade.ts).  A node is a tile or a group; a group keeps its      *)
(* children in order.  Ids are not unique by construction: the code finds  *)
(* nodes by id, first match first.                                         *)
(***************************************************************************)
EXTENDS GridCells, FiniteSets

CONSTANTS
    Ids,           \* of nodes
    NoId,          \* a missing activeChildId
    MaxDepth,      \* MAX_DASHBOARD_GROUP_DEPTH
    MaxPanes       \* MAX_TAB_GROUP_CHILDREN, MAX_STACK_GROUP_CHILDREN

Tile(id, plugin) ==
    [kind |-> "tile", id |-> id, plugin |-> plugin, host |-> "single-panel",
     label |-> FALSE, grid |-> NoGrid]

Group(id, host, kids) ==
    [kind |-> "group", id |-> id, host |-> host, wrap |-> FALSE, label |-> FALSE,
     active |-> NoId, collapsed |-> {}, grid |-> NoGrid, kids |-> kids]

IsGroup(n) == n.kind = "group"
IsHost(n) == IsGroup(n) /\ n.host \in {"tab-control", "vertical-stack"}

IdsOf(nodes) == {nodes[i].id : i \in DOMAIN nodes}
Has(nodes, id) == id \in IdsOf(nodes)
IndexOf(nodes, id) == SelectInSeq(nodes, LAMBDA n : n.id = id)     \* 0 when absent
WithoutId(nodes, id) == Picked(nodes, {i \in DOMAIN nodes : nodes[i].id # id})
TilesOf(nodes) == Picked(nodes, {i \in DOMAIN nodes : ~IsGroup(nodes[i])})
GroupsOf(nodes) == Picked(nodes, {i \in DOMAIN nodes : IsGroup(nodes[i])})

\* First of every id wins.
DedupeById(nodes) ==
    Picked(nodes, {i \in DOMAIN nodes : \A j \in 1..(i - 1) : nodes[j].id # nodes[i].id})

-----------------------------------------------------------------------------
(* The type of a node, by the groups that may be inside one another.       *)

TileGrids == [col : Nat, row : Nat, cs : 1..Cols, rs : 1..MaxRowSpan]

\* The height of a group is what it holds, where that is not given: it has no limit.
GroupGrids == [col : Nat, row : Nat, cs : 1..Cols, rs : Nat \ {0}]

TileNodes ==
    [kind : {"tile"}, id : Ids, plugin : DOMAIN DefaultSpan,
     host : {"single-panel", "tab-control", "vertical-stack"}, label : BOOLEAN,
     grid : TileGrids \union {NoGrid}]

GroupNodes(kids) ==
    [kind : {"group"}, id : Ids, host : {"panel", "tab-control", "vertical-stack"},
     wrap : BOOLEAN, label : BOOLEAN, active : Ids \union {NoId}, collapsed : SUBSET Ids,
     grid : GroupGrids \union {NoGrid}, kids : Seq(kids)]

Trees[d \in Nat] == TileNodes \union (IF d = 0 THEN {} ELSE GroupNodes(Trees[d - 1]))

ASSUME TreeAssumption ==
    /\ NoId \notin Ids
    /\ NoGrid \notin GroupGrids
    /\ DefaultSpan \in [DOMAIN DefaultSpan -> 1..Cols]
    /\ MaxDepth \in Nat

-----------------------------------------------------------------------------
(* Walks over a list and everything below it.                              *)

\* The nodes of a list and those below them, level by level until there are none.
Below(kids) ==
    LET level[k \in Nat] ==
            IF k = 0 THEN Range(kids)
            ELSE UNION {Range(g.kids) : g \in {n \in level[k - 1] : IsGroup(n)}}
        from[k \in Nat] == IF level[k] = {} THEN {} ELSE level[k] \union from[k + 1]
    IN  from[0]

\* (Appended to nothing, TLC has the members at hand and not just how to compute them.)
Through(new, kids) == <<>> \o [i \in DOMAIN kids |-> new[kids[i]]]

\* Every node below a list, in depth-first order.
Nodes(kids) ==
    LET listed[n \in Below(kids)] ==
            IF IsGroup(n) THEN <<n>> \o FlattenSeq(Through(listed, n.kids)) ELSE <<n>>
    IN  FlattenSeq(Through(listed, kids))

AllIds(items) == IdsOf(Nodes(items))
GroupsIn(items) == GroupsOf(Nodes(items))
GroupIds(items) == IdsOf(GroupsIn(items))
TileIds(items) == IdsOf(TilesOf(Nodes(items)))
FindGroup(items, gid) == GroupsIn(items)[IndexOf(GroupsIn(items), gid)]
FindTile(items, tid) == TilesOf(Nodes(items))[IndexOf(TilesOf(Nodes(items)), tid)]

\* The group a tile is found in, depth first; NoId for a tile of the root.
ParentOf(items, tid) ==
    LET groups == GroupsIn(items)
        holders == {i \in DOMAIN groups : Has(TilesOf(groups[i].kids), tid)}
    IN  IF Has(TilesOf(items), tid) \/ holders = {} THEN NoId ELSE groups[Min(holders)].id

HasDuplicateIds(items) == LET nodes == Nodes(items) IN Cardinality(IdsOf(nodes)) # Len(nodes)

Depth(kids) ==
    LET deep[n \in Below(kids)] == IF IsGroup(n) THEN 1 + Max({0} \union Range(Through(deep, n.kids))) ELSE 0
    IN  Max({0} \union Range(Through(deep, kids)))

DedupedKids(kids) ==
    LET new[n \in Below(kids)] ==
            IF IsGroup(n) THEN [n EXCEPT !.kids = Through(new, DedupeById(@))] ELSE n
    IN  Through(new, DedupeById(kids))

ReplaceGroup(items, gid, next) ==
    LET new[n \in Below(items)] ==
            CASE ~IsGroup(n) -> n
              [] IsGroup(n) /\ n.id = gid -> next
              [] OTHER -> [n EXCEPT !.kids = Through(new, @)]
    IN  Through(new, items)

ReplaceTile(items, tid, next) ==
    LET new[n \in Below(items)] ==
            CASE IsGroup(n) -> [n EXCEPT !.kids = Through(new, @)]
              [] ~IsGroup(n) /\ n.id = tid -> next
              [] OTHER -> n
    IN  Through(new, items)

WithoutGroup(nodes, gid) == Picked(nodes, {i \in DOMAIN nodes : ~IsGroup(nodes[i]) \/ nodes[i].id # gid})

RemoveGroup(items, gid) ==
    LET new[n \in Below(items)] ==
            IF IsGroup(n) THEN [n EXCEPT !.kids = Through(new, WithoutGroup(@, gid))] ELSE n
    IN  Through(new, WithoutGroup(items, gid))

WithoutTile(nodes, tid) == Picked(nodes, {i \in DOMAIN nodes : IsGroup(nodes[i]) \/ nodes[i].id # tid})

\* (deviant: looks on the root only)
RemoveTileOfRoot(items, tid) == WithoutTile(items, tid)

RemoveTile(items, tid) ==
    LET new[n \in Below(items)] ==
            IF IsGroup(n) THEN [n EXCEPT !.kids = Through(new, WithoutTile(@, tid))] ELSE n
    IN  Through(new, WithoutTile(items, tid))

\* Every group of that id on distinct branches gets the node; none, and it is lost.
AppendToGroup(items, gid, node) ==
    LET new[n \in Below(items)] ==
            CASE ~IsGroup(n) -> n
              [] IsGroup(n) /\ n.id = gid -> [n EXCEPT !.kids = Append(@, node)]
              [] OTHER -> [n EXCEPT !.kids = Through(new, @)]
    IN  Through(new, items)

\* (deviant: removed after it was appended)
MoveTileThenRemove(items, tile, parent) ==
    RemoveTile(IF parent = NoId THEN Append(items, tile) ELSE AppendToGroup(items, parent, tile), tile.id)

MoveTileToParent(items, tile, parent) ==
    IF parent = NoId THEN Append(RemoveTile(items, tile.id), tile)
    ELSE AppendToGroup(RemoveTile(items, tile.id), parent, tile)
=============================================================================
