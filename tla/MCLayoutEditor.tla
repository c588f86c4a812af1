--------------------------- MODULE MCLayoutEditor ----------------------------
(* A grid of four columns; a gauge one column wide and a list of two; layouts  *)
(* with a plain container, a nested one, a tab host, and the legacy forms.     *)
EXTENDS LayoutEditor

At(col, row, cs) == Cell(col, row, cs, 1)
Placed(n, grid) == [n EXCEPT !.grid = grid]

Status == Placed(Group("g", "panel", <<Placed(Tile("a", "gauge"), At(0, 0, 1))>>), At(0, 0, 4))
Nested == Placed(Group("g", "panel",
              <<Placed(Group("h", "panel", <<Placed(Tile("a", "gauge"), At(0, 0, 1))>>), At(0, 0, 2))>>),
              At(0, 0, 2))
Tabs == Placed([Group("g", "tab-control", <<[Pane("p") EXCEPT !.kids = <<Placed(Tile("a", "gauge"), At(0, 0, 1))>>]>>)
                EXCEPT !.active = "p"], At(0, 0, 2))
Legacy == [Placed(Tile("a", "gauge"), At(0, 0, 2)) EXCEPT !.host = "tab-control"]
List(row) == Placed(Tile("b", "list"), At(0, row, 2))

MCWire == {<<Status, List(1)>>, <<Nested, Placed(Tile("b", "list"), At(2, 0, 2))>>, <<Tabs, List(1)>>}
MCPanelRows == {<<[tile |-> Placed(Tile("a", "gauge"), At(1, 1, 1)), panel |-> "g"],
                  [tile |-> List(0), panel |-> NoId]>>}
MCRows == MCPanelRows \union
          {<<[tile |-> Legacy, panel |-> NoId], [tile |-> List(1), panel |-> NoId]>>}
MCBuiltIn == <<Status, List(1)>>
MCIds == <<"n1", "n2", "n3", "n4", "n5", "n6", "n7", "n8">>
MCSpan == [gauge |-> 1, list |-> 2, old |-> 4]
MCAllIds == {"a", "b", "g", "h", "p", "wa", "wb", "w", "mg", "ml"} \union Range(MCIds)
MCWrapper == [i \in MCAllIds |-> CASE i = "a" -> "wa" [] i = "b" -> "wb" [] OTHER -> "w"]
MCPanel == [g |-> "g"]
MCMerged == [gauge |-> "mg", list |-> "ml"]
MCPlugins == <<"gauge", "list">>
=============================================================================
