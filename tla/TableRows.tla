------------------------------ MODULE TableRows -------------------------------
(***************************************************************************)
(* What a table makes of the rows it is given: the rows it filters, sorts  *)
(* and pages (tableRowModel.ts), and what its editor makes of a row        *)
(* (BaseDataTable.svelte, BaseDataTableModal.svelte).                      *)
(*                                                                         *)
(* A row has an id and one editable cell; a value is a number, and the     *)
(* column's validator refuses one of them.                                 *)
(***************************************************************************)
EXTENDS Pagination, FiniteSets

CONSTANTS
  RowIds,
  Values,      \* values the cell takes on the server
  BadValue,    \* a value the column's validator refuses
  NoValue      \* undefined: no edit, no baseline, no search

ASSUME RowsAssumption ==
  /\ IsFiniteSet(RowIds)
  /\ Values \subseteq Nat /\ BadValue \in Nat \ Values /\ NoValue \notin Nat

Row(id, value) == [id |-> id, value |-> value]
RowRecords == [id : RowIds, value : Values]

\* What the API answers names no row twice.
NoRowTwice(rows) == \A i, j \in DOMAIN rows : rows[i].id = rows[j].id => i = j
RowLists == {rows \in Seq(RowRecords) : NoRowTwice(rows)}

IdsOf(rows) == {rows[i].id : i \in DOMAIN rows}
At(rows, id) == CHOOSE i \in DOMAIN rows : rows[i].id = id
WithValue(rows, id, value) ==
  [i \in DOMAIN rows |-> IF rows[i].id = id THEN Row(id, value) ELSE rows[i]]

-----------------------------------------------------------------------------
(* A view: the search text, the sort direction, page and page size, and    *)
(* whether all rows are shown (showAllRows).                               *)

Directions == {"none", "asc", "desc"}
CycleSort(direction) ==
  CASE direction = "none" -> "asc" [] direction = "asc" -> "desc" [] OTHER -> "none"

\* The indices S, each after the ones that ahead puts before it, and the rows at them.
Order(S, ahead) ==
  CHOOSE order \in [1..Cardinality(S) -> S] :
    \A k, l \in 1..Cardinality(S) : k < l => order[k] \in ahead[order[l]]
InOrder(rows, S, ahead) ==
  LET order == Order(S, ahead) IN [k \in 1..Cardinality(S) |-> rows[order[k]]]
Kept(rows, S) == InOrder(rows, S, [i \in S |-> {j \in S : j < i}])

FilterRows(rows, query, allowed) ==
  IF ~allowed \/ query = NoValue THEN rows
  ELSE Kept(rows, {i \in DOMAIN rows : rows[i].value = query})

\* Equal values keep their order whatever the direction.
Before(rows, direction, i, j) ==
  \/ IF direction = "asc" THEN rows[i].value < rows[j].value ELSE rows[i].value > rows[j].value
  \/ rows[i].value = rows[j].value /\ i < j

SortRows(rows, direction, allowed) ==
  IF ~allowed \/ direction = "none" THEN rows
  ELSE InOrder(rows, DOMAIN rows, [i \in DOMAIN rows |-> {j \in DOMAIN rows : Before(rows, direction, j, i)}])

-----------------------------------------------------------------------------
(* The editor: what was typed and not saved, and the values it compares to. *)

Blank == [id \in RowIds |-> NoValue]
BaselineOf(rows) ==
  [id \in RowIds |-> IF id \in IdsOf(rows) THEN rows[At(rows, id)].value ELSE NoValue]

CellValue(row, edits) == IF edits[row.id] # NoValue THEN edits[row.id] ELSE row.value
IsDirty(row, edits, baseline) == CellValue(row, edits) # baseline[row.id]
IsValid(row, edits) == CellValue(row, edits) # BadValue

DirtyRows(rows, edits, baseline) == Kept(rows, {i \in DOMAIN rows : IsDirty(rows[i], edits, baseline)})
=============================================================================
