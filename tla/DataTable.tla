------------------------------ MODULE DataTable -------------------------------
(***************************************************************************)
(* A data table (BaseDataTable.svelte) and the editor it offers, inline or *)
(* in a modal (BaseDataTableModal.svelte). The owner of the table gives it *)
(* its rows and carries out what it saves.                                 *)
(*                                                                         *)
(* Collapsing, the edit toggle, the export menu and the modal's own search *)
(* only hide controls, so a user may be taken to use them or not.          *)
(***************************************************************************)
EXTENDS TableRows

CONSTANTS
  Tables,       \* the tables pages mount: settings, and how the owner feeds them
  PageSizes     \* sizes the footer offers beside the current one

ASSUME TablesAssumption ==
  /\ PageSizes \subseteq Nat \ {0}
  /\ \A t \in Tables :
       /\ t.pageSize \in Nat \ {0} /\ t.defaultSort \in Directions
       /\ t.lists \subseteq RowLists /\ t.saves \in Nat /\ t.fetches \in Nat \ {0}

VARIABLES
  table,        \* the merged settings; lists, saves and fetches bound the model
  items, err, loading,   \* the props the owner sets
  view,         \* search, sort, page, pageSize and showAllRows
  editor,       \* modal open, baseline, edits, saveError and saving
  commits,      \* saves awaiting onCommit; turn counts the rounds of Save all
  retyped       \* auxiliary: a cell was typed in since Save all was pressed

tableVars == <<table, items, err, loading, view, editor, commits, retyped>>

View(query, sort, page, pageSize, all) ==
  [query |-> query, sort |-> sort, page |-> page, pageSize |-> pageSize, all |-> all]

Views ==
  [query : Values \cup {NoValue}, sort : Directions, page : Nat, pageSize : Nat \ {0}, all : BOOLEAN]
Editors ==
  [open : BOOLEAN, baseline : [RowIds -> Values \cup {NoValue}],
   edits : [RowIds -> Values \cup {NoValue, BadValue}], error : BOOLEAN, saving : BOOLEAN]
Commits == [row : RowIds, value : Values, turn : Nat, state : {"sent", "done"}]

TableTypeOK ==
  /\ table \in Tables /\ items \in RowLists /\ view \in Views /\ editor \in Editors
  /\ err \in BOOLEAN /\ loading \in BOOLEAN /\ retyped \in BOOLEAN
  /\ commits \in Seq(Commits) /\ Len(commits) <= table.saves

TableInit ==
  /\ table \in Tables
  /\ items = <<>> /\ err = FALSE /\ loading = TRUE
  /\ view = View(NoValue, table.defaultSort, 0, table.pageSize, FALSE)
  /\ editor = [open |-> FALSE, baseline |-> Blank, edits |-> Blank, error |-> FALSE, saving |-> FALSE]
  /\ commits = <<>> /\ retyped = FALSE

-----------------------------------------------------------------------------
Inline == table.interaction = "inline"
Paging(v) == table.paging /\ (Inline => ~v.all)

Sorted(rows, v) == SortRows(FilterRows(rows, v.query, table.filter), v.sort, table.sort)
TotalPages(rows, v) == IF Paging(v) THEN PageCount(Len(Sorted(rows, v)), v.pageSize) ELSE 1
Displayed(rows, v) ==
  IF Paging(v) THEN PageSlice(Sorted(rows, v), v.page, v.pageSize) ELSE Sorted(rows, v)

\* Deviant form, for a mutant: the page is not clamped.
UnclampedView(rows, v) == v

\* The effect that follows every change of the rows or of the view.
Settled(rows, v) == [v EXCEPT !.page = Smaller(v.page, TotalPages(rows, v) - 1)]

\* Deviant form, for a mutant: the inline baseline is taken once.
OnceRebased(ed, rows) == IF Inline /\ ed.baseline = Blank THEN [ed EXCEPT !.baseline = BaselineOf(rows)] ELSE ed

\* The effect that follows every change of the rows: the inline editor compares to what is there now.
Rebased(ed, rows) == IF Inline THEN [ed EXCEPT !.baseline = BaselineOf(rows)] ELSE ed

\* Deviant form, for a mutant: new rows start a new session of the editor.
ForgetfulReceive(rows) ==
  items' = rows /\ view' = Settled(rows, view) /\ editor' = [Rebased(editor, rows) EXCEPT !.edits = Blank]

Receive(rows) ==
  /\ items' = rows /\ view' = Settled(rows, view) /\ editor' = Rebased(editor, rows)

\* The body renders rows: no first load, no error, something to show.
RowsShown == ~(loading /\ items = <<>>) /\ ~err /\ Sorted(items, view) # <<>>

-----------------------------------------------------------------------------
(* Browsing *)

SetView(v) ==
  /\ view' = Settled(items, v)
  /\ UNCHANGED <<table, items, err, loading, editor, commits, retyped>>

Search(query) == table.filter /\ view.query # query /\ SetView([view EXCEPT !.query = query])

OnHeaderSort ==
  /\ table.sort /\ RowsShown
  /\ SetView([view EXCEPT !.sort = CycleSort(@), !.page = 0])

Pager == RowsShown /\ Paging(view) /\ TotalPages(items, view) > 1

TurnPage(page) ==
  /\ Pager /\ page \in Offered(TotalPages(items, view), view.page + 1)
  /\ SetView([view EXCEPT !.page = page - 1])

\* Any number may be typed in the page box.
GotoPageSubmit(typed) ==
  /\ Pager
  /\ SetView([view EXCEPT !.page = Larger(1, Smaller(TotalPages(items, view), typed)) - 1])

ChangePageSize(size) ==
  /\ Pager /\ size \in PageSizes \cup {view.pageSize}
  /\ SetView([view EXCEPT !.pageSize = size, !.page = 0])

\* Without paging the button changes nothing.
ToggleAllRows == Inline /\ table.paging /\ SetView([view EXCEPT !.all = ~@])

-----------------------------------------------------------------------------
(* Editing *)

Candidates(rows, v) == IF Inline THEN Displayed(rows, v) ELSE rows
Editing == table.edit /\ IF Inline THEN RowsShown ELSE editor.open

OpenModal ==
  /\ ~Inline /\ ~editor.open
  /\ editor' = [open |-> TRUE, baseline |-> BaselineOf(items), edits |-> Blank,
                error |-> FALSE, saving |-> FALSE]
  /\ UNCHANGED <<table, items, err, loading, view, commits, retyped>>

CloseModal ==
  /\ editor.open /\ editor' = [editor EXCEPT !.open = FALSE]
  /\ UNCHANGED <<table, items, err, loading, view, commits, retyped>>

SetCellValue(id, value) ==
  /\ Editing /\ id \in IdsOf(Candidates(items, view))
  /\ editor.edits[id] # value
  /\ editor' = [editor EXCEPT !.edits[id] = value]
  /\ retyped' = (retyped \/ \E i \in DOMAIN commits : commits[i].turn > 0)
  /\ UNCHANGED <<table, items, err, loading, view, commits>>

\* saveRow up to its await. A row that fails validation is not sent and sets no saveError.
Sends(row, ed) == IsDirty(row, ed.edits, ed.baseline) /\ IsValid(row, ed.edits)
Saving(row, ed) == [ed EXCEPT !.error = FALSE, !.saving = Sends(row, ed)]
Sent(row, ed, turn) ==
  IF Sends(row, ed) THEN <<[row |-> row.id, value |-> CellValue(row, ed.edits), turn |-> turn, state |-> "sent"]>>
  ELSE <<>>

\* Deviant form, for a mutant: the button of a row is not disabled while saving.
EagerSaveRow(id) ==
  /\ Editing /\ Len(commits) < table.saves
  /\ \E row \in {r \in {items[i] : i \in DOMAIN items} : r.id = id} :
       /\ id \in IdsOf(Candidates(items, view)) /\ IsDirty(row, editor.edits, editor.baseline)
       /\ editor' = Saving(row, editor)
       /\ commits' = commits \o Sent(row, editor, 0)
  /\ UNCHANGED <<table, items, err, loading, view, retyped>>

SaveRow(id) ==
  /\ Editing /\ ~editor.saving /\ Len(commits) < table.saves
  /\ \E row \in {r \in {items[i] : i \in DOMAIN items} : r.id = id} :
       /\ id \in IdsOf(Candidates(items, view)) /\ IsDirty(row, editor.edits, editor.baseline)
       /\ editor' = Saving(row, editor)
       /\ commits' = commits \o Sent(row, editor, 0)
  /\ UNCHANGED <<table, items, err, loading, view, retyped>>

FirstDirty(ed, rows, v) == Head(DirtyRows(Candidates(rows, v), ed.edits, ed.baseline))
AnyDirty(ed, rows, v) == DirtyRows(Candidates(rows, v), ed.edits, ed.baseline) # <<>>

SaveAllDirty ==
  /\ table.edit /\ (Inline \/ editor.open)
  /\ ~editor.saving /\ Len(commits) < table.saves
  /\ AnyDirty(editor, items, view)
  /\ editor' = Saving(FirstDirty(editor, items, view), editor)
  /\ commits' = commits \o Sent(FirstDirty(editor, items, view), editor, 1)
  /\ retyped' = FALSE
  /\ UNCHANGED <<table, items, err, loading, view>>

-----------------------------------------------------------------------------
(* The answer to save i: the owner puts the saved row in its place, the    *)
(* editor forgets what was typed in it, and Save all goes on.              *)

\* Deviant form, for a mutant: the loop is left after its first row.
LastRound(ed, rows, v, turn) == turn > 1 /\ turn < Len(Candidates(rows, v)) + 2 /\ AnyDirty(ed, rows, v)

NextRound(ed, rows, v, turn) == turn > 0 /\ turn < Len(Candidates(rows, v)) + 2 /\ AnyDirty(ed, rows, v)

Finished(c, rows) ==
  [Rebased(editor, rows) EXCEPT !.edits[c.row] = NoValue, !.baseline[c.row] = c.value, !.saving = FALSE]

\* Save all goes on with the rows and the view that the answer left.
GoOn(c, ed, rows, v, i) ==
  IF NextRound(ed, rows, v, c.turn)
  THEN \E row \in {FirstDirty(ed, rows, v)} :
         /\ editor' = Saving(row, ed)
         /\ commits' = SubSeq(commits, 1, i - 1) \o SubSeq(commits, i + 1, Len(commits)) \o Sent(row, ed, c.turn + 1)
  ELSE /\ editor' = ed
       /\ commits' = SubSeq(commits, 1, i - 1) \o SubSeq(commits, i + 1, Len(commits))

SaveAnswered(i) ==
  LET c == commits[i]
  IN  /\ c.state = "done"
      /\ items' = WithValue(items, c.row, c.value) /\ view' = Settled(items', view)
      /\ GoOn(c, Finished(c, items'), items', view', i)
      /\ UNCHANGED <<table, err, loading, retyped>>

\* The PATCH was refused, or it or its answer was lost.
SaveFailed(i) ==
  /\ editor' = [editor EXCEPT !.error = TRUE, !.saving = FALSE]
  /\ commits' = SubSeq(commits, 1, i - 1) \o SubSeq(commits, i + 1, Len(commits))
  /\ UNCHANGED <<table, items, err, loading, view, retyped>>

BrowseNext ==
  \/ \E query \in Values \cup {NoValue} : Search(query)
  \/ OnHeaderSort
  \/ \E page \in 1..Cardinality(RowIds) : TurnPage(page) \/ GotoPageSubmit(page)
  \/ \E size \in PageSizes \cup {table.pageSize} : ChangePageSize(size)
  \/ ToggleAllRows

EditNext ==
  \/ OpenModal \/ CloseModal
  \/ \E id \in RowIds : SaveRow(id) \/ \E value \in Values \cup (IF table.validated THEN {BadValue} ELSE {}) : SetCellValue(id, value)
  \/ SaveAllDirty
  \/ \E i \in DOMAIN commits : (SaveAnswered(i) \/ SaveFailed(i))

-----------------------------------------------------------------------------
(* The page the table is on exists: after a list has shrunk or a search    *)
(* narrowed it, the footer still counts from the page that is displayed.   *)
PageIsShown ==
  /\ view.page < TotalPages(items, view)
  /\ Sorted(items, view) # <<>> => Displayed(items, view) # <<>>

(* An inline table has one save under way at most, whatever refreshes,     *)
(* edits and rounds of Save all come in between.                           *)
OneSaveAtATime == Inline => Len(commits) <= 1

Awaiting(c, cs) == Cardinality({i \in DOMAIN cs : cs[i] = c})

(* What was typed in a cell goes only when a save of its row has been      *)
(* answered or a new session of the modal begins: a refresh of the list, a *)
(* failed save and the save of another row leave it alone.                 *)
EditsLostBySaveOnly ==
  [][\A id \in RowIds : editor.edits[id] # NoValue /\ editor'.edits[id] = NoValue =>
       \/ editor'.open /\ ~editor.open
       \/ \E i \in DOMAIN commits : /\ commits[i].row = id /\ commits[i].state = "done"
                                    /\ Awaiting(commits[i], commits') < Awaiting(commits[i], commits)]_tableVars

(* An inline table sends what the user typed and nothing else: however the *)
(* list changed under the edits, no save carries a value that came from    *)
(* the server.                                                             *)
TypedOnlySent ==
  [][\A i \in DOMAIN commits' :
       Inline /\ commits'[i].state = "sent" /\ Awaiting(commits'[i], commits) = 0 =>
         editor.edits[commits'[i].row] = commits'[i].value]_tableVars

(* Save all ends with every displayed row saved unless a save failed, a    *)
(* row is invalid, or the user typed on.                                   *)
SaveAllLeavesNoneDirty ==
  [][(\E i \in DOMAIN commits : commits[i].turn > 0) /\ ~(\E i \in DOMAIN commits' : commits'[i].turn > 0) =>
       \/ editor'.error \/ retyped
       \/ \E k \in DOMAIN Candidates(items', view') :
            ~IsValid(Candidates(items', view')[k], editor'.edits)
       \/ ~AnyDirty(editor', items', view')]_tableVars
=============================================================================
