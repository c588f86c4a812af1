--------------------------- MODULE LivePagesProofs ---------------------------
(* What the tables keep true for every list, page size and number of queries:  *)
(* the log page shows what its pager names, an inline table saves one row at a *)
(* time, and the page a table is on exists.                                    *)
EXTENDS LivePages, TableRowsProofs

-----------------------------------------------------------------------------
(* The log page. *)

Requests == [all : BOOLEAN, page : Nat \ {0}, size : LogPageSizes]
Queries == [request : Requests, active : BOOLEAN, timer : BOOLEAN, retry : BOOLEAN]
Pagers == [server : BOOLEAN, page : Nat \ {0}, size : LogPageSizes, totalPages : Nat \ {0}]

Active(s) == queries[s] # NoQuery /\ queries[s].active

\* What the pager asks for: the request of the newest query, until it is answered.
Fits(r) == IF r.all THEN r = Request(TRUE, 1, QueryLimit)
                    ELSE pager.server /\ r = Request(FALSE, pager.page, pager.size)

LogTypes ==
  /\ total \in Totals
  /\ queries \in [QuerySlots -> Queries \cup {NoQuery}]
  /\ pager \in Pagers
  /\ footer \in [all : BOOLEAN, size : LogPageSizes]
  /\ logErr \in Errors /\ logLoading \in BOOLEAN

OneNewest == \A s, t \in QuerySlots : Active(s) /\ Active(t) => s = t
NewestFits == \A s \in QuerySlots : Active(s) => Fits(queries[s].request)

LogInv == LogTypes /\ OneNewest /\ NewestFits /\ LogsMatchPager

LEMMA RequestType ==
  ASSUME NEW all \in BOOLEAN, NEW page \in Nat \ {0}, NEW size \in LogPageSizes
  PROVE  /\ Request(all, page, size) \in Requests
         /\ Query(Request(all, page, size)) \in Queries
         /\ Query(Request(all, page, size)).request = Request(all, page, size)
BY DEF Request, Requests, Query, Queries

LEMMA LimitType == QueryLimit \in LogPageSizes /\ 1 \in Nat \ {0}
BY LogsAssumption

LEMMA SupersededType ==
  ASSUME LogTypes
  PROVE  /\ Superseded \in [QuerySlots -> Queries \cup {NoQuery}]
         /\ \A s \in QuerySlots : Superseded[s] # NoQuery => ~Superseded[s].active
<1>1. ASSUME NEW s \in QuerySlots, queries[s] # NoQuery
      PROVE  [queries[s] EXCEPT !.active = FALSE] \in Queries /\ ~[queries[s] EXCEPT !.active = FALSE].active
  <2>1. queries[s] \in Queries
    BY <1>1 DEF LogTypes
  <2> QED
    BY <2>1 DEF Queries
<1>2. \A s \in QuerySlots : Superseded[s] =
        IF queries[s] = NoQuery THEN NoQuery ELSE [queries[s] EXCEPT !.active = FALSE]
  BY DEF Superseded
<1>3. Superseded \in [QuerySlots -> Queries \cup {NoQuery}]
  BY <1>1 DEF Superseded
<1> QED
  BY <1>1, <1>2, <1>3

\* A query that fits the pager of the next state becomes the newest, and the spinner runs.
LEMMA AskKeeps ==
  ASSUME LogInv, NEW all \in BOOLEAN, NEW page \in Nat \ {0}, NEW size \in LogPageSizes,
         Ask(Request(all, page, size)), Fits(Request(all, page, size))',
         total' \in Totals, pager' \in Pagers, footer' \in [all : BOOLEAN, size : LogPageSizes]
  PROVE  LogInv'
<1> DEFINE r == Request(all, page, size)
<1>1. PICK s \in QuerySlots : queries' = [Superseded EXCEPT ![s] = Query(r)]
  BY DEF Ask
<1>2. r \in Requests /\ Query(r) \in Queries /\ Query(r).request = r
  BY RequestType
<1>3. logLoading' = TRUE /\ logErr' = "none" /\ Fits(r)'
  BY DEF Ask
<1> HIDE DEF r
<1>4. /\ queries' \in [QuerySlots -> Queries \cup {NoQuery}] /\ queries'[s] = Query(r)
      /\ \A t \in QuerySlots \ {s} : queries'[t] # NoQuery => ~queries'[t].active
  BY <1>1, <1>2, SupersededType DEF LogInv
<1>5. LogTypes'
  BY <1>3, <1>4 DEF LogTypes, Errors
<1>6. OneNewest'
  BY <1>4 DEF OneNewest, Active
<1>7. NewestFits'
  <2> SUFFICES ASSUME NEW t \in QuerySlots, Active(t)' PROVE Fits(queries[t].request)'
    BY DEF NewestFits
  <2>1. t = s /\ queries'[t].request = r
    BY <1>2, <1>4 DEF Active
  <2> QED
    BY <1>3, <2>1 DEF Fits
<1> QED
  BY <1>3, <1>5, <1>6, <1>7 DEF LogInv, LogsMatchPager

LEMMA RunQueryKeeps ==
  ASSUME LogInv, NEW page \in Nat \ {0}, NEW size \in LogPageSizes, RunQuery(page, size),
         UNCHANGED total, footer' \in [all : BOOLEAN, size : LogPageSizes]
  PROVE  LogInv'
<1>1. pager \in Pagers /\ pager' = [pager EXCEPT !.server = TRUE, !.page = page, !.size = size]
  BY DEF LogInv, LogTypes, RunQuery
<1>2. pager' \in Pagers
  BY <1>1 DEF Pagers
<1>3. pager'.server /\ pager'.page = page /\ pager'.size = size
  BY <1>1 DEF Pagers
<1>4. Fits(Request(FALSE, page, size))'
  BY <1>3 DEF Fits, Request
<1>5. total' \in Totals
  BY DEF LogInv, LogTypes
<1> QED
  BY <1>2, <1>4, <1>5, AskKeeps DEF RunQuery

\* A step that ends queries or gives up waiting for them, and leaves the pager and the rows alone.
LEMMA QuieterKeeps ==
  ASSUME LogInv, LogTypes', UNCHANGED <<pager, shown>>,
         logLoading' \/ logErr' # "none" \/ UNCHANGED <<logLoading, logErr>>,
         \A s \in QuerySlots : Active(s)' => Active(s) /\ queries'[s].request = queries[s].request
  PROVE  LogInv'
<1>1. OneNewest'
  BY DEF OneNewest, LogInv
<1>2. NewestFits'
  BY DEF NewestFits, Fits, LogInv
<1> QED
  BY <1>1, <1>2 DEF LogInv, LogsMatchPager
LEMMA OneEndsOrGoesOn ==
  ASSUME LogTypes, NEW s \in QuerySlots, queries[s] # NoQuery,
         NEW q, queries' = [queries EXCEPT ![s] = q], q \in Queries \cup {NoQuery},
         q # NoQuery => q.request = queries[s].request /\ (q.active => queries[s].active)
  PROVE  /\ queries' \in [QuerySlots -> Queries \cup {NoQuery}]
         /\ \A t \in QuerySlots : Active(t)' => Active(t) /\ queries'[t].request = queries[t].request
BY DEF LogTypes, Active

LEMMA AskAgainKeeps ==
  ASSUME LogInv, NEW s \in QuerySlots, AskAgain(s)
  PROVE  LogInv'
<1> DEFINE q == [queries[s] EXCEPT !.retry = TRUE]
<1>1. queries[s] # NoQuery /\ queries[s] \in Queries
  BY DEF AskAgain, LogInv, LogTypes
<1>2. q \in Queries /\ q.request = queries[s].request /\ q.active = queries[s].active
  BY <1>1 DEF Queries
<1>3. queries' = [queries EXCEPT ![s] = q]
  BY DEF AskAgain
<1> HIDE DEF q
<1>4. /\ queries' \in [QuerySlots -> Queries \cup {NoQuery}]
      /\ \A t \in QuerySlots : Active(t)' => Active(t) /\ queries'[t].request = queries[t].request
  BY <1>1, <1>2, <1>3, OneEndsOrGoesOn DEF LogInv
<1> QED
  BY <1>4, QuieterKeeps DEF AskAgain, LogInv, LogTypes

LEMMA TimedOutKeeps ==
  ASSUME LogInv, NEW s \in QuerySlots, TimedOut(s)
  PROVE  LogInv'
<1> DEFINE q == [queries[s] EXCEPT !.timer = FALSE]
<1>1. queries[s] # NoQuery /\ queries[s] \in Queries
  BY DEF TimedOut, LogInv, LogTypes
<1>2. q \in Queries /\ q.request = queries[s].request /\ q.active = queries[s].active
  BY <1>1 DEF Queries
<1>3. queries' = [queries EXCEPT ![s] = q]
  BY DEF TimedOut
<1> HIDE DEF q
<1>4. /\ queries' \in [QuerySlots -> Queries \cup {NoQuery}]
      /\ \A t \in QuerySlots : Active(t)' => Active(t) /\ queries'[t].request = queries[t].request
  BY <1>1, <1>2, <1>3, OneEndsOrGoesOn DEF LogInv
<1> QED
  BY <1>4, QuieterKeeps DEF TimedOut, LogInv, LogTypes, Errors

LEMMA SettleEnds ==
  ASSUME LogInv, NEW s \in QuerySlots, queries[s] # NoQuery, Settle(s)
  PROVE  /\ queries' \in [QuerySlots -> Queries \cup {NoQuery}]
         /\ \A t \in QuerySlots : Active(t)' => Active(t) /\ queries'[t].request = queries[t].request
         /\ Active(s) => \A t \in QuerySlots : ~Active(t)'
<1>1. queries' = [queries EXCEPT ![s] = NoQuery]
  BY DEF Settle
<1>2. /\ queries' \in [QuerySlots -> Queries \cup {NoQuery}]
      /\ \A t \in QuerySlots : Active(t)' => Active(t) /\ queries'[t].request = queries[t].request
  BY <1>1, OneEndsOrGoesOn DEF LogInv
<1>3. ~Active(s)'
  BY <1>1 DEF Active, LogInv, LogTypes
<1> QED
  BY <1>2, <1>3 DEF LogInv, OneNewest

LEMMA FailedKeeps ==
  ASSUME LogInv, NEW s \in QuerySlots, Failed(s)
  PROVE  LogInv'
<1>1. /\ queries' \in [QuerySlots -> Queries \cup {NoQuery}]
      /\ \A t \in QuerySlots : Active(t)' => Active(t) /\ queries'[t].request = queries[t].request
  BY SettleEnds DEF Failed
<1> QED
  BY <1>1, QuieterKeeps DEF Failed, LogInv, LogTypes, Errors

LEMMA AnsweredKeeps ==
  ASSUME LogInv, NEW s \in QuerySlots, Answered(s)
  PROVE  LogInv'
<1> DEFINE q == queries[s]
<1>0. q # NoQuery /\ q \in Queries /\ Settle(s) /\ UNCHANGED <<total, logErr, footer>>
  BY DEF Answered, LogInv, LogTypes
<1>1. /\ queries' \in [QuerySlots -> Queries \cup {NoQuery}]
      /\ \A t \in QuerySlots : Active(t)' => Active(t) /\ queries'[t].request = queries[t].request
      /\ Active(s) => \A t \in QuerySlots : ~Active(t)'
  BY <1>0, SettleEnds
<1>2. CASE ~q.active
  <2>1. UNCHANGED <<shown, pager, logLoading>>
    BY <1>2 DEF Answered
  <2> QED
    BY <1>0, <1>1, <2>1, QuieterKeeps DEF LogInv, LogTypes
<1>3. CASE q.active
  <2>1. Active(s) /\ Fits(q.request) /\ q.request \in Requests
    BY <1>0, <1>3 DEF Active, LogInv, NewestFits, Queries
  <2>2. /\ shown'.for = q.request /\ logLoading' = FALSE
        /\ pager' = IF q.request.all
                    THEN [pager EXCEPT !.server = FALSE, !.page = 1, !.size = QueryLimit]
                    ELSE [pager EXCEPT !.totalPages = PageCount(total, q.request.size)]
    BY <1>3 DEF Answered
  <2> HIDE DEF q
  <2>3. pager \in Pagers /\ total \in Nat /\ q.request.size \in Nat \ {0} /\ q.request.all \in BOOLEAN
    BY <2>1, LogsAssumption DEF LogInv, LogTypes, Requests
  <2>4. PageCount(total, q.request.size) \in Nat \ {0}
    BY <2>3, PageCountType
  <2>5. pager' \in Pagers /\ q.request = Request(~pager'.server, pager'.page, pager'.size)
    <3>1. CASE q.request.all
      <4>1. pager' \in Pagers /\ pager'.server = FALSE /\ pager'.page = 1 /\ pager'.size = QueryLimit
        BY <2>2, <2>3, <3>1, LimitType DEF Pagers
      <4> QED
        BY <2>1, <3>1, <4>1 DEF Fits, Request
    <3>2. CASE ~q.request.all
      <4>1. /\ pager' \in Pagers /\ pager'.server = pager.server
            /\ pager'.page = pager.page /\ pager'.size = pager.size
        BY <2>2, <2>3, <2>4, <3>2 DEF Pagers
      <4> QED
        BY <2>1, <3>2, <4>1 DEF Fits, Request
    <3> QED
      BY <3>1, <3>2
  <2>6. LogTypes'
    BY <1>0, <1>1, <2>2, <2>5 DEF LogInv, LogTypes
  <2>7. OneNewest' /\ NewestFits'
    BY <1>1, <2>1 DEF OneNewest, NewestFits
  <2>8. LogsMatchPager'
    BY <2>2, <2>5 DEF LogsMatchPager
  <2> QED
    BY <2>6, <2>7, <2>8 DEF LogInv
<1> QED
  BY <1>2, <1>3
LEMMA CancelKeeps ==
  ASSUME LogInv, CancelQuery
  PROVE  LogInv'
<1>1. /\ queries' \in [QuerySlots -> Queries \cup {NoQuery}]
      /\ \A s \in QuerySlots : ~Active(s)'
  BY SupersededType DEF CancelQuery, LogInv, Active
<1> QED
  BY <1>1, QuieterKeeps DEF CancelQuery, LogInv, LogTypes, Errors

LEMMA ShownPageType == LogTypes => ShownPage \in 1..pager.totalPages /\ pager.totalPages \in Nat
<1> SUFFICES ASSUME LogTypes PROVE ShownPage \in 1..pager.totalPages /\ pager.totalPages \in Nat
  OBVIOUS
<1>1. pager.page \in Nat \ {0} /\ pager.totalPages \in Nat \ {0}
  BY DEF LogTypes, Pagers
<1> QED
  BY <1>1 DEF ShownPage, ClampPage, Larger, Smaller

LEMMA LogsStart == LogsInit => LogInv
<1> SUFFICES ASSUME LogsInit PROVE LogInv
  OBVIOUS
<1> DEFINE r == Request(FALSE, 1, QueryLimit)
<1>1. PICK s \in QuerySlots : queries = [t \in QuerySlots |-> IF t = s THEN Query(r) ELSE NoQuery]
  BY DEF LogsInit
<1>2. r \in Requests /\ Query(r) \in Queries /\ Query(r).request = r
  BY RequestType, LimitType
<1>3. pager = [server |-> TRUE, page |-> 1, size |-> QueryLimit, totalPages |-> 1] /\ pager \in Pagers
  BY LimitType DEF LogsInit, Pagers
<1>4. Fits(r)
  BY <1>3 DEF Fits, Request
<1> HIDE DEF r
<1>5. LogTypes
  BY <1>1, <1>2, <1>3, LimitType DEF LogsInit, LogTypes, Errors
<1>6. \A t \in QuerySlots : Active(t) => t = s /\ queries[t].request = r
  BY <1>1, <1>2 DEF Active
<1> QED
  BY <1>4, <1>5, <1>6 DEF LogInv, OneNewest, NewestFits, LogsMatchPager, LogsInit

LEMMA LogsStep ==
  ASSUME LogInv, LogsNext
  PROVE  LogInv'
<1>0. LogTypes /\ pager \in Pagers /\ footer \in [all : BOOLEAN, size : LogPageSizes] /\ total \in Totals
  BY DEF LogInv, LogTypes
<1>1. ASSUME NEW s \in QuerySlots, AskAgain(s) \/ Answered(s) \/ Failed(s) \/ TimedOut(s) PROVE LogInv'
  BY <1>1, AskAgainKeeps, AnsweredKeeps, FailedKeeps, TimedOutKeeps
<1>2. CASE CancelQuery
  BY <1>2, CancelKeeps
<1>3. CASE Refresh
  <2>1. 1 \in Nat \ {0} /\ pager.size \in LogPageSizes
    BY <1>0 DEF Pagers
  <2> QED
    BY <1>0, <1>3, <2>1, RunQueryKeeps DEF Refresh
<1>4. CASE OnServerPageChange
  <2>1. PICK page \in Offered(pager.totalPages, ShownPage) \cup 1..pager.totalPages :
          RunQuery(page, footer.size)
    BY <1>4 DEF OnServerPageChange
  <2>2. page \in Nat \ {0} /\ footer.size \in LogPageSizes
    <3>1. pager.totalPages \in Nat
      BY <1>0 DEF Pagers
    <3> QED
      BY <1>0, <2>1, <3>1, ShownPageType, OfferedPagesExist
  <2> QED
    BY <1>0, <1>4, <2>1, <2>2, RunQueryKeeps DEF OnServerPageChange
<1>5. CASE ChangeLogPageSize
  <2>1. PICK size \in LogPageSizes : RunQuery(1, size) /\ footer' = [footer EXCEPT !.size = size]
    BY <1>5 DEF ChangeLogPageSize
  <2>2. footer' \in [all : BOOLEAN, size : LogPageSizes]
    BY <1>0, <2>1
  <2> QED
    BY <1>5, <2>1, <2>2, LimitType, RunQueryKeeps DEF ChangeLogPageSize
<1>6. CASE ViewAll
  <2>1. footer' \in [all : BOOLEAN, size : LogPageSizes] /\ pager' \in Pagers /\ total' \in Totals
    BY <1>0, <1>6 DEF ViewAll, LoadViewAll
  <2>2. Fits(Request(TRUE, 1, QueryLimit))'
    BY DEF Fits, Request
  <2> QED
    BY <1>6, <2>1, <2>2, LimitType, AskKeeps DEF ViewAll, LoadViewAll
<1>7. CASE ShowPaged
  <2>1. LogTypes'
    BY <1>0, <1>7 DEF ShowPaged, LogTypes
  <2> QED
    BY <1>7, <2>1, QuieterKeeps DEF ShowPaged, Active
<1>8. CASE LogsChange
  <2>1. LogTypes'
    BY <1>0, <1>8 DEF LogsChange, LogTypes
  <2> QED
    BY <1>8, <2>1, QuieterKeeps DEF LogsChange, Active
<1> QED
  BY <1>1, <1>2, <1>3, <1>4, <1>5, <1>6, <1>7, <1>8 DEF LogsNext

LEMMA PagesKeepLogs ==
  ASSUME LogInv, [Next]_pageVars
  PROVE  LogInv'
<1>1. CASE UNCHANGED logVars
  BY <1>1 DEF logVars, LogInv, LogTypes, OneNewest, NewestFits, Fits, Active, LogsMatchPager
<1>2. CASE Logs
  BY <1>2, LogsStep DEF Logs
<1> QED
  BY <1>1, <1>2 DEF Next, Tile, Scan, pageVars

\* However queries overlap, time out, are cancelled or answered out of order: rows without a
\* spinner or an error are those of the page and size the pager names, for every number of
\* queries under way and every page size.
THEOREM RowsBelongToPager == Spec => []LogsMatchPager
<1>1. Init => LogInv
  BY LogsStart DEF Init
<1>2. LogInv /\ [Next]_pageVars => LogInv'
  BY PagesKeepLogs
<1>3. LogInv => LogsMatchPager
  BY DEF LogInv
<1> QED
  BY <1>1, <1>2, <1>3, PTL DEF Spec
-----------------------------------------------------------------------------
(* The saves of an inline table. *)

EditorFields == {"open", "baseline", "edits", "error", "saving"}

\* A save under way is the only one, and the editor knows of it.
SaveInv ==
  /\ DOMAIN editor = EditorFields
  /\ Inline => commits = <<>> \/ (editor.saving /\ \E c : commits = <<c>>)

LEMMA EmptyThen == ASSUME NEW c PROVE <<>> \o <<c>> = <<c>> /\ <<>> \o <<>> = <<>>
<1>1. <<c>> \in Seq({c}) /\ <<>> \in Seq({c})
  OBVIOUS
<1> QED
  BY <1>1, ConcatEmptySeq

LEMMA SentIsOne ==
  ASSUME NEW row, NEW ed, NEW turn, DOMAIN ed = EditorFields
  PROVE  /\ DOMAIN Saving(row, ed) = EditorFields
         /\ <<>> \o Sent(row, ed, turn) = <<>>
              \/ (Saving(row, ed).saving /\ \E c : <<>> \o Sent(row, ed, turn) = <<c>>)
<1>1. DOMAIN Saving(row, ed) = EditorFields /\ Saving(row, ed).saving = Sends(row, ed)
  BY DEF Saving, EditorFields
<1>2. CASE Sends(row, ed)
  <2> DEFINE c == [row |-> row.id, value |-> CellValue(row, ed.edits), turn |-> turn, state |-> "sent"]
  <2>1. Sent(row, ed, turn) = <<c>>
    BY <1>2 DEF Sent
  <2> HIDE DEF c
  <2> QED
    BY <1>1, <1>2, <2>1, EmptyThen
<1>3. CASE ~Sends(row, ed)
  BY <1>1, <1>3, EmptyThen DEF Sent
<1> QED
  BY <1>2, <1>3

LEMMA OneTakenOut ==
  ASSUME NEW c, commits = <<c>>, NEW i \in DOMAIN commits
  PROVE  SubSeq(commits, 1, i - 1) \o SubSeq(commits, i + 1, Len(commits)) = <<>>
<1>1. i = 1 /\ Len(commits) = 1
  OBVIOUS
<1>2. SubSeq(commits, 1, 0) = <<>> /\ SubSeq(commits, 2, 1) = <<>>
  BY SubSeqEmpty
<1>3. i - 1 = 0 /\ i + 1 = 2
  BY <1>1
<1> QED
  BY <1>1, <1>2, <1>3, EmptyThen

LEMMA RebasedFields ==
  ASSUME NEW ed, DOMAIN ed = EditorFields, NEW rows
  PROVE  DOMAIN Rebased(ed, rows) = EditorFields /\ Rebased(ed, rows).saving = ed.saving
BY DEF Rebased, EditorFields

LEMMA AnswerKeepsOne ==
  ASSUME SaveInv, NEW i \in DOMAIN commits, SaveAnswered(i) \/ SaveFailed(i)
  PROVE  SaveInv'
<1> DEFINE left == SubSeq(commits, 1, i - 1) \o SubSeq(commits, i + 1, Len(commits))
<1>1. Inline' <=> Inline
  BY DEF SaveAnswered, SaveFailed, Inline
<1>2. Inline => left = <<>>
  <2> SUFFICES ASSUME Inline PROVE left = <<>>
    OBVIOUS
  <2>1. commits # <<>>
    OBVIOUS
  <2> QED
    BY <2>1, OneTakenOut DEF SaveInv
<1>3. CASE SaveFailed(i)
  BY <1>1, <1>2, <1>3 DEF SaveFailed, SaveInv, EditorFields
<1>4. CASE SaveAnswered(i)
  <2> DEFINE c == commits[i]
             ed == Finished(c, items')
  <2>1. GoOn(c, ed, items', view', i)
    BY <1>4 DEF SaveAnswered
  <2>2. DOMAIN ed = EditorFields
    BY RebasedFields DEF Finished, SaveInv
  <2> HIDE DEF c, ed
  <2>3. CASE editor' = ed /\ commits' = left
    BY <1>1, <1>2, <2>2, <2>3 DEF SaveInv
  <2>4. ASSUME NEW row, NEW turn, editor' = Saving(row, ed), commits' = left \o Sent(row, ed, turn)
        PROVE  SaveInv'
    BY <1>1, <1>2, <2>2, <2>4, SentIsOne DEF SaveInv
  <2> QED
    BY <2>1, <2>3, <2>4 DEF GoOn
<1> QED
  BY <1>3, <1>4

LEMMA TileKeepsOne ==
  ASSUME SaveInv, TileNext
  PROVE  SaveInv'
<1>0. Inline' <=> Inline
  BY DEF TileNext, ServerNext, BrowseNext, EditNext, ApplyItems, LoadFailed, Reload, ServerAnswers, PatchHandled,
         ServerChanges, Revision, ListEvent, Search, OnHeaderSort, TurnPage, GotoPageSubmit, ChangePageSize,
         ToggleAllRows, SetView, OpenModal, CloseModal, SaveRow, SetCellValue, SaveAllDirty, SaveAnswered,
         SaveFailed, tableVars, Inline
<1>1. CASE BrowseNext
  BY <1>0, <1>1 DEF BrowseNext, Search, OnHeaderSort, TurnPage, GotoPageSubmit, ChangePageSize, ToggleAllRows,
                    SetView, SaveInv
<1>2. ASSUME NEW i \in DOMAIN fetches, ApplyItems(i) \/ LoadFailed(i) PROVE SaveInv'
  BY <1>0, <1>2, RebasedFields DEF ApplyItems, LoadFailed, Receive, SaveInv
<1>3. CASE Reload \/ ServerChanges \/ Revision \/ ListEvent
  BY <1>0, <1>3 DEF Reload, ServerChanges, Revision, ListEvent, tableVars, SaveInv
<1>4. ASSUME NEW i \in DOMAIN fetches, ServerAnswers(i) PROVE SaveInv'
  BY <1>0, <1>4 DEF ServerAnswers, tableVars, SaveInv
<1>5. ASSUME NEW i \in DOMAIN commits, PatchHandled(i) PROVE SaveInv'
  <2>1. UNCHANGED editor /\ commits' = [commits EXCEPT ![i].state = "done"]
    BY <1>5 DEF PatchHandled
  <2>2. ASSUME NEW c, commits = <<c>> PROVE \E d : commits' = <<d>>
    <3>1. commits' = <<[c EXCEPT !.state = "done"]>>
      BY <2>1, <2>2
    <3> QED
      BY <3>1
  <2> QED
    BY <1>0, <2>1, <2>2 DEF SaveInv
<1>6. CASE OpenModal \/ CloseModal
  BY <1>0, <1>6 DEF OpenModal, CloseModal, SaveInv, EditorFields
<1>7. ASSUME NEW id, NEW value, SetCellValue(id, value) PROVE SaveInv'
  BY <1>0, <1>7 DEF SetCellValue, SaveInv, EditorFields
<1>8. ASSUME NEW id, SaveRow(id) PROVE SaveInv'
  BY <1>0, <1>8, SentIsOne DEF SaveRow, SaveInv
<1>9. CASE SaveAllDirty
  BY <1>0, <1>9, SentIsOne DEF SaveAllDirty, SaveInv
<1>10. ASSUME NEW i \in DOMAIN commits, SaveAnswered(i) \/ SaveFailed(i) PROVE SaveInv'
  BY <1>10, AnswerKeepsOne
<1> QED
  BY <1>1, <1>2, <1>3, <1>4, <1>5, <1>6, <1>7, <1>8, <1>9, <1>10 DEF TileNext, ServerNext, EditNext

\* An inline table never has two saves under way, however refreshes, failures, edits and the
\* rounds of Save all interleave, for every list and every bound on requests.
THEOREM InlineSavesOneAtATime == Spec => []OneSaveAtATime
<1>1. Init => SaveInv
  BY DEF Init, TileInit, TableInit, SaveInv, EditorFields
<1>2. SaveInv /\ [Next]_pageVars => SaveInv'
  <2> SUFFICES ASSUME SaveInv, [Next]_pageVars PROVE SaveInv'
    OBVIOUS
  <2>1. CASE UNCHANGED tileVars
    BY <2>1 DEF tileVars, tableVars, SaveInv, Inline
  <2>2. CASE Tile
    BY <2>2, TileKeepsOne DEF Tile
  <2> QED
    BY <2>1, <2>2 DEF Next, Logs, Scan, pageVars
<1>3. SaveInv => OneSaveAtATime
  <2> SUFFICES ASSUME SaveInv, Inline PROVE Len(commits) <= 1
    BY DEF OneSaveAtATime
  <2>1. commits = <<>> \/ \E c : commits = <<c>>
    BY DEF SaveInv
  <2>2. CASE commits = <<>>
    BY <2>2
  <2>3. ASSUME NEW c, commits = <<c>> PROVE Len(commits) <= 1
    BY <2>3
  <2> QED
    BY <2>1, <2>2, <2>3
<1> QED
  BY <1>1, <1>2, <1>3, PTL DEF Spec

-----------------------------------------------------------------------------
(* The scan tile. *)

\* A call that has read the server's state carries it.
ScanInv ==
  /\ paused \in BOOLEAN /\ scanErr \in BOOLEAN /\ scanState \in BOOLEAN \cup {Unknown}
  /\ first \in [step : {"idle", "reading", "read"}, value : BOOLEAN \cup {Unknown}]
  /\ toggle \in [step : Calls, value : BOOLEAN \cup {Unknown}]
  /\ first.step = "read" => first.value \in BOOLEAN
  /\ toggle.step \in {"read", "writing", "written"} => toggle.value \in BOOLEAN
  /\ scanEvents \in Seq(BOOLEAN) /\ Len(scanEvents) <= EventBound

Labels == BOOLEAN \cup {Unknown}

LEMMA CallType ==
  ASSUME NEW T, NEW step \in T, NEW value \in Labels
  PROVE  /\ Call(step, value) \in [step : T, value : BOOLEAN \cup {Unknown}] /\ Call(step, value).step = step
         /\ value \in BOOLEAN => Call(step, value).value \in BOOLEAN
<1> DEFINE L == BOOLEAN \cup {Unknown}
<1>1. value \in L
  BY DEF Labels
<1> HIDE DEF L
<1>2. Call(step, value) \in [step : T, value : L] /\ Call(step, value).step = step /\ Call(step, value).value = value
  BY <1>1 DEF Call
<1> QED
  BY <1>2 DEF L

LEMMA LabelType == \A x \in BOOLEAN : x \in Labels /\ (~x) \in BOOLEAN
BY DEF Labels

LEMMA FirstKeepsScan ==
  ASSUME ScanInv, FirstRead \/ FirstShown \/ FirstFailed
  PROVE  ScanInv'
<1>1. paused \in Labels /\ Unknown \in Labels
  BY LabelType DEF ScanInv, Labels
<1>2. CASE FirstRead
  <2>1. /\ first' \in [step : {"idle", "reading", "read"}, value : BOOLEAN \cup {Unknown}]
        /\ first'.value \in BOOLEAN
    BY <1>1, <1>2, CallType DEF FirstRead, ScanInv
  <2> QED
    BY <1>2, <2>1 DEF FirstRead, ScanInv
<1>3. CASE FirstShown
  <2>1. /\ first' \in [step : {"idle", "reading", "read"}, value : BOOLEAN \cup {Unknown}]
        /\ first'.step = "idle"
    BY <1>1, <1>3, CallType DEF FirstShown
  <2>2. scanState' \in BOOLEAN \cup {Unknown}
    BY <1>3 DEF FirstShown, ScanInv
  <2> QED
    BY <1>3, <2>1, <2>2 DEF FirstShown, ScanInv
<1>4. CASE FirstFailed
  <2>1. /\ first' \in [step : {"idle", "reading", "read"}, value : BOOLEAN \cup {Unknown}]
        /\ first'.step = "idle"
    BY <1>1, <1>4, CallType DEF FirstFailed
  <2> QED
    BY <1>4, <2>1 DEF FirstFailed, ScanInv
<1> QED
  BY <1>2, <1>3, <1>4

\* A step of the button's call.
LEMMA ToggleKeepsScan ==
  ASSUME ScanInv, UNCHANGED <<first, scanEvents>>, paused' \in BOOLEAN, scanErr' \in BOOLEAN,
         scanState' \in Labels,
         NEW step \in Calls, NEW value \in Labels, toggle' = Call(step, value),
         step \in {"read", "writing", "written"} => value \in BOOLEAN
  PROVE  ScanInv'
<1>1. /\ toggle' \in [step : Calls, value : BOOLEAN \cup {Unknown}] /\ toggle'.step = step
      /\ value \in BOOLEAN => toggle'.value \in BOOLEAN
  BY CallType
<1> QED
  BY <1>1 DEF ScanInv, Labels

LEMMA ScanStep ==
  ASSUME ScanInv, ScanNext
  PROVE  ScanInv'
<1>0. /\ paused \in Labels /\ Unknown \in Labels /\ scanState \in Labels
      /\ paused \in BOOLEAN /\ scanErr \in BOOLEAN
  BY LabelType DEF ScanInv, Labels
<1>1. CASE FirstRead \/ FirstShown \/ FirstFailed
  BY <1>1, FirstKeepsScan
<1>2. CASE ToggleRead
  BY <1>0, <1>2, ToggleKeepsScan DEF ToggleRead, Calls
<1>3. CASE TogglePause \/ ToggleFailed
  BY <1>0, <1>3, ToggleKeepsScan DEF TogglePause, ToggleFailed, Calls
<1>7. CASE ToggleWrites \/ ToggleWritten \/ ToggleShown
  <2>1. toggle.value \in BOOLEAN /\ (~toggle.value) \in BOOLEAN
    BY <1>7, LabelType DEF ToggleWrites, ToggleWritten, ToggleShown, ScanInv
  <2>2. toggle.value \in Labels /\ (~toggle.value) \in Labels
    BY <2>1, LabelType
  <2> QED
    BY <1>0, <1>7, <2>1, <2>2, ToggleKeepsScan DEF ToggleWrites, ToggleWritten, ToggleShown, Calls
<1>4. CASE OtherOperator
  <2>1. paused' \in BOOLEAN
    BY <1>4 DEF OtherOperator
  <2> QED
    BY <1>4, <2>1 DEF OtherOperator, ScanInv
<1>5. CASE EventSent
  <2>1. scanEvents' \in Seq(BOOLEAN) /\ Len(scanEvents') = Len(scanEvents) + 1
    BY <1>5, AppendProperties DEF EventSent, ScanInv
  <2> QED
    BY <1>5, <2>1, ScanAssumption, LenProperties DEF EventSent, ScanInv
<1>6. CASE EventShown
  <2>1. /\ scanEvents' \in Seq(BOOLEAN) /\ Len(scanEvents') = Len(scanEvents) - 1 /\ scanState' \in BOOLEAN
        /\ Len(scanEvents) \in Nat
    BY <1>6, HeadTailProperties, LenProperties DEF EventShown, ScanInv
  <2> QED
    BY <1>6, <2>1, ScanAssumption DEF EventShown, ScanInv
<1> QED
  BY <1>1, <1>2, <1>3, <1>4, <1>5, <1>6, <1>7 DEF ScanNext

LEMMA ScanStarts == ScanInit => ScanInv
<1> SUFFICES ASSUME ScanInit PROVE ScanInv
  OBVIOUS
<1>1. Unknown \in Labels
  BY DEF Labels
<1>2. /\ first \in [step : {"idle", "reading", "read"}, value : BOOLEAN \cup {Unknown}] /\ first.step = "reading"
      /\ toggle \in [step : Calls, value : BOOLEAN \cup {Unknown}] /\ toggle.step = "idle"
  BY <1>1, CallType DEF ScanInit, Calls
<1>3. scanEvents \in Seq(BOOLEAN) /\ Len(scanEvents) = 0
  BY EmptySeq DEF ScanInit
<1>4. paused \in BOOLEAN /\ scanErr \in BOOLEAN /\ scanState \in BOOLEAN \cup {Unknown}
  BY DEF ScanInit
<1>5. Len(scanEvents) <= EventBound
  BY <1>3, ScanAssumption
<1> QED
  BY <1>2, <1>3, <1>4, <1>5 DEF ScanInv

LEMMA ScanTyped == ScanInv => ScanTypeOK
BY DEF ScanInv, ScanTypeOK

LEMMA LogsTyped == LogInv => LogsTypeOK
<1> SUFFICES ASSUME LogInv PROVE LogsTypeOK
  OBVIOUS
<1> DEFINE newest == {s \in QuerySlots : queries[s] # NoQuery /\ queries[s].active}
<1>1. Cardinality(newest) <= 1
  <2>1. \A s, t \in newest : s = t
    BY DEF LogInv, OneNewest, Active
  <2> HIDE DEF newest
  <2>2. CASE newest = {}
    BY <2>2, FS_EmptySet
  <2>3. ASSUME NEW s \in newest PROVE Cardinality(newest) <= 1
    <3>1. newest = {s}
      BY <2>1, <2>3
    <3>2. Cardinality({s}) = 1
      BY FS_Singleton
    <3> QED
      BY <3>1, <3>2
  <2> QED
    BY <2>2, <2>3
<1>2. ASSUME NEW s \in QuerySlots, queries[s] # NoQuery PROVE queries[s].request.size \in LogPageSizes
  <2>1. queries[s] \in Queries
    BY <1>2 DEF LogInv, LogTypes
  <2> QED
    BY <2>1 DEF Queries, Requests
<1>3. pager \in Pagers /\ footer \in [all : BOOLEAN, size : LogPageSizes]
  BY DEF LogInv, LogTypes
<1> QED
  BY <1>1, <1>2, <1>3 DEF LogInv, LogTypes, LogsTypeOK, Pagers

-----------------------------------------------------------------------------
(* The rows a list tile displays. *)

LEMMA FilteredIs ==
  ASSUME NEW R, NEW rows \in Seq(R), NEW query, NEW allowed
  PROVE  FilterRows(rows, query, allowed) \in Seq(R)
<1> DEFINE S == {i \in DOMAIN rows : rows[i].value = query}
<1>1. S \in SUBSET DOMAIN rows /\ \A i \in S : rows[i] \in R
  BY ElementOfSeq, LenProperties
<1> HIDE DEF S
<1>2. Kept(rows, S) \in Seq(R)
  BY <1>1, KeptIs
<1> QED
  BY <1>2 DEF FilterRows, S

\* What is displayed is taken from the rows there are.
LEMMA SortedIs ==
  ASSUME NEW R \in SUBSET RowRecords, NEW rows \in Seq(R), NEW v
  PROVE  Sorted(rows, v) \in Seq(R)
<1> DEFINE found == FilterRows(rows, v.query, table.filter)
<1>1. found \in Seq(R)
  BY FilteredIs
<1> HIDE DEF found
<1>2. found \in Seq(RowRecords) /\ \A i \in DOMAIN found : found[i] \in R
  <2>1. DOMAIN found = 1..Len(found) /\ Len(found) \in Nat /\ \A i \in 1..Len(found) : found[i] \in R
    BY <1>1, ElementOfSeq, LenProperties
  <2>2. found \in [1..Len(found) -> RowRecords]
    BY <1>1, <2>1
  <2> QED
    BY <2>1, <2>2, SeqDef
<1>3. SortRows(found, v.sort, table.sort) \in Seq(R)
  BY <1>2, SortIs
<1> QED
  BY <1>3 DEF Sorted, found

LEMMA PageSliceIs ==
  ASSUME NEW R, NEW rows \in Seq(R), NEW page \in Int, NEW size \in Nat \ {0}
  PROVE  PageSlice(rows, page, size) \in Seq(R)
<1> DEFINE n == Len(rows)
           p == PageOf(n, page, size)
           start == p * size
           to == Smaller(start + size, n)
<1>1. n \in Nat
  OBVIOUS
<1>2. p \in Nat
  <2>1. PageCount(n, size) \in Nat \ {0}
    BY <1>1, PageCountType
  <2> QED
    BY <2>1 DEF PageOf, Larger, Smaller
<1>3. PageSlice(rows, page, size) = SubSeq(rows, start + 1, to)
  <2>1. Larger(1, size) = size
    BY DEF Larger
  <2> QED
    BY <2>1 DEF PageSlice
<1> HIDE DEF p
<1>4. start \in Nat
  BY <1>2
<1> HIDE DEF start, n
<1>5. to \in Int /\ to <= n
  BY <1>1, <1>4 DEF Smaller
<1> HIDE DEF to
<1>6. \A i \in (start + 1)..to : rows[i] \in R
  BY <1>4, <1>5, ElementOfSeq DEF n
<1>7. start + 1 \in Int
  BY <1>4
<1>8. SubSeq(rows, start + 1, to) \in Seq(R)
  BY <1>5, <1>6, <1>7, SubSeqProperties
<1> QED
  BY <1>3, <1>8

LEMMA CandidatesAre ==
  ASSUME NEW R \in SUBSET RowRecords, NEW rows \in Seq(R), NEW v \in Views
  PROVE  Displayed(rows, v) \in Seq(R) /\ Candidates(rows, v) \in Seq(R)
<1>1. v.page \in Int /\ v.pageSize \in Nat \ {0}
  BY DEF Views
<1>2. Sorted(rows, v) \in Seq(R)
  BY SortedIs
<1>3. Displayed(rows, v) \in Seq(R)
  BY <1>1, <1>2, PageSliceIs DEF Displayed
<1> QED
  BY <1>3 DEF Candidates

\* The row Save all sends next is one of the displayed rows, and it is dirty.
LEMMA FirstDirtyIs ==
  ASSUME NEW R \in SUBSET RowRecords, NEW rows \in Seq(R), NEW v \in Views, NEW ed, AnyDirty(ed, rows, v)
  PROVE  FirstDirty(ed, rows, v) \in R /\ IsDirty(FirstDirty(ed, rows, v), ed.edits, ed.baseline)
<1> DEFINE shownRows == Candidates(rows, v)
           S == {i \in DOMAIN shownRows : IsDirty(shownRows[i], ed.edits, ed.baseline)}
           Q == {r \in R : IsDirty(r, ed.edits, ed.baseline)}
<1>1. shownRows \in Seq(R)
  BY CandidatesAre
<1> HIDE DEF shownRows
<1>2. S \in SUBSET DOMAIN shownRows /\ \A i \in S : shownRows[i] \in Q
  BY <1>1, ElementOfSeq, LenProperties
<1>3. DirtyRows(shownRows, ed.edits, ed.baseline) = Kept(shownRows, S)
  BY DEF DirtyRows
<1> HIDE DEF S
<1>4. Kept(shownRows, S) \in Seq(Q)
  BY <1>1, <1>2, KeptIs
<1>5. Kept(shownRows, S) # <<>> /\ FirstDirty(ed, rows, v) = Head(Kept(shownRows, S))
  BY <1>3 DEF AnyDirty, FirstDirty, shownRows
<1> HIDE DEF Q
<1>6. FirstDirty(ed, rows, v) \in Q
  BY <1>4, <1>5, HeadTailProperties
<1> QED
  BY <1>6 DEF Q

LEMMA TotalPagesType ==
  ASSUME NEW rows \in RowLists, NEW v \in Views
  PROVE  TotalPages(rows, v) \in Nat \ {0}
<1>1. v.pageSize \in Nat \ {0} /\ Sorted(rows, v) \in Seq(RowRecords)
  BY SortedIs DEF Views, RowLists
<1>2. Len(Sorted(rows, v)) \in Nat
  BY <1>1
<1>3. PageCount(Len(Sorted(rows, v)), v.pageSize) \in Nat \ {0}
  BY <1>1, <1>2, PageCountType
<1> QED
  BY <1>3 DEF TotalPages

\* The effect leaves the page on one that exists.
LEMMA SettledIs ==
  ASSUME NEW rows \in RowLists, NEW v \in Views
  PROVE  /\ Settled(rows, v) \in Views
         /\ Settled(rows, v).page < TotalPages(rows, Settled(rows, v))
<1> DEFINE w == Settled(rows, v)
           n == TotalPages(rows, v)
<1>1. n \in Nat \ {0} /\ v.page \in Nat
  BY TotalPagesType DEF Views
<1>2. w = [v EXCEPT !.page = Smaller(v.page, n - 1)]
  BY DEF Settled
<1>3. Smaller(v.page, n - 1) \in Nat /\ Smaller(v.page, n - 1) < n
  BY <1>1 DEF Smaller
<1> HIDE DEF n, w
<1>4. /\ w \in Views /\ w.page = Smaller(v.page, n - 1) /\ w.query = v.query /\ w.sort = v.sort
      /\ w.pageSize = v.pageSize /\ w.all = v.all
  BY <1>2, <1>3 DEF Views
<1>5. TotalPages(rows, w) = n
  BY <1>4 DEF TotalPages, Sorted, Paging, n
<1> QED
  BY <1>3, <1>4, <1>5 DEF w

-----------------------------------------------------------------------------
(* The types of a list tile, and the page it is on. *)

TileInv == TileTypeOK /\ view.page < TotalPages(items, view)

LEMMA TileTypes ==
  ASSUME TileInv
  PROVE  /\ table \in Tables /\ items \in RowLists /\ view \in Views /\ editor \in Editors
         /\ err \in BOOLEAN /\ loading \in BOOLEAN /\ retyped \in BOOLEAN
         /\ commits \in Seq(Commits) /\ Len(commits) <= table.saves /\ table.saves \in Nat
         /\ server \in RowLists /\ fetches \in Seq(Fetches) /\ Len(fetches) <= table.fetches
         /\ table.fetches \in Nat \ {0} /\ table.lists \subseteq RowLists
         /\ table.pageSize \in Nat \ {0}
BY TablesAssumption DEF TileInv, TileTypeOK, TableTypeOK

LEMMA WithValueIs ==
  ASSUME NEW rows \in RowLists, NEW id \in RowIds, NEW value \in Values
  PROVE  WithValue(rows, id, value) \in RowLists /\ DOMAIN WithValue(rows, id, value) = DOMAIN rows
<1> DEFINE new == WithValue(rows, id, value)
<1>1. rows \in Seq(RowRecords) /\ NoRowTwice(rows) /\ DOMAIN rows = 1..Len(rows) /\ Len(rows) \in Nat
  BY LenProperties DEF RowLists
<1>2. Row(id, value) \in RowRecords /\ Row(id, value).id = id
  BY DEF Row, RowRecords
<1>3. \A i \in DOMAIN rows : rows[i] \in RowRecords
  BY <1>1, ElementOfSeq
<1>4. new = [i \in 1..Len(rows) |-> IF rows[i].id = id THEN Row(id, value) ELSE rows[i]]
  BY <1>1 DEF WithValue
<1>5. new \in [1..Len(rows) -> RowRecords] /\ \A i \in 1..Len(rows) : new[i].id = rows[i].id
  BY <1>1, <1>2, <1>3, <1>4
<1> HIDE DEF new
<1>6. new \in Seq(RowRecords) /\ DOMAIN new = DOMAIN rows
  BY <1>1, <1>5, SeqDef
<1>7. NoRowTwice(new)
  BY <1>1, <1>5, <1>6 DEF NoRowTwice
<1> QED
  BY <1>6, <1>7 DEF RowLists, new

LEMMA BaselineIs ==
  ASSUME NEW rows \in RowLists
  PROVE  /\ BaselineOf(rows) \in [RowIds -> Values \cup {NoValue}]
         /\ \A i \in DOMAIN rows : BaselineOf(rows)[rows[i].id] = rows[i].value
<1>1. /\ \A i \in DOMAIN rows : rows[i].id \in RowIds /\ rows[i].value \in Values
      /\ NoRowTwice(rows)
  BY ElementOfSeq, LenProperties, RecordType DEF RowLists
<1>2. ASSUME NEW id \in IdsOf(rows) PROVE At(rows, id) \in DOMAIN rows /\ rows[At(rows, id)].id = id
  BY DEF IdsOf, At
<1>3. BaselineOf(rows) \in [RowIds -> Values \cup {NoValue}]
  BY <1>1, <1>2 DEF BaselineOf
<1>4. ASSUME NEW i \in DOMAIN rows PROVE BaselineOf(rows)[rows[i].id] = rows[i].value
  <2>1. rows[i].id \in IdsOf(rows) /\ rows[i].id \in RowIds
    BY <1>1 DEF IdsOf
  <2>2. At(rows, rows[i].id) = i
    BY <1>1, <1>2, <2>1 DEF NoRowTwice
  <2> QED
    BY <2>1, <2>2 DEF BaselineOf
<1> QED
  BY <1>3, <1>4

LEMMA RebasedIs ==
  ASSUME NEW ed \in Editors, NEW rows \in RowLists
  PROVE  /\ Rebased(ed, rows) \in Editors /\ Rebased(ed, rows).edits = ed.edits
         /\ Inline => \A i \in DOMAIN rows : Rebased(ed, rows).baseline[rows[i].id] = rows[i].value
<1>1. /\ BaselineOf(rows) \in [RowIds -> Values \cup {NoValue}]
      /\ \A i \in DOMAIN rows : BaselineOf(rows)[rows[i].id] = rows[i].value
  BY BaselineIs
<1>2. CASE Inline
  <2> DEFINE new == [ed EXCEPT !.baseline = BaselineOf(rows)]
  <2>1. new \in Editors /\ new.edits = ed.edits /\ new.baseline = BaselineOf(rows)
    BY <1>1 DEF Editors
  <2>2. Rebased(ed, rows) = new
    BY <1>2 DEF Rebased
  <2> HIDE DEF new
  <2> QED
    BY <1>1, <2>1, <2>2
<1>3. CASE ~Inline
  BY <1>3 DEF Rebased
<1> QED
  BY <1>2, <1>3

\* What is sent is a value the column takes.
LEMMA SaveIs ==
  ASSUME NEW row \in RowRecords, NEW ed \in Editors, NEW turn \in Nat
  PROVE  /\ Saving(row, ed) \in Editors
         /\ Saving(row, ed).edits = ed.edits /\ Saving(row, ed).baseline = ed.baseline
         /\ Sent(row, ed, turn) \in Seq(Commits) /\ Len(Sent(row, ed, turn)) \in {0, 1}
<1> DEFINE sends == Sends(row, ed)
<1>1. sends \in BOOLEAN
  BY DEF Sends, IsDirty, IsValid
<1>2. /\ Saving(row, ed) \in Editors /\ Saving(row, ed).edits = ed.edits
      /\ Saving(row, ed).baseline = ed.baseline
  <2>1. Saving(row, ed) = [ed EXCEPT !.error = FALSE, !.saving = sends]
    BY DEF Saving
  <2> HIDE DEF sends
  <2> QED
    BY <1>1, <2>1 DEF Editors
<1>3. CASE Sends(row, ed)
  <2> DEFINE c == [row |-> row.id, value |-> CellValue(row, ed.edits), turn |-> turn, state |-> "sent"]
  <2>1. row.id \in RowIds /\ row.value \in Values
    BY RecordType
  <2>2. ed.edits[row.id] \in Values \cup {NoValue, BadValue}
    BY <2>1 DEF Editors
  <2>3. CellValue(row, ed.edits) \in Values
    BY <1>3, <2>1, <2>2 DEF Sends, IsValid, CellValue
  <2>4. c \in Commits
    BY <2>1, <2>3 DEF Commits
  <2>5. Sent(row, ed, turn) = <<c>>
    BY <1>3 DEF Sent
  <2> HIDE DEF c
  <2> QED
    BY <1>2, <2>4, <2>5
<1>4. CASE ~Sends(row, ed)
  BY <1>2, <1>4, EmptySeq DEF Sent
<1> QED
  BY <1>3, <1>4

LEMMA RemovedIs ==
  ASSUME NEW C, NEW s \in Seq(C), NEW i \in DOMAIN s
  PROVE  /\ SubSeq(s, 1, i - 1) \o SubSeq(s, i + 1, Len(s)) \in Seq(C)
         /\ Len(SubSeq(s, 1, i - 1) \o SubSeq(s, i + 1, Len(s))) = Len(s) - 1
         /\ \A k \in 1..(Len(s) - 1) :
              (SubSeq(s, 1, i - 1) \o SubSeq(s, i + 1, Len(s)))[k] = IF k < i THEN s[k] ELSE s[k + 1]
<1> DEFINE n == Len(s)
           a == SubSeq(s, 1, i - 1)
           b == SubSeq(s, i + 1, n)
<1>1. n \in Nat /\ i \in 1..n /\ \A k \in 1..n : s[k] \in C
  BY LenProperties, ElementOfSeq
<1> HIDE DEF n
<1>2. /\ i - 1 \in Int /\ i + 1 \in Int /\ 1 \in Int /\ n \in Int
      /\ \A k \in 1..(i - 1) : s[k] \in C
      /\ \A k \in (i + 1)..n : s[k] \in C
  BY <1>1
<1>3. a \in Seq(C) /\ Len(a) = i - 1 /\ \A k \in 1..(i - 1) : a[k] = s[k]
  <2>1. /\ a \in Seq(C) /\ Len(a) = IF 1 <= i - 1 THEN (i - 1) - 1 + 1 ELSE 0
        /\ \A k \in 1..((i - 1) - 1 + 1) : a[k] = s[1 + k - 1]
    BY <1>2, SubSeqProperties
  <2> HIDE DEF a
  <2> QED
    BY <1>1, <2>1
<1>4. b \in Seq(C) /\ Len(b) = n - i /\ \A k \in 1..(n - i) : b[k] = s[i + k]
  <2>1. /\ b \in Seq(C) /\ Len(b) = IF i + 1 <= n THEN n - (i + 1) + 1 ELSE 0
        /\ \A k \in 1..(n - (i + 1) + 1) : b[k] = s[(i + 1) + k - 1]
    BY <1>2, SubSeqProperties
  <2> HIDE DEF b
  <2>2. \A k \in 1..(n - i) : b[k] = s[i + k]
    <3> TAKE k \in 1..(n - i)
    <3>1. k \in 1..(n - (i + 1) + 1) /\ (i + 1) + k - 1 = i + k
      BY <1>1
    <3> QED
      BY <2>1, <3>1
  <2> QED
    BY <1>1, <2>1, <2>2
<1> HIDE DEF a, b
<1>5. /\ a \o b \in Seq(C) /\ Len(a \o b) = Len(a) + Len(b)
      /\ \A k \in 1..(Len(a) + Len(b)) : (a \o b)[k] = IF k <= Len(a) THEN a[k] ELSE b[k - Len(a)]
  BY <1>3, <1>4, ConcatProperties
<1>6. ASSUME NEW k \in 1..(n - 1) PROVE (a \o b)[k] = IF k < i THEN s[k] ELSE s[k + 1]
  <2>1. k \in 1..(Len(a) + Len(b)) /\ Len(a) = i - 1
    BY <1>1, <1>3, <1>4
  <2>2. CASE k < i
    BY <1>1, <1>3, <1>5, <2>1, <2>2
  <2>3. CASE ~(k < i)
    <3> DEFINE m == k - (i - 1)
    <3>1. m \in 1..(n - i) /\ i + m = k + 1
      BY <1>1, <2>3
    <3>2. ~(k <= Len(a)) /\ m = k - Len(a)
      BY <1>1, <2>1, <2>3
    <3>3. (a \o b)[k] = b[k - Len(a)]
      BY <1>5, <2>1, <3>2
    <3> HIDE DEF m
    <3>4. (a \o b)[k] = s[i + m]
      BY <1>4, <3>1, <3>2, <3>3
    <3> QED
      BY <2>3, <3>1, <3>4
  <2> QED
    BY <2>2, <2>3
<1>7. Len(a \o b) = n - 1 /\ a \o b \in Seq(C)
  BY <1>1, <1>3, <1>4, <1>5
<1> QED
  BY <1>6, <1>7 DEF a, b, n

LEMMA SamePages ==
  ASSUME UNCHANGED table
  PROVE  TotalPages(items, view)' = TotalPages(items', view')
BY DEF TotalPages, Sorted, Paging, Inline

\* Steps that leave the rows and the view alone.
LEMMA EditKeeps ==
  ASSUME TileInv, UNCHANGED <<table, items, err, loading, view, server, fetches>>,
         editor' \in Editors, retyped' \in BOOLEAN, commits' \in Seq(Commits), Len(commits') <= table.saves
  PROVE  TileInv'
<1>1. TotalPages(items, view)' = TotalPages(items, view)
  BY SamePages
<1>2. TableTypeOK'
  BY TileTypes DEF TableTypeOK
<1>3. TileTypeOK'
  BY <1>2, TileTypes DEF TileTypeOK
<1> QED
  BY <1>1, <1>3 DEF TileInv

LEMMA FetchKeeps ==
  ASSUME TileInv, UNCHANGED <<table, items, view, editor, commits, retyped>>, err' \in BOOLEAN, loading' \in BOOLEAN,
         server' \in RowLists, fetches' \in Seq(Fetches), Len(fetches') <= table.fetches
  PROVE  TileInv'
<1>1. TotalPages(items, view)' = TotalPages(items, view)
  BY SamePages
<1>2. TableTypeOK'
  BY TileTypes DEF TableTypeOK
<1>3. TileTypeOK'
  BY <1>2 DEF TileTypeOK
<1> QED
  BY <1>1, <1>3 DEF TileInv

\* Steps after which the effect settles the page again.
LEMMA SettlingKeeps ==
  ASSUME TileInv, UNCHANGED <<table, server>>, err' \in BOOLEAN, loading' \in BOOLEAN, retyped' \in BOOLEAN,
         items' \in RowLists, NEW v \in Views, view' = Settled(items', v), editor' \in Editors,
         commits' \in Seq(Commits), Len(commits') <= table.saves,
         fetches' \in Seq(Fetches), Len(fetches') <= table.fetches
  PROVE  TileInv'
<1>1. view' \in Views /\ view'.page < TotalPages(items', view')
  BY SettledIs
<1>2. TotalPages(items, view)' = TotalPages(items', view')
  BY SamePages
<1>3. TableTypeOK'
  BY <1>1, TileTypes DEF TableTypeOK
<1>4. TileTypeOK'
  BY <1>3, TileTypes DEF TileTypeOK
<1> QED
  BY <1>1, <1>2, <1>4 DEF TileInv

LEMMA BrowseKeeps ==
  ASSUME TileInv, BrowseNext, UNCHANGED <<server, fetches>>
  PROVE  TileInv'
<1>0. view \in Views /\ items \in RowLists /\ TotalPages(items, view) \in Nat \ {0}
  BY TileTypes, TotalPagesType
<1>1. ASSUME NEW v \in Views, SetView(v) PROVE TileInv'
  BY <1>1, TileTypes, SettlingKeeps DEF SetView
<1>2. ASSUME NEW query \in Values \cup {NoValue}, Search(query) PROVE TileInv'
  <2>1. [view EXCEPT !.query = query] \in Views
    BY <1>0 DEF Views
  <2> QED
    BY <1>1, <1>2, <2>1 DEF Search
<1>3. CASE OnHeaderSort
  <2>1. [view EXCEPT !.sort = CycleSort(@), !.page = 0] \in Views
    BY <1>0 DEF Views, CycleSort, Directions
  <2> QED
    BY <1>1, <1>3, <2>1 DEF OnHeaderSort
<1>4. ASSUME NEW page \in Nat, SetView([view EXCEPT !.page = page]) PROVE TileInv'
  <2>1. [view EXCEPT !.page = page] \in Views
    BY <1>0, <1>4 DEF Views
  <2> QED
    BY <1>1, <1>4, <2>1
<1>5. ASSUME NEW page \in 1..Cardinality(RowIds), TurnPage(page) \/ GotoPageSubmit(page) PROVE TileInv'
  <2>1. page \in Nat \ {0}
    BY <1>5, RowsAssumption, FS_CardinalityType
  <2>2. page - 1 \in Nat /\ Larger(1, Smaller(TotalPages(items, view), page)) - 1 \in Nat
    BY <1>0, <2>1 DEF Larger, Smaller
  <2> QED
    BY <1>4, <1>5, <2>2 DEF TurnPage, GotoPageSubmit
<1>6. ASSUME NEW size \in PageSizes \cup {table.pageSize}, ChangePageSize(size) PROVE TileInv'
  <2>1. size \in Nat \ {0}
    BY <1>6, TileTypes, TablesAssumption
  <2>2. [view EXCEPT !.pageSize = size, !.page = 0] \in Views
    BY <1>0, <2>1 DEF Views
  <2> QED
    BY <1>1, <1>6, <2>2 DEF ChangePageSize
<1>7. CASE ToggleAllRows
  <2>1. [view EXCEPT !.all = ~@] \in Views
    BY <1>0 DEF Views
  <2> QED
    BY <1>1, <1>7, <2>1 DEF ToggleAllRows
<1> QED
  BY <1>2, <1>3, <1>5, <1>6, <1>7 DEF BrowseNext

\* The saves that are left when one has been answered, and the one that takes its place.
LEMMA SaveEndsTyped ==
  ASSUME TileInv, NEW i \in DOMAIN commits, SaveAnswered(i) \/ SaveFailed(i), UNCHANGED <<server, fetches>>
  PROVE  TileInv'
<1> DEFINE left == SubSeq(commits, 1, i - 1) \o SubSeq(commits, i + 1, Len(commits))
           c == commits[i]
<1>0. commits \in Seq(Commits) /\ Len(commits) \in Nat /\ Len(commits) <= table.saves /\ table.saves \in Nat
  BY TileTypes, LenProperties
<1>1. left \in Seq(Commits) /\ Len(left) = Len(commits) - 1
  BY <1>0, RemovedIs
<1>2. c \in Commits
  BY <1>0, ElementOfSeq, LenProperties
<1>3. c.row \in RowIds /\ c.value \in Values /\ c.turn \in Nat
  BY <1>2 DEF Commits
<1> HIDE DEF left
<1>4. CASE SaveFailed(i)
  <2>1. editor' \in Editors
    BY <1>4, TileTypes DEF SaveFailed, Editors
  <2>2. /\ commits' = left /\ retyped' \in BOOLEAN
        /\ UNCHANGED <<table, items, err, loading, view, server, fetches>>
    BY <1>4, TileTypes DEF SaveFailed, left
  <2>3. Len(left) <= table.saves
    BY <1>0, <1>1
  <2> QED
    BY <1>1, <2>1, <2>2, <2>3, EditKeeps
<1>5. CASE SaveAnswered(i)
  <2> DEFINE ed == Finished(c, items')
             rebased == Rebased(editor, items')
  <2>1. /\ items' = WithValue(items, c.row, c.value) /\ view' = Settled(items', view)
        /\ GoOn(c, ed, items', view', i) /\ UNCHANGED <<table, err, loading, retyped>>
    BY <1>5 DEF SaveAnswered
  <2> HIDE DEF c
  <2>2. items' \in RowLists /\ view' \in Views
    BY <1>3, <2>1, TileTypes, WithValueIs, SettledIs
  <2>3. ed \in Editors
    <3>1. rebased \in Editors
      BY <2>2, TileTypes, RebasedIs
    <3>2. ed = [rebased EXCEPT !.edits[c.row] = NoValue, !.baseline[c.row] = c.value, !.saving = FALSE]
      BY DEF Finished
    <3> HIDE DEF rebased, ed
    <3> QED
      BY <1>3, <3>1, <3>2 DEF Editors
  <2> HIDE DEF ed
  <2>4. editor' \in Editors /\ commits' \in Seq(Commits) /\ Len(commits') <= table.saves
    <3>1. CASE editor' = ed /\ commits' = left
      BY <1>0, <1>1, <2>3, <3>1
    <3>2. CASE NextRound(ed, items', view', c.turn)
      <4> DEFINE row == FirstDirty(ed, items', view')
      <4>1. editor' = Saving(row, ed) /\ commits' = left \o Sent(row, ed, c.turn + 1)
        BY <2>1, <3>2 DEF GoOn, left
      <4>2. row \in RowRecords
        <5>1. items' \in Seq(RowRecords) /\ AnyDirty(ed, items', view')
          BY <2>2, <3>2 DEF RowLists, NextRound
        <5> QED
          BY <2>2, <5>1, FirstDirtyIs
      <4> HIDE DEF row
      <4>3. /\ editor' \in Editors /\ Sent(row, ed, c.turn + 1) \in Seq(Commits)
            /\ Len(Sent(row, ed, c.turn + 1)) \in {0, 1}
        BY <1>3, <2>3, <4>1, <4>2, SaveIs
      <4>4. commits' \in Seq(Commits) /\ Len(commits') = Len(left) + Len(Sent(row, ed, c.turn + 1))
        BY <1>1, <4>1, <4>3, ConcatProperties
      <4>5. Len(commits') <= Len(commits) /\ Len(commits') \in Int
        <5> DEFINE m == Len(Sent(row, ed, c.turn + 1))
                   n == Len(commits)
        <5>1. m \in 0..1 /\ n \in Nat
          BY <1>0, <4>3
        <5> HIDE DEF m, n
        <5>2. Len(commits') = (n - 1) + m
          BY <1>1, <4>4 DEF m, n
        <5> QED
          BY <5>1, <5>2 DEF n
      <4>6. Len(commits') <= table.saves
        BY <1>0, <4>5
      <4> QED
        BY <4>3, <4>4, <4>6
    <3>3. CASE ~NextRound(ed, items', view', c.turn)
      BY <2>1, <3>1, <3>3 DEF GoOn, left
    <3> QED
      BY <3>2, <3>3
  <2> QED
    BY <2>1, <2>2, <2>4, TileTypes, SettlingKeeps
<1> QED
  BY <1>4, <1>5

LEMMA EditTyped ==
  ASSUME TileInv, EditNext, UNCHANGED <<server, fetches>>
  PROVE  TileInv'
<1>0. /\ editor \in Editors /\ items \in RowLists /\ view \in Views /\ commits \in Seq(Commits)
      /\ Len(commits) <= table.saves /\ table.saves \in Nat /\ retyped \in BOOLEAN
      /\ items \in Seq(RowRecords)
  BY TileTypes DEF RowLists
<1>1. CASE OpenModal
  <2>1. Blank \in [RowIds -> Values \cup {NoValue, BadValue}]
    BY DEF Blank
  <2>2. editor' \in Editors
    BY <1>0, <1>1, <2>1, BaselineIs DEF OpenModal, Editors
  <2> QED
    BY <1>0, <1>1, <2>2, EditKeeps DEF OpenModal
<1>2. CASE CloseModal
  <2>1. editor' \in Editors
    BY <1>0, <1>2 DEF CloseModal, Editors
  <2> QED
    BY <1>0, <1>2, <2>1, EditKeeps DEF CloseModal
<1>3. ASSUME NEW id \in RowIds, NEW value \in Values \cup {BadValue}, SetCellValue(id, value) PROVE TileInv'
  <2>1. editor' \in Editors
    BY <1>0, <1>3 DEF SetCellValue, Editors
  <2>2. retyped' \in BOOLEAN
    BY <1>3 DEF SetCellValue
  <2> QED
    BY <1>0, <1>3, <2>1, <2>2, EditKeeps DEF SetCellValue
\* A save that starts fits in the bound.
<1>4. ASSUME NEW row \in RowRecords, NEW turn \in Nat, Len(commits) < table.saves,
             editor' = Saving(row, editor), commits' = commits \o Sent(row, editor, turn),
             retyped' \in BOOLEAN, UNCHANGED <<table, items, err, loading, view>>
      PROVE  TileInv'
  <2>1. /\ editor' \in Editors /\ Sent(row, editor, turn) \in Seq(Commits)
        /\ Len(Sent(row, editor, turn)) \in {0, 1}
    BY <1>0, <1>4, SaveIs
  <2>2. commits' \in Seq(Commits) /\ Len(commits') = Len(commits) + Len(Sent(row, editor, turn))
    BY <1>0, <1>4, <2>1, ConcatProperties
  <2>3. Len(commits') <= table.saves
    <3> DEFINE m == Len(Sent(row, editor, turn))
               n == Len(commits)
    <3>1. m \in 0..1 /\ n \in Nat
      BY <1>0, <2>1
    <3> HIDE DEF m, n
    <3>2. Len(commits') = n + m /\ n < table.saves
      BY <1>4, <2>2 DEF m, n
    <3> QED
      BY <1>0, <3>1, <3>2
  <2> QED
    BY <1>4, <2>1, <2>2, <2>3, EditKeeps
<1>5. ASSUME NEW id \in RowIds, SaveRow(id) PROVE TileInv'
  <2>1. PICK row \in {items[i] : i \in DOMAIN items} :
          editor' = Saving(row, editor) /\ commits' = commits \o Sent(row, editor, 0)
    BY <1>5 DEF SaveRow
  <2>2. row \in RowRecords
    BY <1>0, <2>1, ElementOfSeq, LenProperties
  <2> QED
    BY <1>0, <1>4, <1>5, <2>1, <2>2 DEF SaveRow
<1>6. CASE SaveAllDirty
  <2>1. FirstDirty(editor, items, view) \in RowRecords
    BY <1>0, <1>6, FirstDirtyIs DEF SaveAllDirty
  <2> QED
    BY <1>0, <1>4, <1>6, <2>1 DEF SaveAllDirty
<1>7. ASSUME NEW i \in DOMAIN commits, SaveAnswered(i) \/ SaveFailed(i) PROVE TileInv'
  BY <1>7, SaveEndsTyped
<1> QED
  BY <1>1, <1>2, <1>3, <1>5, <1>6, <1>7 DEF EditNext

LEMMA FetchesTyped ==
  ASSUME TileInv,
         \/ \E i \in DOMAIN fetches : ApplyItems(i) \/ LoadFailed(i) \/ ServerAnswers(i)
         \/ Reload \/ Revision \/ ListEvent \/ ServerChanges
  PROVE  TileInv'
<1>0. /\ fetches \in Seq(Fetches) /\ Len(fetches) <= table.fetches /\ table.fetches \in Nat \ {0}
      /\ Len(fetches) \in Nat /\ DOMAIN fetches = 1..Len(fetches) /\ server \in RowLists
      /\ err \in BOOLEAN /\ loading \in BOOLEAN
  BY TileTypes, LenProperties
<1>1. \A i \in DOMAIN fetches : fetches[i] \in Fetches /\ fetches[i].rows \in RowLists
  <2>1. \A i \in DOMAIN fetches : fetches[i] \in Fetches
    BY <1>0, ElementOfSeq
  <2> QED
    BY <2>1 DEF Fetches
<1>2. ASSUME NEW i \in DOMAIN fetches PROVE Without(i) \in Seq(Fetches) /\ Len(Without(i)) <= table.fetches
  <2>1. Without(i) \in Seq(Fetches) /\ Len(Without(i)) = Len(fetches) - 1
    BY <1>0, RemovedIs DEF Without
  <2> QED
    BY <1>0, <2>1
<1>3. ASSUME NEW i \in DOMAIN fetches, ApplyItems(i) PROVE TileInv'
  <2>1. Rebased(editor, fetches[i].rows) \in Editors
    BY <1>1, <1>3, TileTypes, RebasedIs
  <2> QED
    BY <1>1, <1>2, <1>3, <2>1, TileTypes, SettlingKeeps DEF ApplyItems, Receive
<1>4. ASSUME NEW i \in DOMAIN fetches, LoadFailed(i) PROVE TileInv'
  <2>1. err' \in BOOLEAN /\ loading' \in BOOLEAN
    BY <1>0, <1>4 DEF LoadFailed
  <2> QED
    BY <1>0, <1>2, <1>4, <2>1, FetchKeeps DEF LoadFailed
<1>5. ASSUME NEW i \in DOMAIN fetches, ServerAnswers(i) PROVE TileInv'
  <2> DEFINE f == Fetch(fetches[i].by, "answered", server)
  <2>1. f \in Fetches
    BY <1>0, <1>1, <1>5 DEF Fetch, Fetches
  <2>2. fetches' = [fetches EXCEPT ![i] = f]
    BY <1>5 DEF ServerAnswers
  <2> HIDE DEF f
  <2>3. fetches' \in Seq(Fetches) /\ Len(fetches') = Len(fetches)
    BY <1>0, <2>1, <2>2, ExceptSeq
  <2> QED
    BY <1>0, <1>5, <2>3, FetchKeeps DEF ServerAnswers, tableVars
<1>6. ASSUME NEW f \in Fetches, fetches' = Append(fetches, f), Len(fetches) < table.fetches,
             UNCHANGED <<table, items, view, editor, commits, retyped, err, server>>, loading' \in BOOLEAN
      PROVE  TileInv'
  <2>1. fetches' \in Seq(Fetches) /\ Len(fetches') = Len(fetches) + 1
    BY <1>0, <1>6, AppendProperties
  <2>2. Len(fetches') <= table.fetches
    BY <1>0, <1>6, <2>1
  <2> QED
    BY <1>0, <1>6, <2>1, <2>2, FetchKeeps
<1>7. <<>> \in RowLists
  BY EmptySeq DEF RowLists, NoRowTwice
<1>8. CASE Reload
  <2>1. Fetch("reload", "sent", <<>>) \in Fetches
    BY <1>7 DEF Fetch, Fetches
  <2> QED
    BY <1>6, <1>8, <2>1 DEF Reload
<1>9. CASE Revision
  <2>1. Fetch("feed", "sent", <<>>) \in Fetches
    BY <1>7 DEF Fetch, Fetches
  <2> QED
    BY <1>0, <1>6, <1>9, <2>1 DEF Revision, tableVars
<1>10. CASE ListEvent
  <2>1. Fetch("event", "answered", server) \in Fetches
    BY <1>0 DEF Fetch, Fetches
  <2> QED
    BY <1>0, <1>6, <1>10, <2>1 DEF ListEvent, tableVars
<1>11. CASE ServerChanges
  BY <1>0, <1>11, TileTypes, FetchKeeps DEF ServerChanges, tableVars
<1> QED
  BY <1>3, <1>4, <1>5, <1>8, <1>9, <1>10, <1>11

LEMMA PatchTyped ==
  ASSUME TileInv, NEW i \in DOMAIN commits, PatchHandled(i)
  PROVE  TileInv'
<1>0. /\ commits \in Seq(Commits) /\ DOMAIN commits = 1..Len(commits) /\ commits[i] \in Commits
      /\ Len(commits) <= table.saves
  BY TileTypes, ElementOfSeq, LenProperties
<1> DEFINE c == [commits[i] EXCEPT !.state = "done"]
<1>1. c \in Commits /\ commits[i].row \in RowIds /\ commits[i].value \in Values
  BY <1>0 DEF Commits
<1>2. commits' = [commits EXCEPT ![i] = c]
  BY DEF PatchHandled
<1> HIDE DEF c
<1>3. commits' \in Seq(Commits) /\ Len(commits') = Len(commits)
  BY <1>0, <1>1, <1>2, ExceptSeq
<1>4. server' \in RowLists
  BY <1>1, TileTypes, WithValueIs DEF PatchHandled
<1>5. TotalPages(items, view)' = TotalPages(items, view)
  BY SamePages DEF PatchHandled
<1>6. TableTypeOK'
  BY <1>0, <1>3, TileTypes DEF PatchHandled, TableTypeOK
<1>7. TileTypeOK'
  BY <1>4, <1>6, TileTypes DEF PatchHandled, TileTypeOK
<1> QED
  BY <1>5, <1>7 DEF TileInv, PatchHandled

LEMMA TileStep ==
  ASSUME TileInv, TileNext
  PROVE  TileInv'
<1>1. CASE \/ \E i \in DOMAIN fetches : ApplyItems(i) \/ LoadFailed(i) \/ ServerAnswers(i)
           \/ Reload \/ Revision \/ ListEvent \/ ServerChanges
  BY <1>1, FetchesTyped
<1>2. CASE \E i \in DOMAIN commits : PatchHandled(i)
  BY <1>2, PatchTyped
<1>3. CASE (BrowseNext \/ EditNext) /\ UNCHANGED <<server, fetches>>
  BY <1>3, BrowseKeeps, EditTyped
<1> QED
  BY <1>1, <1>2, <1>3 DEF TileNext, ServerNext

LEMMA TileStarts == TileInit => TileInv
<1> SUFFICES ASSUME TileInit PROVE TileInv
  OBVIOUS
<1>1. /\ table \in Tables /\ table.pageSize \in Nat \ {0} /\ table.defaultSort \in Directions
      /\ table.lists \subseteq RowLists /\ table.saves \in Nat /\ table.fetches \in Nat \ {0}
  BY TablesAssumption DEF TileInit, TableInit
<1>2. <<>> \in RowLists
  BY EmptySeq DEF RowLists, NoRowTwice
<1>3. view \in Views /\ view.page = 0
  BY <1>1 DEF TileInit, TableInit, View, Views
<1>4. editor \in Editors
  <2>1. Blank \in [RowIds -> Values \cup {NoValue}] /\ Blank \in [RowIds -> Values \cup {NoValue, BadValue}]
    BY DEF Blank
  <2> QED
    BY <2>1 DEF TileInit, TableInit, Editors
<1>5. commits \in Seq(Commits) /\ Len(commits) <= table.saves
  BY <1>1, EmptySeq DEF TileInit, TableInit
<1>6. fetches \in Seq(Fetches) /\ Len(fetches) <= table.fetches
  <2> DEFINE f == Fetch("feed", "sent", <<>>)
  <2>1. f \in Fetches
    BY <1>2 DEF Fetch, Fetches
  <2>2. fetches = <<f>>
    BY DEF TileInit
  <2> HIDE DEF f
  <2>3. fetches \in Seq(Fetches) /\ Len(fetches) = 1
    BY <2>1, <2>2
  <2> QED
    BY <1>1, <2>3
<1>7. server \in RowLists
  BY <1>1 DEF TileInit
<1>8. TileTypeOK
  BY <1>1, <1>2, <1>3, <1>4, <1>5, <1>6, <1>7 DEF TileInit, TableInit, TileTypeOK, TableTypeOK
<1>9. view.page < TotalPages(items, view)
  <2>1. TotalPages(items, view) \in Nat \ {0}
    BY <1>2, <1>3, TotalPagesType DEF TileInit, TableInit
  <2> QED
    BY <1>3, <2>1
<1> QED
  BY <1>8, <1>9 DEF TileInv

LEMMA PagesKeepTile ==
  ASSUME TileInv, [Next]_pageVars
  PROVE  TileInv'
<1>1. CASE UNCHANGED tileVars
  <2>1. TotalPages(items, view)' = TotalPages(items, view)
    BY <1>1, SamePages DEF tileVars, tableVars
  <2> QED
    BY <1>1, <2>1 DEF tileVars, tableVars, TileInv, TileTypeOK, TableTypeOK
<1>2. CASE Tile
  BY <1>2, TileStep DEF Tile
<1> QED
  BY <1>1, <1>2 DEF Next, Logs, Scan, pageVars

LEMMA PagesKeepScan ==
  ASSUME ScanInv, [Next]_pageVars
  PROVE  ScanInv'
<1>1. CASE UNCHANGED scanVars
  BY <1>1 DEF scanVars, ScanInv
<1>2. CASE Scan
  BY <1>2, ScanStep DEF Scan
<1> QED
  BY <1>1, <1>2 DEF Next, Tile, Logs, pageVars

\* Whatever is open, everything keeps its shape: no list names a row twice and no save carries a
\* value the column's validator refuses, there are no more saves and requests under way than the
\* model's bounds, one log query at most may change the page, and what the scan tile shows is a
\* state of the server.
THEOREM PageTypesHold == Spec => []TypeOK
<1> DEFINE Inv == TileInv /\ LogInv /\ ScanInv
<1>1. Init => Inv
  BY TileStarts, LogsStart, ScanStarts DEF Init
<1>2. Inv /\ [Next]_pageVars => Inv'
  BY PagesKeepTile, PagesKeepLogs, PagesKeepScan
<1>3. Inv => TypeOK
  BY LogsTyped, ScanTyped DEF TypeOK, TileInv
<1> QED
  BY <1>1, <1>2, <1>3, PTL DEF Spec

\* The page a table is on exists, however the list shrinks under it, a search narrows it, a number
\* is typed in the page box or the page size changes; and a page of rows is never empty while the
\* list has some, for every list and every page size.
THEOREM ShownPageExists == Spec => []PageIsShown
<1>1. Init => TileInv
  BY TileStarts DEF Init
<1>2. TileInv /\ [Next]_pageVars => TileInv'
  BY PagesKeepTile
<1>3. TileInv => PageIsShown
  <2> SUFFICES ASSUME TileInv PROVE PageIsShown
    OBVIOUS
  <2>1. Sorted(items, view) \in Seq(RowRecords) /\ view.page \in Int /\ view.pageSize \in Nat \ {0}
    BY TileTypes, SortedIs DEF RowLists, Views
  <2>2. Sorted(items, view) # <<>> => PageSlice(Sorted(items, view), view.page, view.pageSize) # <<>>
    BY <2>1, DisplayedPageHasRows
  <2> QED
    BY <2>2 DEF PageIsShown, Displayed, TileInv
<1> QED
  BY <1>1, <1>2, <1>3, PTL DEF Spec

-----------------------------------------------------------------------------
(* What a list tile sends, and when it forgets what was typed. *)

\* An inline editor compares to the rows there are: a dirty cell is one that was typed in.
Compared(ed, rows) == \A i \in DOMAIN rows : ed.baseline[rows[i].id] = rows[i].value
BaselineInv == Inline => Compared(editor, items)

RowsIn(rows) == {rows[i] : i \in DOMAIN rows}

LEMMA RowsInAre ==
  ASSUME NEW rows \in RowLists
  PROVE  RowsIn(rows) \in SUBSET RowRecords /\ rows \in Seq(RowsIn(rows))
<1>1. rows \in Seq(RowRecords) /\ DOMAIN rows = 1..Len(rows) /\ Len(rows) \in Nat
  BY LenProperties DEF RowLists
<1>2. \A i \in DOMAIN rows : rows[i] \in RowRecords
  BY <1>1, ElementOfSeq
<1>3. rows \in [1..Len(rows) -> RowsIn(rows)]
  BY <1>1 DEF RowsIn
<1>4. rows \in Seq(RowsIn(rows))
  BY <1>1, <1>3, SeqDef
<1>5. RowsIn(rows) \in SUBSET RowRecords
  BY <1>2 DEF RowsIn
<1> QED
  BY <1>4, <1>5

LEMMA DirtyIsTyped ==
  ASSUME NEW rows \in RowLists, NEW ed, Compared(ed, rows), NEW row \in RowsIn(rows), Sends(row, ed)
  PROVE  ed.edits[row.id] # NoValue /\ CellValue(row, ed.edits) = ed.edits[row.id]
BY DEF Compared, RowsIn, Sends, IsDirty, CellValue

\* A save that was not under way before is one that is sent now.
LEMMA NewIsSent ==
  ASSUME NEW cs \in Seq(Commits), NEW xs \in Seq(Commits),
         \A k \in DOMAIN xs : \E m \in DOMAIN cs : xs[k] = cs[m],
         NEW row \in RowRecords, NEW ed \in Editors, NEW turn \in Nat,
         NEW i \in DOMAIN (xs \o Sent(row, ed, turn)), Awaiting((xs \o Sent(row, ed, turn))[i], cs) = 0
  PROVE  /\ Sends(row, ed)
         /\ (xs \o Sent(row, ed, turn))[i].row = row.id
         /\ (xs \o Sent(row, ed, turn))[i].value = CellValue(row, ed.edits)
<1> DEFINE t == Sent(row, ed, turn)
           d == (xs \o t)[i]
           A == {k \in DOMAIN cs : cs[k] = d}
<1>1. t \in Seq(Commits) /\ xs \o t \in Seq(Commits) /\ Len(xs \o t) = Len(xs) + Len(t)
  <2>1. t \in Seq(Commits)
    BY SaveIs
  <2> HIDE DEF t
  <2> QED
    BY <2>1, ConcatProperties
<1>2. A = {}
  <2>1. IsFiniteSet(DOMAIN cs) /\ A \in SUBSET DOMAIN cs
    BY LenProperties, FS_Interval
  <2>2. IsFiniteSet(A) /\ Cardinality(A) = 0
    BY <2>1, FS_Subset DEF Awaiting
  <2> QED
    BY <2>2, FS_EmptySet
<1>3. i \in 1..(Len(xs) + Len(t)) /\ Len(xs) \in Nat /\ Len(t) \in Nat /\ DOMAIN xs = 1..Len(xs)
  BY <1>1, LenProperties
<1>4. d = IF i <= Len(xs) THEN xs[i] ELSE t[i - Len(xs)]
  BY <1>1, <1>3, ConcatProperties
<1> HIDE DEF t, d, A
<1>5. i > Len(xs)
  <2> SUFFICES ASSUME i <= Len(xs) PROVE FALSE
    BY <1>3
  <2>1. i \in DOMAIN xs /\ d = xs[i]
    BY <1>3, <1>4
  <2> QED
    BY <1>2, <2>1 DEF A
<1>6. d = t[i - Len(xs)] /\ i - Len(xs) \in 1..Len(t)
  BY <1>3, <1>4, <1>5
<1> DEFINE c == [row |-> row.id, value |-> CellValue(row, ed.edits), turn |-> turn, state |-> "sent"]
<1>7. t = IF Sends(row, ed) THEN <<c>> ELSE <<>>
  BY DEF t, Sent
<1>8. c.row = row.id /\ c.value = CellValue(row, ed.edits)
  OBVIOUS
<1> HIDE DEF c
<1>9. Sends(row, ed) /\ d = c
  <2>1. CASE Sends(row, ed)
    <3>1. t = <<c>> /\ i - Len(xs) = 1
      BY <1>6, <1>7, <2>1
    <3> QED
      BY <1>6, <2>1, <3>1
  <2>2. CASE ~Sends(row, ed)
    BY <1>6, <1>7, <2>2
  <2> QED
    BY <2>1, <2>2
<1> QED
  BY <1>8, <1>9 DEF d, t

\* The editor once the answer to a save has come.
LEMMA FinishedIs ==
  ASSUME NEW rows \in RowLists, NEW new \in RowLists, editor \in Editors, NEW c \in Commits,
         new = WithValue(rows, c.row, c.value)
  PROVE  /\ Finished(c, new) \in Editors
         /\ Finished(c, new).edits = [editor.edits EXCEPT ![c.row] = NoValue]
         /\ Inline => Compared(Finished(c, new), new)
<1> DEFINE rebased == Rebased(editor, new)
           ed == Finished(c, new)
<1>1. /\ rebased \in Editors /\ rebased.edits = editor.edits
      /\ Inline => \A i \in DOMAIN new : rebased.baseline[new[i].id] = new[i].value
  BY RebasedIs
<1>2. c.row \in RowIds /\ c.value \in Values
  BY DEF Commits
<1>3. ed = [rebased EXCEPT !.edits[c.row] = NoValue, !.baseline[c.row] = c.value, !.saving = FALSE]
  BY DEF Finished
<1> HIDE DEF rebased, ed
<1>4. /\ ed \in Editors
      /\ ed.edits = [rebased.edits EXCEPT ![c.row] = NoValue]
      /\ ed.baseline = [rebased.baseline EXCEPT ![c.row] = c.value]
  BY <1>1, <1>2, <1>3 DEF Editors
<1>5. ASSUME Inline, NEW i \in DOMAIN new PROVE ed.baseline[new[i].id] = new[i].value
  <2>1. new[i] \in RowRecords /\ new[i].id \in RowIds
    BY <1>5, ElementOfSeq, LenProperties, RecordType DEF RowLists
  <2>2. new[i].id = c.row => new[i].value = c.value
    <3>1. DOMAIN new = DOMAIN rows
      BY <1>2, WithValueIs
    <3>2. new[i] = IF rows[i].id = c.row THEN Row(c.row, c.value) ELSE rows[i]
      BY <1>5, <3>1 DEF WithValue
    <3> QED
      BY <3>2 DEF Row
  <2>3. rebased.baseline \in [RowIds -> Values \cup {NoValue}]
    BY <1>1 DEF Editors
  <2>4. ed.baseline[new[i].id] = IF new[i].id = c.row THEN c.value ELSE rebased.baseline[new[i].id]
    BY <1>4, <2>1, <2>3
  <2> QED
    BY <1>1, <1>5, <2>2, <2>4
<1> QED
  BY <1>1, <1>4, <1>5 DEF Compared, ed

SendsTyped ==
  \A i \in DOMAIN commits' :
    Inline /\ commits'[i].state = "sent" /\ Awaiting(commits'[i], commits) = 0 =>
      editor.edits[commits'[i].row] = commits'[i].value

LEMMA OldSavesOnly ==
  ASSUME commits \in Seq(Commits),
         \A i \in DOMAIN commits' : commits'[i].state = "done" \/ \E m \in DOMAIN commits : commits'[i] = commits[m]
  PROVE  SendsTyped
<1> SUFFICES ASSUME NEW i \in DOMAIN commits', commits'[i].state = "sent", Awaiting(commits'[i], commits) = 0
             PROVE  FALSE
  BY DEF SendsTyped
<1>0. PICK m \in DOMAIN commits : commits'[i] = commits[m]
  OBVIOUS
<1> DEFINE A == {k \in DOMAIN commits : commits[k] = commits'[i]}
<1>1. IsFiniteSet(DOMAIN commits) /\ A \in SUBSET DOMAIN commits /\ m \in A
  BY <1>0, LenProperties, FS_Interval
<1>2. IsFiniteSet(A) /\ Cardinality(A) = 0
  BY <1>1, FS_Subset DEF Awaiting
<1> HIDE DEF A
<1> QED
  BY <1>1, <1>2, FS_EmptySet

LEMMA SentIsTyped ==
  ASSUME commits \in Seq(Commits), NEW rows \in RowLists, NEW ed \in Editors, Inline => Compared(ed, rows),
         NEW row \in RowsIn(rows), NEW turn \in Nat, NEW xs \in Seq(Commits),
         \A k \in DOMAIN xs : \E m \in DOMAIN commits : xs[k] = commits[m],
         commits' = xs \o Sent(row, ed, turn),
         \A id \in RowIds : ed.edits[id] # NoValue => ed.edits[id] = editor.edits[id]
  PROVE  SendsTyped
<1> SUFFICES ASSUME NEW i \in DOMAIN commits', Inline, Awaiting(commits'[i], commits) = 0
             PROVE  editor.edits[commits'[i].row] = commits'[i].value
  BY DEF SendsTyped
<1>1. row \in RowRecords /\ row.id \in RowIds
  BY RowsInAre, RecordType
<1>2. Sends(row, ed) /\ commits'[i].row = row.id /\ commits'[i].value = CellValue(row, ed.edits)
  BY <1>1, NewIsSent, SMTT(20)
<1>3. ed.edits[row.id] # NoValue /\ CellValue(row, ed.edits) = ed.edits[row.id]
  BY <1>2, DirtyIsTyped
<1> QED
  BY <1>1, <1>2, <1>3

\* What an answer or a failure leaves of the saves.
LeftBy(i) == SubSeq(commits, 1, i - 1) \o SubSeq(commits, i + 1, Len(commits))

LEMMA LeftOver ==
  ASSUME commits \in Seq(Commits), NEW i \in DOMAIN commits
  PROVE  /\ LeftBy(i) \in Seq(Commits)
         /\ \A k \in DOMAIN LeftBy(i) : \E m \in DOMAIN commits : LeftBy(i)[k] = commits[m]
<1> DEFINE left == LeftBy(i)
<1>1. /\ left \in Seq(Commits) /\ Len(left) = Len(commits) - 1
      /\ \A k \in 1..(Len(commits) - 1) : left[k] = IF k < i THEN commits[k] ELSE commits[k + 1]
  BY RemovedIs DEF LeftBy
<1> HIDE DEF left
<1>2. DOMAIN left = 1..(Len(commits) - 1) /\ DOMAIN commits = 1..Len(commits) /\ Len(commits) \in Nat
  BY <1>1, LenProperties
<1>3. ASSUME NEW k \in DOMAIN left PROVE \E m \in DOMAIN commits : left[k] = commits[m]
  <2>1. k \in DOMAIN commits /\ k + 1 \in DOMAIN commits
    BY <1>2
  <2> QED
    BY <1>1, <1>2, <2>1
<1> QED
  BY <1>1, <1>3 DEF left

LEMMA SaveEndsCompare ==
  ASSUME TileInv, BaselineInv, NEW i \in DOMAIN commits, SaveAnswered(i) \/ SaveFailed(i)
  PROVE  BaselineInv' /\ SendsTyped
<1> DEFINE left == LeftBy(i)
           c == commits[i]
<1>0. commits \in Seq(Commits) /\ c \in Commits /\ editor \in Editors /\ items \in RowLists /\ view \in Views
  BY TileTypes, ElementOfSeq, LenProperties
<1> HIDE DEF left
<1>1. left \in Seq(Commits) /\ \A k \in DOMAIN left : \E m \in DOMAIN commits : left[k] = commits[m]
  BY <1>0, LeftOver DEF left
<1>2. Inline' <=> Inline
  BY DEF SaveAnswered, SaveFailed, Inline
<1>3. CASE SaveFailed(i)
  <2>1. commits' = left /\ UNCHANGED items /\ editor'.baseline = editor.baseline
    BY <1>0, <1>3 DEF SaveFailed, Editors, left, LeftBy
  <2>2. SendsTyped
    BY <1>0, <1>1, <2>1, OldSavesOnly
  <2> QED
    BY <1>2, <2>1, <2>2 DEF BaselineInv, Compared
<1>4. CASE SaveAnswered(i)
  <2> DEFINE ed == Finished(c, items')
  <2>1. /\ items' = WithValue(items, c.row, c.value) /\ view' = Settled(items', view)
        /\ GoOn(c, ed, items', view', i)
    BY <1>4 DEF SaveAnswered
  <2> HIDE DEF c
  <2>2. c.row \in RowIds /\ c.value \in Values /\ c.turn \in Nat
    BY <1>0 DEF Commits
  <2>3. items' \in RowLists /\ view' \in Views
    BY <1>0, <2>1, <2>2, WithValueIs, SettledIs
  <2>4. /\ ed \in Editors /\ ed.edits = [editor.edits EXCEPT ![c.row] = NoValue]
        /\ Inline => Compared(ed, items')
    BY <1>0, <2>1, <2>3, FinishedIs
  <2> HIDE DEF ed
  <2>5. \A id \in RowIds : ed.edits[id] # NoValue => ed.edits[id] = editor.edits[id]
    BY <1>0, <2>2, <2>4 DEF Editors
  <2>6. CASE NextRound(ed, items', view', c.turn)
    <3> DEFINE row == FirstDirty(ed, items', view')
    <3>1. editor' = Saving(row, ed) /\ commits' = left \o Sent(row, ed, c.turn + 1)
      BY <2>1, <2>6 DEF GoOn, left, LeftBy
    <3>2. row \in RowsIn(items')
      BY <2>3, <2>6, RowsInAre, FirstDirtyIs DEF NextRound
    <3> HIDE DEF row
    <3>3. row \in RowRecords /\ c.turn + 1 \in Nat
      BY <2>2, <2>3, <3>2, RowsInAre
    <3>4. editor'.baseline = ed.baseline
      BY <2>4, <3>1, <3>3, SaveIs
    <3>5. SendsTyped
      BY <1>0, <1>1, <2>3, <2>4, <2>5, <3>1, <3>2, <3>3, SentIsTyped
    <3> QED
      BY <1>2, <2>4, <3>4, <3>5 DEF BaselineInv, Compared
  <2>7. CASE ~NextRound(ed, items', view', c.turn)
    <3>1. editor' = ed /\ commits' = left
      BY <2>1, <2>7 DEF GoOn, left, LeftBy
    <3>2. SendsTyped
      BY <1>0, <1>1, <3>1, OldSavesOnly
    <3> QED
      BY <1>2, <2>4, <3>1, <3>2 DEF BaselineInv, Compared
  <2> QED
    BY <2>6, <2>7
<1> QED
  BY <1>3, <1>4

LEMMA EditCompares ==
  ASSUME TileInv, BaselineInv, EditNext
  PROVE  BaselineInv' /\ SendsTyped
<1>0. /\ commits \in Seq(Commits) /\ editor \in Editors /\ items \in RowLists /\ view \in Views
      /\ \A k \in DOMAIN commits : \E m \in DOMAIN commits : commits[k] = commits[m]
  BY TileTypes
<1>1. ASSUME UNCHANGED <<table, items>>, editor'.baseline = editor.baseline PROVE BaselineInv'
  BY <1>1 DEF BaselineInv, Compared, Inline
<1>2. CASE OpenModal \/ CloseModal
  <2>1. SendsTyped
    BY <1>0, <1>2, OldSavesOnly DEF OpenModal, CloseModal
  <2>2. CASE OpenModal
    BY <2>1, <2>2 DEF OpenModal, BaselineInv, Inline
  <2>3. CASE CloseModal
    BY <1>0, <1>1, <2>1, <2>3 DEF CloseModal, Editors
  <2> QED
    BY <1>2, <2>2, <2>3
<1>3. ASSUME NEW id, NEW value, SetCellValue(id, value) PROVE BaselineInv' /\ SendsTyped
  <2>1. SendsTyped
    BY <1>0, <1>3, OldSavesOnly DEF SetCellValue
  <2> QED
    BY <1>0, <1>1, <1>3, <2>1 DEF SetCellValue, Editors
<1>4. ASSUME NEW row \in RowsIn(items), NEW turn \in Nat, UNCHANGED <<table, items>>,
             editor' = Saving(row, editor), commits' = commits \o Sent(row, editor, turn)
      PROVE  BaselineInv' /\ SendsTyped
  <2>1. row \in RowRecords
    BY <1>0, RowsInAre
  <2>2. editor'.baseline = editor.baseline
    BY <1>0, <1>4, <2>1, SaveIs
  <2>3. SendsTyped
    BY <1>0, <1>4, SentIsTyped DEF BaselineInv
  <2> QED
    BY <1>1, <1>4, <2>2, <2>3
<1>5. ASSUME NEW id, SaveRow(id) PROVE BaselineInv' /\ SendsTyped
  BY <1>4, <1>5 DEF SaveRow, RowsIn
<1>6. CASE SaveAllDirty
  <2>1. FirstDirty(editor, items, view) \in RowsIn(items)
    BY <1>0, <1>6, RowsInAre, FirstDirtyIs DEF SaveAllDirty
  <2> QED
    BY <1>4, <1>6, <2>1 DEF SaveAllDirty
<1>7. ASSUME NEW i \in DOMAIN commits, SaveAnswered(i) \/ SaveFailed(i) PROVE BaselineInv' /\ SendsTyped
  BY <1>7, SaveEndsCompare
<1> QED
  BY <1>2, <1>3, <1>5, <1>6, <1>7 DEF EditNext

LEMMA TileCompares ==
  ASSUME TileInv, BaselineInv, TileNext
  PROVE  BaselineInv' /\ SendsTyped
<1>0. /\ commits \in Seq(Commits) /\ editor \in Editors /\ items \in RowLists
      /\ \A k \in DOMAIN commits : \E m \in DOMAIN commits : commits[k] = commits[m]
  BY TileTypes
<1>1. ASSUME UNCHANGED <<table, items, editor, commits>> PROVE BaselineInv' /\ SendsTyped
  BY <1>0, <1>1, OldSavesOnly DEF BaselineInv, Compared, Inline
<1>2. CASE BrowseNext
  BY <1>1, <1>2 DEF BrowseNext, Search, OnHeaderSort, TurnPage, GotoPageSubmit, ChangePageSize, ToggleAllRows,
                    SetView
<1>3. CASE Reload \/ ServerChanges \/ Revision \/ ListEvent
  BY <1>1, <1>3 DEF Reload, ServerChanges, Revision, ListEvent, tableVars
<1>4. ASSUME NEW i \in DOMAIN fetches, ServerAnswers(i) \/ LoadFailed(i) PROVE BaselineInv' /\ SendsTyped
  BY <1>1, <1>4 DEF ServerAnswers, LoadFailed, tableVars
<1>5. ASSUME NEW i \in DOMAIN fetches, ApplyItems(i) PROVE BaselineInv' /\ SendsTyped
  <2>1. fetches[i] \in Fetches /\ fetches[i].rows \in RowLists
    <3>1. fetches[i] \in Fetches
      BY <1>5, TileTypes, ElementOfSeq, LenProperties
    <3> QED
      BY <3>1 DEF Fetches
  <2>2. /\ items' = fetches[i].rows /\ editor' = Rebased(editor, fetches[i].rows)
        /\ UNCHANGED <<table, commits>>
    BY <1>5 DEF ApplyItems, Receive
  <2>3. SendsTyped
    BY <1>0, <2>2, OldSavesOnly
  <2>4. Inline => Compared(editor', items')
    BY <1>0, <2>1, <2>2, RebasedIs DEF Compared
  <2> QED
    BY <2>2, <2>3, <2>4 DEF BaselineInv, Compared, Inline
<1>6. ASSUME NEW i \in DOMAIN commits, PatchHandled(i) PROVE BaselineInv' /\ SendsTyped
  <2>1. commits' = [commits EXCEPT ![i].state = "done"] /\ UNCHANGED <<table, items, editor>>
    BY <1>6 DEF PatchHandled
  <2>2. commits[i] \in Commits /\ DOMAIN commits' = DOMAIN commits
    BY <1>0, <1>6, <2>1, ElementOfSeq, LenProperties
  <2>3. \A k \in DOMAIN commits' : commits'[k].state = "done" \/ commits'[k] = commits[k]
    BY <2>1, <2>2 DEF Commits
  <2>4. SendsTyped
    BY <1>0, <2>2, <2>3, OldSavesOnly
  <2> QED
    BY <2>1, <2>4 DEF BaselineInv, Compared, Inline
<1>7. CASE EditNext
  BY <1>7, EditCompares
<1> QED
  BY <1>2, <1>3, <1>4, <1>5, <1>6, <1>7 DEF TileNext, ServerNext

LEMMA FewerAwaited ==
  ASSUME commits \in Seq(Commits), NEW i \in DOMAIN commits,
         NEW t \in Seq(Commits), \A k \in DOMAIN t : t[k] # commits[i]
  PROVE  Awaiting(commits[i], LeftBy(i) \o t) < Awaiting(commits[i], commits)
<1> DEFINE c == commits[i]
           n == Len(commits)
           left == LeftBy(i)
           cs == left \o t
           A == {k \in DOMAIN commits : commits[k] = c}
           B == {k \in DOMAIN cs : cs[k] = c}
           f == [k \in B |-> IF k < i THEN k ELSE k + 1]
<1>1. /\ left \in Seq(Commits) /\ Len(left) = n - 1
      /\ \A k \in 1..(n - 1) : left[k] = IF k < i THEN commits[k] ELSE commits[k + 1]
  BY RemovedIs DEF LeftBy
<1>2. n \in Nat /\ DOMAIN commits = 1..n /\ i \in 1..n
  BY LenProperties
<1> HIDE DEF left, n
<1>3. /\ cs \in Seq(Commits) /\ Len(cs) = (n - 1) + Len(t) /\ Len(t) \in Nat
      /\ \A k \in 1..((n - 1) + Len(t)) : cs[k] = IF k <= n - 1 THEN left[k] ELSE t[k - (n - 1)]
  <2>1. Len(t) \in Nat /\ cs \in Seq(Commits) /\ Len(cs) = Len(left) + Len(t)
    BY <1>1, ConcatProperties, LenProperties
  <2>2. \A k \in 1..(Len(left) + Len(t)) : cs[k] = IF k <= Len(left) THEN left[k] ELSE t[k - Len(left)]
    BY <1>1, ConcatProperties
  <2> HIDE DEF cs
  <2> QED
    BY <1>1, <2>1, <2>2
<1>4. DOMAIN cs = 1..((n - 1) + Len(t)) /\ DOMAIN t = 1..Len(t)
  BY <1>3, LenProperties
<1> HIDE DEF cs, c
<1>5. ASSUME NEW k \in B PROVE k \in 1..(n - 1) /\ f[k] \in A \ {i}
  <2>1. k \in 1..((n - 1) + Len(t)) /\ cs[k] = c
    BY <1>4
  <2>2. k <= n - 1
    <3> SUFFICES ASSUME ~(k <= n - 1) PROVE FALSE
      OBVIOUS
    <3>1. k - (n - 1) \in DOMAIN t
      BY <1>2, <1>3, <1>4, <2>1
    <3>2. t[k - (n - 1)] = c
      BY <1>3, <2>1
    <3> QED
      BY <3>1, <3>2 DEF c
  <2>3. k \in 1..(n - 1)
    <3> DEFINE m == Len(t)
    <3>1. m \in Nat /\ k \in 1..((n - 1) + m)
      BY <1>3, <2>1
    <3> HIDE DEF m
    <3> QED
      BY <1>2, <2>2, <3>1
  <2>5. left[k] = c
    <3>1. cs[k] = IF k <= n - 1 THEN left[k] ELSE t[k - (n - 1)]
      BY <1>3, <2>1
    <3> QED
      BY <2>1, <2>2, <3>1
  <2>4. f[k] \in 1..n /\ f[k] # i /\ commits[f[k]] = left[k]
    BY <1>1, <1>2, <2>3
  <2> QED
    BY <1>2, <2>3, <2>4, <2>5
<1>6. f \in Injection(B, A \ {i})
  <2>1. f \in [B -> A \ {i}]
    BY <1>5
  <2>2. \A k, l \in B : f[k] = f[l] => k = l
    <3>1. \A k \in B : k \in Int
      BY <1>5
    <3>2. i \in Int
      BY <1>2
    <3> QED
      BY <3>1, <3>2
  <2> HIDE DEF f, B, A
  <2> QED
    BY <2>1, <2>2 DEF Injection, IsInjective
<1> HIDE DEF f
<1>7. IsFiniteSet(A) /\ i \in A
  <2>1. IsFiniteSet(1..n) /\ A \in SUBSET (1..n)
    BY <1>2, FS_Interval
  <2>2. i \in A
    BY <1>2 DEF c
  <2> HIDE DEF A
  <2> QED
    BY <2>1, <2>2, FS_Subset
<1>8. Awaiting(commits[i], LeftBy(i) \o t) = Cardinality(B) /\ Awaiting(commits[i], commits) = Cardinality(A)
  BY DEF Awaiting, cs, left, c
<1> HIDE DEF A, B
<1>9. /\ IsFiniteSet(A \ {i}) /\ Cardinality(A \ {i}) = Cardinality(A) - 1
      /\ Cardinality(A) \in Nat
  BY <1>7, FS_RemoveElement, FS_CardinalityType
<1>10. Cardinality(B) <= Cardinality(A \ {i}) /\ Cardinality(B) \in Nat
  BY <1>6, <1>9, FS_Injection, FS_CardinalityType
<1> QED
  BY <1>8, <1>9, <1>10

EditsKept ==
  \A id \in RowIds : editor.edits[id] # NoValue /\ editor'.edits[id] = NoValue =>
    \/ editor'.open /\ ~editor.open
    \/ \E i \in DOMAIN commits : /\ commits[i].row = id /\ commits[i].state = "done"
                                 /\ Awaiting(commits[i], commits') < Awaiting(commits[i], commits)

LEMMA SaveEndsLose ==
  ASSUME TileInv, NEW i \in DOMAIN commits, SaveAnswered(i)
  PROVE  EditsKept
<1> DEFINE left == LeftBy(i)
           c == commits[i]
           ed == Finished(c, items')
<1>0. commits \in Seq(Commits) /\ c \in Commits /\ editor \in Editors /\ items \in RowLists /\ view \in Views
  BY TileTypes, ElementOfSeq, LenProperties
<1>1. left \in Seq(Commits)
  BY <1>0, LeftOver
<1>2. /\ c.state = "done" /\ items' = WithValue(items, c.row, c.value) /\ view' = Settled(items', view)
      /\ GoOn(c, ed, items', view', i)
  BY DEF SaveAnswered
<1>3. c.row \in RowIds /\ c.value \in Values /\ c.turn \in Nat
  BY <1>0 DEF Commits
<1> HIDE DEF c
<1>4. items' \in RowLists /\ view' \in Views
  BY <1>0, <1>2, <1>3, WithValueIs, SettledIs
<1>5. ed \in Editors /\ ed.edits = [editor.edits EXCEPT ![c.row] = NoValue]
  <2>1. items' = WithValue(items, c.row, c.value)
    BY <1>2
  <2> HIDE DEF left
  <2> QED
    BY <1>0, <1>4, <2>1, FinishedIs
<1> HIDE DEF ed
<1>6. \E t \in Seq(Commits) : /\ commits' = left \o t /\ editor'.edits = ed.edits
                              /\ \A k \in DOMAIN t : t[k].state = "sent"
  <2>1. CASE NextRound(ed, items', view', c.turn)
    <3> DEFINE row == FirstDirty(ed, items', view')
               t == Sent(row, ed, c.turn + 1)
    <3>1. editor' = Saving(row, ed) /\ commits' = left \o t
      BY <1>2, <2>1 DEF GoOn, LeftBy
    <3>2. row \in RowRecords /\ c.turn + 1 \in Nat
      BY <1>3, <1>4, <2>1, RowsInAre, FirstDirtyIs DEF NextRound
    <3> HIDE DEF row
    <3>3. t \in Seq(Commits) /\ editor'.edits = ed.edits
      BY <1>5, <3>1, <3>2, SaveIs
    <3>4. \A k \in DOMAIN t : t[k].state = "sent"
      BY DEF Sent
    <3> HIDE DEF t
    <3> QED
      BY <3>1, <3>3, <3>4
  <2>2. CASE ~NextRound(ed, items', view', c.turn)
    <3>1. editor' = ed /\ commits' = left
      BY <1>2, <2>2 DEF GoOn, LeftBy
    <3>2. left \o <<>> = left /\ <<>> \in Seq(Commits) /\ DOMAIN <<>> = {}
      BY <1>1, ConcatEmptySeq
    <3> QED
      BY <3>1, <3>2
  <2> QED
    BY <2>1, <2>2
<1>7. PICK t \in Seq(Commits) : /\ commits' = left \o t /\ editor'.edits = ed.edits
                                /\ \A k \in DOMAIN t : t[k].state = "sent"
  BY <1>6
<1>8. \A k \in DOMAIN t : t[k] # commits[i]
  BY <1>2, <1>7 DEF c
<1>9. Awaiting(commits[i], commits') < Awaiting(commits[i], commits)
  BY <1>0, <1>7, <1>8, FewerAwaited
<1>10. ASSUME NEW id \in RowIds, editor.edits[id] # NoValue, editor'.edits[id] = NoValue PROVE id = c.row
  BY <1>0, <1>3, <1>5, <1>7, <1>10 DEF Editors
<1> QED
  BY <1>2, <1>9, <1>10 DEF EditsKept, c

LEMMA EditLoses ==
  ASSUME TileInv, EditNext
  PROVE  EditsKept
<1>0. /\ editor \in Editors /\ items \in RowLists /\ view \in Views
      /\ editor.edits \in [RowIds -> Values \cup {NoValue, BadValue}]
  BY TileTypes DEF Editors
<1>1. ASSUME editor'.edits = editor.edits PROVE EditsKept
  BY <1>1 DEF EditsKept
<1>2. CASE OpenModal
  BY <1>2 DEF OpenModal, EditsKept
<1>3. CASE CloseModal
  <2>1. editor'.edits = editor.edits
    BY <1>0, <1>3 DEF CloseModal, Editors
  <2> QED
    BY <1>1, <2>1
<1>4. ASSUME NEW id \in RowIds, NEW value \in Values \cup {BadValue}, SetCellValue(id, value) PROVE EditsKept
  <2>1. editor'.edits = [editor.edits EXCEPT ![id] = value]
    BY <1>0, <1>4 DEF SetCellValue, Editors
  <2>2. value # NoValue
    BY RowsAssumption
  <2> QED
    BY <1>0, <2>1, <2>2 DEF EditsKept
<1>5. ASSUME NEW row \in RowRecords, editor' = Saving(row, editor) PROVE EditsKept
  BY <1>0, <1>1, <1>5, SaveIs, 0 \in Nat
<1>6. ASSUME NEW id \in RowIds, SaveRow(id) PROVE EditsKept
  <2>1. \E row \in RowsIn(items) : editor' = Saving(row, editor)
    BY <1>6 DEF SaveRow, RowsIn
  <2> QED
    BY <1>0, <1>5, <2>1, RowsInAre
<1>7. CASE SaveAllDirty
  <2>1. FirstDirty(editor, items, view) \in RowRecords
    BY <1>0, <1>7, RowsInAre, FirstDirtyIs DEF SaveAllDirty
  <2> QED
    BY <1>5, <1>7, <2>1 DEF SaveAllDirty
<1>8. ASSUME NEW i \in DOMAIN commits, SaveFailed(i) PROVE EditsKept
  <2>1. editor'.edits = editor.edits
    BY <1>0, <1>8 DEF SaveFailed, Editors
  <2> QED
    BY <1>1, <2>1
<1>9. ASSUME NEW i \in DOMAIN commits, SaveAnswered(i) PROVE EditsKept
  BY <1>9, SaveEndsLose
<1> QED
  BY <1>2, <1>3, <1>4, <1>6, <1>7, <1>8, <1>9 DEF EditNext

LEMMA TileLoses ==
  ASSUME TileInv, TileNext
  PROVE  EditsKept
<1>1. ASSUME editor'.edits = editor.edits PROVE EditsKept
  BY <1>1 DEF EditsKept
<1>2. CASE BrowseNext
  BY <1>1, <1>2 DEF BrowseNext, Search, OnHeaderSort, TurnPage, GotoPageSubmit, ChangePageSize, ToggleAllRows,
                    SetView
<1>3. CASE Reload \/ ServerNext
  BY <1>1, <1>3 DEF Reload, ServerNext, ServerAnswers, PatchHandled, ServerChanges, Revision, ListEvent, tableVars
<1>4. ASSUME NEW i \in DOMAIN fetches, ApplyItems(i) PROVE EditsKept
  <2>1. fetches[i] \in Fetches
    BY <1>4, TileTypes, ElementOfSeq, LenProperties
  <2>2. fetches[i].rows \in RowLists /\ editor \in Editors
    BY <2>1, TileTypes DEF Fetches
  <2>3. editor' = Rebased(editor, fetches[i].rows)
    BY <1>4 DEF ApplyItems, Receive
  <2> QED
    BY <1>1, <2>2, <2>3, RebasedIs
<1>5. ASSUME NEW i \in DOMAIN fetches, LoadFailed(i) PROVE EditsKept
  BY <1>1, <1>5 DEF LoadFailed
<1>6. CASE EditNext
  BY <1>6, EditLoses
<1> QED
  BY <1>2, <1>3, <1>4, <1>5, <1>6 DEF TileNext

LEMMA PagesKeepBaseline ==
  ASSUME TileInv, BaselineInv, [Next]_pageVars
  PROVE  BaselineInv' /\ (UNCHANGED tableVars \/ SendsTyped)
<1>1. CASE UNCHANGED tableVars
  BY <1>1 DEF tableVars, BaselineInv, Compared, Inline
<1>2. CASE Tile
  BY <1>2, TileCompares DEF Tile
<1> QED
  BY <1>1, <1>2 DEF Next, Logs, Scan, pageVars, tileVars

LEMMA PagesLose ==
  ASSUME TileInv, [Next]_pageVars
  PROVE  UNCHANGED tableVars \/ EditsKept
BY TileLoses DEF Next, Tile, Logs, Scan, pageVars, tileVars

\* An inline table sends what the user typed and nothing else. That takes more than the guard of the
\* save button: a cell is dirty against a baseline, and only because the baseline follows every
\* list, answer and round of Save all is a dirty cell one that was typed in.
THEOREM OnlyTypedIsSent == Spec => TypedOnlySent
<1> DEFINE Inv == TileInv /\ BaselineInv
<1>1. Init => Inv
  <2>1. TableInit => BaselineInv
    <3> SUFFICES ASSUME TableInit PROVE BaselineInv
      OBVIOUS
    <3>1. DOMAIN items = {}
      BY EmptySeq DEF TableInit
    <3> QED
      BY <3>1 DEF BaselineInv, Compared
  <2> QED
    BY <2>1, TileStarts DEF Init, TileInit
<1>2. Inv /\ [Next]_pageVars => Inv' /\ [SendsTyped]_tableVars
  BY PagesKeepTile, PagesKeepBaseline
<1>3. [SendsTyped]_tableVars =>
        [\A i \in DOMAIN commits' :
           Inline /\ commits'[i].state = "sent" /\ Awaiting(commits'[i], commits) = 0 =>
             editor.edits[commits'[i].row] = commits'[i].value]_tableVars
  BY DEF SendsTyped
<1> QED
  BY <1>1, <1>2, <1>3, PTL DEF Spec, TypedOnlySent

\* What was typed in a cell is forgotten only when a save of its row was answered, or when the modal
\* is opened anew: no refresh, no failed save and no save of another row takes it away.
THEOREM TypedIsKept == Spec => EditsLostBySaveOnly
<1>1. Init => TileInv
  BY TileStarts DEF Init
<1>2. TileInv /\ [Next]_pageVars => TileInv' /\ [EditsKept]_tableVars
  BY PagesKeepTile, PagesLose
<1>3. [EditsKept]_tableVars =>
        [\A id \in RowIds : editor.edits[id] # NoValue /\ editor'.edits[id] = NoValue =>
           \/ editor'.open /\ ~editor.open
           \/ \E i \in DOMAIN commits : /\ commits[i].row = id /\ commits[i].state = "done"
                                        /\ Awaiting(commits[i], commits') < Awaiting(commits[i], commits)]_tableVars
  BY DEF EditsKept
<1> QED
  BY <1>1, <1>2, <1>3, PTL DEF Spec, EditsLostBySaveOnly
=============================================================================
