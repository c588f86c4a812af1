------------------------------- MODULE LogsPage -------------------------------
(***************************************************************************)
(* The log page (AdminLogsPage.svelte): a read-only data table that the    *)
(* server pages. Only the newest query may change what is shown; a query   *)
(* of a page gives up after eight seconds, "View all" never does.          *)
(*                                                                         *)
(* The filters are those of the moment a query is sent: a change of theirs *)
(* is a change of the number of matching records.                          *)
(***************************************************************************)
EXTENDS Pagination, FiniteSets

CONSTANTS
  Totals,        \* numbers of log records that may match
  QueryLimit,    \* page size of the first query and of "View all"
  LogPageSizes,  \* sizes the footer offers
  QuerySlots,    \* bound of the model: queries under way
  NoQuery

ASSUME LogsAssumption ==
  /\ Totals \subseteq Nat /\ LogPageSizes \subseteq Nat \ {0} /\ QueryLimit \in LogPageSizes

VARIABLES
  total,      \* records that match on the server
  queries,    \* the query in each slot
  shown,      \* what the rows shown were fetched for, and whether there are any
  pager,      \* serverPagingMode, currentPage, currentPageSize and totalPages
  logErr, logLoading,
  footer      \* of the table: showAllRows and its own page size

logVars == <<total, queries, shown, pager, logErr, logLoading, footer>>

Errors == {"none", "failed", "timeout", "cancelled"}
Request(all, page, size) == [all |-> all, page |-> page, size |-> size]
Query(request) == [request |-> request, active |-> TRUE, timer |-> ~request.all, retry |-> FALSE]

LogsTypeOK ==
  /\ total \in Totals
  /\ \A s \in QuerySlots : queries[s] # NoQuery => queries[s].request.size \in LogPageSizes
  /\ pager.page \in Nat \ {0} /\ pager.totalPages \in Nat \ {0} /\ pager.size \in LogPageSizes
  /\ logErr \in Errors /\ logLoading \in BOOLEAN /\ footer.size \in LogPageSizes
  /\ Cardinality({s \in QuerySlots : queries[s] # NoQuery /\ queries[s].active}) <= 1

\* onMount asks for the first page.
LogsInit ==
  /\ total \in Totals
  /\ \E s \in QuerySlots :
       queries = [t \in QuerySlots |-> IF t = s THEN Query(Request(FALSE, 1, QueryLimit)) ELSE NoQuery]
  /\ shown = [for |-> NoQuery, any |-> FALSE]
  /\ pager = [server |-> TRUE, page |-> 1, size |-> QueryLimit, totalPages |-> 1]
  /\ logErr = "none" /\ logLoading = TRUE
  /\ footer = [all |-> FALSE, size |-> QueryLimit]

-----------------------------------------------------------------------------
Superseded == [s \in QuerySlots |-> IF queries[s] = NoQuery THEN NoQuery ELSE [queries[s] EXCEPT !.active = FALSE]]

\* Deviant form, for a mutant: older queries are not superseded.
PlainAsk(request) ==
  /\ \E s \in QuerySlots : queries[s] = NoQuery /\ queries' = [queries EXCEPT ![s] = Query(request)]
  /\ logLoading' = TRUE /\ logErr' = "none"

\* A new query takes the newest id: every older one is superseded.
Ask(request) ==
  /\ \E s \in QuerySlots : queries[s] = NoQuery /\ queries' = [Superseded EXCEPT ![s] = Query(request)]
  /\ logLoading' = TRUE /\ logErr' = "none"

RunQuery(page, size) ==
  /\ Ask(Request(FALSE, page, size))
  /\ pager' = [pager EXCEPT !.server = TRUE, !.page = page, !.size = size]

LoadViewAll == Ask(Request(TRUE, 1, QueryLimit)) /\ UNCHANGED pager

\* Rows the server has for a request; "View all" asks for more than there ever are here.
HasRows(r) == IF r.all THEN total > 0 ELSE (r.page - 1) * r.size < total

Settle(s) == queries' = [queries EXCEPT ![s] = NoQuery]

\* An empty first page is asked for again, once, after a health check.
AskAgain(s) ==
  /\ queries[s] # NoQuery /\ ~queries[s].retry
  /\ ~queries[s].request.all /\ queries[s].request.page = 1 /\ ~HasRows(queries[s].request)
  /\ queries' = [queries EXCEPT ![s].retry = TRUE]
  /\ UNCHANGED <<total, shown, pager, logErr, logLoading, footer>>

\* Deviant form, for a mutant: the answer to a superseded query is shown too.
LateAnswered(s) ==
  /\ queries[s] # NoQuery /\ Settle(s)
  /\ shown' = [for |-> queries[s].request, any |-> HasRows(queries[s].request)] /\ logLoading' = FALSE
  /\ pager' = IF queries[s].request.all THEN [pager EXCEPT !.server = FALSE, !.page = 1, !.size = QueryLimit] ELSE pager
  /\ UNCHANGED <<total, logErr, footer>>

Answered(s) ==
  /\ queries[s] # NoQuery
  /\ LET q == queries[s]
     IN  /\ q.request.page = 1 /\ ~q.request.all => q.retry \/ HasRows(q.request)
         /\ IF q.active
            THEN /\ shown' = [for |-> q.request, any |-> HasRows(q.request)]
                 /\ pager' = IF q.request.all
                             THEN [pager EXCEPT !.server = FALSE, !.page = 1, !.size = QueryLimit]
                             ELSE [pager EXCEPT !.totalPages = PageCount(total, q.request.size)]
                 /\ logLoading' = FALSE
            ELSE UNCHANGED <<shown, pager, logLoading>>
  /\ Settle(s)
  /\ UNCHANGED <<total, logErr, footer>>

Failed(s) ==
  /\ queries[s] # NoQuery
  /\ IF queries[s].active THEN logErr' = "failed" /\ logLoading' = FALSE ELSE UNCHANGED <<logErr, logLoading>>
  /\ Settle(s)
  /\ UNCHANGED <<total, shown, pager, footer>>

\* Deviant form, for a mutant: the timer names the error and leaves the spinner.
SpinningTimeout(s) ==
  /\ queries[s] # NoQuery /\ queries[s].timer /\ queries[s].active
  /\ queries' = [queries EXCEPT ![s].timer = FALSE] /\ logErr' = "timeout"
  /\ UNCHANGED <<total, shown, pager, logLoading, footer>>

\* The timer of eight seconds; the query goes on and may still be answered.
TimedOut(s) ==
  /\ queries[s] # NoQuery /\ queries[s].timer /\ queries[s].active
  /\ queries' = [queries EXCEPT ![s].timer = FALSE]
  /\ logErr' = "timeout" /\ logLoading' = FALSE
  /\ UNCHANGED <<total, shown, pager, footer>>

CancelQuery ==
  /\ logLoading /\ queries' = Superseded
  /\ logLoading' = FALSE /\ logErr' = "cancelled"
  /\ UNCHANGED <<total, shown, pager, footer>>

-----------------------------------------------------------------------------
(* What the user does with the table. *)

Refresh == RunQuery(1, pager.size) /\ UNCHANGED <<total, shown, footer>>

ShownPage == ClampPage(pager.page, pager.totalPages)
LogPager == ~footer.all /\ pager.server /\ shown.any /\ pager.totalPages > 1

\* A page of the pager, or any page there is by its number (gotoPageSubmit), the one shown included.
OnServerPageChange ==
  /\ LogPager
  /\ \E page \in Offered(pager.totalPages, ShownPage) \cup 1..pager.totalPages : RunQuery(page, footer.size)
  /\ UNCHANGED <<total, shown, footer>>

ChangeLogPageSize ==
  /\ LogPager
  /\ \E size \in LogPageSizes : RunQuery(1, size) /\ footer' = [footer EXCEPT !.size = size]
  /\ UNCHANGED <<total, shown>>

ViewAll ==
  /\ ~footer.all /\ LoadViewAll
  /\ footer' = [footer EXCEPT !.all = TRUE] /\ UNCHANGED <<total, shown>>

ShowPaged ==
  /\ footer.all /\ footer' = [footer EXCEPT !.all = FALSE]
  /\ UNCHANGED <<total, queries, shown, pager, logErr, logLoading>>

\* Records are written, or the filters are changed before the next query.
LogsChange == total' \in Totals \ {total} /\ UNCHANGED <<queries, shown, pager, logErr, logLoading, footer>>

LogsNext ==
  \/ \E s \in QuerySlots : AskAgain(s) \/ Answered(s) \/ Failed(s) \/ TimedOut(s)
  \/ CancelQuery \/ Refresh \/ OnServerPageChange \/ ChangeLogPageSize \/ ViewAll \/ ShowPaged
  \/ LogsChange

-----------------------------------------------------------------------------
(* When the page shows neither a spinner nor an error, the rows are those  *)
(* of the page and the size the pager names, or of "View all": no answer   *)
(* of an older query has replaced them.                                    *)
LogsMatchPager ==
  ~logLoading /\ logErr = "none" =>
    shown.for = Request(~pager.server, pager.page, pager.size)
=============================================================================
