----------------------------- MODULE MCLivePages ------------------------------
(* Five tables, each set up for another part of what pages mount.          *)
EXTENDS LivePages

MCRowIds == {"r1", "r2"}
MCValues == {1, 2}

One(v) == <<Row("r1", v)>>
Two(v, w) == <<Row("r1", v), Row("r2", w)>>

Plain ==
  [interaction |-> "inline", live |-> FALSE, pushes |-> FALSE, refresh |-> FALSE, changes |-> FALSE,
   edit |-> FALSE, validated |-> FALSE, sort |-> FALSE, filter |-> FALSE, paging |-> FALSE,
   pageSize |-> 1, defaultSort |-> "none", lists |-> {Two(1, 2)}, fetches |-> 1, saves |-> 2]

\* Inline edits under a ticking topic, on a server only they change.
LiveInline == [Plain EXCEPT !.live = TRUE, !.edit = TRUE]
\* The modal, whose baseline ages while the row changes on the server.
LiveModal ==
  [Plain EXCEPT !.interaction = "modal", !.live = TRUE, !.edit = TRUE, !.changes = TRUE,
                !.lists = {One(1), One(2)}, !.saves = 1]
\* Two requests on their way, and a row that comes and goes.
LiveRacing ==
  [Plain EXCEPT !.live = TRUE, !.edit = TRUE, !.changes = TRUE, !.lists = {One(1), <<>>}, !.fetches = 2]
\* Search, sort and pages of a list that grows and shrinks.
Browsing ==
  [Plain EXCEPT !.changes = TRUE, !.refresh = TRUE, !.pushes = TRUE, !.sort = TRUE, !.filter = TRUE,
                !.paging = TRUE, !.defaultSort = "asc", !.lists = {Two(1, 2), One(1)}, !.fetches = 2]
\* Editing a page at a time, with a validator.
PagedEditing == [Plain EXCEPT !.edit = TRUE, !.paging = TRUE, !.validated = TRUE]

MCTables == {LiveInline, LiveModal, LiveRacing, Browsing, PagedEditing}
=============================================================================
