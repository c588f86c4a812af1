------------------------------- MODULE ListTile -------------------------------
(***************************************************************************)
(* A list tile (DhcpClientsTile.svelte, DhcpReservationsTile.svelte): the  *)
(* rows of a data table, fetched once, refetched at every revision event   *)
(* (pluginDataBus.ts) and by the refresh button, and saved by a PATCH per  *)
(* row. Answers come in any order; every request may fail.                 *)
(***************************************************************************)
EXTENDS DataTable

VARIABLES
  server,       \* the rows the server holds
  fetches       \* list requests on their way, oldest first

tileVars == <<tableVars, server, fetches>>

Fetch(by, state, rows) == [by |-> by, state |-> state, rows |-> rows]
Fetches == [by : {"feed", "event", "reload"}, state : {"sent", "answered"}, rows : RowLists]

TileTypeOK ==
  /\ TableTypeOK
  /\ server \in RowLists
  /\ fetches \in Seq(Fetches) /\ Len(fetches) <= table.fetches

TileInit ==
  /\ TableInit /\ server \in table.lists
  /\ fetches = <<Fetch("feed", "sent", <<>>)>>

-----------------------------------------------------------------------------
Without(i) == SubSeq(fetches, 1, i - 1) \o SubSeq(fetches, i + 1, Len(fetches))

\* The server's side of a list request: it answers with the rows of that moment.
ServerAnswers(i) ==
  /\ fetches[i].state = "sent"
  /\ fetches' = [fetches EXCEPT ![i] = Fetch(@.by, "answered", server)]
  /\ UNCHANGED <<tableVars, server>>

ApplyItems(i) ==
  /\ fetches[i].state = "answered"
  /\ Receive(fetches[i].rows) /\ err' = FALSE /\ loading' = FALSE
  /\ fetches' = Without(i)
  /\ UNCHANGED <<table, commits, retyped, server>>

\* A failed refetch of the feed is swallowed; a failed reload shows its error.
LoadFailed(i) ==
  /\ fetches[i].state = "sent"
  /\ fetches' = Without(i)
  /\ IF fetches[i].by = "reload" THEN err' = TRUE /\ loading' = FALSE ELSE UNCHANGED <<err, loading>>
  /\ UNCHANGED <<table, items, view, editor, commits, retyped, server>>

\* Deviant form, for a mutant: the refetch is answered with the rows there are.
CachedRevision ==
  /\ table.live /\ Len(fetches) < table.fetches
  /\ fetches' = Append(fetches, Fetch("feed", "answered", items))
  /\ UNCHANGED <<tableVars, server>>

\* A revision event: fetch again.
Revision ==
  /\ table.live /\ Len(fetches) < table.fetches
  /\ fetches' = Append(fetches, Fetch("feed", "sent", <<>>))
  /\ UNCHANGED <<tableVars, server>>

\* An event that carries the list. Events arrive in order, so one is on its way at a time.
ListEvent ==
  /\ table.pushes /\ Len(fetches) < table.fetches
  /\ \A i \in DOMAIN fetches : fetches[i].by # "event"
  /\ fetches' = Append(fetches, Fetch("event", "answered", server))
  /\ UNCHANGED <<tableVars, server>>

\* The refresh button, or Retry beside an error.
Reload ==
  /\ table.refresh \/ err
  /\ Len(fetches) < table.fetches
  /\ loading' = TRUE
  /\ fetches' = Append(fetches, Fetch("reload", "sent", <<>>))
  /\ UNCHANGED <<table, items, err, view, editor, commits, retyped, server>>

\* Leases come, change and expire behind the API.
ServerChanges ==
  /\ table.changes /\ server' \in table.lists \ {server}
  /\ UNCHANGED <<tableVars, fetches>>

\* update_client, update_reservation. When the row is gone the answer is a 404: SaveFailed.
PatchHandled(i) ==
  /\ commits[i].state = "sent" /\ commits[i].row \in IdsOf(server)
  /\ server' = WithValue(server, commits[i].row, commits[i].value)
  /\ commits' = [commits EXCEPT ![i].state = "done"]
  /\ UNCHANGED <<table, items, err, loading, view, editor, retyped, fetches>>

ServerNext ==
  \/ \E i \in DOMAIN fetches : ServerAnswers(i)
  \/ \E i \in DOMAIN commits : PatchHandled(i)
  \/ ServerChanges \/ Revision \/ ListEvent

TileNext ==
  \/ \E i \in DOMAIN fetches : (ApplyItems(i) \/ LoadFailed(i))
  \/ Reload
  \/ ServerNext
  \/ (BrowseNext \/ EditNext) /\ UNCHANGED <<server, fetches>>

-----------------------------------------------------------------------------
\* What is sure to go on: the answers that arrived, and the oldest request.
OldestAnswered == 1 \in DOMAIN fetches /\ ServerAnswers(1)
OldestShown == 1 \in DOMAIN fetches /\ ApplyItems(1)
OldestSaveEnds == 1 \in DOMAIN commits /\ (SaveAnswered(1) \/ SaveFailed(1)) /\ UNCHANGED <<server, fetches>>
=============================================================================
