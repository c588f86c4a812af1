------------------------------- MODULE LivePages ------------------------------
(***************************************************************************)
(* What an operator has open: a list tile, the scan tile or the log page.  *)
(* They share no state but the server, and of it each uses its own part:   *)
(* one is open at a time.                                                  *)
(***************************************************************************)
EXTENDS ListTile, LogsPage, ScanTile

VARIABLE open

pageVars == <<open, tileVars, logVars, scanVars>>

TypeOK == TileTypeOK /\ LogsTypeOK /\ ScanTypeOK

\* What is not open stays in one initial state.
Closed ==
  /\ open # "tile" => table = (CHOOSE t \in Tables : TRUE) /\ server = (CHOOSE l \in table.lists : TRUE)
  /\ open # "logs" => total = (CHOOSE n \in Totals : TRUE) /\ queries[CHOOSE s \in QuerySlots : TRUE] # NoQuery
  /\ open # "scan" => paused = FALSE

Init == open \in {"tile", "logs", "scan"} /\ TileInit /\ LogsInit /\ ScanInit /\ Closed

Tile == open = "tile" /\ TileNext /\ UNCHANGED <<open, logVars, scanVars>>
Logs == open = "logs" /\ LogsNext /\ UNCHANGED <<open, tileVars, scanVars>>
Scan == open = "scan" /\ ScanNext /\ UNCHANGED <<open, tileVars, logVars>>

Next == Tile \/ Logs \/ Scan

\* The server's loop goes round, its stream delivers in order, an answer that
\* has reached the browser is handled, and timers fire. A list request may be
\* lost, but not for ever; a log query or a press of a button may stay unanswered.
Fairness ==
  /\ SF_tileVars(open = "tile" /\ OldestAnswered)
  /\ WF_tileVars(open = "tile" /\ OldestShown)
  /\ WF_tileVars(open = "tile" /\ Revision)
  /\ WF_tileVars(open = "tile" /\ OldestSaveEnds)
  /\ \A s \in QuerySlots : WF_logVars(open = "logs" /\ TimedOut(s))
  /\ WF_scanVars(open = "scan" /\ EventSent) /\ WF_scanVars(open = "scan" /\ EventShown)
  /\ WF_scanVars(open = "scan" /\ FirstShown) /\ WF_scanVars(open = "scan" /\ ToggleShown)

Spec == Init /\ [][Next]_pageVars /\ Fairness

-----------------------------------------------------------------------------
(* A tile whose topic ticks shows the server's rows in the end, once they  *)
(* have stopped changing: an answer that came late, a refetch that failed  *)
(* and a save whose answer was lost are all made good by a later revision. *)
ListCatchesUp == (open = "tile" /\ table.live /\ <>[][server' = server]_server) => <>[](items = server)

(* The spinner of a page query goes, or a newer query takes it over, even  *)
(* if the server never answers.                                            *)
PageQueryEnds ==
  \A s \in QuerySlots :
    (open = "logs" /\ logLoading /\ queries[s] # NoQuery /\ queries[s].active /\ queries[s].timer)
      ~> (~logLoading \/ queries[s] = NoQuery \/ ~queries[s].active)

(* Once no operator changes the scan any more, the button offers the       *)
(* opposite of the server's state, and the status line says that state or  *)
(* that it is unavailable, never another one. A late answer to the first   *)
(* request, a press failing halfway and the answer to a press that another *)
(* operator undid leave scanState behind the server; a later event puts it *)
(* right. It does not take away the error of a press: then the line stays  *)
(* "unavailable" until the next press.                                     *)
ScanCatchesUp ==
  (open = "scan" /\ <>[][paused' = paused]_paused)
    => <>[](scanState = paused /\ statusLabel \in {Label(paused), "unavailable"})
=============================================================================
