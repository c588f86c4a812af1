------------------------------- MODULE LogPanel -------------------------------
(***************************************************************************)
(* The log panel under the Pi-hole page (LogStreamPanel.svelte): a         *)
(* catalogue of logs and one event stream on the log chosen from it.       *)
(***************************************************************************)
EXTENDS Naturals

CONSTANT MAX_ASKS   \* bound of the model: catalogue requests in flight

VARIABLE log

LogTypeOK ==
  log \in [shown : BOOLEAN,                                \* mounted
           catalog : {"loading", "failed", "listed"},
           asks : 0..MAX_ASKS,
           selected : BOOLEAN,                             \* a log is selected
           streaming : BOOLEAN,                            \* source is an open EventSource
           error : BOOLEAN]

Unmounted == [shown |-> FALSE, catalog |-> "loading", asks |-> 0, selected |-> FALSE,
              streaming |-> FALSE, error |-> FALSE]

\* The effect of a new refresh epoch, and of mounting: the stream stops and the catalogue is asked for.
Reloaded(l) ==
  [l EXCEPT !.streaming = FALSE,
            !.asks = IF l.asks < MAX_ASKS THEN l.asks + 1 ELSE l.asks]
Mounted == Reloaded([Unmounted EXCEPT !.shown = TRUE])

\* A catalogue that is not empty selects its first log once; one that is empty selects nothing.
CatalogAnswered ==
  /\ log.asks > 0
  /\ \E selects \in BOOLEAN :
       log' = [log EXCEPT !.asks = @ - 1, !.catalog = "listed", !.selected = @ \/ selects]
CatalogFails ==
  /\ log.asks > 0
  /\ log' = [log EXCEPT !.asks = @ - 1, !.catalog = "failed"]

StartStream ==
  /\ log.catalog = "listed"
  /\ log' = [log EXCEPT !.error = ~log.selected, !.streaming = log.selected]
StopStream == log.catalog = "listed" /\ log.streaming /\ log' = [log EXCEPT !.streaming = FALSE]
StreamBreaks == log.streaming /\ log' = [log EXCEPT !.error = TRUE, !.streaming = FALSE]

LogNext == CatalogAnswered \/ CatalogFails \/ StartStream \/ StopStream \/ StreamBreaks
=============================================================================
