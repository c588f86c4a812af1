------------------------------- MODULE ScanTile -------------------------------
(***************************************************************************)
(* The scan tile (DiscoveryTile.svelte): whether the network scan is       *)
(* paused, fetched once and then taken from the server's events            *)
(* (subscribeWithInitialFetch), and a button that reads the state and      *)
(* posts its opposite. Other operators have the same button.               *)
(*                                                                         *)
(* Every request may fail or stay unanswered. The event stream is in order *)
(* and loses nothing while it is connected (event_stream.py).              *)
(***************************************************************************)
EXTENDS Naturals, Sequences

CONSTANTS
  EventBound,   \* bound of the model: events on their way
  Unknown       \* the label before anything arrived

ASSUME ScanAssumption == EventBound \in Nat \ {0}

VARIABLES
  paused,       \* the server's _discovery_paused
  first,        \* the request of onMount
  scanEvents,   \* states on their way, oldest first
  scanState,    \* the state last answered or sent
  scanErr,      \* a press failed, and none was made since
  toggle        \* togglePause, by its awaits

scanVars == <<paused, first, scanEvents, scanState, scanErr, toggle>>

Call(step, value) == [step |-> step, value |-> value]
Calls == {"idle", "reading", "read", "writing", "written"}

ScanTypeOK ==
  /\ paused \in BOOLEAN /\ scanErr \in BOOLEAN
  /\ scanState \in BOOLEAN \cup {Unknown}
  /\ first.step \in {"idle", "reading", "read"} /\ toggle.step \in Calls
  /\ scanEvents \in Seq(BOOLEAN) /\ Len(scanEvents) <= EventBound

ScanInit ==
  /\ paused \in BOOLEAN
  /\ first = Call("reading", Unknown) /\ toggle = Call("idle", Unknown)
  /\ scanEvents = <<>> /\ scanState = Unknown /\ scanErr = FALSE

\* The button (Pause, Resume) is drawn from scanState alone, the status line from both.
Label(state) == IF state = Unknown THEN "loading" ELSE IF state THEN "paused" ELSE "active"
statusLabel == IF scanErr THEN "unavailable" ELSE Label(scanState)

-----------------------------------------------------------------------------
(* The server: get_discovery_scan, set_discovery_paused and the stream.    *)

FirstRead ==
  /\ first.step = "reading" /\ first' = Call("read", paused)
  /\ UNCHANGED <<paused, scanEvents, scanState, scanErr, toggle>>

ToggleRead ==
  /\ toggle.step = "reading" /\ toggle' = Call("read", paused)
  /\ UNCHANGED <<paused, first, scanEvents, scanState, scanErr>>

ToggleWritten ==
  /\ toggle.step = "writing" /\ paused' = toggle.value /\ toggle' = Call("written", toggle.value)
  /\ UNCHANGED <<first, scanEvents, scanState, scanErr>>

OtherOperator == paused' = ~paused /\ UNCHANGED <<first, scanEvents, scanState, scanErr, toggle>>

EventSent ==
  /\ Len(scanEvents) < EventBound /\ scanEvents' = Append(scanEvents, paused)
  /\ UNCHANGED <<paused, first, scanState, scanErr, toggle>>

-----------------------------------------------------------------------------
(* The tile. No event takes away the error of a press: the next press does, or   *)
(* the first answer.                                                             *)

FirstShown ==
  /\ first.step = "read" /\ first' = Call("idle", Unknown)
  /\ scanState' = first.value /\ scanErr' = FALSE
  /\ UNCHANGED <<paused, scanEvents, toggle>>

\* Swallowed: the subscription has the next event.
FirstFailed ==
  /\ first.step = "reading" /\ first' = Call("idle", Unknown)
  /\ UNCHANGED <<paused, scanEvents, scanState, scanErr, toggle>>

\* Deviant form, for a mutant: a tile with an error takes no events.
StuckEvent ==
  /\ scanEvents # <<>> /\ ~scanErr
  /\ scanState' = Head(scanEvents) /\ scanEvents' = Tail(scanEvents)
  /\ UNCHANGED <<paused, first, scanErr, toggle>>

EventShown ==
  /\ scanEvents # <<>>
  /\ scanState' = Head(scanEvents) /\ scanEvents' = Tail(scanEvents)
  /\ UNCHANGED <<paused, first, scanErr, toggle>>

\* The button is disabled while it is busy.
TogglePause ==
  /\ toggle.step = "idle" /\ toggle' = Call("reading", Unknown) /\ scanErr' = FALSE
  /\ UNCHANGED <<paused, first, scanEvents, scanState>>

\* The state that was read decides, not the label.
ToggleWrites ==
  /\ toggle.step = "read" /\ toggle' = Call("writing", ~toggle.value)
  /\ UNCHANGED <<paused, first, scanEvents, scanState, scanErr>>

ToggleShown ==
  /\ toggle.step = "written" /\ toggle' = Call("idle", Unknown) /\ scanState' = toggle.value
  /\ UNCHANGED <<paused, first, scanEvents, scanErr>>

\* A refused or lost request, or a lost answer.
ToggleFailed ==
  /\ toggle.step # "idle" /\ toggle' = Call("idle", Unknown) /\ scanErr' = TRUE
  /\ UNCHANGED <<paused, first, scanEvents, scanState>>

ScanNext ==
  \/ FirstRead \/ ToggleRead \/ ToggleWritten \/ OtherOperator \/ EventSent
  \/ FirstShown \/ FirstFailed \/ EventShown
  \/ TogglePause \/ ToggleWrites \/ ToggleShown \/ ToggleFailed
=============================================================================
