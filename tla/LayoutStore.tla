----------------------------- MODULE LayoutStore -----------------------------
(***************************************************************************)
(* The dashboard layout store of the operator UI (layoutStore.ts), with    *)
(* everything its promises are about: the layout cache in localStorage and *)
(* its write gate (layoutStorage.ts), the first-paint hydration            *)
(* (hydrateInitial.ts), the bootstrap GET (dashboardBootstrap.ts), the     *)
(* page's life (appMount.ts) and the layout document kept by the API.      *)
(*                                                                         *)
(* A layout is one value: the properties only ask which layout is where.   *)
(* The two conversions that matter are kept as functions: Normalize is     *)
(* normalizeLayoutStrict and Upgrade is what hydration makes of a stored   *)
(* document.  JavaScript runs one handler at a time, so a handler up to    *)
(* its first await is one action, and what follows the await is another    *)
(* (Answered...); between the two, anything may happen.                    *)
(***************************************************************************)
EXTENDS Naturals, Sequences

CONSTANTS
  Docs,         \* layout documents that parse (versions 1-3)
  Layouts,      \* the normalized version-3 documents among them
  Normalize,    \* [Docs -> Layouts \cup {Invalid}], normalizeLayoutStrict
  Upgrade,      \* [Docs -> Layouts \cup {Invalid}], migrate, strip, merge, pack
  Legacy,       \* stored documents that Upgrade has to change and re-save
  Default,      \* DEFAULT_DASHBOARD_LAYOUT, packed
  Baseline,     \* what dashboard-layouts.orig.json holds, or NoDoc
  NoDoc,        \* no document: empty storage, or 404
  Newer,        \* a document of a version above 3
  Invalid,      \* the conversion throws
  UNDO_CAP,     \* 50 in the code
  MAX_CALLS,    \* bound of the model: HTTP calls in flight at once
  Shells,       \* which bundles run: "kea", "pihole"
  InOrder,      \* environment: calls are served and answered in sending order
  EarlyEdits,   \* environment: the user may edit or flush before the bootstrap GET is answered
  StorageMayFail \* environment: localStorage.setItem may throw (quota, private mode)

ASSUME LayoutsAssumption ==
  /\ Layouts \subseteq Docs /\ Legacy \subseteq Docs
  /\ Default \in Layouts
  /\ Baseline \in Docs \cup {NoDoc}
  /\ NoDoc \notin Docs /\ Newer \notin Docs /\ Newer # NoDoc
  /\ Invalid \notin Layouts
ASSUME ConversionsAssumption ==
  /\ Normalize \in [Docs -> Layouts \cup {Invalid}]
  /\ Upgrade \in [Docs -> Layouts \cup {Invalid}]
ASSUME BoundsAssumption == UNDO_CAP \in Nat \ {0} /\ MAX_CALLS \in Nat \ {0}
ASSUME EnvironmentAssumption ==
  /\ Shells \subseteq {"kea", "pihole"}
  /\ {InOrder, EarlyEdits, StorageMayFail} \subseteq BOOLEAN

VARIABLES
  shell,        \* the bundle this page belongs to; it never changes
  layout, loadError, persistError, editorOpen, layoutSource,
  undoPast, undoFuture,
  debounce,     \* debounceTimer # null
  gate,         \* layoutLocalPersistBlocked, and its mirror in the store
  cache,        \* localStorage under the store's key
  calls,        \* HTTP calls not yet answered, in sending order
  server        \* the API's document for this dashboard

history == <<undoPast, undoFuture>>
errors == <<loadError, persistError>>
vars == <<shell, layout, errors, editorOpen, layoutSource, history, debounce, gate, cache,
          calls, server>>

\* skipServerLayoutPersist, with a storage key of its own.
PiholeShell == shell = "pihole"

Stored == Docs \cup {NoDoc, Newer}
Ops == {"get", "put", "save", "reset"}

\* live: the page that sent the call is still there to read the answer.
Call == [op : Ops, doc : Stored, state : {"sent", "ok", "error"}, live : BOOLEAN]
Sent(op, doc, live) == [op |-> op, doc |-> doc, state |-> "sent", live |-> live]

TypeOK ==
  /\ shell \in Shells
  /\ layout \in Layouts
  /\ loadError \in BOOLEAN /\ persistError \in BOOLEAN /\ editorOpen \in BOOLEAN
  /\ layoutSource \in {"cache", "server"}
  /\ undoPast \in Seq(Layouts) /\ undoFuture \in Seq(Layouts)
  /\ debounce \in BOOLEAN /\ gate \in BOOLEAN
  /\ cache \in Stored
  /\ calls \in Seq(Call) /\ Len(calls) <= MAX_CALLS
  /\ server \in Stored

-----------------------------------------------------------------------------
(* localStorage.  saveDashboardLayout is a no-op under the gate; setItem may throw. *)

UngatedSave(d) == cache' = d   \* deviant: no gate
SavedLocally(d) == cache' = IF gate' THEN cache ELSE d
SaveThrows == StorageMayFail /\ ~gate' /\ UNCHANGED cache

(* Calls to the API. *)
Send(op, doc) == Len(calls) < MAX_CALLS /\ calls' = Append(calls, Sent(op, doc, TRUE))

\* schedulePersist: armed again by every change, never in the Pi-hole bundle.
SchedulePersist == debounce' = ~PiholeShell

\* flushPersist up to its await: what it sends is the layout of this moment.
RearmingFlush ==   \* deviant: the timer is not cleared
  /\ UNCHANGED <<debounce, persistError>>
  /\ IF PiholeShell THEN UNCHANGED calls ELSE Send("put", layout')

FlushPersist ==
  /\ debounce' = FALSE
  /\ \/ PiholeShell /\ persistError' = FALSE /\ UNCHANGED calls
     \/ ~PiholeShell /\ Send("put", layout') /\ UNCHANGED persistError

-----------------------------------------------------------------------------
(* applyStructure: everything it does except arming the debounce, which happens    *)
(* exactly when it ends without an error (loadError' is FALSE).                     *)

LateCap(s) == IF Len(s) > UNDO_CAP + 1 THEN Tail(s) ELSE s   \* deviant: off by one
Capped(s) == IF Len(s) > UNDO_CAP THEN Tail(s) ELSE s

Restructure(next, editMode, skipHistory) ==
  \/ /\ Normalize[next] = Invalid
     /\ loadError' = TRUE
     /\ UNCHANGED <<layout, history, cache>>
  \/ /\ Normalize[next] # Invalid
     /\ \/ editMode /\ ~skipHistory /\ undoPast' = Capped(Append(undoPast, layout)) /\ undoFuture' = <<>>
        \/ (~editMode \/ skipHistory) /\ UNCHANGED history
     /\ layout' = Normalize[next]
     /\ \/ SavedLocally(layout') /\ loadError' = FALSE
        \/ SaveThrows /\ loadError' = TRUE

ApplyStructure(next, editMode, skipHistory) ==
  /\ Restructure(next, editMode, skipHistory)
  /\ \/ loadError' = TRUE /\ UNCHANGED debounce
     \/ loadError' = FALSE /\ SchedulePersist

-----------------------------------------------------------------------------
(* The page.  Hydration reads the stored document; the Kea page then asks the API. *)

Hydrated(stored) ==
  IF stored \in Docs /\ Upgrade[stored] # Invalid THEN Upgrade[stored] ELSE Default

\* What hydration leaves in storage; a save that throws ends in the catch that removes the key.
RewrittenCache(stored) ==
  IF PiholeShell \/ stored \notin Docs THEN stored
  ELSE IF Upgrade[stored] = Invalid THEN NoDoc
  ELSE IF stored \in Legacy THEN Upgrade[stored] ELSE stored

BootCalls == IF PiholeShell THEN <<>> ELSE <<Sent("get", NoDoc, TRUE)>>

Init ==
  /\ shell \in Shells
  /\ \E stored \in Stored :
       /\ cache = RewrittenCache(stored)
       /\ layout = Hydrated(stored)
       /\ gate = (stored = Newer)
       /\ loadError = FALSE /\ persistError = FALSE /\ editorOpen = FALSE
       /\ layoutSource = "cache"
       /\ undoPast = <<>> /\ undoFuture = <<>> /\ debounce = FALSE
       /\ calls = BootCalls
       /\ server \in Stored

\* Calls the page leaves behind: the requests still reach the API, nobody reads the answers.
Abandoned == [i \in DOMAIN calls |-> [calls[i] EXCEPT !.live = FALSE]]
Orphaned(flushing) ==
  IF flushing THEN Append(Abandoned, Sent("put", layout, FALSE)) ELSE Abandoned

NewPage(stored, flushing) ==
  /\ \/ cache' = RewrittenCache(stored) /\ layout' = Hydrated(stored)
     \/ /\ StorageMayFail /\ ~PiholeShell /\ stored \in Legacy
        /\ cache' = NoDoc /\ layout' = Default
  /\ gate' = (stored = Newer)
  /\ loadError' = FALSE /\ persistError' = FALSE /\ editorOpen' = FALSE
  /\ layoutSource' = "cache"
  /\ undoPast' = <<>> /\ undoFuture' = <<>> /\ debounce' = FALSE
  /\ calls' = Orphaned(flushing) \o BootCalls
  /\ Len(calls') <= MAX_CALLS
  /\ UNCHANGED server

\* Leaving or reloading the page: the Kea page flushes on beforeunload; a killed tab does not.
Reload == \E flushing \in {FALSE, ~PiholeShell} : NewPage(cache, flushing)

\* The banner's "Clear stored layout and reload" removes the Kea key, whatever key the store uses.
ClearStoredAndReload ==
  gate /\ NewPage(IF PiholeShell THEN cache ELSE NoDoc, ~PiholeShell)

-----------------------------------------------------------------------------
(* What the user does. *)

Hydrating == \E i \in DOMAIN calls : calls[i].op = "get" /\ calls[i].live
MayEdit == EarlyEdits \/ ~Hydrating

\* Drag and drop, palette, overlays, import, grid hints: all end in applyStructure.
Edit(d) ==
  /\ MayEdit
  /\ UNCHANGED <<persistError, editorOpen, layoutSource, gate, calls, server>>
  /\ ApplyStructure(d, editorOpen, FALSE)

\* A refused add (missing parent, Auto wrap, depth), a failed import, a failed plugin list.
Refused ==
  /\ loadError' = TRUE
  /\ UNCHANGED <<layout, persistError, editorOpen, layoutSource, history, debounce, gate, cache,
                 calls, server>>

UnscheduledRestore(d) ==   \* deviant: undo and redo forget to arm the debounce
  /\ layout' = d /\ SavedLocally(d)
  /\ UNCHANGED <<errors, debounce, editorOpen, layoutSource, calls, server>>

UncachedRestore(d) ==   \* deviant: undo and redo forget the local save
  /\ layout' = d /\ SchedulePersist
  /\ UNCHANGED <<errors, cache, editorOpen, layoutSource, calls, server>>

Restored(d) ==
  /\ layout' = d
  /\ \/ SavedLocally(d) /\ SchedulePersist
     \/ SaveThrows /\ UNCHANGED debounce
  /\ UNCHANGED <<errors, editorOpen, layoutSource, calls, server>>

AppendingUndo ==   \* deviant: push instead of unshift
  /\ MayEdit /\ undoPast # <<>>
  /\ undoPast' = SubSeq(undoPast, 1, Len(undoPast) - 1)
  /\ undoFuture' = Append(undoFuture, layout)
  /\ UNCHANGED gate
  /\ Restored(undoPast[Len(undoPast)])

Undo ==
  /\ MayEdit /\ undoPast # <<>>
  /\ undoPast' = SubSeq(undoPast, 1, Len(undoPast) - 1)
  /\ undoFuture' = <<layout>> \o undoFuture
  /\ UNCHANGED gate
  /\ Restored(undoPast[Len(undoPast)])

Redo ==
  /\ MayEdit /\ undoFuture # <<>>
  /\ undoFuture' = Tail(undoFuture)
  /\ undoPast' = Append(undoPast, layout)
  /\ UNCHANGED gate
  /\ Restored(Head(undoFuture))

\* syncLayoutFromServer, on the Pi-hole page: it may re-read its cache, strip the tiles of a service
\* that is off and merge new ones; the last layout it applies stands.
ServerSynced ==
  /\ PiholeShell
  /\ gate' \in {gate, cache = Newer}
  /\ \E d \in Docs : Restructure(d, editorOpen', TRUE)
Unsynced == UNCHANGED <<layout, loadError, history, gate, cache>>

\* Opening and closing the editor notify the sync's subscription.
OpenEditor ==
  /\ editorOpen' = TRUE
  /\ ServerSynced \/ Unsynced
  /\ UNCHANGED <<persistError, layoutSource, debounce, calls, server>>

\* "Done" on the Kea page: commit the inner wraps outside edit mode, close, flush.
SelectDashboardView(d) ==
  /\ MayEdit /\ ~PiholeShell
  /\ UNCHANGED gate
  /\ \/ editorOpen /\ Restructure(d, FALSE, FALSE)
     \/ ~editorOpen /\ UNCHANGED <<layout, loadError, history, cache>>
  /\ editorOpen' = FALSE
  /\ FlushPersist
  /\ UNCHANGED <<layoutSource, server>>

\* closeEditorAndFlush alone on the Pi-hole page; flush alone on the Kea page's route change.
CloseOrLeave ==
  /\ MayEdit
  /\ editorOpen' = (editorOpen /\ ~PiholeShell)
  /\ ServerSynced \/ Unsynced
  /\ FlushPersist
  /\ UNCHANGED <<layoutSource, server>>

\* After an env change or a new widget the Pi-hole page syncs of itself.
Resync ==
  /\ UNCHANGED editorOpen /\ ServerSynced
  /\ UNCHANGED <<persistError, layoutSource, debounce, calls, server>>

SaveLayoutToFile ==
  /\ MayEdit
  /\ debounce' = FALSE /\ loadError' = FALSE
  /\ UNCHANGED <<layout, editorOpen, layoutSource, history, gate, server>>
  /\ \/ /\ PiholeShell /\ persistError' = FALSE /\ UNCHANGED calls
        /\ SavedLocally(layout) \/ SaveThrows
     \/ ~PiholeShell /\ Send("save", layout) /\ UNCHANGED <<persistError, cache>>

ResetToBaseline ==
  /\ persistError' = FALSE
  /\ UNCHANGED <<layout, editorOpen, layoutSource, history, debounce, gate, cache, server>>
  /\ \/ PiholeShell /\ loadError' = TRUE /\ UNCHANGED calls
     \/ ~PiholeShell /\ loadError' = FALSE /\ Send("reset", NoDoc)

DebounceFires ==
  /\ debounce
  /\ UNCHANGED <<layout, loadError, history, gate, cache, layoutSource, editorOpen, server>>
  /\ FlushPersist

-----------------------------------------------------------------------------
(* The API and the network.  A call is served or lost, then its answer delivered or lost. *)

client == <<layout, errors, editorOpen, layoutSource, history, debounce, gate, cache>>

WithoutCall(i) == SubSeq(calls, 1, i - 1) \o SubSeq(calls, i + 1, Len(calls))

\* The answer of call i is decided.
Outcome(i, state, doc) == calls' = [calls EXCEPT ![i].state = state, ![i].doc = doc]

MayServe(i) ==
  /\ calls[i].state = "sent"
  /\ InOrder => \A j \in 1..(i - 1) : calls[j].state # "sent"

ServeGet(i) ==
  /\ calls[i].op = "get" /\ MayServe(i)
  /\ Outcome(i, IF server = NoDoc THEN "error" ELSE "ok", server)
  /\ UNCHANGED <<server, client>>

ServePut(i) ==
  /\ calls[i].op = "put" /\ MayServe(i)
  /\ server' = calls[i].doc
  /\ Outcome(i, "ok", calls[i].doc)
  /\ UNCHANGED client

\* The document is stored before the snapshot file is written, and stays when writing fails.
ServeSave(i) ==
  /\ calls[i].op = "save" /\ MayServe(i)
  /\ server' = calls[i].doc
  /\ Outcome(i, "ok", calls[i].doc) \/ Outcome(i, "error", NoDoc)
  /\ UNCHANGED client

ServeReset(i) ==
  /\ calls[i].op = "reset" /\ MayServe(i)
  /\ server' = IF Baseline = NoDoc THEN server ELSE Baseline
  /\ Outcome(i, IF Baseline = NoDoc THEN "error" ELSE "ok", Baseline)
  /\ UNCHANGED client

\* Lost request, refused request (401, 403, 400, 500) or lost answer.
CallFails(i) ==
  /\ MayServe(i) \/ calls[i].state = "ok"
  /\ Outcome(i, "error", NoDoc)
  /\ UNCHANGED <<server, client>>

-----------------------------------------------------------------------------
(* The continuations after each await. *)

Answered(i, op) ==
  /\ calls[i].op = op /\ calls[i].state # "sent" /\ calls[i].live
  /\ InOrder => i = 1
  /\ calls' = WithoutCall(i)
  /\ UNCHANGED server

\* The answer to a page that is gone.
AnswerDropped(i) ==
  /\ calls[i].state # "sent" /\ ~calls[i].live
  /\ calls' = WithoutCall(i)
  /\ UNCHANGED <<server, client>>

\* mountDashboardGatewaySideEffects, then acceptServerLayout.  An armed debounce stays armed.
AcceptServerLayout(d) ==
  /\ gate' = FALSE
  /\ undoPast' = <<>> /\ undoFuture' = <<>>
  /\ layout' = d
  /\ \/ SavedLocally(d) /\ layoutSource' = "server" /\ loadError' = FALSE
     \/ SaveThrows /\ layoutSource' = "cache" /\ UNCHANGED loadError
  /\ UNCHANGED <<persistError, editorOpen, debounce>>

RawGetAnswered(i) ==   \* deviant: whatever the API sends is taken, unparsed
  /\ Answered(i, "get")
  /\ calls[i].state = "ok"
  /\ AcceptServerLayout(calls[i].doc)

GetAnswered(i) ==
  LET usable == calls[i].state = "ok" /\ calls[i].doc \in Docs /\ Normalize[calls[i].doc] # Invalid
  IN  /\ Answered(i, "get")
      /\ \/ usable /\ AcceptServerLayout(Normalize[calls[i].doc])
         \/ /\ ~usable
            /\ layoutSource' = IF calls[i].state = "error" THEN "cache" ELSE layoutSource
            /\ UNCHANGED <<layout, errors, editorOpen, history, debounce, gate, cache>>

DeafPutAnswered(i) ==   \* deviant: a failed PUT is not reported
  /\ Answered(i, "put")
  /\ persistError' = FALSE
  /\ UNCHANGED <<layout, loadError, editorOpen, layoutSource, history, debounce, gate, cache>>

PutAnswered(i) ==
  /\ Answered(i, "put")
  /\ persistError' = (calls[i].state = "error")
  /\ UNCHANGED <<layout, loadError, editorOpen, layoutSource, history, debounce, gate, cache>>

\* On success the layout of the click, not the current one, goes to the cache.
SaveAnswered(i) ==
  /\ Answered(i, "save")
  /\ UNCHANGED <<layout, loadError, editorOpen, layoutSource, history, debounce, gate>>
  /\ \/ calls[i].state = "ok" /\ SavedLocally(calls[i].doc) /\ persistError' = FALSE
     \/ calls[i].state = "ok" /\ SaveThrows /\ persistError' = TRUE
     \/ calls[i].state = "error" /\ persistError' = TRUE /\ UNCHANGED cache

ResetAnswered(i) ==
  LET usable == calls[i].state = "ok" /\ calls[i].doc \in Docs
  IN  /\ Answered(i, "reset")
      /\ UNCHANGED <<persistError, editorOpen, layoutSource>>
      /\ \/ usable /\ gate' = FALSE /\ ApplyStructure(calls[i].doc, editorOpen, TRUE)
         \/ ~usable /\ loadError' = TRUE /\ UNCHANGED <<layout, history, debounce, gate, cache>>

-----------------------------------------------------------------------------
UserStep ==
  \/ \E d \in Docs : Edit(d) \/ SelectDashboardView(d)
  \/ Refused \/ Undo \/ Redo \/ OpenEditor
  \/ CloseOrLeave \/ Resync
  \/ SaveLayoutToFile \/ ResetToBaseline
  \/ Reload \/ ClearStoredAndReload

ServeStep ==
  \E i \in DOMAIN calls :
    ServeGet(i) \/ ServePut(i) \/ ServeSave(i) \/ ServeReset(i) \/ CallFails(i)

AnswerStep ==
  \E i \in DOMAIN calls :
    GetAnswered(i) \/ PutAnswered(i) \/ SaveAnswered(i) \/ ResetAnswered(i) \/ AnswerDropped(i)

Next == (UserStep \/ DebounceFires \/ ServeStep \/ AnswerStep) /\ UNCHANGED shell

Spec == Init /\ [][Next]_vars

\* Timers fire, requests are served or fail, answers are delivered.  Nothing obliges the user.
Fairness ==
  /\ WF_vars(DebounceFires /\ UNCHANGED shell)
  /\ WF_vars(ServeStep /\ UNCHANGED shell)
  /\ WF_vars(AnswerStep /\ UNCHANGED shell)

FairSpec == Spec /\ Fairness

-----------------------------------------------------------------------------
(* Properties. *)

\* Undo and redo never hold more than UNDO_CAP layouts between them, although redo pushes on the
\* past without looking at the cap (layoutStore.ts, redo; documented as a 50-step cap).
UndoBounded == Len(undoPast) + Len(undoFuture) <= UNDO_CAP

\* A stored document of a newer version is given up only when the user clears it or when the API
\* has sent a layout to replace it: whatever sequence of edits, saves, resyncs and reloads comes
\* before, no local save overwrites it (layoutStorage.ts, the write gate).
NewerKept ==
  [][cache = Newer /\ cache' # Newer =>
       ClearStoredAndReload \/ \E i \in DOMAIN calls : GetAnswered(i) \/ ResetAnswered(i)]_vars

\* Undo and redo move along one line of layouts: past, present and future, read in order, stay
\* the same sequence, so nothing is lost or repeated by walking it (layoutStore.ts, undo, redo).
Line == undoPast \o <<layout>> \o undoFuture
HistoryIsALine == [][Undo \/ Redo => Line' = Line]_vars

\* On the Pi-hole page the cache is the only copy: a reload always shows the layout on screen.
PiholeReloadKeepsLayout == PiholeShell /\ ~gate => Hydrated(cache) = Hydrated(layout)

\* Nothing armed, nothing in flight.
Settled == ~debounce /\ calls = <<>>
Synced == server \in Docs /\ Normalize[server] = layout

\* Once hydrated from the server: when nothing is pending and no error is shown, the server holds
\* the layout on screen.  An edit, undo or reset is never dropped in silence.
SettledMeansSaved ==
  layoutSource = "server" /\ Settled /\ ~loadError /\ ~persistError => Synced

\* What an autosaving document promises (AutoSave), and the store read that way: unsettled it is
\* saving; at rest it has failed, is detached from the API, or is saved.
AS == INSTANCE AutoSave WITH
  Documents <- Layouts \cup {NoDoc, Newer, Invalid},
  doc <- layout,
  stored <- IF server \in Docs THEN Normalize[server] ELSE server,
  status <- IF ~Settled THEN "saving"
            ELSE IF loadError \/ persistError THEN "failed"
            ELSE IF layoutSource = "cache" THEN "detached" ELSE "saved"
AutoSaves == AS!Spec

\* When the user stops, the page comes to rest: saved, or an error shown, or never hydrated.  A
\* step the timer takes by itself is not the user's.
ComesToRest ==
  []<><<UserStep /\ ~DebounceFires>>_vars \/ <>[](Settled /\ (Synced \/ loadError \/ persistError \/ layoutSource = "cache"))

\* A baseline taken from the server clears the undo stacks, like a hydration
\* (docs/planning/UI_PLUGIN_BRANCH_PROGRESS.md: "compatible server resets call clearUndoStacks()").
ResetTaken == \E i \in DOMAIN calls : ResetAnswered(i) /\ calls[i].state = "ok" /\ loadError' = FALSE
ResetClearsUndo ==
  [][ResetTaken => undoPast' = <<>> /\ undoFuture' = <<>>]_vars

\* When the PUT of the layout on screen succeeds and nothing else is pending, the server holds
\* that layout (hydrateInitial.ts: "subsequent edits are dirty vs that snapshot until the
\* debounced PUT succeeds").
OwnPutTaken == \E i \in DOMAIN calls : PutAnswered(i) /\ ~persistError' /\ calls[i].doc = layout
PutMeansSaved == [][OwnPutTaken /\ Settled' => Synced']_vars

\* After "Clear stored layout and reload" local saves are allowed again
\* (layoutStorage.ts: "Remove stored layout and allow local saves again").
ClearUnlocks == [][ClearStoredAndReload => ~gate']_vars
=============================================================================
