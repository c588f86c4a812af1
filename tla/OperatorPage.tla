----------------------------- MODULE OperatorPage -----------------------------
(***************************************************************************)
(* The Pi-hole operator page: PiholeOperatorApp.svelte loads the dashboard *)
(* and points the event stream, PiholeCpDashboardShell.svelte keeps the    *)
(* layout in step with it, the settings panel changes the node and has the *)
(* dashboard loaded again, and the log panel starts over at each refresh.  *)
(***************************************************************************)
EXTENDS EnvSettings, LogPanel, Sequences

CONSTANTS Origins, NoOrigin, SAMPLES, MAX_STREAMS, MAX_LOADS, MAX_TICKS,
  Scenes,        \* what a behaviour is about: "streams", "settings", "widgets"
  PageDocuments  \* the dashboards the control plane answers with in "widgets"

ASSUME PageAssumption ==
  /\ NoOrigin \notin Origins /\ Settings \subseteq Origins \cup {NoOrigin}
  /\ PageDocuments \subseteq Documents
  /\ SAMPLES \in Nat \ {0} /\ MAX_ASKS \in Nat
  /\ MAX_STREAMS \in Nat \ {0} /\ MAX_LOADS \in Nat \ {0} /\ MAX_TICKS \in Nat \ {0}

VARIABLES
  scene,  \* bound of the model: which part of the page is exercised
  page,   \* the app's and the shell's own state
  bus, base, appRelease, lastOrigin, mounted, loads, polling, ticks, firstEmit, bucket

Bus == INSTANCE FabricBus
busVars == <<bus, base, appRelease, lastOrigin, mounted, loads, polling, ticks, firstEmit, bucket>>
pageVars == <<scene, page, log, envVars, busVars>>

TypeOK ==
  /\ Bus!TypeOK /\ SettingsTypeOK /\ LogTypeOK
  /\ scene \in Scenes
  /\ page \in [loading : BOOLEAN,               \* loadAll is waiting
               error : BOOLEAN,                 \* the banner is all there is
               loaded : BOOLEAN,                \* dashboard and meta are set
               document : Documents,
               resyncs : BOOLEAN,               \* layoutResyncEpoch > 0
               editing : BOOLEAN,
               layout : SUBSET Tiles,
               stored : {NoLayout} \cup SUBSET Tiles,
               past : {NoLayout} \cup SUBSET Tiles]  \* the newest undo entry

Init ==
  /\ scene \in Scenes
  /\ Bus!Init /\ SettingsInit /\ log = Unmounted
  /\ scene # "settings" => host.effective = NoOrigin /\ host.pending = None
  /\ \E stored \in IF scene = "widgets" THEN {NoLayout, Tiles} ELSE {{}} :
        page = [loading |-> TRUE, error |-> FALSE, loaded |-> FALSE, document |-> NoDocument, resyncs |-> FALSE,
                editing |-> FALSE, layout |-> {}, stored |-> stored, past |-> NoLayout]

Shown == mounted /\ page.loaded /\ ~page.error

\* The control plane's answers: base and document.
HostDocument == [mode |-> IF host.effective = NoOrigin THEN "other" ELSE "kea", ha |-> FALSE,
                 widgets |-> IF host.kea THEN KeaWidgets ELSE {}]
Answers ==
  CASE scene = "streams"  -> {[base |-> b, document |-> NoDocument] : b \in Origins \cup {NoOrigin}}
    [] scene = "widgets"  -> {[base |-> NoOrigin, document |-> d] : d \in PageDocuments}
    [] OTHER              -> {[base |-> host.effective, document |-> HostDocument]}

-----------------------------------------------------------------------------
(* Layout: the shell mounts with the first dashboard, and its effect runs  *)
(* for each dashboard and each opening and closing of the editor.          *)

\* applyStructure stores what it shows; without a change only a resync calls it.
Arranged(p, layout) ==
  IF layout = p.layout /\ ~p.resyncs THEN p ELSE [p EXCEPT !.layout = layout, !.stored = layout]
Synced(p) == Arranged(p, SyncedLayout(p.layout, p.stored, p.document, p.editing, p.resyncs))

ShellMounted(p) == Synced([p EXCEPT !.layout = PickInitial(p.stored, p.document)])
Received(p, d) ==
  IF p.loaded THEN Synced([p EXCEPT !.document = d])
  ELSE ShellMounted([p EXCEPT !.loaded = TRUE, !.document = d])

OpenEditor ==
  /\ Shown /\ ~page.editing
  /\ page' = Synced([page EXCEPT !.editing = TRUE])
  /\ UNCHANGED <<scene, log, envVars, busVars>>

UnsyncedClose ==   \* deviant: the effect is not run for the editor
  /\ Shown /\ page.editing
  /\ page' = [page EXCEPT !.editing = FALSE]
  /\ PanelGone /\ UNCHANGED <<scene, log, host, presses, busVars>>
CloseEditor ==
  /\ Shown /\ page.editing
  /\ page' = Synced([page EXCEPT !.editing = FALSE])
  /\ PanelGone /\ UNCHANGED <<scene, log, host, presses, busVars>>

Edit(layout) ==
  /\ scene = "widgets" /\ Shown /\ page.editing /\ layout # page.layout
  /\ page' = [page EXCEPT !.layout = layout, !.stored = layout, !.past = page.layout]
  /\ UNCHANGED <<scene, log, envVars, busVars>>

UserEdits ==
  \/ \E t \in page.layout : Edit(page.layout \ {t})
  \/ \E t \in PaletteTiles(page.document) : Edit(page.layout \cup {t})

Undo ==
  /\ Shown /\ page.editing /\ page.past # NoLayout
  /\ page' = [page EXCEPT !.layout = page.past, !.stored = page.past, !.past = NoLayout]
  /\ UNCHANGED <<scene, log, envVars, busVars>>

\* What the header offers to the editor.
Toolbar == OpenEditor \/ CloseEditor \/ Undo

-----------------------------------------------------------------------------
(* Loads: loadAll at the start and from the Refresh button, and the reload *)
(* an env apply asks for.                                                  *)

Refresh ==
  /\ scene # "settings" /\ Shown /\ ~page.loading
  /\ Bus!LoadStarts
  /\ page' = [page EXCEPT !.loading = TRUE, !.error = FALSE]
  /\ UNCHANGED <<scene, log, envVars>>

\* The first dashboard mounts the panels, a later one is a new refresh epoch.
NextLog == IF ~mounted \/ page.error THEN log ELSE IF log.shown THEN Reloaded(log) ELSE Mounted

PageLoaded(a) ==
  /\ page.loading
  /\ Bus!LoadAnswered(a.base)
  /\ page' = [Received(page, a.document) EXCEPT !.loading = FALSE]
  /\ log' = NextLog
  /\ UNCHANGED <<scene, envVars>>

\* The banner replaces the page, and with it the only button that loads again.
PageLoadFails ==
  /\ page.loading
  /\ Bus!LoadFails
  /\ page' = [page EXCEPT !.loading = FALSE, !.error = TRUE, !.editing = FALSE, !.past = NoLayout]
  /\ PanelGone /\ log' = Unmounted
  /\ UNCHANGED <<scene, host, presses>>

\* waitForPiholeCpDashboardCoherent: tries that fail, or bring a pair that does not fit, end with the last.
DashboardGivesUp(i) ==
  /\ ops[i].dash = "poll"
  /\ Bus!LoadFails
  /\ ops' = [ops EXCEPT ![i].dash = "failed"]
  /\ UNCHANGED <<scene, page, log, host, panel, presses>>

DashboardCoherent(i) ==
  /\ ops[i].dash = "poll" /\ host.up
  /\ Coherent(HostDocument)
  /\ Bus!LoadAnswered(host.effective)
  /\ ops' = [ops EXCEPT ![i].dash = "plugins", ![i].fetched = HostDocument]
  /\ UNCHANGED <<scene, page, log, host, panel, presses>>

\* The plugin list may fail; the page is then given the pair, however old it has become.
PluginsListed(i) ==
  /\ ops[i].dash = "plugins"
  /\ ops' = [ops EXCEPT ![i].dash = "done", ![i].fetched = NoDocument]
  /\ page' = Received([page EXCEPT !.resyncs = TRUE], ops[i].fetched)
  /\ log' = NextLog
  /\ UNCHANGED <<scene, host, panel, presses, busVars>>

-----------------------------------------------------------------------------
Unmount ==
  /\ scene # "settings" /\ Bus!Unmount
  /\ page' = [page EXCEPT !.editing = FALSE]
  /\ PanelGone /\ log' = Unmounted
  /\ UNCHANGED <<scene, host, presses>>

Streams ==
  /\ scene = "streams"
  /\ \/ \E k \in DOMAIN bus.streams : Bus!StreamDelivers(k) \/ Bus!StreamErrs(k)
     \/ Bus!TickStarts \/ Bus!TickFails \/ Bus!TickAnswered
  /\ UNCHANGED <<scene, page, log, envVars>>

Logs ==
  /\ scene = "widgets" /\ mounted /\ log.shown /\ LogNext
  /\ UNCHANGED <<scene, page, envVars, busVars>>

Form ==
  /\ scene = "settings" /\ Shown /\ page.editing /\ FormNext
  /\ UNCHANGED <<scene, page, log, busVars>>

\* A call of the panel moves; an accepted one starts a load of the dashboard.
Call(i) ==
  /\ CallNext(i)
  /\ IF ops'[i].dash = "poll" /\ ops[i].dash = "none" THEN Bus!LoadStarts ELSE UNCHANGED busVars
  /\ UNCHANGED <<scene, page, log>>

Reload(i) == DashboardGivesUp(i) \/ DashboardCoherent(i) \/ PluginsListed(i)

\* The control plane's dashboard follows its setting.
WidgetsFollow ==
  /\ host.up /\ host.kea # (host.effective # NoOrigin)
  /\ host' = [host EXCEPT !.kea = ~@]
  /\ UNCHANGED <<scene, page, log, panel, ops, presses, busVars>>

Host == scene = "settings" /\ (WidgetsFollow \/ (HostNext /\ UNCHANGED <<scene, page, log, busVars>>))

Next ==
  \/ Refresh \/ (\E a \in Answers : PageLoaded(a)) \/ PageLoadFails \/ Unmount
  \/ Toolbar \/ UserEdits
  \/ Streams \/ Logs \/ Form \/ Host
  \/ \E i \in OpSlots : Call(i) \/ Reload(i)

\* Requests are answered or fail, and the timers of the two waits fire.
Fairness == \A i \in OpSlots : WF_pageVars(Call(i)) /\ WF_pageVars(Reload(i))

Spec == Init /\ [][Next]_pageVars /\ Fairness

-----------------------------------------------------------------------------
(* Properties. *)

\* At most one stream is open, and it is the one releaseConnection closes: closures kept by the
\* app and by the kernel never leave a second stream running nor orphan the current one, however
\* refreshes and env reloads overlap (eventBus.ts: "Attach single EventSource ... Idempotent per
\* instance").
OneStream == Bus!OneStream

\* The Kea slot is registered exactly while an EventSource is open: the indicator neither counts
\* a stream that is gone nor misses one that runs.
SlotMeansStream == Bus!SlotMeansStream

\* A stream the app opened itself, not the one the kernel had opened before, is at the base the
\* control plane named last, whatever loads overlapped.
AppStreamFollowsBase == Bus!AppStreamFollowsBase

\* With the editor closed the page shows no tile that needs Kea while Kea is off, and every widget
\* of the dashboard it was last given: whatever undo, the palette or an older document brought back
\* into the layout goes when the editor closes.
ClosedShowsServer ==
  Shown /\ ~page.editing =>
    /\ ~KeaEnabled(page.document) => page.layout \cap HiddenTiles = {}
    /\ VisibleWidgets(page.document) \subseteq page.layout

\* The cleanup closes every stream, the log panel's too, and empties every slot, whichever closures
\* the app still holds (fabricBusKernel.ts: "Tear down transports + SSE connection.").
LeavesNothingOpen ==
  [][mounted' # mounted =>
       /\ \A k \in DOMAIN bus'.streams : ~bus'.streams[k].open
       /\ \A id \in Bus!Transports : bus'.transport[id] = Bus!Absent
       /\ ~log'.streaming]_pageVars

\* "Apply finished" is said only once the host has applied a patch since it accepted this apply:
\* neither a restart, a control plane that still answers, a failed job nor a call left over by an
\* earlier panel is taken for it (PiholeCpGateway.ts: "pending file cleared means success").
FinishedMeansApplied ==
  [][\A i \in OpSlots : ops[i].kind = "apply" /\ Joined(i) => host.applied > ops[i].seen]_pageVars

\* The overlay that keeps the form from input goes in the end, whatever the host does.
BusyEnds == panel.busy ~> ~panel.busy
=============================================================================
