# dns-fabric in TLA+

dns-fabric is an operator dashboard (`apps/ui`, Svelte and TypeScript) with a small API
(`src/kea_fabric`, FastAPI). Two bundles share the dashboard: the Kea page, whose layout is kept
by the API, and the Pi-hole page, whose layout is kept in the browser. What can go wrong there is
what this project is about: a layout edited, undone, saved, reset and reloaded while requests are
in flight; a grid packed and repacked by drags, forms and size hints; an event stream opened,
closed and repointed by several owners; tables edited while refreshes arrive; settings applied by a
host that restarts; a JSON file read and written back by more than one thread.

Paths below are relative to the repository; `lib/` stands for `apps/ui/src/lib/`.

## Inventory

| component | state it keeps | operations | meets | hard behaviour |
|---|---|---|---|---|
| layout store `lib/dashboard/layout/layoutStore.ts` | layout, errors, editor flag, undo stacks, debounce timer | edits, undo, redo, open, done, flush, save-file, reset, accept server layout | cache, API | awaits inside flush, save and reset; one timer shared by all |
| cache and write gate `layout/layoutStorage.ts` | one document per bundle in localStorage, the gate | load, save, clear and unlock | store, hydration | a newer document must not be overwritten; `setItem` may throw |
| hydration `persistence/hydrateInitial.ts` | none | migrate, merge, re-save | cache, store | a failed save ends in the catch that removes the document |
| bootstrap, page life `bootstrap/`, `app/appMount.ts` | none | GET layout, beforeunload, reload | store, API | user may act before the GET answers; requests outlive the page |
| Pi-hole shell `lib/piholeCp/shell/PiholeCpDashboardShell.svelte` | the settings that are open (`settingsTile`, `settingsGroup`), else the store | sync layout with the dashboard document | store, cache | runs on its own while the user edits |
| event bus and kernel `dashboard/bus/eventBus.ts`, `fabricBusKernel.ts` | one EventSource, its release closure, transport slots, listeners | connect, release, declare transport, dispatch | gateway, tiles | closures kept by two owners; handlers after release |
| Pi-hole operator app `lib/piholeCp/shell/PiholeOperatorApp.svelte` | gateway base, release closure, last origin | load, env reload, repoint, unmount | bus, control plane | overlapping loads, answers after unmount |
| control-plane perf transport `dashboard/transports/cpFabricTransport.ts` | bucket, first emit, stopped | poll, average, release | bus | requests are not serialized |
| layout service and store `services/layout_service.py`, `persistence/layout_store.py` | one JSON file for all dashboards | put, save-file, reset, get | routes | no lock; a write empties the file first; crash |
| grid placement `lib/dashboard/placement/` | none | pack, reorder, reflow, swap, resize | layout store, drops | rows that overflow, placements kept or given up |
| layout tree, groups `layout/layoutTree.ts`, `groups/` | the layout document | add, move, remove, convert, tabs and sections | store, editor | long sequences of legal calls; limits of panes and depth |
| upgrade and validation `migration/`, `layoutZod.ts`, `api/layout_validate.py` | none | migrate, normalize, accept or refuse | hydration, routes | two validators of one document |
| drag and drop, overlays, palette `interactions/`, `tiles/`, `palette/` | mirrors of a drag, a form's draft | drag, drop, save, delete | store | what was remembered at the start meets the layout of the end |
| tables `lib/components/baseDataTable/` | view, edits, baseline, modal | search, sort, page, edit, save one or all | tiles | refreshes under an edit, saves in a loop |
| plugin data bus and tiles `lib/plugins/` | items, errors | first fetch, refetch, patch, pause | bus, API, tables | answers in any order against events |
| log page `lib/admin/AdminLogsPage.svelte` | rows, pager, query number | query, cancel, view all | API, table | timeouts, late answers |
| environment settings `lib/piholeCp/env/`, `piholeCp/gateway/` | config, draft, busy flag, two waits | stage, apply, roll back | control plane, operator app | polling a host that restarts; two tasks joined |
| log stream panel `lib/piholeCp/logs/` | an EventSource | start, stop, reload | control plane | refresh while it streams |
| the rest: registry, theme, gauges, schemas, boot, perf, replication and audit services | views, settings, stub data | | | none across steps |

`PROJECT.json` lists every component with its files, and under `hazards` what is hard to test, each
at its line with the properties that watch it.

What makes the modelled components correct:

- store: nothing the user did is dropped in silence; undo and redo walk one line of at most 50
  layouts; a newer client's document survives this one; the page comes to rest;
- editor: no edit loses a tile, nothing overlaps, a commit that changes nothing moves nothing, what
  the browser caches the API accepts and a reload brings back;
- bus and operator page: one stream at most, the one that can be released; a slot exactly while a
  stream runs; nothing open after the cleanup; a layout that follows the server; "Apply finished"
  only when it is;
- tables and pages: edits are lost by a save only, what is sent is what was typed, the pager agrees
  with the rows, and what the server pushes wins in the end;
- file: an atomic map of dashboards; an acknowledged document is the one served; nothing but a crash
  loses it.

## Modules

Store and file:
- `LayoutStore` - the store with its cache, gate, hydration, page life, and the API as the store
  sees it. `AutoSave` is the abstract specification it implements, under the refinement mapping that
  ends `LayoutStore`. `MCLayoutStore` gives it small documents.
- `LayoutStoreProofs`, `LayoutFileProofs` - theorems about the store, its agreement with the API
  included, and about the file.
- `LayoutFile` - the API's file and its writers; `LayoutMap` is the abstract map it implements;
  `MCLayoutFile` gives it two dashboards and two documents.

Editor, each module extending the one before:
- `Lists` - an array's `filter` and `sort`, with what to keep and the order given as sets.
- `GridCells` - a placement, its clamps, packing tiles and keeping their slots (`placement/tile.ts`).
- `LayoutTree` - tiles and groups, and the tree operations on them. A walk of the code that calls itself
  on a node's children is a function over the nodes below a list (`Below`), which takes the children's
  results through `Through`; no operator is RECURSIVE, so that the walks can be proved about.
- `HostGroups` - tabs, sections and the conversions between kinds of container.
- `GroupPlacement` - what is inside a container (`placement/group.ts`).
- `RootPlacement` - the root (`placement/root.ts`).
- `LayoutUpgrade` - migrations, `NormalLayout` (the normal form every commit goes through),
  hydration's result, and both validators.
- `DropApply` - what a drop makes of mirrors and layout.
- `LayoutEditor` - the state machine over them; `MCLayoutEditor` gives it a grid of four columns.
- `LayoutTreeProofs` - theorems about the grid, and what every walk of a tree makes of a layout;
  `LayoutEditorProofs` - the same of the modules above it, and the editor's invariants.

Pages:
- `TableRows`, `Pagination` - rows, filter and sort; page arithmetic and the pager's tokens.
- `DataTable` - the table with its edits, saves and modal.
- `ListTile` - a DHCP tile over a `DataTable`, with its requests, revisions and the server's lists.
- `LogsPage`, `ScanTile` - the log page; the scan tile and its pause button.
- `LivePages` - one of the three open at a time; `MCLivePages` gives it five tables.
- `TableRowsProofs`, `LivePagesProofs` - theorems about rows, order and paging as operators, and about
  the pages: types, the page shown, the saves of a table, the rows of the log page.

Pi-hole page:
- `FabricBus` - bus, kernel, the operator app's use of them, and the perf poller.
- `EnvSettings` - the settings panel, its calls, and the control plane's host.
- `LogPanel` - the log stream panel.
- `OperatorLayout` - which tiles a dashboard document calls for.
- `OperatorPage` - the page: `FabricBus` as an instance, with settings, log panel, layout and
  toolbar. `MCOperatorPage` gives it documents and settings.
- `FabricBusProofs`, `OperatorPageProofs` - theorems about the bus and about the page around it.

Definitions marked *deviant* are forms of the definition below them with a plausible mistake in it
(a gate forgotten, a timer not cleared, a slot kept). No specification uses them; each exists to
confirm that some property would notice the mistake.

### LayoutStore and the code

JavaScript runs one handler at a time, so the part of a handler up to its first `await` is one
action and what follows is another, with anything in between. `flushPersist` is `FlushPersist` (it
clears the timer and sends a PUT of the layout of that moment) and `PutAnswered` (it sets or clears
`persistError`); `saveLayoutToFile`, `resetToBaseline` and the bootstrap GET split the same way. A
call in `calls` is `sent`, then served (`ServeGet`, `ServePut`, `ServeSave`, `ServeReset`) or failed
(`CallFails`, also after it was served: the answer is lost), then answered. A page that goes away
leaves its calls behind with `live = FALSE`: they still reach the API, nobody reads the answers.

`applyStructure` is `Restructure` plus the timer. Its order of statements matters and is kept:
normalize (may throw, nothing changed), history, layout, local save (may throw: the layout has
changed, an error is set, the timer is not armed), timer. Undo and redo have no catch, so there a
throwing save leaves no error (`Restored`). `saveDashboardLayout` is a no-op under the gate
(`SavedLocally`). Every edit of the editor ends in `applyStructure`; which edit it was does not
matter to the properties, so `Edit(d)` takes any document that parses, and `Normalize` maps it to a
layout or to `Invalid`.

The two bundles are told apart by `shell`. On the Pi-hole page nothing is sent
(`skipServerLayoutPersist`), the cache is the only copy, and `syncLayoutFromServer` (`ServerSynced`)
may replace the layout whenever the editor opens or closes or the dashboard document changes.

`AutoSave` is what a user expects: a status that is saving, saved, failed or detached, and "saved"
only while the stored copy is the document on screen. The mapping reads the status off pending
calls, timer, errors and `layoutSource`.

### FabricBus and the code

A release closure is named by the number of the stream it closes. `connect()` is idempotent only
while `releaseConnection` is set; a closure closes its own EventSource but clears the shared slot
and the shared `releaseConnection` (`Released`). The kernel connects when it is built, so stream 1
exists before the app runs; `SyncFabricSse` is the app's function with its four cases;
`LoadAnswered` happens whether or not the app is still mounted, and so does `TickAnswered` after the
poller has stopped, as in the code.

### The editor and the code

A layout is a sequence of tiles and groups as records; an id is a member of `Ids`, a placement a `Cell`
or `NoGrid`; `Trees[d]` are the nodes with at most d groups inside one another. `Commit` is `applyStructure`: `NormalLayout` of the edited items, with the two flags
the callers pass. Everything a commit runs through is in it: finalize, dedupe, tab panes, packing of
the groups, then of the root or the placements kept. A drag remembers in `drag.items` the layout its
mirrors were taken from, and the drop merges these into the layout of that moment; an overlay
remembers the node it was opened for, children included, and saves that. Size hints (`GridHint`) and
the server's answer (`ServerLayout`) come at any moment, between the two ends of a drag or a form.

Controls are offered where the markup offers them: a host below an inactive tab or a closed section
is not drawn (`PanesShown`), a strip's tabs can be reordered and a stack's sections cannot, a root
tile is a target of what may land on it (`Hit`), a row has a target in every gap and at its end.
Where the model offers more than the page: settings can be opened for any node of the layout, and
every group is a drop target even when its tab is not the one shown. Origins in the forms are
either kept or typed as the corner.

### The tables and the code

A `DataTable` action is a handler with the effects it triggers (Svelte runs them before the next
handler): a change of items re-bases every row and clamps the page (`Receive`), a change of view clamps
it too (`SetView`). `saveRow` is `SaveRow` up to its await and `SaveAnswered`
or `SaveFailed` after; `saveAllDirty` is a loop of these (`NextRound`, `GoOn`). `ListTile` keeps
every request with the list it was answered with, so answers may be shown in any order; a revision
asks for the list again, an event carries one. In `ScanTile` a press is a call by its awaits, and what
the tile says (`statusLabel`) is the error of the last press, else the state. In `LogsPage` each query
has a slot with its request, whether it is still the newest, and whether its timer runs; the pager asks
for a neighbour, a page it lists, or any page typed in its field, the current one too
(`OnServerPageChange`).

### The operator page and the code

`OperatorPage` holds three scenes, because a page is used for one of them at a time: `streams` (loads,
repoints and the perf poller), `settings` (an env apply with the reload it starts) and `widgets` (an
editor over dashboards that come and go, and the log panel). All of them share `Next`. `ops` are
calls of the settings panel: the request, then the wait for the host job (`task`) and the reload of
the dashboard (`dash`) in parallel, joined by `Promise.all` (`Joined`, or `FirstFails` and
`OtherEnds`: the other task runs on). The host (`HostNext`) is external: it stops, applies, fails or
rolls back, and starts again, in any order a call of the panel can meet.

### LayoutFile and the code

`JsonLayoutStore.set` reads the whole file (`Load`), then opens it for writing, which empties it
(`Open`), then writes (`Write`). The text goes out in one step: writing in chunks would only add
further states in which the file cannot be read. PUT and save-file are `async def` handlers without
an await between read and write, so the event loop's thread runs them one at a time; reset is a
plain `def`, which FastAPI runs on a pool thread. Two open handles on one file overlay each other
(`Overlaid`): the shorter text leaves the longer one's tail behind. Writing the snapshot of
save-file, after the set, is in `LayoutStore` (`ServeSave` may answer with an error for a document
it has kept).

## Environment

What the code does not control is a constant, so that each run says what it assumes:

| constant | meaning |
|---|---|
| `InOrder` | the API serves and answers a page's calls in the order they were sent |
| `EarlyEdits` | the user may edit or flush before the bootstrap GET is answered |
| `StorageMayFail` | `localStorage.setItem` may throw at any write |
| `Shells` | which bundles run |
| `Overlap` | a set of the file may start while another runs |
| `WireLayouts`, `LegacyRows` | layouts the server sends, and version 1 layouts a browser still stores (`SoundRows`: placements that can be read, one or none for all tiles of a panel; the migration throws on others, and the built-in layout is loaded) |
| `Tables` | which tables are mounted, with what options, and what the server may do to them |
| `Scenes`, `HostConfigs` | what the Pi-hole page is used for; what the host has applied, pending and backed up |

## Runs

| run | distinct states | shows |
|---|---|---|
| `LayoutStoreSync` | 162 876 | Both bundles; calls in order, storage that works, edits after the GET. `SettledMeansSaved`: no pending work and no error means the API has the layout on screen. `PiholeReloadKeepsLayout`: the cache is never behind the screen where it is the only copy. `NewerKept`: no local save overwrites a newer document. `ComesToRest` (liveness). `AutoSaves`: the store implements `AutoSave`. |
| `LayoutStoreFaults` | 778 963 | Storage may throw, edits come early, no baseline file: types, the undo bound and the undo line hold all the same. |
| `LayoutStoreReorder` | | Finding: two PUTs in flight served in reverse leave the older layout on the API after the newer one's success (`PutMeansSaved`). |
| `LayoutStoreReset` | | Finding: a baseline reset keeps the undo stacks (`ResetClearsUndo`). |
| `LayoutStoreClear` | | Finding: on the Pi-hole page the banner's button clears the Kea key, and the lock comes back (`ClearUnlocks`). |
| `LayoutEditor` | 56 926 | Any two writes with the drags and forms around them: `RootApart` (root items placed, none overlapping), `RecommitMovesNothing` (the layout is its own normal form), `EditsLoseNothing`, `DeletionsAreExact`, `HostsStaySound`, `MovingKeepsSizes`, `CachedIsAccepted` (the browser's validator implies the API's), `ReloadKeepsTiles`. |
| `LayoutEditorTabIds` | | Finding: a container with a tile made into a tab host gives the tile's id to the pane as well (`IdsUnique`). |
| `LivePages` | 97 678 | `PageIsShown`, `OneSaveAtATime`, `LogsMatchPager`, `EditsLostBySaveOnly`, `TypedOnlySent`, `SaveAllLeavesNoneDirty`; liveness: `ListCatchesUp`, `PageQueryEnds`, `ScanCatchesUp` (the scan button follows the server, the status line says its state or that it is unavailable). |
| `OperatorPage` | 195 555 | `OneStream`, `SlotMeansStream`, `AppStreamFollowsBase`, `LeavesNothingOpen`, `ClosedShowsServer` (a closed editor shows what the dashboard calls for), `FinishedMeansApplied` (no restart, late answer or failed job is taken for a finished apply); liveness: `BusyEnds`. |
| `FabricBusRepoint` | | Finding: the first base the control plane names is not followed by the stream (`StreamFollowsBase`). |
| `LayoutFile` | 198 | Sets one at a time, crashes anywhere: `AckedServed`, `ReadableAtRest`, `BrokenForGood`, and the file implements `LayoutMap` (`AtomicMap`). |
| `LayoutFileRace` | | Finding: a reset on the pool beside a PUT on the loop drops the other dashboard's acknowledged document (`AckedServed`). |

`PROJECT.json` gives each finding with the line it contradicts. `SettledMeansSaved` fails without
the assumptions of its run, and that is the point of naming them: out of order, by
`LayoutStoreReorder`; with a throwing storage, because undo then schedules nothing and reports
nothing; with early edits, because the answer of the GET replaces what the user did.

Some properties name what the code does not promise, as the condition under which they hold:
`EditsLoseNothing` lets a drop lose the container that was dropped into itself or into one inside it,
and a container's settings lose what `Auto wrap` has no room for, or what arrived in it while they were
open; it speaks of drops over the layout their drag began with, and of forms however old; `MovingKeepsSizes` speaks of roots of one-row items,
since two items of which one is higher exchange their whole placements; `FinishedMeansApplied` speaks
of applies, since a rollback says "Apply finished" as soon as it sees that nothing is pending; `ScanCatchesUp` lets the status line
stay unavailable, since no event takes away the error of a press: only the next press does.

### Bounds

- Two layouts, plus a document hydration must upgrade and one that cannot be normalized: the
  properties compare the places a layout may be (screen, cache, API, a call, a stack), and two
  values tell equal from different. `LayoutStoreFaults` has no such extra documents, but its second
  layout lacks a default tile, so that hydration changes and re-saves it.
- `UNDO_CAP` 1 or 2 instead of 50: the stacks reach the cap, both sides of it, within a few steps.
- `MAX_CALLS` 2: the smallest number that has two calls overtake each other. A step that would send
  a third call waits.
- `Cols` 4 (the code's 20), `MaxRowSpan` 3, `MaxPanes` 2, `MaxDepth` 3: rows fill, overflow and wrap
  with two or three items; every limit is met from both sides. `Widths` and `Heights` have the least
  span and one past the largest.
- `MaxWrites` 2: every pair of writes of the layout, with a drag or a form that began before the
  first. `IdPool` hands out new ids in a fixed order: ids from `Date.now` and a random suffix are
  taken to be unique, and nothing is added when fewer than two are left (`CanName`; the run has enough
  for its writes). `Ids` is every id the run can meet.
- Two rows, two values and a bad one; five tables, each with the options of another part of the pages
  and its own bound on requests in flight (`fetches`) and saves (`saves`); two queries of the log page
  (`QuerySlots`), two events on their way (`EventBound`).
- `MAX_STREAMS` 3, `MAX_LOADS` 2, `MAX_TICKS` 2: the kernel's stream and two repoints; answers overlap
  and swap. `SAMPLES` 2 instead of 3.
- `MAX_PRESSES` 2, `OpSlots` 2: an apply or rollback beside the wait an earlier panel left behind; the
  last press is an apply (`LastAlone`). `MAX_ASKS` 1. One plain and one Kea tile and widget. In the
  scene `settings` the host names at most one Kea origin and the page is neither refreshed nor left;
  reading the config is one step with showing it.
- Two dashboards, two documents of different length, one pool thread: a set of each dashboard, with
  the shorter text last or first. A second pool thread adds only more resets.

Deadlock is checked in every run but those of the bus, the operator page (which may be left, with
nothing in flight) and the editor (whose bound on writes ends every behaviour).

### Fairness

`ComesToRest` assumes that a timer that stays armed fires, that some pending call is served or
fails, and that some answer is delivered: what the browser's event loop and HTTP with its errors
give. Nothing is assumed of the user: the property speaks of what follows the last step a user
takes, and a step the timer could have taken by itself does not count as one.

In `LivePages` the server's loop goes round, its stream delivers in order, an answer that has reached
the browser is handled and timers fire (weak fairness). A list request may be lost, but not every one
for ever (strong fairness on the oldest): the tile asks again at every revision. A log query, a press
of the scan button or the first scan request may stay unanswered for good; the properties hold
without them.

In `OperatorPage` a request of the panel is answered or fails, and the deadlines of both waits fire
(weak fairness per slot). The host owes nothing: it may stay down, and `BusyEnds` must hold all the
same.

The other runs are about safety and need no fairness.

## Proofs

All in TLAPS, for every value of the constants that the named assumptions allow, every bound and
every order of calls.

### The store (`LayoutStoreProofs`)

- `TypesHold`, `UndoStaysBounded`. Redo pushes on the past without looking at the cap, so the bound on
  each stack alone is not inductive. The bound on both together is, with types: undo and redo keep
  the sum, an edit caps the past and empties the future.
- `HistoryStaysALine`, from the types alone: a sequence is its front and its last element, or its head
  and its tail.
- `NewerIsKept`, when storage does not throw and the baseline is not a document that cannot be
  normalized. `GateInv` adds to the types that a newer document in the cache means the gate is up, and
  that a call carries a document of its kind. Both assumptions are needed: a throwing save in hydration
  removes the document, and `resetToBaseline` releases the gate before it normalizes the baseline.
- `PiholeKeepsLayout`, when storage does not throw and hydrating twice is hydrating once
  (`StableHydration`; a throwing save leaves the screen ahead of the cache). The invariant: the Pi-hole
  page has no calls, and its gate is up exactly over a newer document.
- `SettledIsSaved` - `Spec => []SettledMeansSaved`. `SyncInv` says of every order of calls in flight
  what the server will hold when they are answered: calls are served in turn (`InTurn`); while the
  bootstrap GET runs, whatever was called before it is of a page that is gone, and only a reset may be
  called after it (`HydratingInv`); after it, the last write carries the layout on screen unless the
  debounce is armed or it failed, and the server has what it carries once it is accepted (`Covered`).
  Only the last write needs to be spoken of, because calls are served in turn: that is where a proof
  without `InOrder` breaks, and what `LayoutStoreReorder` shows.
- `StoreAutoSaves` - `Spec => AutoSaves`, the refinement of `AutoSave`, from the same invariant. Initial
  states map to initial states; an edit, an undo or a redo is a change of the screen, a call served is a
  write, stale or not, the answer that leaves nothing pending is the outcome, and every other step maps
  to a stutter. `SyncInv` is needed for the outcome: "saved" only when what is stored is on screen.

The last two assume `Orderly` (calls in order, no edit before the GET is answered, storage that does
not throw: the assumptions `LayoutStoreSync` runs under, and each of them is needed, see Runs) and
`StableNormalForm`, that normalizing a layout in normal form changes nothing. The code relies on it
too: a flush sends the layout on screen and the API normalizes what it is sent. That the real
normal form has this property is what `RecommitMovesNothing` checks on real layouts.

### The file (`LayoutFileProofs`)

- `FileTypesHold` and `BrokenStaysBroken` hold whatever sets overlap: each writer is typed by itself, and
  a torn file is read by every writer before it writes.
- `FileServesTheAcked`, `FileIsReadableAtRest` and `FileIsAMap` are for sets one at a time
  (`OneAtATime`; the run `LayoutFileRace` shows why). `FileInv`: the set that runs is the only one, it
  holds the acknowledged map with its own document in place, the file is empty while it writes, and
  between sets the file is that map or torn. `FileIsAMap` is the refinement: every step is a step of
  `LayoutMap` or a stutter.

### The operator page (`FabricBusProofs`, `OperatorPageProofs`)

- `BusStaysSound` - the bus keeps one stream, its slot and its base, for any number of streams.
  `StreamInv` says why no release can clear what belongs to a later stream: a closure the app keeps is
  the current one, and a stream without one is the kernel's, the first. `PollerInv` bounds the rest.
- `OneStreamAtMost`, `SlotsTellTheTruth`, `StreamIsAtLastBase`, `ClosedPageFits`, `LeavingClosesAll`,
  `FinishedIsApplied` - the same of the page around the bus, whose every step is a step of the bus or
  leaves it alone, so that `StreamInv` comes from the instance. `PageInv` adds what ties the layout to
  the document, and `SettingsInv` what a call of the panel may rely on: once it waits, its patch is
  still there or an apply has gone through.
- `PageTypesHold` - the bound on what the host has applied is not a matter of types: `PressInv` counts
  that the jobs done, under way and about to be asked for never exceed the presses.

No tile may be both a plain and a Kea one (`WidgetsAssumption`), and the bounds are not zero
(`PageAssumption`).

### Tables and pages (`TableRowsProofs`, `LivePagesProofs`)

- `OfferedPagesExist`, `DisplayedPageHasRows` - the pager's windows name no page outside the table, and
  a page number off either end of a list still displays rows, for every length and page size.
- `FilterKeepsMatches`, `SortLosesNoRow` - a filter keeps exactly the matches, in order; a sort is a
  permutation in the order of the header, equal values as they stood. Both are stated in the model by
  what the result is (`Kept`, `Order`) and not by a loop, since the prover has no induction over a
  loop; `OrderIs` shows that an enumeration as stated exists for every list, which `CHOOSE` needs: a
  row's place is the number of rows before it.
- `PageTypesHold`, `ShownPageExists` - `TileInv`: the page a table is on is below the number of pages
  after every refresh, search and change of size. `ScanInv`: a call that has read the server's state
  carries it. `LogTypes` and `OneNewest` bound the queries.
- `RowsBelongToPager` - `LogInv`: one query is the newest at most, and its request is what the pager names.
- `InlineSavesOneAtATime` - `SaveInv`: a save under way is the only one and `saving` says so, so neither a
  press of Save nor a round of Save all adds a second.
- `OnlyTypedIsSent` - `BaselineInv`: an inline table's baseline holds the value of every row there
  is, through every list, answer and round of Save all. A cell that differs from its baseline is
  then one somebody typed in.
- `TypedIsKept` - from the same invariant, action by action: only an answered save, or a modal opened
  anew, forgets a cell.

`TablesAssumption` says that a table's page size is one of numbers, not zero; `ScanAssumption` that an
event may be on its way.

### The grid and the tree (`LayoutTreeProofs`)

- `PackIsApart` - a pack gives every tile a cell of its size inside the columns and lets no two overlap.
  `PackInv`, along the list: the bottom of each column lies at or below every cell placed over it, so
  that a cell put on the highest bottom of its columns is clear of all before it. The installed provers
  cannot instantiate the library's induction theorems, which take an operator; `LeastMember` (every
  set of numbers has a least member, from well-foundedness) does the same with a set, of the positions
  at which the invariant fails.
- `KeptOrPackedIsApart` - the last step of every commit: placements that may be kept and are apart are
  kept, else the list is packed.
- `ReorderIsApart` - a changed order inside a group leaves its tiles apart. With the order unchanged the
  code clamps placements and does not look for overlaps, so that nothing is claimed there.
- `ClampIsComplete` - clamping gives a complete placement, and leaves a complete one as it is.

The rest of the module is what the proofs about layouts of any depth rest on:

- `TreeInduction` - a set that holds a node whenever it holds the node's children holds every node
  (`AnyTree`, the union of `Trees[d]`): the least depth at which it fails is not zero and has a
  smaller one below it.
- `TreeRecursion` - a function that is given at a node by its values at the node's children exists,
  which every `CHOOSE` of a walk needs: functions on the layouts of each depth are glued together, since
  those of two depths agree where both are defined (`TreeRunsAgree`). `BelowIs` shows that `Below(items)`,
  itself defined level by level, is closed under children and made of nodes.
- `RebuildTyped`, `RebuildExists` - both put together for the form all editing walks have: a new node for
  each node, from the new nodes of its children. The lemmas `...Typed` (`ReplaceGroupTyped`,
  `RemoveTileTyped`, ...) say with them that each operation makes a layout of a layout.
- `PickedIs`, `SortedByIs`, `FlattenSeqIs`, ... - the same for lists, from `LeastMember`.

### The editor (`LayoutEditorProofs`)

- `EditorInvariant` - `IInv` is inductive. `StoreOK`: the layout in the store is `Apart`, that is a list
  of nodes, each with a placement, no two on one another. `ModeOK`: what a drag took its mirrors
  from and what an overlay was opened for are nodes too - no more than that, because the layout may
  have been replaced since; `RootApart` alone is not inductive, because a drop or a form that saves
  something that is no node could make anything of the layout.
- `EditorRootApart`, `EditorTypes`, `EditorCachedIsAccepted` - `Spec => []RootApart`, `[]TypeOK` and
  `[]CachedIsAccepted` from it, for every number of columns, every set of plugins, ids and layouts.
  The last compares the two validators group by group: where the browser's grid rules accept a
  placement, those of `layout_validate.py` do, and the ids and the depth they count are the same.

Every write of the store writes `NormalLayout` of something, so that the argument is in two halves.
What is written is made of nodes: `DropMakesALayout` for a drop of a stale drag, `MigrationIsLayout` for
version 1, and a lemma for each edit, form and pane operation. And `NormalLayoutIsApart`: the normal form
of *any* list of nodes is apart - tab tiles are wrapped and panes cleared (`FinalizeTyped`), groups packed
from the inside out (`PackGroupsTyped`, where the strip and the row-wrap pack of a group hand up heights
that are not limited), and then `PlacementIsApart` keeps the root's placements or packs it.
`HydratedIsApart` says the same of a first paint.

What is assumed of the constants is named in the modules: `TreeAssumption` (a plugin's default span is
one of the columns), `UpgradeAssumption`, `EditorAssumption` (layouts that come from outside are made of
nodes, as both validators make sure, the placements of version 1 can be read). TLC
evaluates them in the runs.

### Only model-checked

- `ComesToRest`, `ListCatchesUp`, `PageQueryEnds`, `ScanCatchesUp` and `BusyEnds`: liveness, and `ENABLED`
  with it, is beyond the prover.
- `RecommitMovesNothing`. It is not true of every layout: a container without a placement whose content
  is higher than the row limit gets that height at the first commit (`groupOuterRowSpan` limits a height
  that is given, not one that is computed) and the limit at the next. Nor are all heights within the
  limit, which is why `TypeOK` asks it of tiles only. The layouts of `MCLayoutEditor` stay below it.
- The editor's action properties `EditsLoseNothing`, `DeletionsAreExact`, `HostsStaySound`,
  `MovingKeepsSizes`, `ReloadKeepsTiles`. They speak of which ids are in a layout before and after, which
  takes a second set of lemmas about every operation: what it keeps, where the ones proved say what it
  makes.
- `SaveAllLeavesNoneDirty`. It is not true of every list: Save all stops after two rounds more than the
  page has rows, and a list that keeps changing in between can use them up. The tables of
  `MCLivePages`, of two rows at most, stay below that limit.
- What the conversions of `LayoutStore` (`Normalize`, `Hydrated`) compute: they are constants there, and
  operators of the editor's modules.

## Not modelled

- Text: error messages, labels, status lines (but the scan tile's), the names of exports; export itself (`tableExport.ts`).
- Geometry: pointer positions, outlines, gauges and their thresholds; where the pointer is over a
  target is a choice.
- The aggregate of the transport slots and the bus's fan-out to the subscribers of a topic.
- The perf and discovery record tiles, which use the helpers `ListTile` and `ScanTile` show.
- Theme, registry, boot and routes, schemas; the perf, replication and audit services, which answer
  stub data. Access rules and refused bodies appear as calls that fail.

## What is hard to test and not covered

`PROJECT.json` lists under `hazards` what a property watches, and what none does with the reason.
Beside these, the code has edges the models show but no property forbids, because the repository says
nothing of them either: rows wider than the grid are kept by the editor and refused by both
validators; deleting a container's last pane in its settings leaves an empty host; a container that
wraps loses the containers in it at the next packing; a root item higher than one row moves others at
every edit; hydration repacks the root at every load and drops every empty container with the legacy
tile; a nest deeper than the limit can be dragged together; showing another tab outside the editor
edits the layout; pausing the scan with a label that is out of date does the opposite; the
error of a press on the scan button hides the status over every event, until the next press; a failed
refresh of the Pi-hole page takes away the only button that refreshes it.

## Plan

Next: what each operation keeps, as lemmas beside `...Typed`, for the action properties of the editor;
`MovingKeepsSizes` first, which needs the root only; `LayoutStore` over `LayoutFile`, one API process
behind several pages; the bus's fan-out.
