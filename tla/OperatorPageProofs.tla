-------------------------- MODULE OperatorPageProofs --------------------------
(* What the operator page keeps true for every set of tiles, documents and     *)
(* origins, and for any number of streams, loads, presses and restarts of the  *)
(* host.  Three invariants, one over each part of the page: the calls of the   *)
(* settings panel, the layout, and the streams (from FabricBusProofs, since    *)
(* every step of the page is a step of the bus or leaves it alone).            *)
EXTENDS OperatorPage, TLAPS

Sound == INSTANCE FabricBusProofs

-----------------------------------------------------------------------------
(* The settings panel's calls and the host. *)

Maybe == Settings \cup {None}
HostRecord == [up : BOOLEAN, effective : Settings, pending : Maybe, backup : Maybe,
               job : {"none", "apply", "rollback"}, kea : BOOLEAN, applied : Nat]
PanelRecord == [open : BOOLEAN, schema : BOOLEAN, draft : Maybe, config : Config, busy : BOOLEAN]
CallRecord == [kind : Kinds, step : Steps, own : BOOLEAN, patch : Maybe, got : Maybe, seen : Nat,
               joined : BOOLEAN, dash : {"none", "poll", "plugins", "done", "failed"}, fetched : Documents]

\* What a call may rely on: a value it stages, and, once it waits, a patch that is still there or an
\* apply that has gone through.
SoundCall(c) ==
  /\ c \in CallRecord /\ c.seen <= host.applied
  /\ c.step = "patch" => c.patch # None
  /\ c.step = "post" => c.kind \in {"apply", "rollback"}
  /\ c.kind = "apply" /\ c.step = "wait" => host.pending # None \/ host.applied > c.seen
  /\ c.kind = "apply" /\ c.step \in {"schema", "done"} => host.applied > c.seen

SettingsInv ==
  /\ host \in HostRecord
  /\ host.job = "rollback" => host.backup # None
  /\ panel \in PanelRecord
  /\ ops \in [OpSlots -> CallRecord]
  /\ \A i \in OpSlots : SoundCall(ops[i])

LEMMA NoDocumentIsOne == NoDocument \in Documents
  BY DEF NoDocument, Documents

LEMMA IdleIsSound == host \in HostRecord => SoundCall(Idle)
  BY NoDocumentIsOne DEF SoundCall, Idle, CallRecord, HostRecord, Kinds, Steps, Maybe

\* A call moves: the others keep what they rely on while the host does not change.
LEMMA OneCallMoves ==
  ASSUME SettingsInv, NEW i \in OpSlots, NEW c, SoundCall(c), ops' = [ops EXCEPT ![i] = c],
         UNCHANGED host, panel' \in PanelRecord
  PROVE  SettingsInv'
  BY DEF SettingsInv, SoundCall

LEMMA WriteTypes ==
  ASSUME SettingsInv, NEW i, NEW next \in PanelRecord, Write(i, next)
  PROVE  panel' \in PanelRecord
  BY DEF Write, SettingsInv

LEMMA ShownTypes ==
  ASSUME SettingsInv
  PROVE  /\ Loaded(panel, HostConfig) \in PanelRecord
         /\ [Loaded(panel, HostConfig) EXCEPT !.busy = FALSE] \in PanelRecord
         /\ [panel EXCEPT !.busy = FALSE] \in PanelRecord
         /\ FreshPanel \in PanelRecord
  BY DEF SettingsInv, Loaded, HostConfig, HostRecord, PanelRecord, Config, Maybe, FreshPanel, NoConfig

LEMMA CallsStaySound ==
  ASSUME SettingsInv, NEW i \in OpSlots, CallNext(i)
  PROVE  SettingsInv'
<1>0. SoundCall(ops[i]) /\ ops[i] \in CallRecord /\ panel \in PanelRecord /\ host \in HostRecord
  BY DEF SettingsInv
<1>1. CASE ConfigShown(i)
  <2>1. panel' \in PanelRecord
    BY <1>1, WriteTypes, ShownTypes DEF ConfigShown
  <2> QED
    BY <1>0, <1>1, <2>1, IdleIsSound, OneCallMoves DEF ConfigShown, Ends
<1>2. CASE ConfigFails(i)
  <2>1. panel' \in PanelRecord
    BY <1>0, <1>2, WriteTypes, ShownTypes DEF ConfigFails, Thrown
  <2> QED
    BY <1>0, <1>2, <2>1, IdleIsSound, OneCallMoves DEF ConfigFails, Ends
<1>3. CASE PatchServed(i)
  <2>1. ops[i].patch \in Maybe /\ ops[i].patch # None
    BY <1>0, <1>3 DEF PatchServed, SoundCall, CallRecord
  <2>2. /\ host' \in HostRecord /\ host'.pending # None /\ host'.applied = host.applied
        /\ host'.job = host.job /\ host'.backup = host.backup
    BY <1>3, <2>1 DEF PatchServed, SettingsInv, HostRecord
  <2>3. \A c : SoundCall(c) => SoundCall(c)'
    BY <2>2 DEF SoundCall
  <2>4. \E c : SoundCall(c) /\ ops' = [ops EXCEPT ![i] = c]
    <3> DEFINE c == [ops[i] EXCEPT !.step = "config", !.patch = None]
    <3>1. SoundCall(c)
      BY <1>0 DEF SoundCall, CallRecord, Steps, Maybe
    <3>2. ops' = [ops EXCEPT ![i] = c] \/ ops' = [ops EXCEPT ![i] = Idle]
      BY <1>3 DEF PatchServed, Ends
    <3> QED
      BY <1>0, <3>1, <3>2, IdleIsSound
  <2>5. panel' \in PanelRecord
    BY <1>0, <1>3, WriteTypes, ShownTypes DEF PatchServed, Thrown
  <2> QED
    BY <2>2, <2>3, <2>4, <2>5 DEF SettingsInv, SoundCall
<1>4. CASE RequestFails(i)
  <2>1. panel' \in PanelRecord
    BY <1>0, <1>4, WriteTypes, ShownTypes DEF RequestFails, Thrown
  <2> QED
    BY <1>0, <1>4, <2>1, IdleIsSound, OneCallMoves DEF RequestFails, Ends
<1>5. CASE Deferred(i)
  <2>1. SoundCall([ops[i] EXCEPT !.step = "config"])
    BY <1>0 DEF SoundCall, CallRecord, Steps
  <2> QED
    BY <1>0, <1>5, <2>1, OneCallMoves DEF Deferred, GoTo
<1>6. CASE Accepted(i)
  <2> DEFINE c == [ops[i] EXCEPT !.step = "wait", !.dash = "poll", !.seen = host.applied]
  <2>1. /\ host' \in HostRecord /\ host'.applied = host.applied /\ host'.pending = host.pending
        /\ host'.backup = host.backup /\ host'.job = ops[i].kind
    <3>1. ops[i].kind \in {"apply", "rollback"}
      BY <1>0, <1>6 DEF Accepted, SoundCall
    <3>2. host' = [host EXCEPT !.job = ops[i].kind]
      BY <1>6 DEF Accepted
    <3>3. host' \in HostRecord
      BY <1>0, <3>1, <3>2 DEF HostRecord
    <3>4. /\ host'.applied = host.applied /\ host'.pending = host.pending
          /\ host'.backup = host.backup /\ host'.job = ops[i].kind
      BY <1>0, <3>2 DEF HostRecord
    <3> QED
      BY <3>3, <3>4
  <2>2. (IF ops[i].kind = "apply" THEN host.pending ELSE host.backup) # None
    BY <1>6 DEF Accepted
  <2>3. SoundCall(c)
    <3>1. host.applied \in Nat
      BY <1>0 DEF HostRecord
    <3>2. c \in CallRecord
      BY <1>0, <3>1 DEF CallRecord, Steps
    <3>3. c.kind = ops[i].kind /\ c.step = "wait" /\ c.seen = host.applied
      BY <1>0, <3>1 DEF CallRecord
    <3> HIDE DEF c
    <3> QED
      BY <2>2, <3>1, <3>2, <3>3 DEF SoundCall
  <2>4. ops' = [ops EXCEPT ![i] = c] \/ ops' = [ops EXCEPT ![i] = Idle]
    BY <1>6 DEF Accepted, Ends
  <2>5. \A d : SoundCall(d) => SoundCall(d)'
    BY <2>1 DEF SoundCall
  <2>6. panel' \in PanelRecord
    BY <1>0, <1>6, WriteTypes, ShownTypes DEF Accepted, Thrown
  <2> HIDE DEF c
  <2> QED
    BY <1>0, <2>1, <2>2, <2>3, <2>4, <2>5, <2>6, IdleIsSound DEF SettingsInv, SoundCall
<1>7. CASE PollAnswered(i)
  <2> DEFINE c == [ops[i] EXCEPT !.step = "schema", !.got = host.effective]
  <2>1. SoundCall(c)
    BY <1>0, <1>7 DEF PollAnswered, SoundCall, CallRecord, Steps, SettingsInv, HostRecord, Maybe
  <2> HIDE DEF c
  <2> QED
    BY <1>0, <1>7, <2>1, OneCallMoves DEF PollAnswered, c
<1>8. CASE WaitTimesOut(i)
  <2>1. SoundCall([ops[i] EXCEPT !.step = "failed"])
    BY <1>0 DEF SoundCall, CallRecord, Steps
  <2> QED
    BY <1>0, <1>8, <2>1, OneCallMoves DEF WaitTimesOut, GoTo
<1>9. CASE SchemaAnswered(i)
  <2> DEFINE c == [ops[i] EXCEPT !.step = "done", !.got = None]
             shown == [panel EXCEPT !.schema = TRUE, !.config = [effective |-> ops[i].got, pending |-> None],
                                    !.draft = ops[i].got]
  <2>1. SoundCall(c)
    BY <1>0, <1>9 DEF SchemaAnswered, SoundCall, CallRecord, Steps, Maybe
  <2>2. shown \in PanelRecord
    BY <1>0 DEF PanelRecord, CallRecord, Config, Maybe
  <2>3. panel' \in PanelRecord
    BY <1>9, <2>2, WriteTypes DEF SchemaAnswered
  <2> QED
    BY <1>9, <2>1, <2>3, OneCallMoves DEF SchemaAnswered
<1>10. CASE SchemaFails(i)
  <2> DEFINE c == [ops[i] EXCEPT !.step = "failed", !.got = None]
  <2>1. SoundCall(c)
    BY <1>0 DEF SoundCall, CallRecord, Steps, Maybe
  <2> QED
    BY <1>0, <1>10, <2>1, OneCallMoves DEF SchemaFails
<1>11. CASE Joined(i)
  <2>1. panel' \in PanelRecord
    BY <1>11, WriteTypes, ShownTypes DEF Joined
  <2> QED
    BY <1>0, <1>11, <2>1, IdleIsSound, OneCallMoves DEF Joined, Ends
<1>12. CASE FirstFails(i)
  <2>1. panel' \in PanelRecord
    BY <1>12, WriteTypes, ShownTypes DEF FirstFails, Thrown
  <2>2. SoundCall([ops[i] EXCEPT !.joined = TRUE])
    BY <1>0 DEF SoundCall, CallRecord
  <2> QED
    BY <1>12, <2>1, <2>2, OneCallMoves DEF FirstFails
<1>13. CASE OtherEnds(i)
  BY <1>0, <1>13, IdleIsSound, OneCallMoves DEF OtherEnds, Ends
<1> QED
  BY <1>1, <1>2, <1>3, <1>4, <1>5, <1>6, <1>7, <1>8, <1>9, <1>10, <1>11, <1>12, <1>13 DEF CallNext

LEMMA BegunIsSound ==
  ASSUME SettingsInv, NEW kind \in Kinds, NEW step \in Steps \ {"wait", "schema", "done"},
         NEW patch \in Maybe, step = "patch" => patch # None,
         step = "post" => kind \in {"apply", "rollback"}, Begin(kind, step, patch),
         UNCHANGED host, panel' \in PanelRecord
  PROVE  SettingsInv'
<1> DEFINE c == [Idle EXCEPT !.kind = kind, !.step = step, !.own = TRUE, !.patch = patch]
<1>1. FreeSlot \in OpSlots /\ ops' = [ops EXCEPT ![FreeSlot] = c]
  BY DEF Begin, HasSlot, FreeSlot
<1>2. SoundCall(c)
  <2>1. host.applied \in Nat
    BY DEF SettingsInv, HostRecord
  <2>2. c \in CallRecord
    BY NoDocumentIsOne DEF Idle, CallRecord, Kinds, Steps, Maybe
  <2>3. c.kind = kind /\ c.step = step /\ c.patch = patch /\ c.seen = 0
    BY DEF Idle
  <2> HIDE DEF c
  <2> QED
    BY <2>1, <2>2, <2>3 DEF SoundCall
<1> HIDE DEF c
<1> QED
  BY <1>1, <1>2, OneCallMoves

LEMMA FormStaysSound ==
  ASSUME SettingsInv, FormNext
  PROVE  SettingsInv'
<1>0. panel \in PanelRecord
  BY DEF SettingsInv
<1>1. None \in Maybe /\ {"load", "save", "apply", "rollback"} \subseteq Kinds
      /\ {"config", "patch", "post"} \subseteq Steps \ {"wait", "schema", "done"}
  BY DEF Maybe, Kinds, Steps
<1>2. CASE Toggle
  <2>1. panel' \in PanelRecord
    BY <1>0, <1>2 DEF Toggle, PanelRecord
  <2>2. CASE Begin("load", "config", None)
    BY <1>1, <1>2, <2>1, <2>2, BegunIsSound DEF Toggle
  <2>3. CASE UNCHANGED ops
    BY <1>2, <2>1, <2>3 DEF Toggle, SettingsInv, SoundCall
  <2> QED
    BY <1>2, <2>2, <2>3 DEF Toggle
<1>3. ASSUME NEW v \in Settings, Type(v) PROVE SettingsInv'
  <2>1. panel' \in PanelRecord
    BY <1>0, <1>3 DEF Type, PanelRecord, Maybe
  <2> QED
    BY <1>3, <2>1 DEF Type, SettingsInv, SoundCall
<1>4. ASSUME NEW kind \in Kinds, NEW step \in Steps \ {"wait", "schema", "done"},
             NEW patch \in Maybe, step = "patch" => patch # None,
             step = "post" => kind \in {"apply", "rollback"}, Press(kind, step, patch)
      PROVE  SettingsInv'
  <2>1. panel' \in PanelRecord
    BY <1>0, <1>4 DEF Press, PanelRecord
  <2> QED
    BY <1>4, <2>1, BegunIsSound DEF Press
<1>5. CASE SaveDraft
  <2>1. panel.draft \in Maybe /\ panel.draft # None
    BY <1>0, <1>5 DEF SaveDraft, Changed, PanelRecord
  <2> QED
    BY <1>1, <1>4, <1>5, <2>1 DEF SaveDraft
<1>6. CASE ApplyStaged \/ RollbackEnv
  BY <1>1, <1>4, <1>6 DEF ApplyStaged, RollbackEnv
<1> QED
  BY <1>2, <1>3, <1>5, <1>6 DEF FormNext

\* Only an apply takes the pending patch away, and then it counts.
LEMMA HostStaysSound ==
  ASSUME SettingsInv, HostNext
  PROVE  SettingsInv'
<1>0. host \in HostRecord /\ (host.job = "rollback" => host.backup # None) /\ host.applied \in Nat
  BY DEF SettingsInv, HostRecord
<1>1. /\ host' \in HostRecord
      /\ host'.job = "rollback" => host'.backup # None
      /\ host'.applied >= host.applied
      /\ host'.pending = host.pending \/ host'.applied > host.applied
  <2>1. CASE HostApplies
    <3>1. host.pending \in Settings /\ host.effective \in Maybe /\ host.applied + 1 \in Nat
      BY <1>0, <2>1 DEF HostApplies, HostRecord, Maybe
    <3>2. host' \in HostRecord
      BY <1>0, <2>1, <3>1 DEF HostApplies, HostRecord, Maybe
    <3>3. host'.job = "none" /\ host'.applied = host.applied + 1
      BY <1>0, <2>1 DEF HostApplies, HostRecord
    <3> QED
      BY <1>0, <3>2, <3>3
  <2>2. CASE HostRollsBack
    <3>1. host.backup \in Settings
      BY <1>0, <2>2 DEF HostRollsBack, HostRecord, Maybe
    <3>2. host' \in HostRecord
      BY <1>0, <2>2, <3>1 DEF HostRollsBack, HostRecord
    <3>3. host'.job = "none" /\ host'.applied = host.applied /\ host'.pending = host.pending
      BY <1>0, <2>2 DEF HostRollsBack, HostRecord
    <3> QED
      BY <1>0, <3>2, <3>3
  <2>3. CASE HostJobFails
    BY <1>0, <2>3 DEF HostJobFails, HostRecord, Maybe
  <2>4. CASE HostStops \/ HostStarts
    <3>1. PICK up \in BOOLEAN : host' = [host EXCEPT !.up = up]
      BY <2>4 DEF HostStops, HostStarts
    <3> QED
      BY <1>0, <3>1 DEF HostRecord
  <2> QED
    BY <2>1, <2>2, <2>3, <2>4 DEF HostNext
<1>2. host'.applied \in Nat
  BY <1>1 DEF HostRecord
<1>3. ASSUME NEW c, SoundCall(c) PROVE SoundCall(c)'
  <2>1. c.seen \in Nat
    BY <1>3 DEF SoundCall, CallRecord
  <2> QED
    BY <1>0, <1>1, <1>2, <1>3, <2>1 DEF SoundCall
<1> QED
  BY <1>1, <1>3 DEF HostNext, SettingsInv

LEMMA PanelGoneStaysSound ==
  ASSUME SettingsInv, PanelGone, UNCHANGED host
  PROVE  SettingsInv'
<1>1. ASSUME NEW i \in OpSlots PROVE SoundCall(ops[i])' /\ ops'[i] \in CallRecord
  <2>1. SoundCall(ops[i]) /\ ops'[i] = IF ops[i].kind = "load" THEN Idle ELSE [ops[i] EXCEPT !.own = FALSE]
    BY DEF SettingsInv, PanelGone
  <2>2. SoundCall(ops'[i])
    <3> DEFINE call == ops[i]
               left == [call EXCEPT !.own = FALSE]
    <3>1. call \in CallRecord
      BY <2>1 DEF SoundCall
    <3>2. /\ left \in CallRecord
          /\ left.seen = call.seen /\ left.step = call.step /\ left.patch = call.patch
          /\ left.kind = call.kind
      <4> HIDE DEF call
      <4> QED
        BY <3>1 DEF CallRecord
    <3> HIDE DEF left
    <3>3. SoundCall(left)
      BY <2>1, <3>2 DEF SoundCall
    <3>4. SoundCall(Idle)
      BY IdleIsSound DEF SettingsInv
    <3> QED
      BY <2>1, <3>3, <3>4 DEF left
  <2> QED
    BY <2>2 DEF SoundCall
<1>2. ops' \in [OpSlots -> CallRecord]
  BY <1>1 DEF PanelGone
<1> QED
  BY <1>1, <1>2, ShownTypes DEF PanelGone, SettingsInv

LEMMA ReloadStaysSound ==
  ASSUME SettingsInv, NEW i \in OpSlots, Reload(i)
  PROVE  SettingsInv'
<1>0. SoundCall(ops[i]) /\ ops[i] \in CallRecord /\ panel \in PanelRecord
  BY DEF SettingsInv
<1>1. HostDocument \in Documents
  BY DEF HostDocument, Documents
<1>2. CASE DashboardGivesUp(i)
  <2>1. SoundCall([ops[i] EXCEPT !.dash = "failed"])
    BY <1>0 DEF SoundCall, CallRecord
  <2> QED
    BY <1>0, <1>2, <2>1, OneCallMoves DEF DashboardGivesUp
<1>3. CASE DashboardCoherent(i)
  <2> DEFINE c == [ops[i] EXCEPT !.dash = "plugins", !.fetched = HostDocument]
  <2>1. SoundCall(c)
    BY <1>0, <1>1 DEF SoundCall, CallRecord
  <2> QED
    BY <1>0, <1>3, <2>1, OneCallMoves DEF DashboardCoherent
<1>4. CASE PluginsListed(i)
  <2> DEFINE c == [ops[i] EXCEPT !.dash = "done", !.fetched = NoDocument]
  <2>1. SoundCall(c)
    BY <1>0, NoDocumentIsOne DEF SoundCall, CallRecord
  <2> QED
    BY <1>0, <1>4, <2>1, OneCallMoves DEF PluginsListed
<1> QED
  BY <1>2, <1>3, <1>4 DEF Reload

LEMMA SettingsStart == SettingsInit => SettingsInv
<1> SUFFICES ASSUME SettingsInit PROVE SettingsInv
  OBVIOUS
<1>1. PICK c \in HostConfigs :
        host = [up |-> TRUE, effective |-> c.effective, pending |-> c.pending, backup |-> c.backup,
                job |-> "none", kea |-> FALSE, applied |-> 0]
  BY DEF SettingsInit
<1>2. c.effective \in Settings /\ c.pending \in Maybe /\ c.backup \in Maybe
  BY SettingsAssumption DEF Maybe
<1>3. host \in HostRecord /\ host.job = "none"
  BY <1>1, <1>2 DEF HostRecord
<1>4. FreshPanel \in PanelRecord
  BY DEF FreshPanel, PanelRecord, NoConfig, Config, Maybe
<1>5. SoundCall(Idle) /\ Idle \in CallRecord
  BY <1>3, IdleIsSound DEF SoundCall
<1> QED
  BY <1>3, <1>4, <1>5 DEF SettingsInit, SettingsInv

LEMMA SettingsStaySound == SettingsInv /\ [Next]_pageVars => SettingsInv'
<1> SUFFICES ASSUME SettingsInv, [Next]_pageVars PROVE SettingsInv'
  OBVIOUS
<1>1. CASE UNCHANGED envVars
  BY <1>1 DEF envVars, SettingsInv, SoundCall
<1>2. CASE PanelGone /\ UNCHANGED host
  BY <1>2, PanelGoneStaysSound
<1>3. CASE Form
  BY <1>3, FormStaysSound DEF Form
<1>4. CASE Host
  <2>1. CASE HostNext
    BY <2>1, HostStaysSound
  <2>2. CASE WidgetsFollow
    <3>1. host \in HostRecord
      BY DEF SettingsInv
    <3>2. host' = [host EXCEPT !.kea = ~host.kea]
      BY <2>2 DEF WidgetsFollow
    <3>3. /\ host' \in HostRecord /\ host'.pending = host.pending /\ host'.applied = host.applied
          /\ host'.job = host.job /\ host'.backup = host.backup
      BY <3>1, <3>2 DEF HostRecord
    <3> QED
      BY <2>2, <3>3 DEF WidgetsFollow, SettingsInv, SoundCall
  <2> QED
    BY <1>4, <2>1, <2>2 DEF Host
<1>5. ASSUME NEW i \in OpSlots, Call(i) \/ Reload(i) PROVE SettingsInv'
  BY <1>5, CallsStaySound, ReloadStaysSound DEF Call
<1> QED
  BY <1>1, <1>2, <1>3, <1>4, <1>5
  DEF Next, Refresh, PageLoaded, PageLoadFails, Unmount, Toolbar, OpenEditor, CloseEditor, Undo,
      UserEdits, Edit, Streams, Logs, pageVars

-----------------------------------------------------------------------------
(* The layout. *)

SomeLayout == {NoLayout} \cup SUBSET Tiles
PageRecord == [loading : BOOLEAN, error : BOOLEAN, loaded : BOOLEAN, document : Documents,
               resyncs : BOOLEAN, editing : BOOLEAN, layout : SUBSET Tiles, stored : SomeLayout,
               past : SomeLayout]

\* What a closed editor owes the document it was last given.
Fits(layout, d) ==
  /\ ~KeaEnabled(d) => layout \cap HiddenTiles = {}
  /\ VisibleWidgets(d) \subseteq layout

PageInv == page \in PageRecord /\ ClosedShowsServer

LEMMA PickedIsLayout ==
  ASSUME NEW stored \in SomeLayout, NEW d \in Documents
  PROVE  VisibleWidgets(d) \subseteq Tiles /\ PickInitial(stored, d) \in SUBSET Tiles
<1>1. VisibleWidgets(d) \subseteq Tiles
  BY DEF VisibleWidgets, Documents, Tiles
<1>2. PlainTiles \cup KeaTiles \in SUBSET Tiles
  BY DEF Tiles
<1>3. stored # NoLayout => stored \in SUBSET Tiles
  BY DEF SomeLayout
<1> QED
  BY <1>1, <1>2, <1>3 DEF PickInitial, DefaultLayout, Merge, Strip

\* The effect, whatever it starts from, ends with a layout that fits when the editor is closed: a
\* widget that shows while Kea is off is none of the hidden tiles.
LEMMA SyncedLayoutFits ==
  ASSUME NEW layout \in SUBSET Tiles, NEW stored \in SomeLayout, NEW d \in Documents,
         NEW editing \in BOOLEAN, NEW resyncs \in BOOLEAN
  PROVE  /\ SyncedLayout(layout, stored, d, editing, resyncs) \in SUBSET Tiles
         /\ ~editing => Fits(SyncedLayout(layout, stored, d, editing, resyncs), d)
<1>1. VisibleWidgets(d) \subseteq Tiles /\ PickInitial(stored, d) \in SUBSET Tiles
  BY PickedIsLayout
<1>2. ~KeaEnabled(d) => VisibleWidgets(d) \cap HiddenTiles = {}
  BY WidgetsAssumption DEF VisibleWidgets, Documents, HiddenTiles
<1>3. ASSUME NEW l \in SUBSET Tiles
      PROVE  Strip(l, d) \in SUBSET Tiles /\ Merge(l, d) \in SUBSET Tiles /\ Fits(Merge(Strip(l, d), d), d)
  BY <1>1, <1>2 DEF Strip, Merge, Fits
<1> DEFINE picked == IF resyncs THEN Strip(PickInitial(stored, d), d) ELSE layout
<1>4. picked \in SUBSET Tiles
  BY <1>1, <1>3
<1>5. SyncedLayout(layout, stored, d, editing, resyncs) =
        IF editing THEN Strip(picked, d) ELSE Merge(Strip(picked, d), d)
  BY DEF SyncedLayout
<1> HIDE DEF picked
<1> QED
  BY <1>3, <1>4, <1>5

LEMMA SyncedPage ==
  ASSUME NEW p \in PageRecord
  PROVE  /\ Synced(p) \in PageRecord /\ Synced(p).editing = p.editing
         /\ ~p.editing => Fits(Synced(p).layout, Synced(p).document)
<1> DEFINE layout == SyncedLayout(p.layout, p.stored, p.document, p.editing, p.resyncs)
<1>1. layout \in SUBSET Tiles /\ (~p.editing => Fits(layout, p.document))
  BY SyncedLayoutFits DEF PageRecord
<1>2. Synced(p) = IF layout = p.layout /\ ~p.resyncs THEN p
                  ELSE [p EXCEPT !.layout = layout, !.stored = layout]
  BY DEF Synced, Arranged
<1> HIDE DEF layout
<1>3. layout \in SomeLayout
  BY <1>1 DEF SomeLayout
<1>4. CASE layout = p.layout /\ ~p.resyncs
  BY <1>1, <1>2, <1>4
<1>5. CASE ~(layout = p.layout /\ ~p.resyncs)
  <2>1. Synced(p) = [p EXCEPT !.layout = layout, !.stored = layout]
    BY <1>2, <1>5
  <2>2. Synced(p) \in PageRecord
    BY <1>1, <1>3, <2>1 DEF PageRecord
  <2>3. /\ Synced(p).editing = p.editing /\ Synced(p).document = p.document
        /\ Synced(p).layout = layout
    BY <2>1 DEF PageRecord
  <2> QED
    BY <1>1, <2>2, <2>3
<1> QED
  BY <1>4, <1>5

LEMMA ReceivedPage ==
  ASSUME NEW p \in PageRecord, NEW d \in Documents
  PROVE  /\ Received(p, d) \in PageRecord /\ Received(p, d).editing = p.editing
         /\ ~p.editing => Fits(Received(p, d).layout, Received(p, d).document)
<1>1. CASE p.loaded
  <2> DEFINE q == [p EXCEPT !.document = d]
  <2>1. q \in PageRecord /\ q.editing = p.editing
    BY DEF PageRecord
  <2>2. Received(p, d) = Synced(q)
    BY <1>1 DEF Received
  <2> HIDE DEF q
  <2> QED
    BY <2>1, <2>2, SyncedPage
<1>2. CASE ~p.loaded
  <2> DEFINE q == [p EXCEPT !.loaded = TRUE, !.document = d]
             r == [q EXCEPT !.layout = PickInitial(q.stored, q.document)]
  <2>1. q \in PageRecord /\ q.editing = p.editing
    BY DEF PageRecord
  <2>2. Received(p, d) = Synced(r)
    BY <1>2 DEF Received, ShellMounted
  <2>3. r \in PageRecord /\ r.editing = q.editing
    <3> HIDE DEF q
    <3>1. q.stored \in SomeLayout /\ q.document \in Documents
      BY <2>1 DEF PageRecord
    <3>2. PickInitial(q.stored, q.document) \in SUBSET Tiles
      BY <3>1, PickedIsLayout
    <3> QED
      BY <2>1, <3>2 DEF PageRecord
  <2> HIDE DEF q, r
  <2> QED
    BY <2>1, <2>2, <2>3, SyncedPage
<1> QED
  BY <1>1, <1>2

LEMMA AnswersAreDocuments ==
  ASSUME SettingsInv, NEW a \in Answers
  PROVE  a.document \in Documents /\ a.base \in Origins \cup {NoOrigin}
<1>1. NoDocument \in Documents /\ HostDocument \in Documents
  BY NoDocumentIsOne DEF HostDocument, Documents
<1>2. host.effective \in Origins \cup {NoOrigin}
  BY PageAssumption DEF SettingsInv, HostRecord
<1> QED
  BY <1>1, <1>2, PageAssumption DEF Answers

\* A page that was left, or stands behind the banner, shows nothing; any other closed editor has
\* just been synced, or nothing has changed.
LEMMA PageStaysSound == PageInv /\ SettingsInv /\ [Next]_pageVars => PageInv'
<1> SUFFICES ASSUME PageInv, SettingsInv, [Next]_pageVars PROVE PageInv'
  OBVIOUS
<1>0. page \in PageRecord
  BY DEF PageInv
<1>1. CASE UNCHANGED <<page, mounted>>
  BY <1>1 DEF PageInv, ClosedShowsServer, Shown
<1>2. ASSUME page' \in PageRecord, ~page'.editing => Fits(page'.layout, page'.document)
      PROVE  PageInv'
  BY <1>2 DEF PageInv, ClosedShowsServer, Fits
<1>3. CASE OpenEditor
  <2> DEFINE p == [page EXCEPT !.editing = TRUE]
  <2>1. p \in PageRecord
    BY <1>0 DEF PageRecord
  <2> QED
    BY <1>2, <1>3, <2>1, SyncedPage DEF OpenEditor
<1>4. CASE CloseEditor
  <2> DEFINE p == [page EXCEPT !.editing = FALSE]
  <2>1. p \in PageRecord
    BY <1>0 DEF PageRecord
  <2> QED
    BY <1>2, <1>4, <2>1, SyncedPage DEF CloseEditor
<1>5. CASE UserEdits
  <2>1. PICK layout : Edit(layout) /\ layout \in SUBSET Tiles
    <3>1. page.layout \in SUBSET Tiles /\ PaletteTiles(page.document) \in SUBSET Tiles
      BY <1>0 DEF PageRecord, PaletteTiles, Strip, Tiles
    <3> QED
      BY <1>5, <3>1 DEF UserEdits
  <2>2. page.editing /\ page' = [page EXCEPT !.layout = layout, !.stored = layout, !.past = page.layout]
    BY <2>1 DEF Edit
  <2>3. page.layout \in SomeLayout /\ layout \in SomeLayout
    BY <1>0, <2>1 DEF PageRecord, SomeLayout
  <2>4. page' \in PageRecord /\ page'.editing = page.editing
    BY <1>0, <2>1, <2>2, <2>3 DEF PageRecord
  <2> QED
    BY <1>2, <2>2, <2>4
<1>6. CASE Undo
  <2>1. page.editing /\ page.past \in SUBSET Tiles
    BY <1>0, <1>6 DEF Undo, PageRecord, SomeLayout
  <2>2. page' = [page EXCEPT !.layout = page.past, !.stored = page.past, !.past = NoLayout]
    BY <1>6 DEF Undo
  <2>3. NoLayout \in SomeLayout /\ page.past \in SomeLayout
    BY <2>1 DEF SomeLayout
  <2>4. page' \in PageRecord /\ page'.editing = page.editing
    BY <1>0, <2>1, <2>2, <2>3 DEF PageRecord
  <2> QED
    BY <1>2, <2>1, <2>4
<1>7. CASE Refresh
  <2>1. page' = [page EXCEPT !.loading = TRUE, !.error = FALSE] /\ Shown /\ mounted' = mounted
    BY <1>7 DEF Refresh, Bus!LoadStarts
  <2>2. /\ page' \in PageRecord /\ page'.editing = page.editing /\ page'.layout = page.layout
        /\ page'.document = page.document
    BY <1>0, <2>1 DEF PageRecord
  <2>3. ~page.editing => Fits(page.layout, page.document)
    BY <2>1 DEF PageInv, ClosedShowsServer, Fits
  <2> QED
    BY <1>2, <2>2, <2>3
<1>8. ASSUME NEW a \in Answers, PageLoaded(a) PROVE PageInv'
  <2> DEFINE p == Received(page, a.document)
  <2>1. p \in PageRecord /\ (~p.editing => Fits(p.layout, p.document))
    BY <1>0, AnswersAreDocuments, ReceivedPage
  <2>2. page' = [p EXCEPT !.loading = FALSE]
    BY <1>8 DEF PageLoaded
  <2> HIDE DEF p
  <2>3. /\ page' \in PageRecord /\ page'.editing = p.editing /\ page'.layout = p.layout
        /\ page'.document = p.document
    BY <2>1, <2>2 DEF PageRecord
  <2> QED
    BY <1>2, <2>1, <2>3
<1>9. CASE PageLoadFails
  <2>1. page' = [page EXCEPT !.loading = FALSE, !.error = TRUE, !.editing = FALSE, !.past = NoLayout]
    BY <1>9 DEF PageLoadFails
  <2>2. page' \in PageRecord /\ page'.error
    BY <1>0, <2>1 DEF PageRecord, SomeLayout
  <2> QED
    BY <2>2 DEF PageInv, ClosedShowsServer, Shown
<1>10. CASE Unmount
  <2>1. page' = [page EXCEPT !.editing = FALSE] /\ ~mounted'
    BY <1>10 DEF Unmount, Bus!Unmount
  <2>2. page' \in PageRecord
    BY <1>0, <2>1 DEF PageRecord
  <2> QED
    BY <2>1, <2>2 DEF PageInv, ClosedShowsServer, Shown
<1>11. ASSUME NEW i \in OpSlots, Reload(i) PROVE PageInv'
  <2>1. CASE DashboardGivesUp(i) \/ DashboardCoherent(i)
    BY <1>1, <2>1 DEF DashboardGivesUp, DashboardCoherent, Bus!LoadFails, Bus!LoadAnswered
  <2>2. CASE PluginsListed(i)
    <3> DEFINE p == [page EXCEPT !.resyncs = TRUE]
    <3>1. p \in PageRecord /\ ops[i].fetched \in Documents
      BY <1>0 DEF PageRecord, SettingsInv, CallRecord
    <3>2. page' = Received(p, ops[i].fetched)
      BY <2>2 DEF PluginsListed
    <3> HIDE DEF p
    <3> QED
      BY <1>2, <3>1, <3>2, ReceivedPage
  <2> QED
    BY <1>11, <2>1, <2>2 DEF Reload
<1>12. ASSUME NEW i \in OpSlots, Call(i) PROVE PageInv'
  BY <1>1, <1>12 DEF Call, Bus!LoadStarts, busVars
<1>13. CASE Streams
  BY <1>1, <1>13 DEF Streams, Bus!StreamDelivers, Bus!StreamErrs, Bus!TickStarts, Bus!TickFails,
                     Bus!TickAnswered, Bus!app
<1>14. CASE Logs \/ Form \/ Host
  BY <1>1, <1>14 DEF Logs, Form, Host, WidgetsFollow, busVars
<1>15. CASE UNCHANGED pageVars
  BY <1>1, <1>15 DEF pageVars, busVars
<1> QED
  BY <1>3, <1>4, <1>5, <1>6, <1>7, <1>8, <1>9, <1>10, <1>11, <1>12, <1>13, <1>14, <1>15
  DEF Next, Toolbar

-----------------------------------------------------------------------------
(* The stream: what the page does to it is what FabricBus says, with the   *)
(* answers the page's loads bring.                                         *)

LEMMA LoadRunsTheBus ==
  ASSUME NEW origin \in Origins \cup {NoOrigin}, Bus!LoadAnswered(origin)
  PROVE  Sound!Next
<1>1. Sound!LoadAnswered(origin)
  BY DEF Bus!LoadAnswered, Sound!LoadAnswered, Bus!SyncFabricSse, Sound!SyncFabricSse, Bus!Connected,
         Sound!Connected, Bus!Opened, Sound!Opened, Bus!Released, Sound!Released, Bus!Absent, Sound!Absent,
         Bus!poller, Sound!poller
<1> QED
  BY <1>1 DEF Sound!Next

LEMMA StepsRunTheBus ==
  ASSUME SettingsInv, [Next]_pageVars
  PROVE  [Sound!Next]_(Sound!vars)
<1>1. CASE UNCHANGED busVars
  BY <1>1 DEF busVars, Sound!vars, Sound!app, Sound!poller
<1>2. CASE Bus!LoadStarts
  BY <1>2 DEF Bus!LoadStarts, Sound!LoadStarts, Bus!poller, Sound!poller, Sound!Next
<1>3. CASE Bus!LoadFails
  BY <1>3 DEF Bus!LoadFails, Sound!LoadFails, Bus!poller, Sound!poller, Sound!Next
<1>4. ASSUME NEW a \in Answers, PageLoaded(a) PROVE Sound!Next
  BY <1>4, AnswersAreDocuments, LoadRunsTheBus DEF PageLoaded
<1>5. ASSUME NEW i \in OpSlots, DashboardCoherent(i) PROVE Sound!Next
  <2>1. host.effective \in Origins \cup {NoOrigin}
    BY PageAssumption DEF SettingsInv, HostRecord
  <2> QED
    BY <1>5, <2>1, LoadRunsTheBus DEF DashboardCoherent
<1>6. CASE Bus!Unmount
  BY <1>6 DEF Bus!Unmount, Sound!Unmount, Bus!Released, Sound!Released, Bus!Absent, Sound!Absent, Sound!Next
<1>7. CASE Streams
  <2>1. ASSUME NEW k \in DOMAIN bus.streams, Bus!StreamDelivers(k) \/ Bus!StreamErrs(k) PROVE Sound!Next
    BY <2>1 DEF Bus!StreamDelivers, Bus!StreamErrs, Sound!StreamDelivers, Sound!StreamErrs, Bus!OpenStreams,
                Sound!OpenStreams, Bus!SetState, Sound!SetState, Bus!app, Sound!app, Bus!poller, Sound!poller,
                Sound!Next
  <2>2. CASE Bus!TickStarts \/ Bus!TickFails \/ Bus!TickAnswered
    BY <2>2 DEF Bus!TickStarts, Bus!TickFails, Bus!TickAnswered, Sound!TickStarts, Sound!TickFails,
                Sound!TickAnswered, Bus!SetState, Sound!SetState, Bus!app, Sound!app, Sound!Next
  <2> QED
    BY <1>7, <2>1, <2>2 DEF Streams
<1>8. ASSUME NEW i \in OpSlots, Reload(i) PROVE [Sound!Next]_(Sound!vars)
  BY <1>1, <1>3, <1>5, <1>8 DEF Reload, DashboardGivesUp, PluginsListed
<1>9. ASSUME NEW i \in OpSlots, Call(i) PROVE [Sound!Next]_(Sound!vars)
  BY <1>1, <1>2, <1>9 DEF Call
<1>10. CASE Refresh \/ PageLoadFails \/ Unmount
  BY <1>2, <1>3, <1>6, <1>10 DEF Refresh, PageLoadFails, Unmount
<1>11. CASE Toolbar \/ UserEdits
  BY <1>1, <1>11 DEF Toolbar, OpenEditor, CloseEditor, Undo, UserEdits, Edit
<1>12. CASE Logs \/ Form \/ Host
  BY <1>1, <1>12 DEF Logs, Form, Host, WidgetsFollow
<1>13. CASE UNCHANGED pageVars
  BY <1>1, <1>13 DEF pageVars
<1> QED
  BY <1>4, <1>7, <1>8, <1>9, <1>10, <1>11, <1>12, <1>13 DEF Next

LEMMA StreamsStart == Bus!Init => Sound!StreamInv
<1>1. Bus!Init => Sound!Init
  BY DEF Bus!Init, Sound!Init, Bus!Opened, Sound!Opened, Bus!Absent, Sound!Absent, Bus!Transports,
         Sound!Transports
<1> QED
  BY <1>1, Sound!InitStreams

-----------------------------------------------------------------------------
(* The log panel, and the counters of the settings panel. *)

LogsInv == LogTypeOK

LEMMA LogsStayTyped == LogsInv /\ [Next]_pageVars => LogsInv'
<1> SUFFICES ASSUME LogsInv, [Next]_pageVars PROVE LogsInv'
  OBVIOUS
<1> DEFINE LogRecord == [shown : BOOLEAN, catalog : {"loading", "failed", "listed"}, asks : 0..MAX_ASKS,
                         selected : BOOLEAN, streaming : BOOLEAN, error : BOOLEAN]
<1>0. log \in LogRecord /\ MAX_ASKS \in Nat
  BY PageAssumption DEF LogsInv, LogTypeOK
<1> SUFFICES log' \in LogRecord
  BY DEF LogsInv, LogTypeOK
<1>1. Unmounted \in LogRecord
  BY <1>0 DEF Unmounted
<1>2. ASSUME NEW l \in LogRecord PROVE Reloaded(l) \in LogRecord
  <2>1. (IF l.asks < MAX_ASKS THEN l.asks + 1 ELSE l.asks) \in 0..MAX_ASKS
    BY <1>0
  <2> QED
    BY <2>1 DEF Reloaded
<1>3. NextLog \in LogRecord
  <2>1. [Unmounted EXCEPT !.shown = TRUE] \in LogRecord
    BY <1>1
  <2>2. Mounted \in LogRecord /\ Reloaded(log) \in LogRecord
    BY <1>0, <1>2, <2>1 DEF Mounted
  <2> QED
    BY <1>0, <2>2 DEF NextLog
<1>4. CASE LogNext
  <2>1. CASE CatalogAnswered
    <3>1. PICK selects \in BOOLEAN :
            log' = [log EXCEPT !.asks = log.asks - 1, !.catalog = "listed", !.selected = log.selected \/ selects]
      BY <2>1 DEF CatalogAnswered
    <3>2. log.asks - 1 \in 0..MAX_ASKS /\ (log.selected \/ selects) \in BOOLEAN
      BY <1>0, <2>1 DEF CatalogAnswered
    <3> QED
      BY <1>0, <3>1, <3>2
  <2>2. CASE CatalogFails
    <3>1. log.asks - 1 \in 0..MAX_ASKS
      BY <1>0, <2>2 DEF CatalogFails
    <3> QED
      BY <1>0, <2>2, <3>1 DEF CatalogFails
  <2>3. CASE StartStream
    <3>1. (~log.selected) \in BOOLEAN /\ log.selected \in BOOLEAN
      BY <1>0
    <3> QED
      BY <1>0, <2>3, <3>1 DEF StartStream
  <2>4. CASE StopStream \/ StreamBreaks
    BY <1>0, <2>4 DEF StopStream, StreamBreaks
  <2> QED
    BY <1>4, <2>1, <2>2, <2>3, <2>4 DEF LogNext
<1>5. LogNext \/ log' \in {log, NextLog, Unmounted}
  BY DEF Next, pageVars, Refresh, PageLoaded, PageLoadFails, Unmount, Toolbar, OpenEditor, CloseEditor, Undo,
         UserEdits, Edit, Streams, Logs, Form, Host, WidgetsFollow, Call, Reload, DashboardGivesUp,
         DashboardCoherent, PluginsListed
<1> QED
  BY <1>0, <1>1, <1>3, <1>4, <1>5

\* A press is one request, and a request one apply at most: what the host has applied, is applying
\* and is about to be asked for never exceeds what was pressed.
Posting == \E i \in OpSlots : ops[i].step = "post" /\ ops[i].kind = "apply"
One(p) == IF p THEN 1 ELSE 0
PressInv ==
  /\ presses \in 0..MAX_PRESSES
  /\ \A i, j \in OpSlots : ops[i].step = "post" /\ ops[j].step = "post" => i = j
  /\ host.applied + One(host.job = "apply") + One(Posting) <= presses

LEMMA NoMorePosts ==
  ASSUME SettingsInv, SettingsInv', PressInv, UNCHANGED presses,
         \A i \in OpSlots : ops'[i].step = "post" => ops[i].step = "post" /\ ops'[i].kind = ops[i].kind,
         \/ host'.applied = host.applied /\ (host'.job = "apply" => host.job = "apply")
         \/ host'.applied = host.applied + 1 /\ host.job = "apply" /\ host'.job = "none"
  PROVE  PressInv'
<1>1. host.applied \in Nat /\ presses \in Nat /\ MAX_PRESSES \in Nat
  BY SettingsAssumption DEF SettingsInv, HostRecord, PressInv
<1>2. Posting' => Posting
  BY DEF Posting
<1>3. host'.applied + One(host'.job = "apply") + One(Posting') <= presses
  <2> HIDE DEF Posting
  <2> QED
    BY <1>1, <1>2 DEF PressInv, One
<1>4. \A i, j \in OpSlots : ops'[i].step = "post" /\ ops'[j].step = "post" => i = j
  BY DEF PressInv
<1> QED
  BY <1>3, <1>4 DEF PressInv

\* The patch is out, or the job has begun: one request less.
LEMMA AcceptedKeepsPresses ==
  ASSUME SettingsInv, PressInv, NEW i \in OpSlots, Accepted(i)
  PROVE  PressInv'
<1>1. host.applied \in Nat /\ presses \in Nat /\ host \in HostRecord /\ ops \in [OpSlots -> CallRecord]
  BY SettingsAssumption DEF SettingsInv, HostRecord, PressInv
<1>2. /\ host'.applied = host.applied /\ host'.job = ops[i].kind /\ presses' = presses
      /\ ops[i].step = "post" /\ host.job = "none"
  BY <1>1 DEF Accepted, HostRecord
<1>3. /\ ops'[i].step # "post"
      /\ \A j \in OpSlots : j # i => ops'[j] = ops[j]
  <2>1. CASE ops' = [ops EXCEPT ![i].step = "wait", ![i].dash = "poll", ![i].seen = host.applied]
    BY <1>1, <2>1 DEF CallRecord
  <2>2. CASE Ends(i)
    BY <1>1, <2>2 DEF Ends, Idle
  <2> QED
    BY <2>1, <2>2 DEF Accepted
<1>4. \A j \in OpSlots : ops'[j].step # "post"
  BY <1>2, <1>3 DEF PressInv
<1>5. ~Posting'
  BY <1>4 DEF Posting
<1>6. ops[i].kind = "apply" => Posting
  BY <1>2 DEF Posting
<1>7. host'.applied + One(host'.job = "apply") + One(Posting') <= presses
  BY <1>1, <1>2, <1>5, <1>6 DEF PressInv, One
<1> QED
  BY <1>2, <1>4, <1>7 DEF PressInv

\* A press finds no other request of this panel, and none of an earlier one that is not waiting.
LEMMA PressKeepsPresses ==
  ASSUME SettingsInv, PressInv, NEW kind, NEW step, NEW patch, Press(kind, step, patch)
  PROVE  PressInv'
<1> DEFINE c == [Idle EXCEPT !.kind = kind, !.step = step, !.own = TRUE, !.patch = patch]
<1>1. host.applied \in Nat /\ presses \in Nat /\ MAX_PRESSES \in Nat /\ ops \in [OpSlots -> CallRecord]
  BY SettingsAssumption DEF SettingsInv, HostRecord, PressInv
<1>2. FreeSlot \in OpSlots /\ ops' = [ops EXCEPT ![FreeSlot] = c]
  BY DEF Press, Begin, HasSlot, FreeSlot
<1>3. \A j \in OpSlots : ops[j].step # "post"
  BY DEF Press, LastAlone, SettingsInv, SoundCall
<1>4. presses' = presses + 1 /\ presses' \in 0..MAX_PRESSES /\ UNCHANGED host
  BY <1>1 DEF Press
<1> HIDE DEF c
<1>5. \A j \in OpSlots : j # FreeSlot => ops'[j] = ops[j]
  BY <1>1, <1>2
<1>6. \A i, j \in OpSlots : ops'[i].step = "post" /\ ops'[j].step = "post" => i = j
  BY <1>3, <1>5
<1>7. ~Posting
  BY <1>3 DEF Posting
<1>8. host'.applied + One(host'.job = "apply") + One(Posting') <= presses'
  BY <1>1, <1>4, <1>7 DEF PressInv, One
<1> QED
  BY <1>4, <1>6, <1>8 DEF PressInv

LEMMA CallsKeepPresses ==
  ASSUME SettingsInv, SettingsInv', PressInv, NEW i \in OpSlots, CallNext(i)
  PROVE  PressInv'
<1>1. CASE Accepted(i)
  BY <1>1, AcceptedKeepsPresses
<1>2. CASE ~Accepted(i)
  <2>1. ops \in [OpSlots -> CallRecord] /\ host \in HostRecord
    BY DEF SettingsInv
  <2>2. UNCHANGED presses /\ host'.applied = host.applied /\ host'.job = host.job
    BY <1>2, <2>1 DEF CallNext, ConfigShown, ConfigFails, PatchServed, RequestFails, Deferred, PollAnswered,
       WaitTimesOut, SchemaAnswered, SchemaFails, Joined, FirstFails, OtherEnds, HostRecord
  <2>3. \A j \in OpSlots : ops'[j].step = "post" => ops[j].step = "post" /\ ops'[j].kind = ops[j].kind
    <3>1. ASSUME ops' = [ops EXCEPT ![i] = Idle]
          PROVE  \A j \in OpSlots : ops'[j].step = "post" => ops'[j] = ops[j]
      BY <2>1, <3>1 DEF Idle
    <3>2. ASSUME NEW step \in Steps \ {"post"}, NEW c \in CallRecord, c.step = step, ops' = [ops EXCEPT ![i] = c]
          PROVE  \A j \in OpSlots : ops'[j].step = "post" => ops'[j] = ops[j]
      BY <2>1, <3>2
    <3>3. CASE FirstFails(i)
      BY <2>1, <3>3 DEF FirstFails, CallRecord
    <3>4. CASE OtherEnds(i) \/ Joined(i) \/ ConfigShown(i) \/ ConfigFails(i) \/ RequestFails(i)
      BY <3>1, <3>4 DEF OtherEnds, Joined, ConfigShown, ConfigFails, RequestFails, Ends
    <3>5. CASE PatchServed(i) \/ Deferred(i) \/ PollAnswered(i) \/ WaitTimesOut(i) \/ SchemaAnswered(i) \/ SchemaFails(i)
      <4>1. ops'[i].step # "post" /\ \A j \in OpSlots : j # i => ops'[j] = ops[j]
        BY <2>1, <3>5 DEF PatchServed, Deferred, PollAnswered, WaitTimesOut, SchemaAnswered, SchemaFails, GoTo,
           Ends, Idle, CallRecord
      <4> QED
        BY <4>1
    <3> QED
      BY <1>2, <3>3, <3>4, <3>5 DEF CallNext
  <2> QED
    BY <2>2, <2>3, NoMorePosts
<1> QED
  BY <1>1, <1>2

LEMMA PressesCount ==
  ASSUME SettingsInv, SettingsInv', PressInv, [Next]_pageVars
  PROVE  PressInv'
<1>0. ops \in [OpSlots -> CallRecord] /\ host \in HostRecord
  BY DEF SettingsInv
<1>1. CASE UNCHANGED envVars
  BY <1>1, NoMorePosts DEF envVars
<1>2. ASSUME NEW i \in OpSlots, Call(i) PROVE PressInv'
  BY <1>2, CallsKeepPresses DEF Call
<1>3. ASSUME NEW i \in OpSlots, Reload(i) PROVE PressInv'
  <2>1. UNCHANGED <<host, presses>>
    BY <1>3 DEF Reload, DashboardGivesUp, DashboardCoherent, PluginsListed
  <2>2. \A j \in OpSlots : ops'[j].step = ops[j].step /\ ops'[j].kind = ops[j].kind
    BY <1>0, <1>3 DEF Reload, DashboardGivesUp, DashboardCoherent, PluginsListed, CallRecord
  <2> QED
    BY <2>1, <2>2, NoMorePosts
<1>4. ASSUME PanelGone, UNCHANGED <<host, presses>> PROVE PressInv'
  <2>1. \A j \in OpSlots : ops'[j].step = "post" => ops[j].step = "post" /\ ops'[j].kind = ops[j].kind
    BY <1>0, <1>4 DEF PanelGone, Idle, CallRecord
  <2> QED
    BY <1>4, <2>1, NoMorePosts
<1>5. CASE CloseEditor \/ PageLoadFails \/ Unmount
  BY <1>4, <1>5 DEF CloseEditor, PageLoadFails, Unmount
<1>6. CASE Form
  <2>1. CASE Toggle
    <3>1. UNCHANGED <<host, presses>>
      BY <2>1 DEF Toggle
    <3>2. \A j \in OpSlots : ops'[j].step = "post" => ops'[j] = ops[j]
      <4>1. CASE UNCHANGED ops
        BY <4>1
      <4>2. CASE Begin("load", "config", None)
        <5>1. ops' = [ops EXCEPT ![FreeSlot] = [Idle EXCEPT !.kind = "load", !.step = "config", !.own = TRUE,
                                                            !.patch = None]]
          BY <4>2 DEF Begin
        <5> QED
          BY <1>0, <5>1 DEF Idle
      <4> QED
        BY <2>1, <4>1, <4>2 DEF Toggle
    <3> QED
      BY <3>1, <3>2, NoMorePosts
  <2>2. CASE \E v \in Settings : Type(v)
    BY <2>2, NoMorePosts DEF Type
  <2>3. CASE SaveDraft \/ ApplyStaged \/ RollbackEnv
    BY <2>3, PressKeepsPresses DEF SaveDraft, ApplyStaged, RollbackEnv
  <2> QED
    BY <1>6, <2>1, <2>2, <2>3 DEF Form, FormNext
<1>7. CASE Host
  <2>1. UNCHANGED <<ops, presses>>
    BY <1>7 DEF Host, WidgetsFollow, HostNext
  <2>2. \/ host'.applied = host.applied /\ (host'.job = "apply" => host.job = "apply")
        \/ host'.applied = host.applied + 1 /\ host.job = "apply" /\ host'.job = "none"
    BY <1>0, <1>7 DEF Host, WidgetsFollow, HostNext, HostApplies, HostRollsBack, HostJobFails, HostStops,
       HostStarts, HostRecord
  <2> QED
    BY <2>1, <2>2, NoMorePosts
<1>8. CASE UNCHANGED pageVars
  BY <1>1, <1>8 DEF pageVars
<1>9. CASE Refresh \/ (\E a \in Answers : PageLoaded(a)) \/ OpenEditor \/ Undo \/ UserEdits \/ Streams \/ Logs
  BY <1>1, <1>9 DEF Refresh, PageLoaded, OpenEditor, Undo, UserEdits, Edit, Streams, Logs
<1> QED
  BY <1>2, <1>3, <1>5, <1>6, <1>7, <1>8, <1>9 DEF Next, Toolbar

-----------------------------------------------------------------------------
(* Theorems. *)

PageSound == SettingsInv /\ PageInv /\ Sound!StreamInv

LEMMA PageStarts == Init => PageSound
<1> SUFFICES ASSUME Init PROVE PageSound
  OBVIOUS
<1>1. PICK stored \in SomeLayout :
        page = [loading |-> TRUE, error |-> FALSE, loaded |-> FALSE, document |-> NoDocument, resyncs |-> FALSE,
                editing |-> FALSE, layout |-> {}, stored |-> stored, past |-> NoLayout]
  BY DEF Init, SomeLayout
<1>2. page \in PageRecord /\ ~page.loaded
  BY <1>1, NoDocumentIsOne DEF PageRecord, SomeLayout
<1> QED
  BY <1>2, SettingsStart, StreamsStart DEF Init, PageSound, PageInv, ClosedShowsServer, Shown

LEMMA PageGoesOn == PageSound /\ [Next]_pageVars => PageSound'
  BY SettingsStaySound, PageStaysSound, StepsRunTheBus, Sound!NextKeepsStreams DEF PageSound

\* Only the cleanup takes the page away.
LEMMA OnlyUnmountLeaves ==
  ASSUME [Next]_pageVars, mounted' # mounted
  PROVE  Unmount
  BY DEF Next, Refresh, PageLoaded, PageLoadFails, Toolbar, OpenEditor, CloseEditor, Undo, UserEdits, Edit,
         Streams, Logs, Form, Host, WidgetsFollow, Call, Reload, DashboardGivesUp, DashboardCoherent,
         PluginsListed, Bus!LoadStarts, Bus!LoadFails, Bus!LoadAnswered, Bus!StreamDelivers, Bus!StreamErrs,
         Bus!TickStarts, Bus!TickFails, Bus!TickAnswered, Bus!app, busVars, pageVars

LEMMA SoundMeans ==
  ASSUME PageSound
  PROVE  OneStream /\ SlotMeansStream /\ AppStreamFollowsBase /\ ClosedShowsServer
<1>1. Sound!OneStream /\ Sound!SlotMeansStream /\ Sound!AppStreamFollowsBase
  BY Sound!SoundStreams DEF PageSound, Sound!StreamInv
<1> QED
  BY <1>1 DEF PageSound, PageInv, OneStream, SlotMeansStream, AppStreamFollowsBase, Bus!OneStream,
              Bus!SlotMeansStream, Bus!AppStreamFollowsBase, Bus!OpenStreams, Bus!Absent, Sound!OneStream,
              Sound!SlotMeansStream, Sound!AppStreamFollowsBase, Sound!OpenStreams, Sound!Absent

LEMMA FinishedStep ==
  ASSUME PageSound
  PROVE  \A i \in OpSlots : ops[i].kind = "apply" /\ Joined(i) => host.applied > ops[i].seen
  BY DEF PageSound, SettingsInv, SoundCall, Joined

LEMMA LeavingStep ==
  ASSUME PageSound, [Next]_pageVars, mounted' # mounted
  PROVE  /\ \A k \in DOMAIN bus'.streams : ~bus'.streams[k].open
         /\ \A id \in Bus!Transports : bus'.transport[id] = Bus!Absent
         /\ ~log'.streaming
<1>1. Unmount
  BY OnlyUnmountLeaves
<1>2. Sound!Unmount
  BY <1>1 DEF Unmount, Bus!Unmount, Sound!Unmount, Bus!Released, Sound!Released, Bus!Absent, Sound!Absent
<1>3. Sound!OpenStreams' = {} /\ \A id \in Sound!Transports : bus'.transport[id] = Sound!Absent
  BY <1>2, Sound!UnmountEndsStreams DEF PageSound
<1> QED
  BY <1>1, <1>3 DEF Unmount, Unmounted, Sound!OpenStreams, Sound!Transports, Bus!Transports, Sound!Absent,
                    Bus!Absent

LEMMA AlwaysSound == Spec => []PageSound
<1>1. Init => PageSound
  BY PageStarts
<1>2. PageSound /\ [Next]_pageVars => PageSound'
  BY PageGoesOn
<1> QED
  BY <1>1, <1>2, PTL DEF Spec

\* Types of everything the page, its settings, its log panel and its bus keep; the bounds of the model
\* are never what keeps a counter in range.
PageTyped == LogsInv /\ PressInv /\ Sound!PollerInv /\ scene \in Scenes

LEMMA BoundsAreGiven == Sound!BoundsGiven
BY PageAssumption DEF Sound!BoundsGiven

LEMMA PageStartsTyped == Init => PageTyped
<1> SUFFICES ASSUME Init PROVE PageTyped
  OBVIOUS
<1>1. LogsInv
  BY PageAssumption DEF Init, LogsInv, LogTypeOK, Unmounted
<1>2. PressInv
  <2>1. SettingsInit /\ MAX_PRESSES \in Nat
    BY SettingsAssumption DEF Init
  <2>2. PICK c \in HostConfigs :
          host = [up |-> TRUE, effective |-> c.effective, pending |-> c.pending, backup |-> c.backup,
                  job |-> "none", kea |-> FALSE, applied |-> 0]
    BY <2>1 DEF SettingsInit
  <2>3. \A i \in OpSlots : ops[i].step = "none"
    BY <2>1 DEF SettingsInit, Idle
  <2>4. ~Posting
    BY <2>3 DEF Posting
  <2>5. host.applied = 0 /\ host.job = "none" /\ presses = 0
    BY <2>1, <2>2 DEF SettingsInit
  <2> QED
    BY <2>1, <2>3, <2>4, <2>5 DEF PressInv, One
<1>3. Sound!PollerInv
  <2>1. Sound!Init
    BY DEF Init, Bus!Init, Sound!Init, Bus!Opened, Sound!Opened, Bus!Absent, Sound!Absent, Bus!Transports,
           Sound!Transports
  <2> QED
    BY <2>1, BoundsAreGiven, Sound!InitPoller
<1> QED
  BY <1>1, <1>2, <1>3 DEF Init, PageTyped

LEMMA PageStaysTyped == PageSound /\ PageSound' /\ PageTyped /\ [Next]_pageVars => PageTyped'
<1> SUFFICES ASSUME PageSound, PageSound', PageTyped, [Next]_pageVars PROVE PageTyped'
  OBVIOUS
<1>1. LogsInv'
  BY LogsStayTyped DEF PageTyped
<1>2. PressInv'
  BY PressesCount DEF PageTyped, PageSound
<1>3. Sound!PollerInv'
  BY StepsRunTheBus, BoundsAreGiven, Sound!NextKeepsPoller DEF PageTyped, PageSound
<1>4. scene' = scene
  BY DEF Next, pageVars, Refresh, PageLoaded, PageLoadFails, Unmount, Toolbar, OpenEditor, CloseEditor, Undo,
         UserEdits, Edit, Streams, Logs, Form, Host, WidgetsFollow, Call, Reload, DashboardGivesUp,
         DashboardCoherent, PluginsListed
<1> QED
  BY <1>1, <1>2, <1>3, <1>4 DEF PageTyped

LEMMA TypedMeans == PageSound /\ PageTyped => TypeOK
<1> SUFFICES ASSUME PageSound, PageTyped PROVE TypeOK
  OBVIOUS
<1>1. Bus!TypeOK
  <2>1. Sound!TypeOK
    BY Sound!TypesFollow DEF PageSound, PageTyped
  <2> QED
    BY <2>1 DEF Sound!TypeOK, Bus!TypeOK, Sound!Stream, Bus!Stream, Sound!Transports, Bus!Transports,
       Sound!States, Bus!States, Sound!Absent, Bus!Absent
<1>2. SettingsTypeOK
  <2>1. SettingsInv /\ PressInv
    BY DEF PageSound, PageTyped
  <2>2. host.applied \in 0..(MAX_PRESSES + 1)
    <3>1. host.applied \in Nat /\ host.applied <= presses /\ presses \in 0..MAX_PRESSES /\ MAX_PRESSES \in Nat
      BY <2>1, SettingsAssumption DEF SettingsInv, HostRecord, PressInv, One
    <3> QED
      BY <3>1
  <2>3. \A i \in OpSlots : ops[i].seen \in 0..(MAX_PRESSES + 1)
    BY <2>1, <2>2, SettingsAssumption DEF SettingsInv, SoundCall, CallRecord, HostRecord
  <2>4. \A i \in OpSlots : ops[i] \in [kind : Kinds, step : Steps, own : BOOLEAN, patch : Settings \cup {None},
                          got : Settings \cup {None}, seen : 0..(MAX_PRESSES + 1), joined : BOOLEAN,
                          dash : {"none", "poll", "plugins", "done", "failed"}, fetched : Documents]
    BY <2>1, <2>3 DEF SettingsInv, SoundCall, CallRecord, Maybe
  <2>5. ops \in [OpSlots -> [kind : Kinds, step : Steps, own : BOOLEAN, patch : Settings \cup {None},
                          got : Settings \cup {None}, seen : 0..(MAX_PRESSES + 1), joined : BOOLEAN,
                          dash : {"none", "poll", "plugins", "done", "failed"}, fetched : Documents]]
    BY <2>1, <2>4 DEF SettingsInv
  <2>6. host \in [up : BOOLEAN, effective : Settings, pending : Settings \cup {None},
                  backup : Settings \cup {None}, job : {"none", "apply", "rollback"},
                  kea : BOOLEAN, applied : 0..(MAX_PRESSES + 1)]
    BY <2>1, <2>2 DEF SettingsInv, HostRecord, Maybe
  <2> QED
    BY <2>1, <2>5, <2>6 DEF SettingsTypeOK, SettingsInv, PressInv, PanelRecord, Maybe
<1>3. page \in PageRecord
  BY DEF PageSound, PageInv
<1> QED
  BY <1>1, <1>2, <1>3 DEF PageTyped, LogsInv, TypeOK, PageRecord, SomeLayout

\* What the page, the settings panel, the log panel and the bus keep has its type in every run: the
\* host applies no more often than a button was pressed, and no answer is counted that was not asked for.
THEOREM PageTypesHold == Spec => []TypeOK
<1>1. Init => PageSound /\ PageTyped
  BY PageStarts, PageStartsTyped
<1>2. PageSound /\ PageTyped /\ [Next]_pageVars => (PageSound /\ PageTyped)'
  BY PageGoesOn, PageStaysTyped
<1>3. PageSound /\ PageTyped => TypeOK
  BY TypedMeans
<1> QED
  BY <1>1, <1>2, <1>3, PTL DEF Spec

\* However loads, reloads after an apply and the cleanup overlap, and whichever closures the app
\* still holds: one stream is open at most, and it is the one that can be released (eventBus.ts).
THEOREM OneStreamAtMost == Spec => []OneStream
<1>1. PageSound => OneStream
  BY SoundMeans
<1> QED
  BY <1>1, AlwaysSound, PTL

\* A transport's slot says a stream is there exactly while one is: for every number of streams the
\* page has had and every order of perf answers (eventBus.ts, cpFabricTransport.ts).
THEOREM SlotsTellTheTruth == Spec => []SlotMeansStream
<1>1. PageSound => SlotMeansStream
  BY SoundMeans
<1> QED
  BY <1>1, AlwaysSound, PTL

\* The app's stream is at the base the control plane named last, for every set of bases and every
\* overlap of loads (PiholeOperatorApp.svelte).
THEOREM StreamIsAtLastBase == Spec => []AppStreamFollowsBase
<1>1. PageSound => AppStreamFollowsBase
  BY SoundMeans
<1> QED
  BY <1>1, AlwaysSound, PTL

\* A closed editor shows what the dashboard calls for, for every dashboard the control plane may
\* answer with (PiholeCpDashboardShell.svelte).
THEOREM ClosedPageFits == Spec => []ClosedShowsServer
<1>1. PageSound => ClosedShowsServer
  BY SoundMeans
<1> QED
  BY <1>1, AlwaysSound, PTL

\* The cleanup closes every stream and empties every slot, however many streams there have been and
\* whichever closures the app still holds.
THEOREM LeavingClosesAll == Spec => LeavesNothingOpen
<1>1. PageSound /\ [Next]_pageVars =>
        [mounted' # mounted =>
           /\ \A k \in DOMAIN bus'.streams : ~bus'.streams[k].open
           /\ \A id \in Bus!Transports : bus'.transport[id] = Bus!Absent
           /\ ~log'.streaming]_pageVars
  BY LeavingStep
<1> QED
  BY <1>1, PageStarts, PageGoesOn, PTL DEF Spec, LeavesNothingOpen

\* The panel says "Apply finished" only when the host has applied a patch since it accepted this
\* apply, for any number of presses, calls and restarts of the host.
THEOREM FinishedIsApplied == Spec => FinishedMeansApplied
<1>1. PageSound /\ [Next]_pageVars =>
        [\A i \in OpSlots : ops[i].kind = "apply" /\ Joined(i) => host.applied > ops[i].seen]_pageVars
  BY FinishedStep
<1> QED
  BY <1>1, PageStarts, PageGoesOn, PTL DEF Spec, FinishedMeansApplied
===============================================================================
