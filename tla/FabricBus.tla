------------------------------ MODULE FabricBus ------------------------------
(***************************************************************************)
(* The fabric event bus (eventBus.ts) as the Pi-hole operator app uses it: *)
(* the kernel connects at construction (fabricBusKernel.ts), the app       *)
(* points the stream at the Kea API each time the control plane tells it   *)
(* where that is (PiholeOperatorApp.svelte), and the control-plane perf    *)
(* poller feeds a second transport (cpFabricTransport.ts).                 *)
(*                                                                         *)
(* A release closure is named by the stream it closes: every connect that  *)
(* opens a stream makes one, and callers may keep it after it has run.     *)
(***************************************************************************)
EXTENDS Naturals, Sequences

CONSTANTS
  Origins,      \* Kea API base URLs the control plane may name
  NoOrigin,     \* none: requests and streams go to the page's own origin
  SAMPLES,      \* PIHOLE_CP_PERF_UI_AVERAGE_SAMPLES
  MAX_STREAMS,  \* bound of the model: streams ever opened
  MAX_LOADS,    \* bound of the model: dashboard loads in flight
  MAX_TICKS     \* bound of the model: perf requests in flight

VARIABLES
  bus,          \* what createFabricEventBus closes over
  base,         \* the gateway's API base URL
  appRelease,   \* fabricSseRelease: the closure the app holds, 0 for null
  lastOrigin,   \* lastKeaApiOrigin
  mounted,      \* the app's onMount cleanup has not run
  loads,        \* loadAll and env reloads awaiting the control plane
  polling,      \* the perf poller is not stopped
  ticks,        \* perf requests in flight
  firstEmit,    \* firstEmitDone
  bucket        \* samples collected for the next average

app == <<base, appRelease, lastOrigin, mounted, loads>>
poller == <<polling, ticks, firstEmit, bucket>>
vars == <<bus, app, poller>>

Transports == {"kea-sse", "cp-perf"}
States == {"idle", "connecting", "open", "error"}
Absent == "absent"

Stream == [origin : Origins \cup {NoOrigin}, open : BOOLEAN]

TypeOK ==
  /\ bus \in [streams : Seq(Stream),                           \* EventSources, in order of creation
              release : Nat,                                   \* releaseConnection, 0 for null
              transport : [Transports -> States \cup {Absent}]]  \* transportStates
  /\ bus.release \in 0..Len(bus.streams)
  /\ base \in Origins \cup {NoOrigin} /\ lastOrigin \in Origins \cup {NoOrigin}
  /\ appRelease \in 0..Len(bus.streams)
  /\ mounted \in BOOLEAN /\ polling \in BOOLEAN /\ firstEmit \in BOOLEAN
  /\ loads \in 0..MAX_LOADS /\ ticks \in 0..MAX_TICKS
  /\ bucket \in 0..(SAMPLES - 1)

-----------------------------------------------------------------------------
(* The bus: connect and the closures it returns. *)

\* A release closure closes its own stream; the slot and releaseConnection it drops may be another's.
SlotKeepingRelease(b, k) ==   \* deviant: the slot is not dropped
  [b EXCEPT !.streams[k].open = FALSE, !.release = 0]
Released(b, k) ==
  [b EXCEPT !.streams[k].open = FALSE, !.release = 0, !.transport["kea-sse"] = Absent]

\* A new EventSource at the gateway's current base; its slot says connecting.
Opened(b, origin) ==
  [b EXCEPT !.streams = Append(b.streams, [origin |-> origin, open |-> TRUE]),
            !.release = Len(b.streams) + 1,
            !.transport["kea-sse"] = "connecting"]

EagerConnect(b, origin) == Opened(b, origin)   \* deviant: not idempotent
Connected(b, origin) == IF b.release # 0 THEN b ELSE Opened(b, origin)

SetState(id, state) == bus' = [bus EXCEPT !.transport[id] = state]

Init ==
  /\ base = NoOrigin
  /\ bus = [Opened([streams |-> <<>>, release |-> 0,
                    transport |-> [id \in Transports |-> Absent]], NoOrigin)
            EXCEPT !.transport["cp-perf"] = "connecting"]
  /\ appRelease = 0 /\ lastOrigin = NoOrigin
  /\ mounted = TRUE /\ loads = 1
  /\ polling = TRUE /\ ticks = 1 /\ firstEmit = FALSE /\ bucket = 0

-----------------------------------------------------------------------------
(* The app. *)

\* The user presses Refresh, or an env apply reloads the dashboard.
LoadStarts ==
  /\ mounted /\ loads < MAX_LOADS
  /\ loads' = loads + 1
  /\ UNCHANGED <<bus, base, appRelease, lastOrigin, mounted, poller>>

LoadFails ==
  /\ loads > 0 /\ loads' = loads - 1
  /\ UNCHANGED <<bus, base, appRelease, lastOrigin, mounted, poller>>

\* syncFabricSseAfterKeaBaseChange, for the base the gateway has just been given.
ForgetfulSync(next) ==   \* deviant: the new origin is not compared with the last one
  /\ bus' = IF next = NoOrigin /\ appRelease # 0 THEN Released(bus, appRelease)
            ELSE IF next = NoOrigin THEN bus ELSE Connected(bus, next)
  /\ appRelease' = IF next = NoOrigin THEN 0 ELSE bus'.release
  /\ lastOrigin' = next

SyncFabricSse(next) ==
  /\ lastOrigin' = next
  /\ \/ /\ next = NoOrigin /\ appRelease' = 0
        /\ bus' = IF appRelease # 0 THEN Released(bus, appRelease) ELSE bus
     \/ /\ next # NoOrigin /\ appRelease = 0
        /\ bus' = Connected(bus, next) /\ appRelease' = bus'.release
     \/ /\ next # NoOrigin /\ appRelease # 0 /\ next # lastOrigin
        /\ bus' = Connected(Released(bus, appRelease), next) /\ appRelease' = bus'.release
     \/ /\ next # NoOrigin /\ appRelease # 0 /\ next = lastOrigin
        /\ UNCHANGED <<bus, appRelease>>

\* The dashboard and meta arrive, whether or not the app is still mounted.
LoadAnswered(next) ==
  /\ loads > 0 /\ loads' = loads - 1
  /\ base' = next
  /\ SyncFabricSse(next)
  /\ Len(bus'.streams) <= MAX_STREAMS
  /\ UNCHANGED <<mounted, poller>>

\* The onMount cleanup: the app's closure, then the kernel's, which is the first one ever made.
KernelOnlyUnmount ==   \* deviant: the app's own closure is forgotten
  /\ mounted /\ mounted' = FALSE /\ appRelease' = 0 /\ polling' = FALSE
  /\ bus' = [Released(bus, 1) EXCEPT !.transport["cp-perf"] = Absent]
  /\ UNCHANGED <<base, lastOrigin, loads, ticks, firstEmit, bucket>>

Unmount ==
  /\ mounted /\ mounted' = FALSE
  /\ appRelease' = 0 /\ polling' = FALSE
  /\ LET own == IF appRelease # 0 THEN Released(bus, appRelease) ELSE bus
     IN  bus' = [Released(own, 1) EXCEPT !.transport["cp-perf"] = Absent]
  /\ UNCHANGED <<base, lastOrigin, loads, ticks, firstEmit, bucket>>

-----------------------------------------------------------------------------
(* The stream.  A closed EventSource delivers nothing more. *)

OpenStreams == {k \in DOMAIN bus.streams : bus.streams[k].open}

StreamDelivers(k) ==
  /\ k \in OpenStreams
  /\ SetState("kea-sse", "open")
  /\ UNCHANGED <<app, poller>>

\* es.onerror, or an event the schema refuses.
StreamErrs(k) ==
  /\ k \in OpenStreams
  /\ SetState("kea-sse", "error")
  /\ UNCHANGED <<app, poller>>

-----------------------------------------------------------------------------
(* The perf poller: one request per interval, not waiting for the last; what follows the *)
(* await does not look at stopped again.                                                 *)

TickStarts ==
  /\ polling /\ ticks < MAX_TICKS
  /\ ticks' = ticks + 1
  /\ UNCHANGED <<bus, app, polling, firstEmit, bucket>>

TickFails ==
  /\ ticks > 0 /\ ticks' = ticks - 1
  /\ UNCHANGED <<bus, app, polling, firstEmit, bucket>>

UnemptiedTick ==   \* deviant: the bucket is not emptied after an average
  /\ ticks > 0 /\ ticks' = ticks - 1
  /\ firstEmit' = TRUE
  /\ bucket' = IF firstEmit THEN bucket + 1 ELSE bucket
  /\ IF firstEmit THEN UNCHANGED bus ELSE SetState("cp-perf", "open")
  /\ UNCHANGED <<app, polling>>

TickAnswered ==
  /\ ticks > 0 /\ ticks' = ticks - 1
  /\ firstEmit' = TRUE
  /\ \/ ~firstEmit /\ bucket' = 0 /\ SetState("cp-perf", "open")
     \/ firstEmit /\ bucket' = (bucket + 1) % SAMPLES /\ UNCHANGED bus
  /\ UNCHANGED <<app, polling>>

-----------------------------------------------------------------------------
Next ==
  \/ LoadStarts \/ LoadFails \/ Unmount
  \/ \E next \in Origins \cup {NoOrigin} : LoadAnswered(next)
  \/ \E k \in DOMAIN bus.streams : StreamDelivers(k) \/ StreamErrs(k)
  \/ TickStarts \/ TickFails \/ TickAnswered

Spec == Init /\ [][Next]_vars

-----------------------------------------------------------------------------
(* Properties. *)

\* At most one stream is open, and it is the one releaseConnection closes: closures kept by the
\* app and by the kernel never leave a second stream running nor orphan the current one
\* (eventBus.ts: "Attach single EventSource ... Idempotent per instance").
OneStream == OpenStreams = IF bus.release = 0 THEN {} ELSE {bus.release}

\* The Kea slot is registered exactly while an EventSource is open: the indicator neither counts
\* a stream that is gone nor misses one that runs.
SlotMeansStream == bus.transport["kea-sse"] # Absent <=> OpenStreams # {}

\* A stream the app opened itself, not the one the kernel had opened before, is at the base the
\* control plane named last, whatever loads overlapped.
AppStreamFollowsBase == appRelease > 1 => bus.streams[appRelease].origin = base

\* The stream the app believes attached is at the base it was attached for (keaSseTransport.ts:
\* "Kea fabric SSE is attached when connect() runs on a gateway with a resolved API base ...
\* Pi-hole CP may call connect() again when meta.kea_fabric_api_base_url is set").
StreamFollowsBase == appRelease # 0 => bus.streams[appRelease].origin = base
=============================================================================
