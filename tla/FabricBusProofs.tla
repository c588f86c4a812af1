--------------------------- MODULE FabricBusProofs ---------------------------
(* One stream, the one that can be released, a slot while it runs and a base  *)
(* it follows: for every set of origins, any number of streams and any number *)
(* of loads that overlap.  Nothing here bounds how often connect runs; the    *)
(* bounds of the model only cut behaviours short.                             *)
EXTENDS FabricBus, SequenceTheorems, TLAPS

Slots == [Transports -> States \cup {Absent}]
BusRecord == [streams : Seq(Stream), release : Nat, transport : Slots]

\* What createFabricEventBus closes over, as far as the stream goes.
SoundBus(b) ==
  /\ b \in BusRecord
  /\ Len(b.streams) > 0 /\ b.release \in 0..Len(b.streams)
  /\ \A k \in 1..Len(b.streams) : b.streams[k].open <=> k = b.release
  /\ b.transport["kea-sse"] # Absent <=> b.release # 0

\* The inductive invariant.  A closure the app keeps is the current one, and what runs without a
\* closure of the app's is the kernel's stream, the first: so no release, whoever calls it, can
\* clear what belongs to another stream.
StreamInv ==
  /\ SoundBus(bus)
  /\ base = lastOrigin /\ base \in Origins \cup {NoOrigin}
  /\ appRelease \in 0..Len(bus.streams)
  /\ IF appRelease = 0 THEN bus.release \in {0, 1} ELSE bus.release = appRelease
  /\ AppStreamFollowsBase

-----------------------------------------------------------------------------
(* The operations of the bus. *)

WithFields(b, streams, release, slots) ==
  [b EXCEPT !.streams = streams, !.release = release, !.transport = slots]

LEMMA BusFields ==
  ASSUME NEW b \in BusRecord, NEW streams \in Seq(Stream), NEW release \in Nat, NEW slots \in Slots
  PROVE  /\ WithFields(b, streams, release, slots) \in BusRecord
         /\ WithFields(b, streams, release, slots).streams = streams
         /\ WithFields(b, streams, release, slots).release = release
         /\ WithFields(b, streams, release, slots).transport = slots
  BY DEF BusRecord, WithFields

LEMMA ReleasedIsSound ==
  ASSUME NEW b, SoundBus(b), NEW k \in 1..Len(b.streams), b.release \in {0, k}
  PROVE  /\ SoundBus(Released(b, k))
         /\ Released(b, k).release = 0
         /\ Len(Released(b, k).streams) = Len(b.streams)
<1> DEFINE closed == [b.streams[k] EXCEPT !.open = FALSE]
           streams == [b.streams EXCEPT ![k] = closed]
           slots == [b.transport EXCEPT !["kea-sse"] = Absent]
<1>1. b.streams \in Seq(Stream) /\ b.transport \in Slots
  BY DEF SoundBus, BusRecord
<1>2. closed \in Stream /\ ~closed.open
  <2>1. b.streams[k] \in Stream
    BY <1>1, ElementOfSeq
  <2> QED
    BY <2>1 DEF Stream
<1>3. /\ streams \in Seq(Stream) /\ Len(streams) = Len(b.streams)
      /\ \A j \in 1..Len(b.streams) : streams[j] = IF j = k THEN closed ELSE b.streams[j]
  <2> HIDE DEF closed
  <2> QED
    BY <1>1, <1>2, ExceptSeq
<1>4. slots \in Slots /\ slots["kea-sse"] = Absent
  BY <1>1 DEF Transports, Slots
<1>5. Released(b, k) = WithFields(b, streams, 0, slots)
  BY DEF Released, WithFields, SoundBus, BusRecord
<1>6. /\ Released(b, k).streams = streams /\ Released(b, k).release = 0
      /\ Released(b, k).transport = slots
      /\ Released(b, k) \in BusRecord
  <2> HIDE DEF streams, slots
  <2>1. b \in BusRecord /\ 0 \in Nat
    BY DEF SoundBus
  <2>2. streams \in Seq(Stream) /\ slots \in Slots
    BY <1>3, <1>4
  <2> QED
    BY <1>5, <2>1, <2>2, BusFields
<1>7. \A j \in 1..Len(b.streams) : ~streams[j].open
  BY <1>2, <1>3 DEF SoundBus
<1> HIDE DEF streams, slots
<1> QED
  BY <1>3, <1>4, <1>6, <1>7 DEF SoundBus

LEMMA OpenedIsSound ==
  ASSUME NEW b, SoundBus(b), b.release = 0, NEW origin \in Origins \cup {NoOrigin}
  PROVE  /\ SoundBus(Opened(b, origin))
         /\ Opened(b, origin).release = Len(b.streams) + 1
         /\ Len(Opened(b, origin).streams) = Len(b.streams) + 1
         /\ Opened(b, origin).streams[Len(b.streams) + 1].origin = origin
<1> DEFINE new == [origin |-> origin, open |-> TRUE]
           streams == Append(b.streams, new)
           slots == [b.transport EXCEPT !["kea-sse"] = "connecting"]
<1>1. /\ b.streams \in Seq(Stream) /\ b.transport \in Slots
      /\ Len(b.streams) \in Nat
  BY LenProperties DEF SoundBus, BusRecord
<1>2. new \in Stream
  BY DEF Stream
<1>3. /\ streams \in Seq(Stream) /\ Len(streams) = Len(b.streams) + 1
      /\ \A j \in 1..Len(b.streams) : streams[j] = b.streams[j]
      /\ streams[Len(b.streams) + 1] = new
  <2> HIDE DEF new
  <2> QED
    BY <1>1, <1>2, AppendProperties
<1>4. slots \in Slots /\ slots["kea-sse"] # Absent
  BY <1>1 DEF Transports, Slots, States, Absent
<1>5. Opened(b, origin) = WithFields(b, streams, Len(b.streams) + 1, slots)
  BY DEF Opened, WithFields, SoundBus, BusRecord
<1>6. /\ Opened(b, origin).streams = streams /\ Opened(b, origin).release = Len(b.streams) + 1
      /\ Opened(b, origin).transport = slots
      /\ Opened(b, origin) \in BusRecord
  <2> HIDE DEF streams, slots
  <2>1. b \in BusRecord /\ Len(b.streams) + 1 \in Nat
    BY <1>1 DEF SoundBus
  <2>2. streams \in Seq(Stream) /\ slots \in Slots
    BY <1>3, <1>4
  <2> QED
    BY <1>5, <2>1, <2>2, BusFields
<1>7. \A j \in 1..(Len(b.streams) + 1) : streams[j].open <=> j = Len(b.streams) + 1
  <2> HIDE DEF streams
  <2>1. \A j \in 1..Len(b.streams) : ~b.streams[j].open
    BY DEF SoundBus
  <2> QED
    BY <1>1, <1>3, <2>1
<1>8. streams[Len(b.streams) + 1].origin = origin
  BY <1>3
<1> HIDE DEF streams, slots
<1> QED
  BY <1>1, <1>3, <1>4, <1>6, <1>7, <1>8 DEF SoundBus

-----------------------------------------------------------------------------
(* What the handlers make of the bus. *)

LEMMA InitStreams == Init => StreamInv
<1> SUFFICES ASSUME Init PROVE StreamInv
  OBVIOUS
<1> DEFINE new == [origin |-> NoOrigin, open |-> TRUE]
           empty == [streams |-> <<>>, release |-> 0, transport |-> [id \in Transports |-> Absent]]
           first == Opened(empty, NoOrigin)
           slots == [[[id \in Transports |-> Absent] EXCEPT !["kea-sse"] = "connecting"]
                       EXCEPT !["cp-perf"] = "connecting"]
<1>1. first = [streams |-> <<new>>, release |-> 1,
               transport |-> [[id \in Transports |-> Absent] EXCEPT !["kea-sse"] = "connecting"]]
  <2>1. Append(<<>>, new) = <<new>>
    <3> HIDE DEF new
    <3> QED
      OBVIOUS
  <2>2. empty.streams = <<>> /\ Len(<<>>) + 1 = 1
    OBVIOUS
  <2>3. first = [empty EXCEPT !.streams = <<new>>, !.release = 1, !.transport["kea-sse"] = "connecting"]
    BY <2>1, <2>2 DEF Opened
  <2> HIDE DEF new
  <2> QED
    BY <2>3
<1>2. bus = [streams |-> <<new>>, release |-> 1, transport |-> slots]
  <2>1. bus = [first EXCEPT !.transport["cp-perf"] = "connecting"]
    BY DEF Init
  <2> HIDE DEF first, new
  <2> QED
    BY <1>1, <2>1
<1>3. new \in Stream /\ <<new>> \in Seq(Stream) /\ Len(<<new>>) = 1 /\ <<new>>[1] = new
  BY DEF Stream
<1>4. slots \in Slots /\ slots["kea-sse"] # Absent
  BY DEF Transports, Slots, States, Absent
<1>5. SoundBus(bus)
  <2> HIDE DEF slots
  <2>1. bus \in BusRecord
    BY <1>2, <1>3, <1>4 DEF BusRecord
  <2>2. \A k \in 1..1 : <<new>>[k].open <=> k = 1
    OBVIOUS
  <2> HIDE DEF new
  <2> QED
    BY <1>2, <1>3, <1>4, <2>1, <2>2 DEF SoundBus
<1> HIDE DEF slots, empty, new
<1>6. bus.release = 1 /\ Len(bus.streams) = 1
  BY <1>2, <1>3
<1>7. appRelease = 0 /\ base = NoOrigin /\ lastOrigin = NoOrigin
  BY DEF Init
<1> QED
  BY <1>5, <1>6, <1>7 DEF StreamInv, AppStreamFollowsBase

\* A release by the owner of the current stream.
LEMMA OwnRelease ==
  ASSUME StreamInv, appRelease # 0
  PROVE  /\ SoundBus(Released(bus, appRelease)) /\ Released(bus, appRelease).release = 0
         /\ Len(Released(bus, appRelease).streams) = Len(bus.streams)
<1>1. SoundBus(bus) /\ bus.release = appRelease
  BY DEF StreamInv
<1>2. bus.release \in 0..Len(bus.streams) /\ Len(bus.streams) \in Nat
  BY <1>1, LenProperties DEF SoundBus, BusRecord
<1>3. appRelease \in 1..Len(bus.streams)
  BY <1>1, <1>2
<1> QED
  BY <1>1, <1>3, ReleasedIsSound

LEMMA LoadKeepsStreams ==
  ASSUME StreamInv, NEW next \in Origins \cup {NoOrigin}, base' = next, SyncFabricSse(next)
  PROVE  StreamInv'
<1>0. Len(bus.streams) \in Nat /\ SoundBus(bus) /\ base = lastOrigin
  BY LenProperties DEF StreamInv, SoundBus, BusRecord
<1>1. base' = lastOrigin' /\ base' \in Origins \cup {NoOrigin}
  BY DEF SyncFabricSse
<1>2. CASE next = NoOrigin /\ appRelease' = 0 /\ bus' = IF appRelease # 0 THEN Released(bus, appRelease) ELSE bus
  <2>1. SoundBus(bus') /\ bus'.release \in {0, 1}
    BY <1>0, <1>2, OwnRelease DEF StreamInv
  <2> QED
    BY <1>1, <1>2, <2>1, LenProperties DEF StreamInv, SoundBus, BusRecord, AppStreamFollowsBase
<1>3. CASE next # NoOrigin /\ appRelease = 0 /\ bus' = Connected(bus, next) /\ appRelease' = bus'.release
  <2>1. CASE bus.release # 0
    <3>1. bus' = bus /\ appRelease' = 1
      BY <1>3, <2>1 DEF Connected, StreamInv
    <3>2. bus'.release = 1
      BY <2>1, <3>1, <1>3 DEF StreamInv
    <3>3. SoundBus(bus')
      BY <1>0, <3>1
    <3>4. 1 \in 0..Len(bus'.streams)
      BY <1>0, <3>1 DEF SoundBus
    <3> QED
      BY <1>1, <3>1, <3>2, <3>3, <3>4 DEF StreamInv, AppStreamFollowsBase
  <2>2. CASE bus.release = 0
    <3>1. bus' = Opened(bus, next)
      BY <1>3, <2>2 DEF Connected
    <3>2. /\ SoundBus(bus') /\ bus'.release = Len(bus.streams) + 1
          /\ Len(bus'.streams) = Len(bus.streams) + 1
          /\ bus'.streams[Len(bus.streams) + 1].origin = next
      BY <1>0, <2>2, <3>1, OpenedIsSound
    <3> QED
      BY <1>0, <1>1, <1>3, <3>2 DEF StreamInv, SoundBus, AppStreamFollowsBase
  <2> QED
    BY <2>1, <2>2
<1>4. CASE /\ next # NoOrigin /\ appRelease # 0 /\ next # lastOrigin
           /\ bus' = Connected(Released(bus, appRelease), next) /\ appRelease' = bus'.release
  <2> DEFINE b == Released(bus, appRelease)
  <2>1. SoundBus(b) /\ b.release = 0 /\ Len(b.streams) = Len(bus.streams)
    BY <1>4, OwnRelease
  <2>2. bus' = Opened(b, next)
    BY <1>4, <2>1 DEF Connected
  <2> HIDE DEF b
  <2>3. /\ SoundBus(bus') /\ bus'.release = Len(b.streams) + 1
        /\ Len(bus'.streams) = Len(b.streams) + 1
        /\ bus'.streams[Len(b.streams) + 1].origin = next
    BY <2>1, <2>2, OpenedIsSound
  <2> QED
    BY <1>0, <1>1, <1>4, <2>1, <2>3 DEF StreamInv, SoundBus, AppStreamFollowsBase
<1>5. CASE next # NoOrigin /\ appRelease # 0 /\ next = lastOrigin /\ UNCHANGED <<bus, appRelease>>
  BY <1>0, <1>1, <1>5 DEF StreamInv, SoundBus, AppStreamFollowsBase
<1> QED
  BY <1>2, <1>3, <1>4, <1>5 DEF SyncFabricSse

\* Both closures have run: the app's, and the kernel's on whatever is left.
LEMMA UnmountEndsStreams ==
  ASSUME StreamInv, Unmount
  PROVE  /\ StreamInv'
         /\ OpenStreams' = {}
         /\ \A id \in Transports : bus'.transport[id] = Absent
<1> DEFINE own == IF appRelease # 0 THEN Released(bus, appRelease) ELSE bus
           both == Released(own, 1)
<1>1. SoundBus(own) /\ own.release \in {0, 1} /\ Len(own.streams) = Len(bus.streams)
  BY OwnRelease DEF StreamInv
<1>2. Len(own.streams) \in Nat /\ 1 \in 1..Len(own.streams)
  BY <1>1, LenProperties DEF SoundBus, BusRecord
<1>3. SoundBus(both) /\ both.release = 0 /\ Len(both.streams) = Len(bus.streams)
  <2> HIDE DEF own
  <2> QED
    BY <1>1, <1>2, ReleasedIsSound
<1>4. bus' = [both EXCEPT !.transport["cp-perf"] = Absent]
  BY DEF Unmount
<1> HIDE DEF both
<1>5. /\ bus'.streams = both.streams /\ bus'.release = 0
      /\ bus'.transport \in Slots
      /\ bus'.transport["kea-sse"] = Absent /\ bus'.transport["cp-perf"] = Absent
      /\ bus' \in BusRecord
  BY <1>3, <1>4 DEF SoundBus, BusRecord, Slots, States, Transports
<1>6. SoundBus(bus')
  BY <1>3, <1>5 DEF SoundBus
<1>7. OpenStreams' = {}
  <2>1. DOMAIN bus'.streams = 1..Len(bus'.streams)
    BY <1>6, LenProperties DEF SoundBus, BusRecord, BusRecord
  <2>2. \A k \in 1..Len(bus'.streams) : ~bus'.streams[k].open
    BY <1>5, <1>6 DEF SoundBus
  <2> QED
    BY <2>1, <2>2 DEF OpenStreams
<1>8. StreamInv'
  BY <1>2, <1>5, <1>6 DEF Unmount, StreamInv, SoundBus, AppStreamFollowsBase
<1> QED
  BY <1>5, <1>7, <1>8 DEF Transports

\* Events and errors change a slot's state, never whether it is registered.
LEMMA StateKeepsStreams ==
  ASSUME StreamInv, NEW id \in Transports, NEW state \in States, SetState(id, state), UNCHANGED app,
         id = "kea-sse" => bus.release # 0
  PROVE  StreamInv'
<1>1. /\ bus'.streams = bus.streams /\ bus'.release = bus.release
      /\ bus' \in BusRecord
      /\ bus'.transport["kea-sse"] = IF id = "kea-sse" THEN state ELSE bus.transport["kea-sse"]
  BY DEF StreamInv, SoundBus, BusRecord, Slots, SetState, Transports
<1>2. state # Absent
  BY DEF States, Absent
<1>3. SoundBus(bus')
  BY <1>1, <1>2 DEF StreamInv, SoundBus
<1> QED
  BY <1>1, <1>3 DEF StreamInv, AppStreamFollowsBase, app

LEMMA OpenIsCurrent ==
  ASSUME StreamInv, NEW k \in OpenStreams
  PROVE  bus.release # 0
  BY LenProperties DEF StreamInv, SoundBus, BusRecord, OpenStreams

LEMMA NextKeepsStreams == StreamInv /\ [Next]_vars => StreamInv'
<1> SUFFICES ASSUME StreamInv, [Next]_vars PROVE StreamInv'
  OBVIOUS
<1>1. CASE UNCHANGED <<bus, base, appRelease, lastOrigin>>
  BY <1>1 DEF StreamInv, SoundBus, AppStreamFollowsBase
<1>2. CASE Unmount
  BY <1>2, UnmountEndsStreams
<1>3. ASSUME NEW next \in Origins \cup {NoOrigin}, LoadAnswered(next) PROVE StreamInv'
  BY <1>3, LoadKeepsStreams DEF LoadAnswered
<1>4. ASSUME NEW k \in DOMAIN bus.streams, StreamDelivers(k) \/ StreamErrs(k) PROVE StreamInv'
  <2>1. bus.release # 0
    BY <1>4, OpenIsCurrent DEF StreamDelivers, StreamErrs
  <2>2. "kea-sse" \in Transports /\ "open" \in States /\ "error" \in States
    BY DEF Transports, States
  <2> QED
    BY <1>4, <2>1, <2>2, StateKeepsStreams DEF StreamDelivers, StreamErrs
<1>5. CASE TickAnswered
  <2>1. CASE ~firstEmit /\ SetState("cp-perf", "open")
    BY <1>5, <2>1, StateKeepsStreams DEF TickAnswered, Transports, States
  <2>2. CASE UNCHANGED bus
    BY <1>1, <1>5, <2>2 DEF TickAnswered, app
  <2> QED
    BY <1>5, <2>1, <2>2 DEF TickAnswered
<1> QED
  BY <1>1, <1>2, <1>3, <1>4, <1>5 DEF Next, LoadStarts, LoadFails, TickStarts, TickFails, vars, app

-----------------------------------------------------------------------------
(* The counters: nothing is answered that was not asked. *)

BoundsGiven == SAMPLES \in Nat \ {0} /\ MAX_LOADS \in Nat \ {0} /\ MAX_TICKS \in Nat \ {0}

PollerInv ==
  /\ mounted \in BOOLEAN /\ polling \in BOOLEAN /\ firstEmit \in BOOLEAN
  /\ loads \in 0..MAX_LOADS /\ ticks \in 0..MAX_TICKS
  /\ bucket \in 0..(SAMPLES - 1)

LEMMA NextKeepsPoller ==
  ASSUME BoundsGiven, PollerInv, [Next]_vars
  PROVE  PollerInv'
<1>1. loads' \in 0..MAX_LOADS
  <2>1. loads' = loads \/ (loads < MAX_LOADS /\ loads' = loads + 1) \/ (loads > 0 /\ loads' = loads - 1)
    BY DEF Next, vars, app, LoadStarts, LoadFails, LoadAnswered, Unmount, StreamDelivers, StreamErrs,
           TickStarts, TickFails, TickAnswered
  <2> QED
    BY <2>1 DEF BoundsGiven, PollerInv
<1>2. ticks' \in 0..MAX_TICKS
  <2>1. ticks' = ticks \/ (ticks < MAX_TICKS /\ ticks' = ticks + 1) \/ (ticks > 0 /\ ticks' = ticks - 1)
    BY DEF Next, vars, poller, LoadStarts, LoadFails, LoadAnswered, Unmount, StreamDelivers, StreamErrs,
           TickStarts, TickFails, TickAnswered
  <2> QED
    BY <2>1 DEF BoundsGiven, PollerInv
<1>3. bucket' \in 0..(SAMPLES - 1)
  <2>1. bucket' \in {bucket, 0, (bucket + 1) % SAMPLES}
    BY DEF Next, vars, poller, LoadStarts, LoadFails, LoadAnswered, Unmount, StreamDelivers, StreamErrs,
           TickStarts, TickFails, TickAnswered
  <2>2. (bucket + 1) % SAMPLES \in 0..(SAMPLES - 1)
    BY DEF BoundsGiven, PollerInv
  <2> QED
    BY <2>1, <2>2 DEF BoundsGiven, PollerInv
<1>4. mounted' \in BOOLEAN /\ polling' \in BOOLEAN /\ firstEmit' \in BOOLEAN
  <2>1. mounted' \in {mounted, FALSE} /\ polling' \in {polling, FALSE} /\ firstEmit' \in {firstEmit, TRUE}
    BY DEF Next, vars, app, poller, LoadStarts, LoadFails, LoadAnswered, Unmount,
           StreamDelivers, StreamErrs, TickStarts, TickFails, TickAnswered
  <2> QED
    BY <2>1 DEF PollerInv
<1> QED
  BY <1>1, <1>2, <1>3, <1>4 DEF PollerInv

LEMMA InitPoller == BoundsGiven /\ Init => PollerInv
<1> SUFFICES ASSUME BoundsGiven, Init PROVE PollerInv
  OBVIOUS
<1>1. /\ mounted = TRUE /\ loads = 1 /\ polling = TRUE /\ ticks = 1 /\ firstEmit = FALSE /\ bucket = 0
  BY DEF Init
<1>2. 1 \in 0..MAX_LOADS /\ 1 \in 0..MAX_TICKS /\ 0 \in 0..(SAMPLES - 1)
  BY DEF BoundsGiven
<1> QED
  BY <1>1, <1>2 DEF PollerInv

LEMMA TypesFollow == StreamInv /\ PollerInv => TypeOK
BY DEF StreamInv, SoundBus, BusRecord, Slots, PollerInv, TypeOK

-----------------------------------------------------------------------------
(* Theorems. *)

\* The current stream is the open one, and the slot says so: what the invariant means for the
\* properties of the bus.
LEMMA SoundStreams == StreamInv => OneStream /\ SlotMeansStream
<1> SUFFICES ASSUME StreamInv PROVE OneStream /\ SlotMeansStream
  OBVIOUS
<1>1. DOMAIN bus.streams = 1..Len(bus.streams) /\ Len(bus.streams) \in Nat
  BY LenProperties DEF StreamInv, SoundBus, BusRecord
<1>2. OneStream
  BY <1>1 DEF OneStream, OpenStreams, StreamInv, SoundBus
<1> QED
  BY <1>2 DEF OneStream, SlotMeansStream, StreamInv, SoundBus

\* Whatever loads overlap and however often the app repoints the stream, one stream is open at
\* most, it is the one that can be released, its slot is registered while it runs, and it is at the
\* base the control plane named last when the app opened it (eventBus.ts, PiholeOperatorApp.svelte).
THEOREM BusStaysSound == Spec => [](OneStream /\ SlotMeansStream /\ AppStreamFollowsBase)
<1>1. StreamInv => AppStreamFollowsBase
  BY DEF StreamInv
<1> QED
  BY <1>1, InitStreams, NextKeepsStreams, SoundStreams, PTL DEF Spec
=============================================================================
