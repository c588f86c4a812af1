-------------------------- MODULE LayoutStoreProofs --------------------------
(* What the layout store keeps true for every set of documents, every undo cap *)
(* and every order of calls: its types, the bound on the undo stacks, the      *)
(* protection of a stored document this client is too old to read and, in the  *)
(* second part, that the API ends with what is on screen.                      *)
EXTENDS LayoutStore, SequenceTheorems, TLAPS

-----------------------------------------------------------------------------
(* Sequences. *)

LEMMA CappedType ==
  ASSUME NEW s \in Seq(Layouts), Len(s) <= UNDO_CAP + 1
  PROVE  Capped(s) \in Seq(Layouts) /\ Len(Capped(s)) <= UNDO_CAP
<1>1. CASE Len(s) <= UNDO_CAP
  BY <1>1, LenProperties, BoundsAssumption DEF Capped
<1>2. CASE Len(s) > UNDO_CAP
  <2>1. s # <<>>
    BY <1>2, EmptySeq, BoundsAssumption
  <2>2. Tail(s) \in Seq(Layouts) /\ Len(Tail(s)) = Len(s) - 1
    BY <2>1, HeadTailProperties
  <2> QED
    BY <1>2, <2>2, LenProperties, BoundsAssumption DEF Capped
<1> QED
  BY <1>1, <1>2, LenProperties, BoundsAssumption

LEMMA WithoutCallType ==
  ASSUME NEW S, calls \in Seq(S), NEW i \in DOMAIN calls
  PROVE  WithoutCall(i) \in Seq(S) /\ Len(WithoutCall(i)) = Len(calls) - 1
<1> DEFINE before == SubSeq(calls, 1, i - 1)
           after == SubSeq(calls, i + 1, Len(calls))
<1>1. i \in 1..Len(calls) /\ Len(calls) \in Nat
  BY LenProperties
<1>2. \A j \in 1..Len(calls) : calls[j] \in S
  BY ElementOfSeq
<1>3. before \in Seq(S) /\ Len(before) = i - 1
  <2>1. 1 \in Int /\ i - 1 \in Int /\ \A j \in 1..(i - 1) : calls[j] \in S
    BY <1>1, <1>2
  <2> QED
    BY <1>1, <2>1, SubSeqProperties
<1>4. after \in Seq(S) /\ Len(after) = Len(calls) - i
  <2>1. i + 1 \in Int /\ Len(calls) \in Int /\ \A j \in (i + 1)..Len(calls) : calls[j] \in S
    BY <1>1, <1>2
  <2> QED
    BY <1>1, <2>1, SubSeqProperties
<1>0. WithoutCall(i) = before \o after
  BY DEF WithoutCall
<1> HIDE DEF before, after
<1>5. before \o after \in Seq(S) /\ Len(before \o after) = Len(before) + Len(after)
  BY <1>3, <1>4, ConcatProperties
<1>6. Len(before) + Len(after) = Len(calls) - 1
  BY <1>1, <1>3, <1>4
<1> QED
  BY <1>0, <1>5, <1>6

LEMMA SendType ==
  ASSUME calls \in Seq(Call), NEW op \in Ops, NEW doc \in Stored, Send(op, doc)
  PROVE  calls' \in Seq(Call) /\ Len(calls') <= MAX_CALLS
<1> DEFINE sent == Append(calls, Sent(op, doc, TRUE))
<1>1. Sent(op, doc, TRUE) \in Call
  BY DEF Sent, Call
<1>2. sent \in Seq(Call) /\ Len(sent) = Len(calls) + 1
  BY <1>1, AppendProperties
<1>3. calls' = sent /\ Len(calls) < MAX_CALLS
  BY DEF Send
<1>4. Len(calls) + 1 <= MAX_CALLS
  BY <1>3, LenProperties, BoundsAssumption
<1> HIDE DEF sent
<1> QED
  BY <1>2, <1>3, <1>4

LEMMA OutcomeType ==
  ASSUME calls \in Seq(Call), NEW i \in DOMAIN calls,
         NEW state \in {"sent", "ok", "error"}, NEW doc \in Stored, Outcome(i, state, doc)
  PROVE  calls' \in Seq(Call) /\ Len(calls') = Len(calls)
<1> DEFINE call == [calls[i] EXCEPT !.state = state, !.doc = doc]
<1>1. i \in 1..Len(calls)
  BY LenProperties
<1>2. calls[i] \in Call
  BY <1>1, ElementOfSeq
<1>3. call \in Call
  BY <1>2 DEF Call
<1>4. calls' = [calls EXCEPT ![i] = call]
  BY DEF Outcome
<1> HIDE DEF call
<1>5. [calls EXCEPT ![i] = call] \in Seq(Call) /\ Len([calls EXCEPT ![i] = call]) = Len(calls)
  BY <1>1, <1>3, ExceptSeq
<1> QED
  BY <1>4, <1>5

LEMMA OrphanedType ==
  ASSUME calls \in Seq(Call), layout \in Layouts, NEW flushing \in BOOLEAN
  PROVE  Orphaned(flushing) \in Seq(Call)
<1>1. Abandoned \in Seq(Call)
  <2>1. Len(calls) \in Nat /\ DOMAIN calls = 1..Len(calls)
    BY LenProperties
  <2>2. \A i \in 1..Len(calls) : [calls[i] EXCEPT !.live = FALSE] \in Call
    <3> SUFFICES ASSUME NEW i \in 1..Len(calls) PROVE [calls[i] EXCEPT !.live = FALSE] \in Call
      OBVIOUS
    <3>1. calls[i] \in Call
      BY ElementOfSeq
    <3> QED
      BY <3>1 DEF Call
  <2>3. Abandoned \in [1..Len(calls) -> Call]
    BY <2>1, <2>2 DEF Abandoned
  <2> QED
    BY <2>1, <2>3, SeqDef
<1>2. Sent("put", layout, FALSE) \in Call
  BY LayoutsAssumption DEF Sent, Call, Ops, Stored
<1>3. Append(Abandoned, Sent("put", layout, FALSE)) \in Seq(Call)
  BY <1>1, <1>2, AppendProperties
<1> QED
  BY <1>1, <1>3 DEF Orphaned

LEMMA BootCallsType == BootCalls \in Seq(Call)
<1> DEFINE boot == Sent("get", NoDoc, TRUE)
<1>1. boot \in Call
  BY DEF Sent, Call, Ops, Stored
<1>2. BootCalls = <<>> \/ BootCalls = <<boot>>
  BY DEF BootCalls
<1> HIDE DEF boot
<1>3. <<boot>> \in Seq(Call)
  BY <1>1
<1> QED
  BY <1>2, <1>3, EmptySeq

-----------------------------------------------------------------------------
(* The helpers the handlers are built from. *)

LEMMA HydratedType ==
  ASSUME NEW stored \in Stored
  PROVE  Hydrated(stored) \in Layouts /\ RewrittenCache(stored) \in Stored
BY LayoutsAssumption, ConversionsAssumption DEF Hydrated, RewrittenCache, Stored

LEMMA RestructureType ==
  ASSUME TypeOK, UndoBounded, NEW next \in Docs, NEW editMode, NEW skipHistory,
         Restructure(next, editMode, skipHistory)
  PROVE  /\ layout' \in Layouts /\ loadError' \in BOOLEAN /\ cache' \in Stored
         /\ undoPast' \in Seq(Layouts) /\ undoFuture' \in Seq(Layouts)
         /\ UndoBounded'
<1>1. CASE UNCHANGED <<layout, history, cache>> /\ loadError' = TRUE
  BY <1>1 DEF TypeOK, UndoBounded, history
<1>2. CASE Normalize[next] # Invalid /\ layout' = Normalize[next]
  <2>1. layout' \in Layouts /\ layout' \in Stored
    BY <1>2, LayoutsAssumption, ConversionsAssumption DEF Stored
  <2>2. loadError' \in BOOLEAN /\ cache' \in Stored
    BY <1>2, <2>1 DEF Restructure, SavedLocally, SaveThrows, TypeOK
  <2>3. CASE UNCHANGED history
    BY <2>1, <2>2, <2>3 DEF TypeOK, UndoBounded, history
  <2>4. CASE undoPast' = Capped(Append(undoPast, layout)) /\ undoFuture' = <<>>
    <3>1. /\ Append(undoPast, layout) \in Seq(Layouts)
          /\ Len(Append(undoPast, layout)) = Len(undoPast) + 1
      BY AppendProperties DEF TypeOK
    <3>2. Len(undoPast) <= UNDO_CAP
      BY LenProperties, BoundsAssumption DEF TypeOK, UndoBounded
    <3>3. Len(Append(undoPast, layout)) <= UNDO_CAP + 1
      BY <3>1, <3>2, LenProperties, BoundsAssumption DEF TypeOK
    <3>4. undoPast' \in Seq(Layouts) /\ Len(undoPast') <= UNDO_CAP
      BY <2>4, <3>1, <3>3, CappedType
    <3>5. undoFuture' \in Seq(Layouts) /\ Len(undoFuture') = 0
      BY <2>4, EmptySeq
    <3>6. UndoBounded'
      BY <3>4, <3>5, LenProperties, BoundsAssumption DEF UndoBounded
    <3> QED
      BY <2>1, <2>2, <3>4, <3>5, <3>6
  <2> QED
    BY <1>2, <2>3, <2>4 DEF Restructure
<1> QED
  BY <1>1, <1>2 DEF Restructure

LEMMA FlushPersistType ==
  ASSUME TypeOK, layout' \in Layouts, FlushPersist
  PROVE  /\ debounce' \in BOOLEAN /\ persistError' \in BOOLEAN
         /\ calls' \in Seq(Call) /\ Len(calls') <= MAX_CALLS
<1>1. CASE PiholeShell /\ persistError' = FALSE /\ UNCHANGED calls
  BY <1>1 DEF FlushPersist, TypeOK
<1>2. CASE Send("put", layout') /\ UNCHANGED persistError
  <2>1. layout' \in Stored /\ "put" \in Ops
    BY LayoutsAssumption DEF Stored, Ops
  <2>2. calls' \in Seq(Call) /\ Len(calls') <= MAX_CALLS
    BY <1>2, <2>1, SendType DEF TypeOK
  <2> QED
    BY <1>2, <2>2 DEF FlushPersist, TypeOK
<1> QED
  BY <1>1, <1>2 DEF FlushPersist

LEMMA ApplyStructureType ==
  ASSUME TypeOK, UndoBounded, NEW next \in Docs, NEW editMode, NEW skipHistory,
         ApplyStructure(next, editMode, skipHistory)
  PROVE  /\ layout' \in Layouts /\ loadError' \in BOOLEAN /\ cache' \in Stored
         /\ undoPast' \in Seq(Layouts) /\ undoFuture' \in Seq(Layouts)
         /\ UndoBounded' /\ debounce' \in BOOLEAN
<1>1. Restructure(next, editMode, skipHistory) /\ debounce' \in BOOLEAN
  BY DEF ApplyStructure, SchedulePersist, PiholeShell, TypeOK
<1> QED
  BY <1>1, RestructureType

LEMMA NewPageType ==
  ASSUME TypeOK, NEW stored \in Stored, NEW flushing \in BOOLEAN,
         NewPage(stored, flushing), UNCHANGED shell
  PROVE  TypeOK' /\ UndoBounded'
<1>1. layout' \in Layouts /\ cache' \in Stored
  BY HydratedType, LayoutsAssumption DEF NewPage, Stored
<1>2. Orphaned(flushing) \o BootCalls \in Seq(Call)
  BY OrphanedType, BootCallsType, ConcatProperties DEF TypeOK
<1>3. calls' \in Seq(Call) /\ Len(calls') <= MAX_CALLS
  BY <1>2 DEF NewPage
<1>4. /\ undoPast' \in Seq(Layouts) /\ undoFuture' \in Seq(Layouts)
      /\ Len(undoPast') = 0 /\ Len(undoFuture') = 0
  BY EmptySeq DEF NewPage
<1>5. /\ loadError' \in BOOLEAN /\ persistError' \in BOOLEAN /\ editorOpen' \in BOOLEAN
      /\ debounce' \in BOOLEAN /\ gate' \in BOOLEAN
      /\ layoutSource' \in {"cache", "server"} /\ server' \in Stored /\ shell' \in Shells
  BY DEF NewPage, TypeOK
<1>6. UndoBounded'
  BY <1>4, BoundsAssumption DEF UndoBounded
<1> QED
  BY <1>1, <1>3, <1>4, <1>5, <1>6 DEF TypeOK

-----------------------------------------------------------------------------
(* Types and the undo bound: inductive together. *)

TypedAndBounded == TypeOK /\ UndoBounded

LEMMA InitTyped == Init => TypedAndBounded
<1> SUFFICES ASSUME Init PROVE TypedAndBounded
  OBVIOUS
<1>1. PICK stored \in Stored : Init!2!(stored)
  BY DEF Init
<1>2. layout \in Layouts /\ cache \in Stored
  BY <1>1, HydratedType
<1>3. calls \in Seq(Call) /\ Len(calls) <= MAX_CALLS
  <2>1. calls \in Seq(Call)
    BY <1>1, BootCallsType
  <2>2. Len(calls) <= MAX_CALLS
    BY <1>1, BoundsAssumption DEF BootCalls
  <2> QED
    BY <2>1, <2>2
<1>4. /\ undoPast \in Seq(Layouts) /\ undoFuture \in Seq(Layouts)
      /\ Len(undoPast) = 0 /\ Len(undoFuture) = 0
  BY <1>1, EmptySeq
<1>5. /\ shell \in Shells /\ server \in Stored /\ gate \in BOOLEAN /\ debounce \in BOOLEAN
      /\ loadError \in BOOLEAN /\ persistError \in BOOLEAN /\ editorOpen \in BOOLEAN
      /\ layoutSource \in {"cache", "server"}
  BY <1>1 DEF Init
<1>6. UndoBounded
  BY <1>4, BoundsAssumption DEF UndoBounded
<1> QED
  BY <1>2, <1>3, <1>4, <1>5, <1>6 DEF TypedAndBounded, TypeOK

LEMMA ServerSyncedType ==
  ASSUME TypeOK, UndoBounded, ServerSynced \/ Unsynced
  PROVE  /\ layout' \in Layouts /\ loadError' \in BOOLEAN /\ cache' \in Stored /\ gate' \in BOOLEAN
         /\ undoPast' \in Seq(Layouts) /\ undoFuture' \in Seq(Layouts) /\ UndoBounded'
<1>1. CASE Unsynced
  BY <1>1 DEF Unsynced, TypeOK, UndoBounded, history
<1>2. CASE ServerSynced
  <2>1. PICK d \in Docs : Restructure(d, editorOpen', TRUE)
    BY <1>2 DEF ServerSynced
  <2>2. gate' \in BOOLEAN
    BY <1>2 DEF ServerSynced, TypeOK
  <2> QED
    BY <2>1, <2>2, RestructureType
<1> QED
  BY <1>1, <1>2

LEMMA UserStepTyped ==
  ASSUME TypedAndBounded, UserStep, UNCHANGED shell
  PROVE  TypedAndBounded'
<1> USE DEF TypedAndBounded
<1>1. ASSUME NEW d \in Docs, Edit(d) PROVE TypedAndBounded'
  BY <1>1, ApplyStructureType DEF Edit, TypeOK
<1>2. ASSUME NEW d \in Docs, SelectDashboardView(d) PROVE TypedAndBounded'
  <2>1. /\ layout' \in Layouts /\ loadError' \in BOOLEAN /\ cache' \in Stored
        /\ undoPast' \in Seq(Layouts) /\ undoFuture' \in Seq(Layouts) /\ UndoBounded'
    <3>1. CASE Restructure(d, FALSE, FALSE)
      BY <3>1, RestructureType
    <3>2. CASE UNCHANGED <<layout, loadError, history, cache>>
      BY <3>2 DEF TypeOK, UndoBounded, history
    <3> QED
      BY <1>2, <3>1, <3>2 DEF SelectDashboardView
  <2>2. FlushPersist /\ UNCHANGED <<gate, layoutSource, server>> /\ editorOpen' = FALSE
    BY <1>2 DEF SelectDashboardView
  <2>3. /\ debounce' \in BOOLEAN /\ persistError' \in BOOLEAN
        /\ calls' \in Seq(Call) /\ Len(calls') <= MAX_CALLS
    BY <2>1, <2>2, FlushPersistType
  <2> QED
    BY <2>1, <2>2, <2>3 DEF TypeOK
<1>3. ASSUME Refused PROVE TypedAndBounded'
  BY <1>3 DEF Refused, TypeOK, UndoBounded, history
<1>4. ASSUME NEW d \in Layouts, Restored(d), UNCHANGED gate
      PROVE  /\ layout' \in Layouts /\ cache' \in Stored /\ debounce' \in BOOLEAN
             /\ UNCHANGED <<gate, errors, editorOpen, layoutSource, calls, server>>
  BY <1>4, LayoutsAssumption
  DEF Restored, SavedLocally, SaveThrows, SchedulePersist, PiholeShell, Stored, TypeOK
<1>5. ASSUME Undo PROVE TypedAndBounded'
  <2> DEFINE last == undoPast[Len(undoPast)]
             past == SubSeq(undoPast, 1, Len(undoPast) - 1)
  <2>1. Len(undoPast) \in Nat /\ Len(undoPast) >= 1 /\ Len(undoFuture) \in Nat
    BY <1>5, EmptySeq, LenProperties DEF Undo, TypeOK
  <2>2. \A j \in 1..Len(undoPast) : undoPast[j] \in Layouts
    BY ElementOfSeq DEF TypeOK
  <2>3. past \in Seq(Layouts) /\ Len(past) = Len(undoPast) - 1
    <3>1. 1 \in Int /\ Len(undoPast) - 1 \in Int
          /\ \A j \in 1..(Len(undoPast) - 1) : undoPast[j] \in Layouts
      BY <2>1, <2>2
    <3>2. past \in Seq(Layouts)
      BY <3>1, SubSeqProperties
    <3>3. CASE Len(undoPast) = 1
      <4>1. Len(past) = 0
        BY <3>1, <3>3, SubSeqProperties
      <4> QED
        BY <3>2, <3>3, <4>1
    <3>4. CASE Len(undoPast) > 1
      <4>1. Len(past) = Len(undoPast) - 1 - 1 + 1
        BY <2>1, <3>1, <3>4, SubSeqProperties
      <4> QED
        BY <2>1, <3>2, <4>1
    <3> QED
      BY <2>1, <3>3, <3>4
  <2>4. <<layout>> \in Seq(Layouts) /\ Len(<<layout>>) = 1
    BY DEF TypeOK
  <2>5. /\ <<layout>> \o undoFuture \in Seq(Layouts)
        /\ Len(<<layout>> \o undoFuture) = 1 + Len(undoFuture)
    BY <2>4, ConcatProperties DEF TypeOK
  <2>6. last \in Layouts
    BY <2>1, <2>2
  <2>7. undoPast' = past /\ undoFuture' = <<layout>> \o undoFuture
    BY <1>5 DEF Undo
  <2>8. Restored(last) /\ UNCHANGED gate
    BY <1>5 DEF Undo
  <2> HIDE DEF past, last
  <2>9. UndoBounded'
    BY <2>1, <2>3, <2>5, <2>7, BoundsAssumption DEF UndoBounded
  <2>10. /\ layout' \in Layouts /\ cache' \in Stored /\ debounce' \in BOOLEAN
         /\ UNCHANGED <<gate, errors, editorOpen, layoutSource, calls, server>>
    BY <1>4, <2>6, <2>8
  <2> QED
    BY <2>3, <2>5, <2>7, <2>9, <2>10 DEF TypeOK, errors
<1>6. ASSUME Redo PROVE TypedAndBounded'
  <2>1. Len(undoPast) \in Nat /\ Len(undoFuture) \in Nat
    BY LenProperties DEF TypeOK
  <2>2. /\ Head(undoFuture) \in Layouts /\ Tail(undoFuture) \in Seq(Layouts)
        /\ Len(Tail(undoFuture)) = Len(undoFuture) - 1
    BY <1>6, HeadTailProperties DEF Redo, TypeOK
  <2>3. /\ Append(undoPast, layout) \in Seq(Layouts)
        /\ Len(Append(undoPast, layout)) = Len(undoPast) + 1
    BY AppendProperties DEF TypeOK
  <2>4. undoPast' = Append(undoPast, layout) /\ undoFuture' = Tail(undoFuture)
    BY <1>6 DEF Redo
  <2>5. /\ layout' \in Layouts /\ cache' \in Stored /\ debounce' \in BOOLEAN
        /\ UNCHANGED <<gate, errors, editorOpen, layoutSource, calls, server>>
    BY <1>4, <1>6, <2>2 DEF Redo
  <2>6. Len(undoPast') + Len(undoFuture') = Len(undoPast) + Len(undoFuture)
    BY <2>1, <2>2, <2>3, <2>4
  <2>7. UndoBounded'
    BY <2>6 DEF UndoBounded
  <2> QED
    BY <2>2, <2>3, <2>4, <2>5, <2>7 DEF TypeOK, errors
<1>7. ASSUME OpenEditor PROVE TypedAndBounded'
  <2>1. ServerSynced \/ Unsynced
    BY <1>7 DEF OpenEditor
  <2> QED
    BY <1>7, <2>1, ServerSyncedType DEF OpenEditor, TypeOK
<1>8. ASSUME CloseOrLeave PROVE TypedAndBounded'
  <2>1. (ServerSynced \/ Unsynced) /\ editorOpen' \in BOOLEAN
    BY <1>8 DEF CloseOrLeave
  <2>2. layout' \in Layouts /\ FlushPersist
    BY <1>8, <2>1, ServerSyncedType DEF CloseOrLeave
  <2>3. /\ debounce' \in BOOLEAN /\ persistError' \in BOOLEAN
        /\ calls' \in Seq(Call) /\ Len(calls') <= MAX_CALLS
    BY <2>2, FlushPersistType
  <2> QED
    BY <1>8, <2>1, <2>3, ServerSyncedType DEF CloseOrLeave, TypeOK
<1>9. ASSUME Resync PROVE TypedAndBounded'
  BY <1>9, ServerSyncedType DEF Resync, TypeOK
<1>10. ASSUME SaveLayoutToFile PROVE TypedAndBounded'
  <2>1. cache' \in Stored /\ persistError' \in BOOLEAN
    BY <1>10, LayoutsAssumption
    DEF SaveLayoutToFile, SavedLocally, SaveThrows, TypeOK, Stored
  <2>2. calls' \in Seq(Call) /\ Len(calls') <= MAX_CALLS
    <3>1. layout \in Stored /\ "save" \in Ops
      BY LayoutsAssumption DEF TypeOK, Stored, Ops
    <3> QED
      BY <1>10, <3>1, SendType DEF SaveLayoutToFile, TypeOK
  <2> QED
    BY <1>10, <2>1, <2>2 DEF SaveLayoutToFile, TypeOK, UndoBounded, history
<1>11. ASSUME ResetToBaseline PROVE TypedAndBounded'
  <2>1. calls' \in Seq(Call) /\ Len(calls') <= MAX_CALLS
    <3>1. NoDoc \in Stored /\ "reset" \in Ops
      BY DEF Stored, Ops
    <3> QED
      BY <1>11, <3>1, SendType DEF ResetToBaseline, TypeOK
  <2> QED
    BY <1>11, <2>1 DEF ResetToBaseline, TypeOK, UndoBounded, history
<1>12. ASSUME Reload PROVE TypedAndBounded'
  <2>1. PICK flushing \in {FALSE, ~PiholeShell} : NewPage(cache, flushing)
    BY <1>12 DEF Reload
  <2>2. flushing \in BOOLEAN
    BY DEF PiholeShell
  <2> QED
    BY <2>1, <2>2, NewPageType DEF TypeOK
<1>13. ASSUME ClearStoredAndReload PROVE TypedAndBounded'
  <2>1. /\ (IF PiholeShell THEN cache ELSE NoDoc) \in Stored
        /\ (~PiholeShell) \in BOOLEAN
    BY DEF PiholeShell, Stored, TypeOK
  <2> QED
    BY <1>13, <2>1, NewPageType DEF ClearStoredAndReload
<1> QED
  BY <1>1, <1>2, <1>3, <1>5, <1>6, <1>7, <1>8, <1>9, <1>10, <1>11, <1>12, <1>13 DEF UserStep

LEMMA ServeStepTyped ==
  ASSUME TypedAndBounded, ServeStep, UNCHANGED shell
  PROVE  TypedAndBounded'
<1> USE DEF TypedAndBounded
<1>1. ASSUME NEW i \in DOMAIN calls PROVE calls[i].doc \in Stored
  <2>1. calls[i] \in Call
    BY LenProperties, ElementOfSeq DEF TypeOK
  <2> QED
    BY <2>1 DEF Call
<1>2. ASSUME NEW i \in DOMAIN calls, NEW state \in {"sent", "ok", "error"}, NEW doc \in Stored,
             Outcome(i, state, doc), UNCHANGED client, server' \in Stored
      PROVE  TypedAndBounded'
  <2>1. calls' \in Seq(Call) /\ Len(calls') <= MAX_CALLS
    BY <1>2, OutcomeType DEF TypeOK
  <2> QED
    BY <1>2, <2>1 DEF client, errors, history, TypeOK, UndoBounded
<1>0. NoDoc \in Stored
  BY DEF Stored
<1>3. PICK i \in DOMAIN calls :
        ServeGet(i) \/ ServePut(i) \/ ServeSave(i) \/ ServeReset(i) \/ CallFails(i)
  BY DEF ServeStep
<1>4. CASE ServeGet(i)
  BY <1>2, <1>4 DEF ServeGet, TypeOK
<1>5. CASE ServePut(i)
  BY <1>1, <1>2, <1>5 DEF ServePut
<1>6. CASE ServeSave(i)
  BY <1>0, <1>1, <1>2, <1>6 DEF ServeSave, TypeOK
<1>7. CASE ServeReset(i)
  BY <1>2, <1>7, LayoutsAssumption DEF ServeReset, Stored, TypeOK
<1>8. CASE CallFails(i)
  BY <1>0, <1>2, <1>8 DEF CallFails, TypeOK
<1> QED
  BY <1>3, <1>4, <1>5, <1>6, <1>7, <1>8

LEMMA AcceptServerLayoutTyped ==
  ASSUME TypeOK, NEW d \in Layouts, AcceptServerLayout(d)
  PROVE  /\ layout' \in Layouts /\ cache' \in Stored /\ gate' \in BOOLEAN
         /\ loadError' \in BOOLEAN /\ layoutSource' \in {"cache", "server"}
         /\ undoPast' \in Seq(Layouts) /\ undoFuture' \in Seq(Layouts) /\ UndoBounded'
         /\ UNCHANGED <<persistError, editorOpen, debounce>>
<1>1. /\ undoPast' \in Seq(Layouts) /\ undoFuture' \in Seq(Layouts)
      /\ Len(undoPast') = 0 /\ Len(undoFuture') = 0
  BY EmptySeq DEF AcceptServerLayout
<1>2. UndoBounded'
  BY <1>1, BoundsAssumption DEF UndoBounded
<1>3. layout' \in Layouts /\ gate' \in BOOLEAN /\ UNCHANGED <<persistError, editorOpen, debounce>>
  BY DEF AcceptServerLayout
<1>4. cache' \in Stored
  BY LayoutsAssumption DEF AcceptServerLayout, SavedLocally, SaveThrows, Stored, TypeOK
<1>5. loadError' \in BOOLEAN /\ layoutSource' \in {"cache", "server"}
  BY DEF AcceptServerLayout, TypeOK
<1> QED
  BY <1>1, <1>2, <1>3, <1>4, <1>5

LEMMA AnswerStepTyped ==
  ASSUME TypedAndBounded, AnswerStep, UNCHANGED shell
  PROVE  TypedAndBounded'
<1> USE DEF TypedAndBounded
<1>1. PICK i \in DOMAIN calls :
        GetAnswered(i) \/ PutAnswered(i) \/ SaveAnswered(i) \/ ResetAnswered(i) \/ AnswerDropped(i)
  BY DEF AnswerStep
<1>2. calls[i] \in Call /\ calls[i].doc \in Stored
  <2>1. calls[i] \in Call
    BY LenProperties, ElementOfSeq DEF TypeOK
  <2> QED
    BY <2>1 DEF Call
<1>3. calls' \in Seq(Call) /\ Len(calls') <= MAX_CALLS /\ UNCHANGED server
  <2>1. calls' = WithoutCall(i) /\ UNCHANGED server
    BY <1>1 DEF GetAnswered, PutAnswered, SaveAnswered, ResetAnswered, Answered, AnswerDropped
  <2>2. WithoutCall(i) \in Seq(Call) /\ Len(WithoutCall(i)) = Len(calls) - 1
    BY WithoutCallType DEF TypeOK
  <2>3. Len(calls) \in Nat /\ Len(calls) <= MAX_CALLS
    BY LenProperties DEF TypeOK
  <2>4. Len(WithoutCall(i)) <= MAX_CALLS
    BY <2>2, <2>3, BoundsAssumption
  <2> QED
    BY <2>1, <2>2, <2>4
<1>4. CASE GetAnswered(i)
  <2> DEFINE doc == calls[i].doc
  <2>1. CASE doc \in Docs /\ Normalize[doc] # Invalid /\ AcceptServerLayout(Normalize[doc])
    <3>1. Normalize[doc] \in Layouts
      BY <2>1, ConversionsAssumption
    <3> QED
      BY <1>3, <2>1, <3>1, AcceptServerLayoutTyped DEF TypeOK
  <2>2. CASE /\ layoutSource' \in {"cache", layoutSource}
             /\ UNCHANGED <<layout, errors, editorOpen, history, debounce, gate, cache>>
    BY <1>3, <2>2 DEF TypeOK, UndoBounded, errors, history
  <2> QED
    BY <1>4, <2>1, <2>2 DEF GetAnswered
<1>5. CASE PutAnswered(i)
  BY <1>3, <1>5 DEF PutAnswered, TypeOK, UndoBounded, history
<1>6. CASE SaveAnswered(i)
  <2>1. cache' \in Stored /\ persistError' \in BOOLEAN
    BY <1>2, <1>6 DEF SaveAnswered, SavedLocally, SaveThrows, TypeOK
  <2> QED
    BY <1>3, <1>6, <2>1 DEF SaveAnswered, TypeOK, UndoBounded, history
<1>7. CASE ResetAnswered(i)
  <2>1. CASE loadError' = TRUE /\ UNCHANGED <<layout, history, debounce, gate, cache>>
    BY <1>3, <1>7, <2>1 DEF ResetAnswered, TypeOK, UndoBounded, history
  <2>2. CASE gate' = FALSE /\ ApplyStructure(calls[i].doc, editorOpen, TRUE) /\ calls[i].doc \in Docs
    BY <1>3, <1>7, <2>2, ApplyStructureType DEF ResetAnswered, TypeOK
  <2> QED
    BY <1>2, <1>7, <2>1, <2>2 DEF ResetAnswered
<1>8. CASE AnswerDropped(i)
  BY <1>3, <1>8 DEF AnswerDropped, client, errors, history, TypeOK, UndoBounded
<1> QED
  BY <1>1, <1>4, <1>5, <1>6, <1>7, <1>8

LEMMA NextTyped == TypedAndBounded /\ [Next]_vars => TypedAndBounded'
<1> SUFFICES ASSUME TypedAndBounded, [Next]_vars PROVE TypedAndBounded'
  OBVIOUS
<1>1. CASE UserStep /\ UNCHANGED shell
  BY <1>1, UserStepTyped
<1>2. CASE DebounceFires /\ UNCHANGED shell
  <2>1. layout' \in Layouts /\ FlushPersist
    BY <1>2 DEF DebounceFires, TypedAndBounded, TypeOK
  <2>2. /\ debounce' \in BOOLEAN /\ persistError' \in BOOLEAN
        /\ calls' \in Seq(Call) /\ Len(calls') <= MAX_CALLS
    BY <2>1, FlushPersistType DEF TypedAndBounded
  <2> QED
    BY <1>2, <2>2 DEF DebounceFires, TypedAndBounded, TypeOK, UndoBounded, history
<1>3. CASE ServeStep /\ UNCHANGED shell
  BY <1>3, ServeStepTyped
<1>4. CASE AnswerStep /\ UNCHANGED shell
  BY <1>4, AnswerStepTyped
<1>5. CASE UNCHANGED vars
  BY <1>5 DEF vars, errors, history, TypedAndBounded, TypeOK, UndoBounded
<1> QED
  BY <1>1, <1>2, <1>3, <1>4, <1>5 DEF Next

\* The types hold of every run of the store, whatever the documents, the undo cap and the order
\* in which calls are served and answered.
THEOREM TypesHold == Spec => []TypeOK
<1>1. TypedAndBounded => TypeOK
  BY DEF TypedAndBounded
<1> QED
  BY <1>1, InitTyped, NextTyped, PTL DEF Spec

\* The undo and redo stacks together never outgrow UNDO_CAP, for every cap.
THEOREM UndoStaysBounded == Spec => []UndoBounded
<1>1. TypedAndBounded => UndoBounded
  BY DEF TypedAndBounded
<1> QED
  BY <1>1, InitTyped, NextTyped, PTL DEF Spec
-----------------------------------------------------------------------------
(* Undo and redo. *)

LEMMA LastTakenOff ==
  ASSUME NEW S, NEW s \in Seq(S), s # <<>>
  PROVE  /\ s[Len(s)] \in S /\ SubSeq(s, 1, Len(s) - 1) \in Seq(S)
         /\ s = SubSeq(s, 1, Len(s) - 1) \o <<s[Len(s)]>>
<1>1. Len(s) \in Nat \ {0}
  BY EmptySeq
<1>2. \A j \in 1..Len(s) : s[j] \in S
  BY ElementOfSeq
<1>3. 1 \in 1..Len(s) /\ Len(s) \in 1..Len(s)
  BY <1>1
<1>4. SubSeq(s, 1, Len(s)) = SubSeq(s, 1, Len(s) - 1) \o <<s[Len(s)]>>
  BY <1>3, SubSeqRecursiveSecond
<1>5. 1 \in Int /\ Len(s) - 1 \in Int /\ \A j \in 1..(Len(s) - 1) : s[j] \in S
  BY <1>1, <1>2
<1>6. SubSeq(s, 1, Len(s) - 1) \in Seq(S)
  BY <1>5, SubSeqProperties
<1> QED
  BY <1>2, <1>3, <1>4, <1>6, SubSeqFull

LEMMA FirstTakenOff ==
  ASSUME NEW S, NEW s \in Seq(S), s # <<>>
  PROVE  Head(s) \in S /\ Tail(s) \in Seq(S) /\ s = <<Head(s)>> \o Tail(s)
<1>1. Len(s) \in Nat \ {0}
  BY EmptySeq
<1>2. 1 \in 1..Len(s) /\ Len(s) \in 1..Len(s) /\ 1 + 1 = 2
  BY <1>1
<1>3. SubSeq(s, 1, Len(s)) = <<s[1]>> \o SubSeq(s, 1 + 1, Len(s))
  BY <1>2, SubSeqRecursiveFirst
<1>4. Head(SubSeq(s, 1, Len(s))) = s[1]
  BY <1>2, HeadTailOfSubSeq
<1>5. SubSeq(s, 1, Len(s)) = s
  BY SubSeqFull
<1>6. Tail(s) = SubSeq(s, 2, Len(s))
  BY TailIsSubSeq
<1> QED
  BY <1>2, <1>3, <1>4, <1>5, <1>6, HeadTailProperties

LEMMA UndoWalksTheLine ==
  ASSUME TypeOK, Undo
  PROVE  Line' = Line
<1> DEFINE rest == SubSeq(undoPast, 1, Len(undoPast) - 1)
           last == undoPast[Len(undoPast)]
<1>1. undoPast \in Seq(Layouts) /\ undoFuture \in Seq(Layouts) /\ layout \in Layouts
  BY DEF TypeOK
<1>2. last \in Layouts /\ rest \in Seq(Layouts) /\ undoPast = rest \o <<last>>
  BY <1>1, LastTakenOff DEF Undo
<1>3. undoPast' = rest /\ undoFuture' = <<layout>> \o undoFuture /\ layout' = last
  BY DEF Undo, Restored
<1> HIDE DEF rest, last
<1>4. <<layout>> \in Seq(Layouts) /\ <<last>> \in Seq(Layouts)
  BY <1>1, <1>2
<1>5. rest \o <<last>> \in Seq(Layouts) /\ <<layout>> \o undoFuture \in Seq(Layouts)
  BY <1>1, <1>2, <1>4, ConcatProperties
<1>6. Line = (rest \o <<last>>) \o (<<layout>> \o undoFuture)
  <2> DEFINE before == rest \o <<last>>
             mid == <<layout>>
  <2>1. before \in Seq(Layouts) /\ mid \in Seq(Layouts) /\ undoFuture \in Seq(Layouts)
    BY <1>1, <1>4, <1>5
  <2>2. Line = (before \o mid) \o undoFuture
    BY <1>2 DEF Line
  <2> HIDE DEF before, mid
  <2>3. (before \o mid) \o undoFuture = before \o (mid \o undoFuture)
    BY <2>1, ConcatAssociative, SMTT(20)
  <2>4. Line = before \o (mid \o undoFuture)
    BY <2>2, <2>3
  <2> QED
    BY <2>4 DEF before, mid
<1>7. Line' = (rest \o <<last>>) \o (<<layout>> \o undoFuture)
  BY <1>3 DEF Line
<1> QED
  BY <1>6, <1>7

LEMMA RedoWalksTheLine ==
  ASSUME TypeOK, Redo
  PROVE  Line' = Line
<1> DEFINE first == Head(undoFuture)
           rest == Tail(undoFuture)
<1>1. undoPast \in Seq(Layouts) /\ undoFuture \in Seq(Layouts) /\ layout \in Layouts
  BY DEF TypeOK
<1>2. first \in Layouts /\ rest \in Seq(Layouts) /\ undoFuture = <<first>> \o rest
  BY <1>1, FirstTakenOff DEF Redo
<1>3. undoPast' = Append(undoPast, layout) /\ undoFuture' = rest /\ layout' = first
  BY DEF Redo, Restored
<1> HIDE DEF first, rest
<1>4. <<layout>> \in Seq(Layouts) /\ <<first>> \in Seq(Layouts)
  BY <1>1, <1>2
<1>5. undoPast \o <<layout>> \in Seq(Layouts) /\ undoPast' = undoPast \o <<layout>>
  BY <1>1, <1>3, <1>4, ConcatProperties, AppendIsConcat
<1>6. Line = ((undoPast \o <<layout>>) \o <<first>>) \o rest
  <2>1. Line = (undoPast \o <<layout>>) \o (<<first>> \o rest)
    BY <1>2 DEF Line
  <2> DEFINE before == undoPast \o <<layout>>
             mid == <<first>>
  <2>2. before \in Seq(Layouts) /\ mid \in Seq(Layouts) /\ rest \in Seq(Layouts)
    BY <1>2, <1>4, <1>5
  <2>3. Line = before \o (mid \o rest)
    BY <2>1
  <2> HIDE DEF before, mid
  <2>4. (before \o mid) \o rest = before \o (mid \o rest)
    BY <2>2, ConcatAssociative, SMTT(20)
  <2>5. Line = (before \o mid) \o rest
    BY <2>3, <2>4
  <2> QED
    BY <2>5 DEF before, mid
<1>7. Line' = ((undoPast \o <<layout>>) \o <<first>>) \o rest
  BY <1>3, <1>5 DEF Line
<1> QED
  BY <1>6, <1>7

\* Walking back and forth through the history loses and repeats nothing: past, present and future
\* stay one sequence, for every cap, and when the local save throws.
THEOREM HistoryStaysALine == Spec => HistoryIsALine
<1>1. TypedAndBounded /\ [Next]_vars => [Undo \/ Redo => Line' = Line]_vars
  BY UndoWalksTheLine, RedoWalksTheLine DEF TypedAndBounded
<1> QED
  BY <1>1, InitTyped, NextTyped, PTL DEF Spec, HistoryIsALine

-----------------------------------------------------------------------------
(* The write gate: a stored document of a newer version is never overwritten  *)
(* by this client, for every set of documents and every order of calls, when  *)
(* localStorage does not throw and the baseline file can be normalized.       *)
(* Without either assumption the gate can be released before a save that then *)
(* does not happen (layoutStore.ts, acceptServerLayout and resetToBaseline).  *)

ConvertibleBaseline == Baseline # NoDoc => Normalize[Baseline] # Invalid

\* What a call in flight may carry: an accepted reset the baseline, a save never a newer document.
Carried(c) ==
  /\ c.op = "reset" /\ c.state = "ok" => c.doc = Baseline
  /\ c.op = "save" => c.doc # Newer
CarryingCall == {c \in Call : Carried(c)}

\* The inductive invariant: a newer document in the cache always stands behind the gate.
GateInv ==
  /\ TypedAndBounded
  /\ calls \in Seq(CarryingCall)
  /\ cache = Newer => gate

\* The step leaves the gate alone, and writes the cache only when the gate is down.
Quiet == UNCHANGED gate /\ (cache' = cache \/ (~gate /\ cache' # Newer))

-----------------------------------------------------------------------------
(* What the calls carry. *)

LEMMA SentCarries ==
  ASSUME calls \in Seq(CarryingCall), NEW op \in Ops, NEW doc \in Stored \ {Newer}, Send(op, doc)
  PROVE  calls' \in Seq(CarryingCall)
<1>1. Sent(op, doc, TRUE) \in CarryingCall
  BY DEF Sent, Call, CarryingCall, Carried
<1> QED
  BY <1>1, AppendProperties DEF Send

LEMMA OutcomeCarries ==
  ASSUME calls \in Seq(CarryingCall), NEW i \in DOMAIN calls,
         NEW state \in {"sent", "ok", "error"}, NEW doc \in Stored, Outcome(i, state, doc),
         calls[i].op = "reset" /\ state = "ok" => doc = Baseline,
         calls[i].op = "save" => doc # Newer
  PROVE  calls' \in Seq(CarryingCall)
<1> DEFINE call == [calls[i] EXCEPT !.state = state, !.doc = doc]
<1>1. i \in 1..Len(calls)
  BY LenProperties
<1>2. calls[i] \in CarryingCall
  BY <1>1, ElementOfSeq
<1>3. call \in CarryingCall
  BY <1>2 DEF Call, CarryingCall, Carried
<1>4. calls' = [calls EXCEPT ![i] = call]
  BY DEF Outcome
<1> HIDE DEF call
<1> QED
  BY <1>1, <1>3, <1>4, ExceptSeq

LEMMA NewPageCarries ==
  ASSUME TypeOK, calls \in Seq(CarryingCall), NEW stored, NEW flushing \in BOOLEAN,
         NewPage(stored, flushing)
  PROVE  calls' \in Seq(CarryingCall)
<1>1. Abandoned \in Seq(CarryingCall)
  <2>1. Len(calls) \in Nat /\ DOMAIN calls = 1..Len(calls)
    BY LenProperties
  <2>2. ASSUME NEW i \in 1..Len(calls) PROVE [calls[i] EXCEPT !.live = FALSE] \in CarryingCall
    <3>1. calls[i] \in CarryingCall
      BY ElementOfSeq
    <3> QED
      BY <3>1 DEF Call, CarryingCall, Carried
  <2>3. Abandoned \in [1..Len(calls) -> CarryingCall]
    BY <2>1, <2>2 DEF Abandoned
  <2> QED
    BY <2>1, <2>3, SeqDef
<1>2. Orphaned(flushing) \in Seq(CarryingCall)
  <2>1. Sent("put", layout, FALSE) \in CarryingCall
    BY LayoutsAssumption DEF Sent, Call, Ops, Stored, CarryingCall, Carried, TypeOK
  <2> QED
    BY <1>1, <2>1, AppendProperties DEF Orphaned
<1>3. BootCalls \in Seq(CarryingCall)
  <2> DEFINE boot == Sent("get", NoDoc, TRUE)
  <2>1. boot \in CarryingCall
    BY DEF Sent, Call, Ops, Stored, CarryingCall, Carried
  <2>2. BootCalls = <<>> \/ BootCalls = <<boot>>
    BY DEF BootCalls
  <2> HIDE DEF boot
  <2>3. <<boot>> \in Seq(CarryingCall)
    BY <2>1
  <2> QED
    BY <2>2, <2>3, EmptySeq
<1>4. Orphaned(flushing) \o BootCalls \in Seq(CarryingCall)
  BY <1>2, <1>3, ConcatProperties
<1> QED
  BY <1>4 DEF NewPage

LEMMA ServeStepCarries ==
  ASSUME GateInv, ServeStep
  PROVE  calls' \in Seq(CarryingCall)
<1>1. PICK i \in DOMAIN calls :
        ServeGet(i) \/ ServePut(i) \/ ServeSave(i) \/ ServeReset(i) \/ CallFails(i)
  BY DEF ServeStep
<1>2. calls[i] \in Call /\ Carried(calls[i])
  <2>1. calls[i] \in CarryingCall
    BY LenProperties, ElementOfSeq DEF GateInv
  <2> QED
    BY <2>1 DEF CarryingCall
<1>3. NoDoc \in Stored /\ NoDoc # Newer /\ calls[i].doc \in Stored /\ server \in Stored
  BY <1>2, LayoutsAssumption DEF Stored, Call, GateInv, TypedAndBounded, TypeOK
<1>4. CASE ServeGet(i)
  BY <1>3, <1>4, OutcomeCarries DEF ServeGet, GateInv
<1>5. CASE ServePut(i)
  BY <1>3, <1>5, OutcomeCarries DEF ServePut, GateInv
<1>6. CASE ServeSave(i)
  <2>1. CASE Outcome(i, "ok", calls[i].doc)
    BY <1>2, <1>3, <1>6, <2>1, OutcomeCarries DEF ServeSave, Carried, GateInv
  <2>2. CASE Outcome(i, "error", NoDoc)
    BY <1>3, <2>2, OutcomeCarries DEF GateInv
  <2> QED
    BY <1>6, <2>1, <2>2 DEF ServeSave
<1>7. CASE ServeReset(i)
  <2>1. Baseline \in Stored /\ calls[i].op = "reset"
    BY <1>7, LayoutsAssumption DEF ServeReset, Stored
  <2> QED
    BY <1>7, <2>1, OutcomeCarries DEF ServeReset, GateInv
<1>8. CASE CallFails(i)
  BY <1>3, <1>8, OutcomeCarries DEF CallFails, GateInv
<1> QED
  BY <1>1, <1>4, <1>5, <1>6, <1>7, <1>8

LEMMA FlushCarries ==
  ASSUME calls \in Seq(CarryingCall), layout' \in Layouts, FlushPersist
  PROVE  calls' \in Seq(CarryingCall)
<1>1. layout' \in Stored \ {Newer} /\ "put" \in Ops
  BY LayoutsAssumption DEF Stored, Ops
<1> QED
  BY <1>1, SentCarries DEF FlushPersist

LEMMA UserStepCarries ==
  ASSUME GateInv, TypeOK', UserStep
  PROVE  calls' \in Seq(CarryingCall)
<1> USE DEF GateInv, TypedAndBounded
<1>1. layout' \in Layouts /\ layout \in Stored \ {Newer} /\ NoDoc \in Stored \ {Newer}
  BY LayoutsAssumption DEF TypeOK, Stored
<1>2. CASE UNCHANGED calls
  BY <1>2
<1>3. CASE FlushPersist
  BY <1>1, <1>3, FlushCarries
<1>4. CASE SaveLayoutToFile
  BY <1>1, <1>2, <1>4, SentCarries DEF SaveLayoutToFile, Ops
<1>5. CASE ResetToBaseline
  BY <1>1, <1>2, <1>5, SentCarries DEF ResetToBaseline, Ops
<1>6. CASE Reload
  <2>1. PICK flushing \in {FALSE, ~PiholeShell} : NewPage(cache, flushing)
    BY <1>6 DEF Reload
  <2> QED
    BY <2>1, NewPageCarries DEF PiholeShell
<1>7. CASE ClearStoredAndReload
  BY <1>7, NewPageCarries DEF ClearStoredAndReload, PiholeShell
<1> QED
  BY <1>2, <1>3, <1>4, <1>5, <1>6, <1>7
  DEF UserStep, Edit, SelectDashboardView, Refused, Undo, Redo, Restored, OpenEditor, CloseOrLeave, Resync

LEMMA AnswerStepCarries ==
  ASSUME GateInv, AnswerStep
  PROVE  calls' \in Seq(CarryingCall)
<1>1. PICK i \in DOMAIN calls : calls' = WithoutCall(i)
  BY DEF AnswerStep, GetAnswered, PutAnswered, SaveAnswered, ResetAnswered, AnswerDropped, Answered
<1> QED
  BY <1>1, WithoutCallType DEF GateInv

-----------------------------------------------------------------------------
(* The gate.  Most steps are quiet; the others raise it, or replace what it guards. *)

\* The gate still stands before a newer document, and the document is still there.
GateHolds == (cache' = Newer => gate') /\ (cache = Newer => cache' = Newer)

LEMMA QuietKeeps ==
  ASSUME GateInv, Quiet
  PROVE  GateHolds
BY DEF GateInv, Quiet, GateHolds

LEMMA SavingIsQuiet ==
  ASSUME NEW d, d # Newer, SavedLocally(d), UNCHANGED gate
  PROVE  Quiet
BY DEF SavedLocally, Quiet

LEMMA RestructureKeeps ==
  ASSUME TypeOK, NEW d \in Docs, NEW editMode, NEW skipHistory,
         Restructure(d, editMode, skipHistory)
  PROVE  \/ UNCHANGED cache
         \/ (SavedLocally(Normalize[d]) /\ Normalize[d] # Newer)
<1>1. Normalize[d] # Invalid => Normalize[d] # Newer
  BY LayoutsAssumption, ConversionsAssumption
<1> QED
  BY <1>1 DEF Restructure, SaveThrows

LEMMA NewPageKeepsGate ==
  ASSUME NEW stored \in Stored, NEW flushing, NewPage(stored, flushing)
  PROVE  /\ cache' = Newer => gate'
         /\ stored = Newer => cache' = Newer
<1>1. Newer \notin Legacy /\ NoDoc # Newer /\ Newer \notin Docs
  BY LayoutsAssumption
<1>2. RewrittenCache(stored) = Newer <=> stored = Newer
  BY <1>1, ConversionsAssumption, LayoutsAssumption DEF RewrittenCache, Stored
<1> QED
  BY <1>1, <1>2 DEF NewPage

LEMMA RestoredIsQuiet ==
  ASSUME NEW d \in Layouts, Restored(d), UNCHANGED gate
  PROVE  Quiet
<1>1. d # Newer
  BY LayoutsAssumption
<1> QED
  BY <1>1 DEF Restored, SavedLocally, SaveThrows, Quiet

LEMMA UserStepKeeps ==
  ASSUME GateInv, TypeOK', UserStep
  PROVE  GateHolds \/ (ClearStoredAndReload /\ (cache' = Newer => gate'))
<1> USE DEF GateInv, TypedAndBounded
<1>1. ASSUME NEW d \in Docs, Edit(d) PROVE GateHolds
  <2>1. UNCHANGED gate /\ (UNCHANGED cache \/ (SavedLocally(Normalize[d]) /\ Normalize[d] # Newer))
    <3>1. Restructure(d, editorOpen, FALSE) /\ UNCHANGED gate
      BY <1>1 DEF Edit, ApplyStructure
    <3> QED
      BY <3>1, RestructureKeeps
  <2> QED
    BY <2>1, SavingIsQuiet, QuietKeeps DEF Quiet
<1>2. ASSUME NEW d \in Docs, SelectDashboardView(d) PROVE GateHolds
  <2>1. UNCHANGED gate /\ (UNCHANGED cache \/ (SavedLocally(Normalize[d]) /\ Normalize[d] # Newer))
    <3>1. UNCHANGED gate /\ (UNCHANGED cache \/ Restructure(d, FALSE, FALSE))
      BY <1>2 DEF SelectDashboardView
    <3> QED
      BY <3>1, RestructureKeeps
  <2> QED
    BY <2>1, SavingIsQuiet, QuietKeeps DEF Quiet
<1>3. CASE UNCHANGED <<gate, cache>>
  BY <1>3, QuietKeeps DEF Quiet
<1>4. CASE Undo \/ Redo
  <2>1. layout' \in Layouts
    BY DEF TypeOK
  <2>2. Restored(layout') /\ UNCHANGED gate
    BY <1>4 DEF Undo, Redo, Restored
  <2> QED
    BY <2>1, <2>2, RestoredIsQuiet, QuietKeeps
<1>5. CASE ServerSynced
  <2>1. PICK d \in Docs : Restructure(d, editorOpen', TRUE)
    BY <1>5 DEF ServerSynced
  <2>2. \/ UNCHANGED cache
        \/ (SavedLocally(Normalize[d]) /\ Normalize[d] # Newer)
    BY <2>1, RestructureKeeps
  <2>3. cache = Newer => gate'
    BY <1>5 DEF ServerSynced
  <2> QED
    BY <2>2, <2>3 DEF SavedLocally, GateHolds
<1>6. CASE SaveLayoutToFile
  <2>1. layout # Newer
    BY LayoutsAssumption DEF TypeOK
  <2> QED
    BY <1>6, <2>1, SavingIsQuiet, QuietKeeps DEF SaveLayoutToFile, SaveThrows, Quiet
<1>7. CASE Reload
  BY <1>7, NewPageKeepsGate DEF Reload, GateHolds, TypeOK
<1>8. CASE ClearStoredAndReload
  <2>1. (IF PiholeShell THEN cache ELSE NoDoc) \in Stored
    BY DEF TypeOK, Stored
  <2> QED
    BY <1>8, <2>1, NewPageKeepsGate DEF ClearStoredAndReload
<1> QED
  BY <1>1, <1>2, <1>3, <1>4, <1>5, <1>6, <1>7, <1>8
  DEF UserStep, Refused, OpenEditor, CloseOrLeave, Resync, Unsynced, ResetToBaseline

LEMMA AnswerStepKeeps ==
  ASSUME GateInv, ~StorageMayFail, ConvertibleBaseline, AnswerStep
  PROVE  \/ GateHolds
         \/ /\ \E i \in DOMAIN calls : GetAnswered(i) \/ ResetAnswered(i)
            /\ cache' = Newer => gate'
<1> USE DEF GateInv, TypedAndBounded
<1>1. PICK i \in DOMAIN calls :
        GetAnswered(i) \/ PutAnswered(i) \/ SaveAnswered(i) \/ ResetAnswered(i) \/ AnswerDropped(i)
  BY DEF AnswerStep
<1>2. calls[i] \in Call /\ Carried(calls[i])
  <2>1. calls[i] \in CarryingCall
    BY LenProperties, ElementOfSeq
  <2> QED
    BY <2>1 DEF CarryingCall
<1>3. CASE UNCHANGED <<gate, cache>>
  BY <1>3, QuietKeeps DEF Quiet
<1>4. CASE GetAnswered(i)
  <2> DEFINE doc == calls[i].doc
  <2>1. CASE doc \in Docs /\ Normalize[doc] # Invalid /\ AcceptServerLayout(Normalize[doc])
    <3>1. Normalize[doc] # Newer
      BY <2>1, LayoutsAssumption, ConversionsAssumption
    <3>2. cache' # Newer
      BY <2>1, <3>1 DEF AcceptServerLayout, SavedLocally, SaveThrows
    <3> QED
      BY <1>4, <3>2
  <2> QED
    BY <1>3, <1>4, <2>1 DEF GetAnswered
<1>5. CASE SaveAnswered(i)
  <2>1. calls[i].doc # Newer
    BY <1>2, <1>5 DEF SaveAnswered, Answered, Carried
  <2> QED
    BY <1>5, <2>1, SavingIsQuiet, QuietKeeps DEF SaveAnswered, SaveThrows, Quiet
<1>6. CASE ResetAnswered(i)
  <2>1. CASE /\ calls[i].state = "ok" /\ calls[i].doc \in Docs /\ gate' = FALSE
             /\ ApplyStructure(calls[i].doc, editorOpen, TRUE)
    <3>1. calls[i].doc = Baseline
      BY <1>2, <1>6, <2>1 DEF ResetAnswered, Answered, Carried
    <3>2. Normalize[Baseline] # Invalid /\ Normalize[Baseline] \in Layouts
      BY <2>1, <3>1, LayoutsAssumption, ConversionsAssumption DEF ConvertibleBaseline
    <3>3. cache' # Newer
      BY <2>1, <3>1, <3>2, LayoutsAssumption DEF ApplyStructure, Restructure, SavedLocally, SaveThrows
    <3> QED
      BY <1>6, <3>3
  <2> QED
    BY <1>3, <1>6, <2>1 DEF ResetAnswered
<1> QED
  BY <1>1, <1>3, <1>4, <1>5, <1>6 DEF PutAnswered, AnswerDropped, client

-----------------------------------------------------------------------------
(* The theorem. *)

LEMMA GateInit == Init => GateInv
<1> SUFFICES ASSUME Init PROVE GateInv
  OBVIOUS
<1>1. TypedAndBounded
  BY InitTyped
<1>2. cache = Newer => gate
  BY LayoutsAssumption, ConversionsAssumption DEF Init, RewrittenCache, Stored
<1>3. calls \in Seq(CarryingCall)
  <2> DEFINE boot == Sent("get", NoDoc, TRUE)
  <2>1. boot \in CarryingCall
    BY DEF Sent, Call, Ops, Stored, CarryingCall, Carried
  <2>2. calls = <<>> \/ calls = <<boot>>
    BY DEF Init, BootCalls
  <2> HIDE DEF boot
  <2>3. <<boot>> \in Seq(CarryingCall)
    BY <2>1
  <2> QED
    BY <2>2, <2>3, EmptySeq
<1> QED
  BY <1>1, <1>2, <1>3 DEF GateInv

\* The only steps that may take a newer document out of the cache.
GivesUp == ClearStoredAndReload \/ \E i \in DOMAIN calls : GetAnswered(i) \/ ResetAnswered(i)

LEMMA GateStep ==
  ASSUME ~StorageMayFail, ConvertibleBaseline, GateInv, [Next]_vars
  PROVE  GateInv' /\ (cache = Newer /\ cache' # Newer => GivesUp)
<1>1. TypedAndBounded'
  BY NextTyped DEF GateInv
<1>2. CASE UserStep /\ UNCHANGED shell
  BY <1>1, <1>2, UserStepCarries, UserStepKeeps DEF GateInv, TypedAndBounded, GateHolds, GivesUp
<1>3. CASE DebounceFires /\ UNCHANGED shell
  <2>1. calls' \in Seq(CarryingCall)
    BY <1>1, <1>3, FlushCarries DEF DebounceFires, GateInv, TypedAndBounded, TypeOK
  <2> QED
    BY <1>1, <1>3, <2>1 DEF DebounceFires, GateInv
<1>4. CASE ServeStep /\ UNCHANGED shell
  <2>1. UNCHANGED <<gate, cache>>
    BY <1>4 DEF ServeStep, ServeGet, ServePut, ServeSave, ServeReset, CallFails, client
  <2> QED
    BY <1>1, <1>4, <2>1, ServeStepCarries DEF GateInv
<1>5. CASE AnswerStep /\ UNCHANGED shell
  BY <1>1, <1>5, AnswerStepCarries, AnswerStepKeeps DEF GateInv, GateHolds, GivesUp
<1>6. CASE UNCHANGED vars
  BY <1>1, <1>6 DEF vars, GateInv
<1> QED
  BY <1>2, <1>3, <1>4, <1>5, <1>6 DEF Next

\* A stored document of a newer version leaves the cache only when the user clears it, or when the
\* API has sent a layout to take its place: no edit, undo, resync, save or reload overwrites it,
\* for every set of documents and every order of calls.
THEOREM NewerIsKept ==
  ASSUME ~StorageMayFail, ConvertibleBaseline
  PROVE  Spec => NewerKept
<1>1. GateInv /\ [Next]_vars => GateInv'
  BY GateStep
<1>2. GateInv /\ [Next]_vars => [cache = Newer /\ cache' # Newer => GivesUp]_vars
  BY GateStep
<1> QED
  BY <1>1, <1>2, GateInit, PTL DEF Spec, NewerKept, GivesUp
-----------------------------------------------------------------------------
(* The Pi-hole page, where the cache is the only copy of the layout. *)

\* Hydration has nothing left to change in what it has hydrated.
StableHydration == \A d \in Docs \cup {NoDoc} : Hydrated(Hydrated(d)) = Hydrated(d)

\* What a reload would show is on screen, or behind the gate.
CacheAgrees == (gate <=> cache = Newer) /\ (~gate => Hydrated(cache) = Hydrated(layout))
PiholeInv == TypedAndBounded /\ (PiholeShell => calls = <<>> /\ CacheAgrees)

LEMMA SavedOrSame ==
  ASSUME PiholeInv, PiholeShell, layout' \in Layouts, UNCHANGED gate,
         SavedLocally(layout') \/ UNCHANGED <<layout, cache>>
  PROVE  CacheAgrees'
<1>1. Newer \notin Layouts
  BY LayoutsAssumption
<1>2. CacheAgrees
  BY DEF PiholeInv
<1>3. CASE UNCHANGED <<layout, cache>>
  BY <1>2, <1>3 DEF CacheAgrees, Hydrated
<1>4. CASE SavedLocally(layout')
  BY <1>1, <1>2, <1>4 DEF CacheAgrees, SavedLocally, Hydrated
<1> QED
  BY <1>3, <1>4

LEMMA PageAgrees ==
  ASSUME StableHydration, PiholeShell, ~StorageMayFail, cache \in Stored, PiholeInv,
         NewPage(cache, FALSE)
  PROVE  calls' = <<>> /\ CacheAgrees'
<1>1. cache' = cache /\ layout' = Hydrated(cache) /\ gate' = (cache = Newer)
  BY DEF NewPage, RewrittenCache
<1>2. calls = <<>> /\ BootCalls = <<>>
  BY DEF PiholeInv, BootCalls
<1>3. calls' = <<>>
  <2>1. Abandoned = <<>> /\ calls' = Abandoned \o BootCalls
    BY <1>2 DEF NewPage, Orphaned, Abandoned
  <2> QED
    BY <1>2, <2>1
<1>4. cache # Newer => Hydrated(Hydrated(cache)) = Hydrated(cache)
  BY DEF Stored, StableHydration
<1>5. gate' <=> cache' = Newer
  BY <1>1
<1>6. ~gate' => Hydrated(cache') = Hydrated(layout')
  BY <1>1, <1>4
<1> QED
  BY <1>3, <1>5, <1>6 DEF CacheAgrees, Hydrated

LEMMA PiholeStarts ==
  ASSUME StableHydration
  PROVE  Init => PiholeInv
<1> SUFFICES ASSUME Init PROVE PiholeInv
  OBVIOUS
<1>1. TypedAndBounded
  BY InitTyped
<1>2. ASSUME PiholeShell PROVE calls = <<>> /\ CacheAgrees
  <2>1. PICK stored \in Stored : cache = stored /\ layout = Hydrated(stored) /\ gate = (stored = Newer)
    BY <1>2 DEF Init, RewrittenCache
  <2>2. stored # Newer => Hydrated(Hydrated(stored)) = Hydrated(stored)
    BY DEF Stored, StableHydration
  <2>3. calls = <<>>
    BY <1>2 DEF Init, BootCalls
  <2> QED
    BY <2>1, <2>2, <2>3 DEF CacheAgrees
<1> QED
  BY <1>1, <1>2 DEF PiholeInv

LEMMA UserStepAgrees ==
  ASSUME StableHydration, ~StorageMayFail, PiholeInv, PiholeShell, layout' \in Layouts, UserStep
  PROVE  calls' = <<>> /\ CacheAgrees'
<1>0. calls = <<>> /\ gate = (cache = Newer) /\ cache \in Stored
  <2>1. calls = <<>> /\ (gate <=> cache = Newer) /\ gate \in BOOLEAN /\ cache \in Stored
    BY DEF PiholeInv, CacheAgrees, TypedAndBounded, TypeOK
  <2> QED
    BY <2>1
<1>1. ASSUME NEW d \in Docs, Edit(d) PROVE calls' = <<>> /\ CacheAgrees'
  BY <1>0, <1>1, SavedOrSame DEF Edit, ApplyStructure, Restructure, SaveThrows, errors
<1>2. ASSUME NEW d \in Docs PROVE ~SelectDashboardView(d)
  BY DEF SelectDashboardView
<1>3. CASE Refused
  BY <1>0, <1>3, SavedOrSame DEF Refused
<1>4. CASE Undo
  BY <1>0, <1>4, SavedOrSame DEF Undo, Restored, SaveThrows
<1>5. CASE Redo
  BY <1>0, <1>5, SavedOrSame DEF Redo, Restored, SaveThrows
<1>6. ASSUME ServerSynced \/ Unsynced
      PROVE  UNCHANGED gate /\ (SavedLocally(layout') \/ UNCHANGED <<layout, cache>>)
  <2>1. CASE ServerSynced
    <3>1. UNCHANGED gate
      BY <1>0, <2>1 DEF ServerSynced
    <3>2. SavedLocally(layout') \/ UNCHANGED <<layout, cache>>
      BY <2>1 DEF ServerSynced, Restructure, SaveThrows
    <3> QED
      BY <3>1, <3>2
  <2> QED
    BY <1>6, <2>1 DEF Unsynced
<1>7. CASE OpenEditor
  BY <1>0, <1>6, <1>7, SavedOrSame DEF OpenEditor
<1>8. CASE CloseOrLeave
  BY <1>0, <1>6, <1>8, SavedOrSame DEF CloseOrLeave, FlushPersist
<1>9. CASE Resync
  BY <1>0, <1>6, <1>9, SavedOrSame DEF Resync
<1>10. CASE SaveLayoutToFile
  <2>1. SavedLocally(layout') /\ UNCHANGED <<calls, gate>>
    BY <1>10 DEF SaveLayoutToFile, SaveThrows, SavedLocally
  <2> QED
    BY <1>0, <2>1, SavedOrSame
<1>11. CASE ResetToBaseline
  BY <1>0, <1>11, SavedOrSame DEF ResetToBaseline
<1>12. CASE Reload
  BY <1>0, <1>12, PageAgrees DEF Reload
<1>13. CASE ClearStoredAndReload
  BY <1>0, <1>13, PageAgrees DEF ClearStoredAndReload
<1> QED
  BY <1>1, <1>2, <1>3, <1>4, <1>5, <1>7, <1>8, <1>9, <1>10, <1>11, <1>12, <1>13 DEF UserStep

LEMMA PiholeStep ==
  ASSUME StableHydration, ~StorageMayFail
  PROVE  PiholeInv /\ [Next]_vars => PiholeInv'
<1> SUFFICES ASSUME PiholeInv, [Next]_vars PROVE PiholeInv'
  OBVIOUS
<1>1. TypedAndBounded'
  BY NextTyped DEF PiholeInv
<1>2. layout' \in Layouts /\ (PiholeShell' <=> PiholeShell)
  BY <1>1 DEF TypedAndBounded, TypeOK, PiholeShell, Next, vars
<1>3. ASSUME PiholeShell PROVE calls' = <<>> /\ CacheAgrees'
  <2>0. calls = <<>> /\ DOMAIN calls = {}
    BY <1>3 DEF PiholeInv
  <2>1. CASE UserStep
    BY <1>2, <1>3, <2>1, UserStepAgrees
  <2>2. CASE DebounceFires
    BY <1>2, <1>3, <2>0, <2>2, SavedOrSame DEF DebounceFires, FlushPersist
  <2>3. ~ServeStep /\ ~AnswerStep
    BY <2>0 DEF ServeStep, AnswerStep
  <2>4. CASE UNCHANGED vars
    BY <1>2, <1>3, <2>0, <2>4, SavedOrSame DEF vars
  <2> QED
    BY <2>1, <2>2, <2>3, <2>4 DEF Next
<1> QED
  BY <1>1, <1>2, <1>3 DEF PiholeInv

\* On the Pi-hole page a reload shows the layout on screen, after any sequence of edits, undos,
\* resyncs and reloads, when storage does not throw and hydration leaves its own results alone.
THEOREM PiholeKeepsLayout ==
  ASSUME ~StorageMayFail, StableHydration
  PROVE  Spec => []PiholeReloadKeepsLayout
<1>1. Init => PiholeInv
  BY PiholeStarts
<1>2. PiholeInv /\ [Next]_vars => PiholeInv'
  BY PiholeStep
<1>3. PiholeInv => PiholeReloadKeepsLayout
  BY DEF PiholeInv, CacheAgrees, PiholeReloadKeepsLayout
<1> QED
  BY <1>1, <1>2, <1>3, PTL DEF Spec

-----------------------------------------------------------------------------
(* What is on screen is what the API keeps: once a page is hydrated and comes *)
(* to rest without an error, the server holds its layout, for every set of    *)
(* documents, every undo cap and every number of calls in flight.  The calls  *)
(* of a page are served and answered in the order they were sent (they are    *)
(* not in LayoutStoreReorder.cfg), the user waits for the bootstrap GET, and  *)
(* localStorage does not throw.                                               *)

\* The page's calls keep their order, and nothing is edited before the bootstrap GET is answered.
Orderly == InOrder /\ ~EarlyEdits /\ ~StorageMayFail

\* Normalizing what is already normal changes nothing.
StableNormalForm == \A l \in Layouts : Normalize[l] = l

Writes == {"put", "save"}
Last == calls[Len(calls)]

\* Calls are served in turn: behind a call that waits, every call waits.
InTurn ==
  \A i, j \in 1..Len(calls) :
    i < j /\ calls[i].state = "sent" => calls[j].state = "sent"

\* While the bootstrap GET is out, the page has written nothing, and what the GET was answered
\* with is still what the server holds.
HydratingInv ==
  \A g \in 1..Len(calls) : calls[g].op = "get" /\ calls[g].live =>
    /\ layoutSource = "cache" /\ ~debounce
    /\ \A j \in 1..Len(calls) :
         /\ j < g => ~calls[j].live
         /\ g < j => calls[j].op = "reset" /\ calls[j].live
    /\ (g = Len(calls) /\ calls[g].state = "ok") => server = calls[g].doc

\* After it, the last write in flight carries the layout on screen, unless a newer one is armed,
\* and has left the server with what it carries once it is accepted.
LastWriteCovers ==
  calls # <<>> /\ Last.op \in Writes =>
    /\ debounce \/ Last.state = "error" \/ Last.doc = layout
    /\ Last.state = "ok" => server = Last.doc

Covered ==
  layoutSource = "server" =>
    /\ \A i \in 1..Len(calls) : calls[i].live /\ calls[i].op # "get"
    /\ calls = <<>> => debounce \/ loadError \/ persistError \/ Synced
    /\ LastWriteCovers

\* The Pi-hole page never calls the API.
Alone == PiholeShell => calls = <<>> /\ layoutSource = "cache"

SyncInv == InTurn /\ HydratingInv /\ Covered /\ Alone

-----------------------------------------------------------------------------
(* How a step changes the calls in flight, element by element. *)

LEMMA CallsAre ==
  ASSUME TypeOK
  PROVE  /\ Len(calls) \in Nat /\ DOMAIN calls = 1..Len(calls)
         /\ \A i \in 1..Len(calls) : calls[i] \in Call
         /\ calls = <<>> <=> Len(calls) = 0
<1>1. calls \in Seq(Call)
  BY DEF TypeOK
<1> QED
  BY <1>1, LenProperties, ElementOfSeq, EmptySeq

LEMMA SendElements ==
  ASSUME TypeOK, NEW op \in Ops, NEW doc \in Stored, Send(op, doc)
  PROVE  /\ Len(calls') = Len(calls) + 1
         /\ \A i \in 1..Len(calls) : calls'[i] = calls[i]
         /\ calls'[Len(calls) + 1] = Sent(op, doc, TRUE)
<1> DEFINE sent == Sent(op, doc, TRUE)
<1>1. sent \in Call
  BY DEF Sent, Call
<1>2. calls \in Seq(Call) /\ calls' = Append(calls, sent)
  BY DEF Send, TypeOK
<1> HIDE DEF sent
<1>3. /\ Len(calls') = Len(calls) + 1
      /\ \A i \in 1..Len(calls) : calls'[i] = calls[i]
      /\ calls'[Len(calls) + 1] = sent
  BY <1>1, <1>2, AppendProperties
<1> QED
  BY <1>3 DEF sent

LEMMA OutcomeElements ==
  ASSUME TypeOK, NEW i \in 1..Len(calls), NEW state \in {"ok", "error"}, NEW doc \in Stored,
         Outcome(i, state, doc)
  PROVE  /\ Len(calls') = Len(calls)
         /\ \A j \in 1..Len(calls) : j # i => calls'[j] = calls[j]
         /\ calls'[i].op = calls[i].op /\ calls'[i].live = calls[i].live
         /\ calls'[i].state = state /\ calls'[i].doc = doc
<1> DEFINE call == [calls[i] EXCEPT !.state = state, !.doc = doc]
<1>1. calls[i] \in Call
  BY CallsAre
<1>2. /\ call \in Call
      /\ call.op = calls[i].op /\ call.live = calls[i].live
      /\ call.state = state /\ call.doc = doc
  BY <1>1 DEF Call
<1>3. calls' = [calls EXCEPT ![i] = call]
  BY DEF Outcome
<1> HIDE DEF call
<1>4. calls \in Seq(Call)
  BY DEF TypeOK
<1> QED
  BY <1>2, <1>3, <1>4, ExceptSeq

LEMMA WithoutCallElements ==
  ASSUME TypeOK, NEW i \in 1..Len(calls)
  PROVE  /\ Len(WithoutCall(i)) = Len(calls) - 1
         /\ \A j \in 1..(Len(calls) - 1) :
              WithoutCall(i)[j] = IF j < i THEN calls[j] ELSE calls[j + 1]
<1> DEFINE before == SubSeq(calls, 1, i - 1)
           after == SubSeq(calls, i + 1, Len(calls))
<1>1. Len(calls) \in Nat /\ \A j \in 1..Len(calls) : calls[j] \in Call
  BY CallsAre
<1>2. /\ before \in Seq(Call) /\ Len(before) = i - 1
      /\ \A j \in 1..(i - 1) : before[j] = calls[j]
  <2>1. 1 \in Int /\ i - 1 \in Int /\ \A j \in 1..(i - 1) : calls[j] \in Call
    BY <1>1
  <2>2. /\ before \in Seq(Call)
        /\ Len(before) = IF 1 <= i - 1 THEN i - 1 - 1 + 1 ELSE 0
        /\ \A j \in 1..(i - 1 - 1 + 1) : before[j] = calls[1 + j - 1]
    BY <2>1, SubSeqProperties
  <2> HIDE DEF before
  <2> QED
    BY <1>1, <2>2
<1>3. /\ after \in Seq(Call) /\ Len(after) = Len(calls) - i
      /\ \A j \in 1..(Len(calls) - i) : after[j] = calls[i + j]
  <2>1. /\ i + 1 \in Int /\ Len(calls) \in Int
        /\ \A j \in (i + 1)..Len(calls) : calls[j] \in Call
    BY <1>1
  <2>2. /\ after \in Seq(Call)
        /\ Len(after) = IF i + 1 <= Len(calls) THEN Len(calls) - (i + 1) + 1 ELSE 0
        /\ \A j \in 1..(Len(calls) - (i + 1) + 1) : after[j] = calls[i + 1 + j - 1]
    BY <2>1, SubSeqProperties
  <2> HIDE DEF after
  <2>3. \A j \in 1..(Len(calls) - i) : i + 1 + j - 1 = i + j
    BY <1>1
  <2> QED
    BY <1>1, <2>2, <2>3
<1>4. WithoutCall(i) = before \o after
  BY DEF WithoutCall
<1> HIDE DEF before, after
<1>5. /\ Len(before \o after) = Len(before) + Len(after)
      /\ \A j \in 1..(Len(before) + Len(after)) :
           (before \o after)[j] = IF j <= Len(before) THEN before[j] ELSE after[j - Len(before)]
  BY <1>2, <1>3, ConcatProperties
<1>6. Len(WithoutCall(i)) = Len(calls) - 1
  BY <1>1, <1>2, <1>3, <1>4, <1>5
<1>7. ASSUME NEW j \in 1..(Len(calls) - 1)
      PROVE  WithoutCall(i)[j] = IF j < i THEN calls[j] ELSE calls[j + 1]
  <2>0. j \in 1..(Len(before) + Len(after))
    BY <1>1, <1>2, <1>3
  <2>4. (before \o after)[j] = IF j <= Len(before) THEN before[j] ELSE after[j - Len(before)]
    BY <2>0, <1>5
  <2>1. WithoutCall(i)[j] = IF j <= i - 1 THEN before[j] ELSE after[j - (i - 1)]
    BY <1>2, <1>4, <2>4
  <2>2. CASE j < i
    BY <1>1, <1>2, <2>1, <2>2
  <2>3. CASE j >= i
    <3>1. j - (i - 1) \in 1..(Len(calls) - i) /\ i + (j - (i - 1)) = j + 1
      BY <1>1, <2>3
    <3>2. WithoutCall(i)[j] = after[j - (i - 1)]
      BY <1>1, <2>1, <2>3
    <3>3. after[j - (i - 1)] = calls[i + (j - (i - 1))]
      BY <1>3, <3>1
    <3>4. ~(j < i)
      BY <1>1, <2>3
    <3> QED
      BY <3>1, <3>2, <3>3, <3>4
  <2> QED
    BY <1>1, <2>2, <2>3
<1> QED
  BY <1>6, <1>7

LEMMA NewPageElements ==
  ASSUME TypeOK, NEW stored, NEW flushing \in BOOLEAN, NewPage(stored, flushing), ~PiholeShell
  PROVE  /\ Len(calls') \in {Len(calls) + 1, Len(calls) + 2}
         /\ \A i \in 1..Len(calls) :
              /\ calls'[i].state = calls[i].state
              /\ ~calls'[i].live
         /\ \A i \in 1..Len(calls') : i > Len(calls) =>
              /\ calls'[i].state = "sent"
              /\ calls'[i].live <=> i = Len(calls')
         /\ calls'[Len(calls')] = Sent("get", NoDoc, TRUE)
<1>1. Len(calls) \in Nat /\ DOMAIN calls = 1..Len(calls) /\ \A i \in 1..Len(calls) : calls[i] \in Call
  BY CallsAre
<1>2. \A i \in 1..Len(calls) :
        /\ [calls[i] EXCEPT !.live = FALSE] \in Call
        /\ [calls[i] EXCEPT !.live = FALSE].state = calls[i].state
        /\ [calls[i] EXCEPT !.live = FALSE].live = FALSE
  <2> SUFFICES ASSUME NEW i \in 1..Len(calls)
               PROVE  /\ [calls[i] EXCEPT !.live = FALSE] \in Call
                      /\ [calls[i] EXCEPT !.live = FALSE].state = calls[i].state
                      /\ [calls[i] EXCEPT !.live = FALSE].live = FALSE
    OBVIOUS
  <2>1. calls[i] \in Call
    BY <1>1
  <2> QED
    BY <2>1 DEF Call
<1>3. /\ Abandoned \in Seq(Call) /\ Len(Abandoned) = Len(calls)
      /\ \A i \in 1..Len(calls) : Abandoned[i].state = calls[i].state /\ Abandoned[i].live = FALSE
  <2>1. Abandoned \in [1..Len(calls) -> Call]
    BY <1>1, <1>2 DEF Abandoned
  <2>2. Abandoned \in Seq(Call)
    BY <1>1, <2>1, SeqDef
  <2>3. DOMAIN Abandoned = 1..Len(calls) /\ DOMAIN Abandoned = 1..Len(Abandoned)
        /\ Len(Abandoned) \in Nat
    BY <2>1, <2>2, LenProperties
  <2>4. \A i \in 1..Len(calls) : Abandoned[i] = [calls[i] EXCEPT !.live = FALSE]
    BY <1>1 DEF Abandoned
  <2>5. Len(Abandoned) = Len(calls)
    BY <1>1, <2>1, <2>3
  <2> QED
    BY <1>2, <2>2, <2>4, <2>5
<1> DEFINE flush == Sent("put", layout, FALSE)
           boot == Sent("get", NoDoc, TRUE)
           left == Orphaned(flushing)
<1>4. /\ flush \in Call /\ flush.state = "sent" /\ flush.live = FALSE
      /\ boot \in Call /\ boot.state = "sent" /\ boot.live = TRUE
  BY LayoutsAssumption DEF Sent, Call, Ops, Stored, TypeOK
<1>5. left = IF flushing THEN Append(Abandoned, flush) ELSE Abandoned
  BY DEF Orphaned
<1>6. calls' = left \o <<boot>>
  BY DEF NewPage, BootCalls
<1>0. Sent("get", NoDoc, TRUE) = boot
  OBVIOUS
<1> HIDE DEF flush, boot, left, Abandoned
<1>7. /\ left \in Seq(Call) /\ Len(left) \in {Len(calls), Len(calls) + 1}
      /\ \A i \in 1..Len(calls) : left[i].state = calls[i].state /\ left[i].live = FALSE
      /\ Len(left) = Len(calls) + 1 =>
           left[Len(calls) + 1].state = "sent" /\ left[Len(calls) + 1].live = FALSE
  <2>1. /\ Append(Abandoned, flush) \in Seq(Call)
        /\ Len(Append(Abandoned, flush)) = Len(calls) + 1
        /\ \A i \in 1..Len(calls) : Append(Abandoned, flush)[i] = Abandoned[i]
        /\ Append(Abandoned, flush)[Len(calls) + 1] = flush
    BY <1>3, <1>4, AppendProperties
  <2>2. CASE flushing
    <3>1. left = Append(Abandoned, flush)
      BY <1>5, <2>2
    <3> QED
      BY <1>3, <1>4, <2>1, <3>1
  <2>3. CASE ~flushing
    <3>1. left = Abandoned
      BY <1>5, <2>3
    <3> QED
      BY <1>1, <1>3, <3>1
  <2> QED
    BY <2>2, <2>3
<1>8. calls' = Append(left, boot)
  BY <1>4, <1>6, <1>7, AppendIsConcat
<1>9. /\ Len(calls') = Len(left) + 1
      /\ \A i \in 1..Len(left) : calls'[i] = left[i]
      /\ calls'[Len(left) + 1] = boot
  BY <1>4, <1>7, <1>8, AppendProperties
<1>10. \A i \in 1..Len(calls) : calls'[i].state = calls[i].state /\ ~calls'[i].live
  BY <1>1, <1>7, <1>9
<1>11. ASSUME NEW i \in 1..Len(calls'), i > Len(calls)
       PROVE  calls'[i].state = "sent" /\ (calls'[i].live <=> i = Len(calls'))
  <2>1. CASE i = Len(left) + 1
    BY <1>4, <1>9, <2>1
  <2>2. CASE i # Len(left) + 1
    <3>1. i = Len(calls) + 1 /\ Len(left) = Len(calls) + 1
      BY <1>1, <1>7, <1>9, <1>11, <2>2
    <3>2. calls'[i] = left[Len(calls) + 1]
      BY <1>1, <1>9, <3>1
    <3> QED
      BY <1>1, <1>7, <1>9, <3>1, <3>2
  <2> QED
    BY <2>1, <2>2
<1>12. Len(calls') \in {Len(calls) + 1, Len(calls) + 2} /\ calls'[Len(calls')] = boot
  BY <1>1, <1>7, <1>9
<1> QED
  BY <1>0, <1>10, <1>11, <1>12

-----------------------------------------------------------------------------
(* What the steps have in common: a local change, a call sent, served, answered, a new page. *)

LEMMA LocalKeeps ==
  ASSUME SyncInv, UNCHANGED <<shell, layoutSource, calls, server>>,
         Hydrating => ~debounce',
         ~PiholeShell =>
           \/ debounce'
           \/ /\ UNCHANGED <<layout, debounce>>
              /\ loadError => loadError'
              /\ persistError => persistError',
         TypeOK
  PROVE  SyncInv'
<1>1. InTurn' /\ Alone'
  BY DEF SyncInv, InTurn, Alone, PiholeShell
<1>2. HydratingInv'
  <2>1. DOMAIN calls = 1..Len(calls)
    BY CallsAre
  <2> QED
    BY <2>1 DEF SyncInv, HydratingInv, Hydrating
<1>3. Covered'
  <2> SUFFICES ASSUME layoutSource = "server" PROVE Covered'
    BY DEF Covered
  <2>1. ~PiholeShell
    BY DEF SyncInv, Alone
  <2> QED
    BY <2>1 DEF SyncInv, Covered, LastWriteCovers, Last, Synced
<1> QED
  BY <1>1, <1>2, <1>3 DEF SyncInv

LEMMA SendKeeps ==
  ASSUME SyncInv, TypeOK, ~PiholeShell, UNCHANGED <<shell, layoutSource, server>>,
         NEW op \in {"put", "save", "reset"}, NEW doc \in Stored, Send(op, doc),
         \/ op = "reset" /\ UNCHANGED debounce
         \/ ~Hydrating /\ doc = layout'
  PROVE  SyncInv'
<1> DEFINE n == Len(calls)
<1>1. n \in Nat /\ DOMAIN calls = 1..n
  BY CallsAre
<1>2. /\ Len(calls') = n + 1
      /\ \A i \in 1..n : calls'[i] = calls[i]
      /\ calls'[n + 1].op = op /\ calls'[n + 1].doc = doc
      /\ calls'[n + 1].state = "sent" /\ calls'[n + 1].live
  <2>1. op \in Ops
    BY DEF Ops
  <2>2. /\ Len(calls') = n + 1
        /\ \A i \in 1..n : calls'[i] = calls[i]
        /\ calls'[n + 1] = Sent(op, doc, TRUE)
    BY <2>1, SendElements
  <2> QED
    BY <2>2 DEF Sent
<1>3. calls' # <<>>
  <2>1. calls' \in Seq(Call)
    BY SendType DEF TypeOK, Ops
  <2> QED
    BY <1>1, <1>2, <2>1, EmptySeq
<1> HIDE DEF n
<1>4. InTurn'
  <2> SUFFICES ASSUME NEW i \in 1..(n + 1), NEW j \in 1..(n + 1), i < j, calls'[i].state = "sent"
               PROVE  calls'[j].state = "sent"
    BY <1>2 DEF InTurn
  <2>1. CASE j = n + 1
    BY <1>2, <2>1
  <2>2. CASE j # n + 1
    <3>1. i \in 1..n /\ j \in 1..n
      BY <1>1, <2>2
    <3> QED
      BY <1>2, <3>1 DEF SyncInv, InTurn, n
  <2> QED
    BY <2>1, <2>2
<1>5. HydratingInv'
  <2> SUFFICES ASSUME NEW g \in 1..(n + 1), calls'[g].op = "get", calls'[g].live
               PROVE  /\ layoutSource = "cache" /\ ~debounce'
                      /\ \A j \in 1..(n + 1) :
                           /\ j < g => ~calls'[j].live
                           /\ g < j => calls'[j].op = "reset" /\ calls'[j].live
                      /\ (g = n + 1 /\ calls'[g].state = "ok") => server = calls'[g].doc
    BY <1>2 DEF HydratingInv
  <2>1. g \in 1..n /\ calls[g].op = "get" /\ calls[g].live
    BY <1>1, <1>2
  <2>2. op = "reset" /\ UNCHANGED debounce
    BY <1>1, <2>1 DEF Hydrating
  <2>3. /\ layoutSource = "cache" /\ ~debounce
        /\ \A j \in 1..n :
             /\ j < g => ~calls[j].live
             /\ g < j => calls[j].op = "reset" /\ calls[j].live
    BY <2>1 DEF SyncInv, HydratingInv, n
  <2>4. ASSUME NEW j \in 1..(n + 1)
        PROVE  /\ j < g => ~calls'[j].live
               /\ g < j => calls'[j].op = "reset" /\ calls'[j].live
    BY <1>1, <1>2, <2>1, <2>2, <2>3, <2>4
  <2> QED
    BY <1>1, <2>1, <2>2, <2>3, <2>4
<1>6. Covered'
  <2> SUFFICES ASSUME layoutSource = "server" PROVE Covered'
    BY DEF Covered
  <2>1. \A i \in 1..(n + 1) : calls'[i].live /\ calls'[i].op # "get"
    <3>1. \A i \in 1..n : calls[i].live /\ calls[i].op # "get"
      BY DEF SyncInv, Covered, n
    <3> QED
      BY <1>1, <1>2, <3>1
  <2>2. LastWriteCovers'
    BY <1>2 DEF LastWriteCovers, Last, Writes
  <2> QED
    BY <1>2, <1>3, <2>1, <2>2 DEF Covered
<1>7. Alone'
  BY DEF Alone, PiholeShell
<1> QED
  BY <1>4, <1>5, <1>6, <1>7 DEF SyncInv

LEMMA ServeKeeps ==
  ASSUME SyncInv, TypeOK, InOrder, UNCHANGED client, UNCHANGED shell,
         NEW i \in 1..Len(calls), NEW state \in {"ok", "error"}, NEW doc \in Stored,
         Outcome(i, state, doc),
         \/ MayServe(i)
         \/ calls[i].state = "ok" /\ UNCHANGED server,
         state = "ok" /\ calls[i].op \in Writes => server' = doc /\ doc = calls[i].doc,
         state = "ok" /\ calls[i].op = "get" => server' = doc
  PROVE  SyncInv'
<1> DEFINE n == Len(calls)
<1>1. n \in Nat /\ (calls = <<>> <=> n = 0)
  BY CallsAre
<1>2. /\ Len(calls') = n
      /\ \A j \in 1..n : j # i => calls'[j] = calls[j]
      /\ calls'[i].op = calls[i].op /\ calls'[i].live = calls[i].live
      /\ calls'[i].state = state /\ calls'[i].doc = doc
  BY OutcomeElements
<1>3. calls' # <<>> /\ calls # <<>>
  <2>1. calls' \in Seq(Call)
    BY OutcomeType, CallsAre DEF TypeOK
  <2> QED
    BY <1>1, <1>2, <2>1, EmptySeq
<1>4. UNCHANGED <<layout, loadError, persistError, layoutSource, debounce>>
  BY DEF client, errors
<1>5. \A j \in 1..n : calls[j].state # "sent" => j < i \/ UNCHANGED server
  BY <1>1 DEF MayServe, SyncInv, InTurn, n
<1> HIDE DEF n
<1>6. InTurn'
  <2> SUFFICES ASSUME NEW j \in 1..n, NEW k \in 1..n, j < k, calls'[j].state = "sent"
               PROVE  calls'[k].state = "sent"
    BY <1>2 DEF InTurn
  <2>1. j # i /\ calls[j].state = "sent"
    BY <1>2
  <2>2. calls[k].state = "sent"
    BY <2>1 DEF SyncInv, InTurn, n
  <2>3. k # i
    BY <2>1, <2>2, <1>1 DEF MayServe, n
  <2> QED
    BY <1>2, <2>2, <2>3
<1>7. HydratingInv'
  <2> SUFFICES ASSUME NEW g \in 1..n, calls'[g].op = "get", calls'[g].live
               PROVE  /\ layoutSource = "cache" /\ ~debounce
                      /\ \A j \in 1..n :
                           /\ j < g => ~calls'[j].live
                           /\ g < j => calls'[j].op = "reset" /\ calls'[j].live
                      /\ (g = n /\ calls'[g].state = "ok") => server' = calls'[g].doc
    BY <1>2, <1>4 DEF HydratingInv
  <2>1. calls[g].op = "get" /\ calls[g].live
    BY <1>2
  <2>2. /\ layoutSource = "cache" /\ ~debounce
        /\ \A j \in 1..n :
             /\ j < g => ~calls[j].live
             /\ g < j => calls[j].op = "reset" /\ calls[j].live
        /\ (g = n /\ calls[g].state = "ok") => server = calls[g].doc
    BY <2>1 DEF SyncInv, HydratingInv, n
  <2>3. ASSUME NEW j \in 1..n
        PROVE  /\ j < g => ~calls'[j].live
               /\ g < j => calls'[j].op = "reset" /\ calls'[j].live
    BY <1>2, <2>2
  <2>4. ASSUME g = n, calls'[g].state = "ok" PROVE server' = calls'[g].doc
    <3>1. CASE g = i
      BY <1>2, <2>1, <2>4, <3>1
    <3>2. CASE g # i
      <4>1. calls[g].state = "ok" /\ ~(g < i)
        BY <1>1, <1>2, <2>4, <3>2 DEF n
      <4>2. UNCHANGED server
        BY <1>5, <4>1
      <4> QED
        BY <1>2, <2>2, <2>4, <3>2, <4>1, <4>2
    <3> QED
      BY <3>1, <3>2
  <2> QED
    BY <2>2, <2>3, <2>4
<1>8. Covered'
  <2> SUFFICES ASSUME layoutSource = "server" PROVE Covered'
    BY <1>4 DEF Covered
  <2>1. \A j \in 1..n : calls'[j].live /\ calls'[j].op # "get"
    <3>1. \A j \in 1..n : calls[j].live /\ calls[j].op # "get"
      BY DEF SyncInv, Covered, n
    <3> QED
      BY <1>2, <3>1
  <2>2. LastWriteCovers'
    <3> SUFFICES ASSUME calls'[n].op \in Writes
                 PROVE  /\ debounce \/ calls'[n].state = "error" \/ calls'[n].doc = layout
                        /\ calls'[n].state = "ok" => server' = calls'[n].doc
      BY <1>2, <1>4 DEF LastWriteCovers, Last
    <3>1. n \in 1..n
      BY <1>1, <1>3
    <3>2. calls[n].op \in Writes
      BY <1>2, <3>1
    <3>3. /\ debounce \/ calls[n].state = "error" \/ calls[n].doc = layout
          /\ calls[n].state = "ok" => server = calls[n].doc
      BY <1>3, <3>2 DEF SyncInv, Covered, LastWriteCovers, Last, n
    <3>4. CASE n # i
      <4>1. calls'[n] = calls[n] /\ ~(n < i)
        BY <1>1, <1>2, <3>1, <3>4 DEF n
      <4>2. calls[n].state # "sent" => UNCHANGED server
        BY <1>5, <3>1, <4>1
      <4> QED
        BY <3>3, <4>1, <4>2
    <3>5. CASE n = i
      <4>1. calls[n].state # "error"
        BY <3>5 DEF MayServe
      <4> QED
        BY <1>2, <3>2, <3>3, <3>5, <4>1
    <3> QED
      BY <3>4, <3>5
  <2> QED
    BY <1>2, <1>3, <2>1, <2>2 DEF Covered
<1>9. Alone'
  BY <1>3 DEF SyncInv, Alone, PiholeShell
<1> QED
  BY <1>6, <1>7, <1>8, <1>9 DEF SyncInv

LEMMA AnswerElements ==
  ASSUME TypeOK, NEW i \in 1..Len(calls), calls' = WithoutCall(i)
  PROVE  /\ Len(calls') = Len(calls) - 1
         /\ \A j \in 1..Len(calls') : j < i => calls'[j] = calls[j]
         /\ \A j \in 1..Len(calls') : ~(j < i) => calls'[j] = calls[j + 1]
         /\ calls' = <<>> <=> Len(calls) = 1
<1>1. calls \in Seq(Call) /\ Len(calls) \in Nat /\ i \in DOMAIN calls
  BY CallsAre DEF TypeOK
<1>2. calls' \in Seq(Call) /\ Len(calls') = Len(calls) - 1
  BY <1>1, WithoutCallType
<1>3. \A j \in 1..(Len(calls) - 1) : calls'[j] = IF j < i THEN calls[j] ELSE calls[j + 1]
  BY WithoutCallElements
<1>4. calls' = <<>> <=> Len(calls) = 1
  BY <1>1, <1>2, EmptySeq
<1> QED
  BY <1>2, <1>3, <1>4

\* The order of the calls that stay.
LEMMA AnswerKeepsTurn ==
  ASSUME SyncInv, TypeOK, NEW i \in 1..Len(calls), calls' = WithoutCall(i)
  PROVE  InTurn'
<1> SUFFICES ASSUME NEW j \in 1..Len(calls'), NEW k \in 1..Len(calls'),
                    j < k, calls'[j].state = "sent"
             PROVE  calls'[k].state = "sent"
  BY DEF InTurn
<1> DEFINE old(m) == IF m < i THEN m ELSE m + 1
<1>1. Len(calls) \in Nat
  BY CallsAre
<1>2. /\ Len(calls') = Len(calls) - 1
      /\ \A m \in 1..Len(calls') : m < i => calls'[m] = calls[m]
      /\ \A m \in 1..Len(calls') : ~(m < i) => calls'[m] = calls[m + 1]
  BY AnswerElements
<1>3. /\ old(j) \in 1..Len(calls) /\ old(k) \in 1..Len(calls) /\ old(j) < old(k)
      /\ calls'[j] = calls[old(j)] /\ calls'[k] = calls[old(k)]
  BY <1>1, <1>2
<1> HIDE DEF old
<1>4. calls[old(k)].state = "sent"
  BY <1>3 DEF SyncInv, InTurn
<1> QED
  BY <1>3, <1>4

\* The bootstrap GET is answered: what it brought is what the server holds.
LEMMA GetAnsweredKeeps ==
  ASSUME SyncInv, TypeOK, Orderly, UNCHANGED shell, NEW i \in 1..Len(calls), GetAnswered(i)
  PROVE  SyncInv'
<1>1. /\ i = 1 /\ calls[1].op = "get" /\ calls[1].live /\ calls[1].state # "sent"
      /\ calls' = WithoutCall(1) /\ UNCHANGED server
  BY DEF GetAnswered, Answered, Orderly
<1>2. Len(calls) \in Nat /\ Len(calls) >= 1 /\ ~PiholeShell
  BY CallsAre DEF SyncInv, Alone
<1>3. /\ layoutSource = "cache" /\ ~debounce
      /\ \A j \in 1..Len(calls) : 1 < j => calls[j].op = "reset" /\ calls[j].live
      /\ (1 = Len(calls) /\ calls[1].state = "ok") => server = calls[1].doc
  BY <1>1, <1>2 DEF SyncInv, HydratingInv
<1>4. \A j \in 1..Len(calls') : calls'[j].op = "reset" /\ calls'[j].live
  <2>1. /\ Len(calls') = Len(calls) - 1
        /\ \A j \in 1..Len(calls') : ~(j < 1) => calls'[j] = calls[j + 1]
    BY <1>1, AnswerElements
  <2>2. \A j \in 1..(Len(calls) - 1) : j + 1 \in 1..Len(calls) /\ 1 < j + 1 /\ ~(j < 1)
    BY <1>2
  <2> QED
    BY <1>3, <2>1, <2>2
<1>5. InTurn' /\ Alone'
  BY <1>1, <1>2, AnswerKeepsTurn DEF Alone, PiholeShell
<1>6. HydratingInv'
  BY <1>4 DEF HydratingInv
<1>7. Covered'
  <2> SUFFICES ASSUME layoutSource' = "server" PROVE Covered'
    BY DEF Covered
  <2>1. /\ calls[1].state = "ok" /\ calls[1].doc \in Docs
        /\ AcceptServerLayout(Normalize[calls[1].doc])
    BY <1>1, <1>3 DEF GetAnswered
  <2>2. layout' = Normalize[calls[1].doc]
    BY <2>1 DEF AcceptServerLayout
  <2>3. calls' = <<>> => Synced'
    <3> SUFFICES ASSUME calls' = <<>> PROVE Synced'
      OBVIOUS
    <3>1. Len(calls) = 1
      BY <1>1, AnswerElements
    <3>2. server = calls[1].doc
      BY <1>3, <2>1, <3>1
    <3> QED
      BY <1>1, <2>1, <2>2, <3>2 DEF Synced
  <2>4. LastWriteCovers'
    <3> SUFFICES ASSUME calls' # <<>> PROVE calls'[Len(calls')].op \notin Writes
      BY DEF LastWriteCovers, Last
    <3>1. Len(calls') \in 1..Len(calls')
      BY <1>1, <1>2, AnswerElements
    <3> QED
      BY <1>4, <3>1 DEF Writes
  <2> QED
    BY <1>4, <2>3, <2>4 DEF Covered
<1> QED
  BY <1>5, <1>6, <1>7 DEF SyncInv

\* The answer of another call that the page reads: it was the first, so no GET is out.
LEMMA OwnAnswerKeeps ==
  ASSUME SyncInv, TypeOK, StableNormalForm, 1 \in 1..Len(calls),
         UNCHANGED <<shell, layoutSource, server>>,
         calls' = WithoutCall(1), calls[1].live, calls[1].op # "get", calls[1].state # "sent",
         debounce' \/ UNCHANGED <<layout, debounce>>,
         calls[1].op = "reset" => debounce' \/ loadError',
         calls[1].op \in Writes /\ calls[1].state = "error" => persistError'
  PROVE  SyncInv'
<1>1. Len(calls) \in Nat /\ Len(calls) >= 1 /\ calls[1] \in Call /\ ~PiholeShell /\ calls # <<>>
  BY CallsAre DEF SyncInv, Alone
<1>2. /\ Len(calls') = Len(calls) - 1
      /\ \A j \in 1..(Len(calls) - 1) : calls'[j] = calls[j + 1]
      /\ calls' = <<>> <=> Len(calls) = 1
  BY <1>1, AnswerElements
<1>3. InTurn' /\ Alone'
  BY <1>1, AnswerKeepsTurn DEF Alone, PiholeShell
<1>4. HydratingInv'
  <2> SUFFICES ASSUME NEW g \in 1..(Len(calls) - 1), calls'[g].op = "get", calls'[g].live
               PROVE  FALSE
    BY <1>2 DEF HydratingInv
  <2>1. g + 1 \in 1..Len(calls) /\ calls[g + 1].op = "get" /\ calls[g + 1].live /\ 1 < g + 1
    BY <1>1, <1>2
  <2> QED
    BY <2>1 DEF SyncInv, HydratingInv
<1>5. Covered'
  <2> SUFFICES ASSUME layoutSource = "server" PROVE Covered'
    BY DEF Covered
  <2>1. /\ \A j \in 1..Len(calls) : calls[j].live /\ calls[j].op # "get"
        /\ LastWriteCovers
    BY DEF SyncInv, Covered
  <2>2. \A j \in 1..(Len(calls) - 1) : calls'[j].live /\ calls'[j].op # "get"
    <3>1. \A j \in 1..(Len(calls) - 1) : j + 1 \in 1..Len(calls)
      BY <1>1
    <3> QED
      BY <1>2, <2>1, <3>1
  <2>3. calls' = <<>> => debounce' \/ loadError' \/ persistError' \/ Synced'
    <3> SUFFICES ASSUME calls' = <<>>, ~debounce', ~loadError', ~persistError' PROVE Synced'
      OBVIOUS
    <3>1. Len(calls) = 1 /\ Last = calls[1]
      BY <1>2 DEF Last
    <3>2. calls[1].op \in Writes
      BY <1>1 DEF Call, Ops, Writes
    <3>3. calls[1].state = "ok"
      BY <1>1, <3>2 DEF Call
    <3>4. server = calls[1].doc /\ (debounce \/ calls[1].doc = layout)
      BY <1>1, <2>1, <3>1, <3>2, <3>3 DEF LastWriteCovers
    <3>5. UNCHANGED <<layout, debounce>>
      OBVIOUS
    <3>6. server' = layout' /\ layout' \in Layouts
      BY <3>4, <3>5 DEF TypeOK
    <3> QED
      BY <3>6, LayoutsAssumption DEF Synced, StableNormalForm
  <2>4. LastWriteCovers'
    <3> SUFFICES ASSUME calls' # <<>>, calls'[Len(calls')].op \in Writes
                 PROVE  /\ debounce' \/ calls'[Len(calls')].state = "error"
                                     \/ calls'[Len(calls')].doc = layout'
                        /\ calls'[Len(calls')].state = "ok" => server' = calls'[Len(calls')].doc
      BY DEF LastWriteCovers, Last
    <3>1. Len(calls') \in 1..(Len(calls) - 1) /\ Len(calls') + 1 = Len(calls)
      BY <1>1, <1>2
    <3>2. calls'[Len(calls')] = Last
      BY <1>2, <3>1 DEF Last
    <3> QED
      BY <1>1, <2>1, <3>2 DEF LastWriteCovers
  <2> QED
    BY <1>2, <2>2, <2>3, <2>4 DEF Covered
<1> QED
  BY <1>3, <1>4, <1>5 DEF SyncInv

\* An answer nobody reads: its page is gone, so this one is not hydrated yet.
LEMMA AnswerDroppedKeeps ==
  ASSUME SyncInv, TypeOK, UNCHANGED shell, NEW i \in 1..Len(calls), AnswerDropped(i)
  PROVE  SyncInv'
<1>1. /\ ~calls[i].live /\ calls' = WithoutCall(i)
      /\ UNCHANGED <<server, layout, loadError, persistError, layoutSource, debounce>>
  BY DEF AnswerDropped, client, errors
<1>2. Len(calls) \in Nat /\ ~PiholeShell
  BY CallsAre DEF SyncInv, Alone
<1>3. /\ Len(calls') = Len(calls) - 1
      /\ \A j \in 1..Len(calls') : j < i => calls'[j] = calls[j]
      /\ \A j \in 1..Len(calls') : ~(j < i) => calls'[j] = calls[j + 1]
  BY <1>1, AnswerElements
<1>4. InTurn' /\ Alone'
  BY <1>1, <1>2, AnswerKeepsTurn DEF Alone, PiholeShell
<1>5. Covered'
  BY <1>1 DEF SyncInv, Covered
<1>6. HydratingInv'
  <2> SUFFICES ASSUME NEW g \in 1..Len(calls'), calls'[g].op = "get", calls'[g].live
               PROVE  /\ layoutSource = "cache" /\ ~debounce
                      /\ \A j \in 1..Len(calls') :
                           /\ j < g => ~calls'[j].live
                           /\ g < j => calls'[j].op = "reset" /\ calls'[j].live
                      /\ (g = Len(calls') /\ calls'[g].state = "ok") => server = calls'[g].doc
    BY <1>1 DEF HydratingInv
  <2> DEFINE h == IF g < i THEN g ELSE g + 1
  <2>1. h \in 1..Len(calls) /\ calls'[g] = calls[h]
    BY <1>2, <1>3
  <2>2. /\ layoutSource = "cache" /\ ~debounce
        /\ \A j \in 1..Len(calls) :
             /\ j < h => ~calls[j].live
             /\ h < j => calls[j].op = "reset" /\ calls[j].live
        /\ (h = Len(calls) /\ calls[h].state = "ok") => server = calls[h].doc
    <3> HIDE DEF h
    <3> QED
      BY <2>1 DEF SyncInv, HydratingInv
  <2>3. i < h
    <3>1. ~(h < i)
      BY <1>1, <2>2
    <3>2. h # i
      BY <1>1, <2>1
    <3> QED
      BY <1>2, <2>1, <3>1, <3>2
  <2>4. h = g + 1 /\ i <= g
    BY <2>3
  <2> HIDE DEF h
  <2>5. ASSUME NEW j \in 1..Len(calls')
        PROVE  /\ j < g => ~calls'[j].live
               /\ g < j => calls'[j].op = "reset" /\ calls'[j].live
    <3>1. CASE j < g /\ j < i
      BY <1>2, <1>3, <2>2, <2>4, <3>1
    <3>2. CASE j < g /\ ~(j < i)
      <4>1. j + 1 \in 1..Len(calls) /\ j + 1 < h /\ calls'[j] = calls[j + 1]
        BY <1>2, <1>3, <2>4, <3>2
      <4> QED
        BY <2>2, <3>2, <4>1
    <3>3. CASE g < j
      <4>1. j + 1 \in 1..Len(calls) /\ h < j + 1 /\ ~(j < i)
        BY <1>2, <1>3, <2>4, <3>3
      <4>2. calls'[j] = calls[j + 1]
        BY <1>3, <4>1
      <4> QED
        BY <2>2, <3>3, <4>1, <4>2
    <3> QED
      BY <3>1, <3>2, <3>3
  <2>6. (g = Len(calls') /\ calls'[g].state = "ok") => server = calls'[g].doc
    BY <1>2, <1>3, <2>1, <2>2, <2>4
  <2> QED
    BY <2>2, <2>5, <2>6
<1> QED
  BY <1>4, <1>5, <1>6 DEF SyncInv

\* A new page: only its own GET is live, and it is the last call.
LEMMA NewPageKeeps ==
  ASSUME SyncInv, TypeOK, UNCHANGED shell, NEW stored, NEW flushing \in {FALSE, ~PiholeShell},
         NewPage(stored, flushing)
  PROVE  SyncInv'
<1>1. layoutSource' = "cache" /\ debounce' = FALSE
  BY DEF NewPage
<1>2. CASE PiholeShell
  <2>1. calls = <<>> /\ Len(calls) = 0 /\ DOMAIN calls = {}
    <3>1. calls = <<>>
      BY <1>2 DEF SyncInv, Alone
    <3> QED
      BY <3>1, CallsAre
  <2>2. calls' = Abandoned \o <<>>
    BY <1>2 DEF NewPage, Orphaned, BootCalls
  <2>3. calls' = <<>>
    <3>1. Abandoned = <<>>
      BY <2>1 DEF Abandoned
    <3>2. <<>> \in Seq(Call)
      BY EmptySeq
    <3> QED
      BY <2>2, <3>1, <3>2, ConcatEmptySeq
  <2>4. Len(calls') = 0
    BY <2>3, EmptySeq
  <2> QED
    BY <1>1, <2>3, <2>4 DEF SyncInv, InTurn, HydratingInv, Covered, Alone
<1>3. CASE ~PiholeShell
  <2> DEFINE n == Len(calls)
  <2>1. n \in Nat
    BY CallsAre
  <2>2. flushing \in BOOLEAN
    BY <1>3
  <2>3. /\ Len(calls') \in {n + 1, n + 2}
        /\ \A i \in 1..n : calls'[i].state = calls[i].state /\ ~calls'[i].live
        /\ \A i \in 1..Len(calls') : i > n =>
              /\ calls'[i].state = "sent"
              /\ calls'[i].live <=> i = Len(calls')
    BY <1>3, <2>2, NewPageElements
  <2>4. InTurn'
    <3> SUFFICES ASSUME NEW i \in 1..Len(calls'), NEW j \in 1..Len(calls'),
                        i < j, calls'[i].state = "sent"
                 PROVE  calls'[j].state = "sent"
      BY DEF InTurn
    <3>1. CASE j > n
      BY <2>3, <3>1
    <3>2. CASE ~(j > n)
      <4>1. i \in 1..n /\ j \in 1..n
        BY <2>1, <2>3, <3>2
      <4> HIDE DEF n
      <4>2. calls[i].state = "sent" => calls[j].state = "sent"
        BY <4>1 DEF n, SyncInv, InTurn
      <4> QED
        BY <2>3, <4>1, <4>2
    <3> QED
      BY <3>1, <3>2
  <2>5. HydratingInv'
    <3> SUFFICES ASSUME NEW g \in 1..Len(calls'), calls'[g].live
                 PROVE  /\ \A j \in 1..Len(calls') : j < g => ~calls'[j].live
                        /\ g = Len(calls') /\ calls'[g].state # "ok"
      BY <1>1, <2>1, <2>3 DEF HydratingInv
    <3> HIDE DEF n
    <3>1. g > n
      BY <2>1, <2>3
    <3>2. g = Len(calls') /\ calls'[g].state = "sent"
      BY <2>3, <3>1
    <3>3. ASSUME NEW j \in 1..Len(calls'), j < g PROVE ~calls'[j].live
      BY <2>1, <2>3, <3>2, <3>3
    <3> QED
      BY <3>2, <3>3
  <2>6. Covered' /\ Alone'
    BY <1>1, <1>3 DEF Covered, Alone, PiholeShell
  <2> QED
    BY <2>4, <2>5, <2>6 DEF SyncInv
<1> QED
  BY <1>2, <1>3

-----------------------------------------------------------------------------
(* The invariant, step by step. *)

LEMMA InitSynced == Init => SyncInv
<1> SUFFICES ASSUME Init PROVE SyncInv
  OBVIOUS
<1>1. calls = BootCalls /\ layoutSource = "cache" /\ debounce = FALSE
  BY DEF Init
<1>2. Covered /\ Alone
  BY <1>1 DEF Covered, Alone, BootCalls
<1>3. CASE PiholeShell
  <2>1. Len(calls) = 0
    BY <1>1, <1>3, EmptySeq DEF BootCalls
  <2> QED
    BY <1>2, <2>1 DEF SyncInv, InTurn, HydratingInv
<1>4. CASE ~PiholeShell
  <2>1. /\ Len(calls) = 1 /\ calls[1].state = "sent"
    BY <1>1, <1>4 DEF BootCalls, Sent
  <2> QED
    BY <1>1, <1>2, <2>1 DEF SyncInv, InTurn, HydratingInv
<1> QED
  BY <1>3, <1>4

\* An edit of the Kea page that lands arms the debounce; one that does not leaves the layout.
LEMMA ApplyArmsOrFails ==
  ASSUME NEW next, NEW editMode, NEW skipHistory, ApplyStructure(next, editMode, skipHistory),
         Orderly, ~PiholeShell
  PROVE  debounce' \/ (loadError' /\ UNCHANGED <<layout, debounce>>)
BY DEF ApplyStructure, Restructure, SchedulePersist, SaveThrows, Orderly

LEMMA UserStepSynced ==
  ASSUME SyncInv, TypeOK, TypeOK', Orderly, UserStep, UNCHANGED shell
  PROVE  SyncInv'
<1>1. MayEdit => ~Hydrating
  BY DEF MayEdit, Orderly
<1>2. ASSUME NEW d \in Docs, Edit(d) PROVE SyncInv'
  <2>1. ApplyStructure(d, editorOpen, FALSE) /\ ~Hydrating
    BY <1>1, <1>2 DEF Edit
  <2>2. ~PiholeShell => debounce' \/ (loadError' /\ UNCHANGED <<layout, debounce>>)
    BY <2>1, ApplyArmsOrFails
  <2>3. UNCHANGED <<persistError, layoutSource, calls, server>>
    BY <1>2 DEF Edit
  <2> QED
    BY <2>1, <2>2, <2>3, LocalKeeps
<1>3. ASSUME UNCHANGED <<layoutSource, server>>, FlushPersist, ~Hydrating PROVE SyncInv'
  <2>1. CASE PiholeShell
    BY <1>3, <2>1, LocalKeeps DEF FlushPersist
  <2>2. CASE ~PiholeShell
    <3>1. Send("put", layout') /\ layout' \in Stored
      BY <1>3, <2>2, LayoutsAssumption DEF FlushPersist, TypeOK, Stored
    <3> QED
      BY <1>3, <2>2, <3>1, SendKeeps
  <2> QED
    BY <2>1, <2>2
<1>4. ASSUME NEW d \in Docs, SelectDashboardView(d) PROVE SyncInv'
  BY <1>1, <1>3, <1>4 DEF SelectDashboardView
<1>5. ASSUME Refused PROVE SyncInv'
  <2>1. ~PiholeShell /\ Hydrating => ~debounce
    BY CallsAre DEF SyncInv, HydratingInv, Hydrating
  <2>2. PiholeShell => ~Hydrating
    BY CallsAre DEF SyncInv, Alone, Hydrating
  <2> QED
    BY <1>5, <2>1, <2>2, LocalKeeps DEF Refused, errors
<1>6. Hydrating => ~debounce
  BY CallsAre DEF SyncInv, HydratingInv, Hydrating
<1>7. ASSUME NEW d, Restored(d), ~Hydrating PROVE SyncInv'
  <2>1. ~PiholeShell => debounce'
    BY <1>7 DEF Restored, SchedulePersist, SaveThrows, Orderly
  <2> QED
    BY <1>7, <2>1, LocalKeeps DEF Restored
<1>8. ASSUME Undo \/ Redo PROVE SyncInv'
  BY <1>1, <1>7, <1>8 DEF Undo, Redo
<1>9. ServerSynced \/ Unsynced => PiholeShell \/ UNCHANGED <<layout, loadError>>
  BY DEF ServerSynced, Unsynced
<1>10. ASSUME OpenEditor \/ Resync PROVE SyncInv'
  BY <1>6, <1>9, <1>10, LocalKeeps DEF OpenEditor, Resync
<1>11. ASSUME CloseOrLeave PROVE SyncInv'
  BY <1>1, <1>3, <1>11 DEF CloseOrLeave
<1>12. ASSUME SaveLayoutToFile PROVE SyncInv'
  <2>1. ~Hydrating /\ debounce' = FALSE /\ UNCHANGED <<layout, layoutSource, server>>
    BY <1>1, <1>12 DEF SaveLayoutToFile
  <2>2. CASE PiholeShell
    BY <1>12, <2>1, <2>2, LocalKeeps DEF SaveLayoutToFile
  <2>3. CASE ~PiholeShell
    <3>1. Send("save", layout) /\ layout \in Stored
      BY <1>12, <2>3, LayoutsAssumption DEF SaveLayoutToFile, TypeOK, Stored
    <3> QED
      BY <2>1, <2>3, <3>1, SendKeeps
  <2> QED
    BY <2>2, <2>3
<1>13. ASSUME ResetToBaseline PROVE SyncInv'
  <2>1. UNCHANGED <<layout, debounce, layoutSource, server>>
    BY <1>13 DEF ResetToBaseline
  <2>2. CASE PiholeShell
    BY <1>6, <1>13, <2>1, <2>2, LocalKeeps DEF ResetToBaseline
  <2>3. CASE ~PiholeShell
    <3>1. Send("reset", NoDoc) /\ NoDoc \in Stored
      BY <1>13, <2>3 DEF ResetToBaseline, Stored
    <3> QED
      BY <2>1, <2>3, <3>1, SendKeeps
  <2> QED
    BY <2>2, <2>3
<1>14. ASSUME Reload PROVE SyncInv'
  BY <1>14, NewPageKeeps DEF Reload
<1>15. ASSUME ClearStoredAndReload PROVE SyncInv'
  BY <1>15, NewPageKeeps DEF ClearStoredAndReload
<1> QED
  BY <1>2, <1>4, <1>5, <1>8, <1>10, <1>11, <1>12, <1>13, <1>14, <1>15 DEF UserStep

LEMMA DebounceSynced ==
  ASSUME SyncInv, TypeOK, TypeOK', DebounceFires, UNCHANGED shell
  PROVE  SyncInv'
<1>1. debounce /\ FlushPersist /\ UNCHANGED <<layout, loadError, layoutSource, server>>
  BY DEF DebounceFires
<1>2. ~Hydrating
  BY <1>1, CallsAre DEF SyncInv, HydratingInv, Hydrating
<1>3. CASE PiholeShell
  BY <1>1, <1>2, <1>3, LocalKeeps DEF FlushPersist
<1>4. CASE ~PiholeShell
  <2>1. Send("put", layout') /\ layout' \in Stored
    BY <1>1, <1>4, LayoutsAssumption DEF FlushPersist, TypeOK, Stored
  <2> QED
    BY <1>1, <1>2, <1>4, <2>1, SendKeeps
<1> QED
  BY <1>3, <1>4

LEMMA ServeStepSynced ==
  ASSUME SyncInv, TypeOK, Orderly, ServeStep, UNCHANGED shell
  PROVE  SyncInv'
<1>1. PICK i \in DOMAIN calls :
        ServeGet(i) \/ ServePut(i) \/ ServeSave(i) \/ ServeReset(i) \/ CallFails(i)
  BY DEF ServeStep
<1>2. i \in 1..Len(calls) /\ calls[i].doc \in Stored /\ server \in Stored /\ NoDoc \in Stored
  <2>1. i \in 1..Len(calls) /\ calls[i] \in Call
    BY CallsAre
  <2> QED
    BY <2>1 DEF Call, Stored, TypeOK
<1>3. UNCHANGED client /\ InOrder
  BY <1>1 DEF Orderly, ServeGet, ServePut, ServeSave, ServeReset, CallFails
<1>4. CASE ServeGet(i)
  <2>1. CASE server = NoDoc
    BY <1>2, <1>3, <1>4, <2>1, ServeKeeps DEF ServeGet
  <2>2. CASE server # NoDoc
    BY <1>2, <1>3, <1>4, <2>2, ServeKeeps DEF ServeGet, Writes
  <2> QED
    BY <2>1, <2>2
<1>5. CASE ServePut(i)
  BY <1>2, <1>3, <1>5, ServeKeeps DEF ServePut
<1>6. CASE ServeSave(i)
  <2>1. CASE Outcome(i, "ok", calls[i].doc)
    BY <1>2, <1>3, <1>6, <2>1, ServeKeeps DEF ServeSave
  <2>2. CASE Outcome(i, "error", NoDoc)
    BY <1>2, <1>3, <1>6, <2>2, ServeKeeps DEF ServeSave
  <2> QED
    BY <1>6, <2>1, <2>2 DEF ServeSave
<1>7. CASE ServeReset(i)
  <2>1. Baseline \in Stored /\ calls[i].op = "reset" /\ MayServe(i)
    BY <1>7, LayoutsAssumption DEF ServeReset, Stored
  <2>2. CASE Baseline = NoDoc
    BY <1>2, <1>3, <1>7, <2>1, <2>2, ServeKeeps DEF ServeReset
  <2>3. CASE Baseline # NoDoc
    BY <1>2, <1>3, <1>7, <2>1, <2>3, ServeKeeps DEF ServeReset, Writes
  <2> QED
    BY <2>2, <2>3
<1>8. CASE CallFails(i)
  BY <1>2, <1>3, <1>8, ServeKeeps DEF CallFails
<1> QED
  BY <1>1, <1>4, <1>5, <1>6, <1>7, <1>8

LEMMA AnswerStepSynced ==
  ASSUME SyncInv, TypeOK, TypeOK', Orderly, StableNormalForm, AnswerStep, UNCHANGED shell
  PROVE  SyncInv'
<1>1. PICK i \in DOMAIN calls :
        GetAnswered(i) \/ PutAnswered(i) \/ SaveAnswered(i) \/ ResetAnswered(i) \/ AnswerDropped(i)
  BY DEF AnswerStep
<1>2. i \in 1..Len(calls) /\ ~PiholeShell
  BY CallsAre DEF SyncInv, Alone
<1>3. CASE GetAnswered(i)
  BY <1>2, <1>3, GetAnsweredKeeps
<1>4. ASSUME NEW op \in {"put", "save", "reset"}, Answered(i, op)
      PROVE  /\ i = 1 /\ calls[1].op = op /\ calls[1].live /\ calls[1].state # "sent"
             /\ calls' = WithoutCall(1) /\ UNCHANGED server
  BY <1>4 DEF Answered, Orderly
<1>5. CASE PutAnswered(i)
  <2>1. Answered(i, "put") /\ persistError' = (calls[i].state = "error")
        /\ UNCHANGED <<layout, layoutSource, debounce>>
    BY <1>5 DEF PutAnswered
  <2>2. i = 1 /\ calls[1].op = "put" /\ calls[1].live /\ calls[1].state # "sent"
        /\ calls' = WithoutCall(1) /\ UNCHANGED server
    BY <1>4, <2>1
  <2> QED
    BY <1>2, <2>1, <2>2, OwnAnswerKeeps
<1>6. CASE SaveAnswered(i)
  <2>1. Answered(i, "save") /\ (calls[i].state = "error" => persistError' = TRUE)
        /\ UNCHANGED <<layout, layoutSource, debounce>>
    BY <1>6 DEF SaveAnswered
  <2>2. i = 1 /\ calls[1].op = "save" /\ calls[1].live /\ calls[1].state # "sent"
        /\ calls' = WithoutCall(1) /\ UNCHANGED server
    BY <1>4, <2>1
  <2> QED
    BY <1>2, <2>1, <2>2, OwnAnswerKeeps
<1>7. CASE ResetAnswered(i)
  <2>1. Answered(i, "reset") /\ UNCHANGED layoutSource
    BY <1>7 DEF ResetAnswered
  <2>2. i = 1 /\ calls[1].op = "reset" /\ calls[1].live /\ calls[1].state # "sent"
        /\ calls' = WithoutCall(1) /\ UNCHANGED server
    BY <1>4, <2>1
  <2>3. debounce' \/ (loadError' /\ UNCHANGED <<layout, debounce>>)
    <3>1. CASE ApplyStructure(calls[i].doc, editorOpen, TRUE)
      BY <1>2, <3>1, ApplyArmsOrFails
    <3>2. CASE loadError' = TRUE /\ UNCHANGED <<layout, debounce>>
      BY <3>2
    <3> QED
      BY <1>7, <3>1, <3>2 DEF ResetAnswered
  <2> QED
    BY <1>2, <2>1, <2>2, <2>3, OwnAnswerKeeps DEF Writes
<1>8. CASE AnswerDropped(i)
  BY <1>2, <1>8, AnswerDroppedKeeps
<1> QED
  BY <1>1, <1>3, <1>5, <1>6, <1>7, <1>8

LEMMA NextSynced ==
  ASSUME SyncInv, TypeOK, TypeOK', Orderly, StableNormalForm, [Next]_vars
  PROVE  SyncInv'
<1>1. CASE UserStep /\ UNCHANGED shell
  BY <1>1, UserStepSynced
<1>2. CASE DebounceFires /\ UNCHANGED shell
  BY <1>2, DebounceSynced
<1>3. CASE ServeStep /\ UNCHANGED shell
  BY <1>3, ServeStepSynced
<1>4. CASE AnswerStep /\ UNCHANGED shell
  BY <1>4, AnswerStepSynced
<1>5. CASE UNCHANGED vars
  <2>1. UNCHANGED <<shell, layout, loadError, persistError, layoutSource, debounce, calls, server>>
    BY <1>5 DEF vars, errors
  <2>2. InTurn' /\ HydratingInv' /\ Alone'
    BY <2>1 DEF SyncInv, InTurn, HydratingInv, Alone, PiholeShell
  <2>3. Covered'
    BY <2>1 DEF SyncInv, Covered, LastWriteCovers, Last, Synced
  <2> QED
    BY <2>2, <2>3 DEF SyncInv
<1> QED
  BY <1>1, <1>2, <1>3, <1>4, <1>5 DEF Next

LEMMA SyncedMeansSaved == SyncInv => SettledMeansSaved
BY DEF SyncInv, Covered, SettledMeansSaved, Settled

\* Once hydrated from the server, a page at rest without an error shows what the server holds: no
\* edit, undo, save or reset is dropped in silence, whatever overlaps with whatever.
THEOREM SettledIsSaved ==
  ASSUME Orderly, StableNormalForm
  PROVE  Spec => []SettledMeansSaved
<1> DEFINE Inv == TypedAndBounded /\ SyncInv
<1>1. Init => Inv
  BY InitTyped, InitSynced
<1>2. Inv /\ [Next]_vars => Inv'
  BY NextTyped, NextSynced DEF TypedAndBounded
<1>3. Inv => SettledMeansSaved
  BY SyncedMeansSaved
<1> QED
  BY <1>1, <1>2, <1>3, PTL DEF Spec

-----------------------------------------------------------------------------
(* The store implements an autosaving document. *)

Erring == loadError \/ persistError
Shown == IF ~Settled THEN "saving"
         ELSE IF Erring THEN "failed"
         ELSE IF layoutSource = "cache" THEN "detached" ELSE "saved"
Kept == IF server \in Docs THEN Normalize[server] ELSE server
Known == Layouts \cup {NoDoc, Newer, Invalid}

LEMMA KeptKnown == TypeOK => Kept \in Known /\ layout \in Known
BY ConversionsAssumption DEF TypeOK, Kept, Known, Stored

\* Only serving a call writes the server's document, and the call is then still to be answered.
LEMMA WritesAreServed ==
  ASSUME SyncInv, TypeOK, TypeOK', [Next]_vars, server' # server
  PROVE  ~Settled /\ ~Settled' /\ layout' = layout
<1>1. ServeStep
  BY DEF Next, vars, UserStep, DebounceFires, AnswerStep, Edit, SelectDashboardView, Refused, Undo,
         Redo, Restored, OpenEditor, CloseOrLeave, Resync, SaveLayoutToFile, ResetToBaseline,
         Reload, ClearStoredAndReload, NewPage, GetAnswered, PutAnswered, SaveAnswered,
         ResetAnswered, Answered, AnswerDropped
<1>2. PICK i \in DOMAIN calls :
        ServeGet(i) \/ ServePut(i) \/ ServeSave(i) \/ ServeReset(i) \/ CallFails(i)
  BY <1>1 DEF ServeStep
<1>3. layout' = layout
  BY <1>2 DEF ServeGet, ServePut, ServeSave, ServeReset, CallFails, client
<1>4. DOMAIN calls' = DOMAIN calls
  BY <1>2 DEF ServeGet, ServePut, ServeSave, ServeReset, CallFails, Outcome
<1>5. calls # <<>> /\ calls' # <<>>
  <2>1. DOMAIN calls = 1..Len(calls) /\ i \in 1..Len(calls)
    BY CallsAre
  <2>2. \A s \in Seq(Call) : s = <<>> => DOMAIN s = {}
    BY LenProperties, EmptySeq
  <2> QED
    BY <1>4, <2>1, <2>2 DEF TypeOK
<1> QED
  BY <1>3, <1>5 DEF Settled

\* A Kea page at rest that stays at rest has not changed what it shows, nor forgotten an error.
LEMMA RestIsStill ==
  ASSUME SyncInv, TypeOK, TypeOK', Orderly, [Next]_vars, ~PiholeShell, Settled, Settled'
  PROVE  /\ UNCHANGED <<layout, layoutSource>>
         /\ loadError => loadError'
         /\ persistError => persistError'
<1> DEFINE Still == /\ UNCHANGED <<layout, layoutSource>>
                    /\ loadError => loadError'
                    /\ persistError => persistError'
<1>0. ~debounce /\ ~debounce' /\ calls = <<>> /\ calls' = <<>> /\ DOMAIN calls = {}
  BY CallsAre DEF Settled
<1>1. ~ServeStep /\ ~AnswerStep /\ ~DebounceFires
  BY <1>0 DEF ServeStep, AnswerStep, DebounceFires
<1>2. ASSUME NEW op \in Ops, NEW doc \in Stored, Send(op, doc) PROVE FALSE
  <2>1. Len(calls') = Len(calls) + 1 /\ Len(calls) = 0 /\ Len(calls') = 0
    BY <1>0, <1>2, SendElements, EmptySeq
  <2> QED
    BY <2>1
<1>3. ~FlushPersist
  <2>1. layout' \in Stored /\ "put" \in Ops
    BY LayoutsAssumption DEF TypeOK, Stored, Ops
  <2> QED
    BY <1>2, <2>1 DEF FlushPersist
<1>4. ~SaveLayoutToFile /\ ~ResetToBaseline
  <2>1. layout \in Stored /\ NoDoc \in Stored /\ "save" \in Ops /\ "reset" \in Ops
    BY LayoutsAssumption DEF TypeOK, Stored, Ops
  <2> QED
    BY <1>2, <2>1 DEF SaveLayoutToFile, ResetToBaseline
<1>5. ~CloseOrLeave /\ \A d \in Docs : ~SelectDashboardView(d)
  BY <1>3 DEF SelectDashboardView, CloseOrLeave
<1>6. ASSUME NEW stored \in Stored, NEW flushing \in BOOLEAN, NewPage(stored, flushing) PROVE FALSE
  <2>1. Len(calls') \in {Len(calls) + 1, Len(calls) + 2} /\ Len(calls) = 0 /\ Len(calls') = 0
    BY <1>0, <1>6, NewPageElements, EmptySeq
  <2> QED
    BY <2>1
<1>7. ~Reload /\ ~ClearStoredAndReload
  <2>1. cache \in Stored /\ NoDoc \in Stored /\ {FALSE, ~PiholeShell} \subseteq BOOLEAN
    BY DEF TypeOK, Stored
  <2> QED
    BY <1>6, <2>1 DEF Reload, ClearStoredAndReload
<1>8. ~Undo /\ ~Redo
  BY <1>0 DEF Undo, Redo, Restored, SchedulePersist, SaveThrows, Orderly
<1>9. ASSUME NEW d \in Docs, Edit(d) PROVE Still
  <2>1. debounce' \/ (loadError' /\ UNCHANGED <<layout, debounce>>)
    BY <1>9, ApplyArmsOrFails DEF Edit
  <2> QED
    BY <1>0, <1>9, <2>1 DEF Edit
<1>10. Refused => Still
  BY DEF Refused
<1>11. OpenEditor \/ Resync => Still
  <2>1. OpenEditor \/ Resync => UNCHANGED <<layout, loadError, persistError, layoutSource>>
    BY DEF OpenEditor, Resync, ServerSynced, Unsynced
  <2> QED
    BY <2>1
<1>12. UNCHANGED vars => Still
  BY DEF vars, errors
<1> QED
  BY <1>1, <1>4, <1>5, <1>7, <1>8, <1>9, <1>10, <1>11, <1>12 DEF Next, UserStep

LEMMA PiholeStaysDetached ==
  ASSUME SyncInv, SyncInv', [Next]_vars, PiholeShell
  PROVE  calls = <<>> /\ calls' = <<>> /\ layoutSource = "cache" /\ layoutSource' = "cache"
<1>1. PiholeShell'
  BY DEF Next, vars, PiholeShell
<1> QED
  BY <1>1 DEF SyncInv, Alone

LEMMA InitAutoSaves == Init => AS!Init
<1> SUFFICES ASSUME Init PROVE AS!Init
  OBVIOUS
<1>1. Kept \in Known /\ layout \in Known
  BY InitTyped, KeptKnown DEF TypedAndBounded
<1>2. Shown \in {"saving", "detached"}
  BY DEF Init, Shown, Erring
<1> QED
  BY <1>1, <1>2 DEF AS!Init, Kept, Known, Shown, Erring

\* Every step of the store is a step of the autosaving document, or none.
LEMMA NextAutoSaves ==
  ASSUME SyncInv, SyncInv', TypeOK, TypeOK', Orderly, [Next]_vars
  PROVE  [AS!Next]_(AS!vars)
<1> DEFINE Change == layout' \in Known /\ Shown' = "saving" /\ UNCHANGED Kept
           Write == Shown = "saving" /\ Kept' \in Known /\ UNCHANGED <<layout, Shown>>
           Saved == Shown = "saving" /\ Shown' = "saved" /\ layout' = Kept /\ UNCHANGED Kept
           NotSaved ==
             /\ Shown' \in {"failed", "detached"} /\ layout' \in Known
             /\ Shown \in {"saving", "failed", "detached"} \/ layout' = layout
             /\ Kept' = Kept \/ (Shown = "saving" /\ Kept' \in Known)
           Stutter == UNCHANGED <<layout, Kept, Shown>>
<1> SUFFICES Change \/ Write \/ Saved \/ NotSaved \/ Stutter
  BY DEF AS!Next, AS!Change, AS!Write, AS!Saved, AS!NotSaved, AS!vars, Kept, Known, Shown, Erring
<1>1. Kept' \in Known /\ layout' \in Known
  BY ConversionsAssumption DEF TypeOK, Kept, Known, Stored
<1>2. SettledMeansSaved'
  BY SyncedMeansSaved, PTL
<1>3. CASE server' # server
  BY <1>1, <1>3, WritesAreServed DEF Shown
<1>4. CASE server' = server /\ ~Settled'
  BY <1>1, <1>4 DEF Shown, Kept
<1>5. CASE server' = server /\ Settled' /\ ~Settled
  <2>1. UNCHANGED Kept /\ Shown = "saving"
    BY <1>5 DEF Kept, Shown
  <2>2. CASE Erring' \/ layoutSource' = "cache"
    BY <1>1, <1>5, <2>1, <2>2 DEF Shown
  <2>3. CASE ~Erring' /\ layoutSource' # "cache"
    <3>1. Synced' /\ Shown' = "saved"
      BY <1>2, <1>5, <2>3 DEF SettledMeansSaved, Erring, Shown, TypeOK
    <3>2. layout' = Kept'
      BY <3>1 DEF Synced, Kept
    <3> QED
      BY <2>1, <3>1, <3>2
  <2> QED
    BY <2>2, <2>3
<1>6. CASE server' = server /\ Settled' /\ Settled
  <2>1. UNCHANGED Kept
    BY <1>6 DEF Kept
  <2>2. CASE PiholeShell
    BY <1>1, <1>6, <2>1, <2>2, PiholeStaysDetached DEF Shown
  <2>3. CASE ~PiholeShell
    <3>1. UNCHANGED <<layout, layoutSource>> /\ (Erring => Erring')
      BY <1>6, <2>3, RestIsStill DEF Erring
    <3> QED
      BY <1>1, <1>6, <2>1, <3>1 DEF Shown
  <2> QED
    BY <2>2, <2>3
<1> QED
  BY <1>3, <1>4, <1>5, <1>6

\* The store behaves as an autosaving document: the user is told "saved" only while the server
\* keeps what is on screen, and what was saved starts to differ only by going through "saving".
THEOREM StoreAutoSaves ==
  ASSUME Orderly, StableNormalForm
  PROVE  Spec => AutoSaves
<1> DEFINE Inv == TypedAndBounded /\ SyncInv
<1>1. Init => Inv
  BY InitTyped, InitSynced
<1>2. Inv /\ [Next]_vars => Inv'
  BY NextTyped, NextSynced DEF TypedAndBounded
<1>3. Inv /\ Inv' /\ [Next]_vars => [AS!Next]_(AS!vars)
  BY NextAutoSaves DEF TypedAndBounded
<1> QED
  BY <1>1, <1>2, <1>3, InitAutoSaves, PTL DEF Spec, AutoSaves, AS!Spec
=============================================================================
